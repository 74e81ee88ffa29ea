------------------------ MODULE OutgoingChat_proofs ------------------------
(* Proofs about OutgoingChat: for any messages, codes and news, every copy  *)
(* of a message shows a receipt only when an acknowledgement stands for it, *)
(* and no step takes a receipt out of the browser's cache.                  *)
EXTENDS OutgoingChat, TLAPS

(* A receipt is justified, for given registrations and acknowledgements.    *)
EvidenceIn(m, cs, rs) == \E e \in rs : e[1] = m \/ <<m, e[2]>> \in cs

(* A record, and a row, that show only what the bridge said: their code was *)
(* registered for the message, and their receipt is justified.              *)
Sound(m, rec, cs, rs) ==
  /\ rec \in Records
  /\ rec.ack # None => <<m, rec.ack>> \in cs
  /\ ~Undelivered(rec) => EvidenceIn(m, cs, rs)

SoundRow(m, r, cs, rs) ==
  /\ r \in Rows
  /\ r.code # None => <<m, r.code>> \in cs
  /\ r.shown = "delivered" => EvidenceIn(m, cs, rs)

(* The merge looks at the status only, so the cache must not keep a flag    *)
(* that its status does not tell.                                           *)
Plain(rec) == rec.delivered = (rec.status = "delivered")

ControlOK ==
  /\ pc \in [Msgs -> Busy \union {"draft", "accepted", "refused"}]
  /\ answer \in [Msgs -> Codes \union {None}]
  /\ \A m \in Msgs : answer[m] # None => <<m, answer[m]>> \in coded
  /\ active \in BOOLEAN
  /\ pending \in [Codes -> Msgs \union {None}]
  /\ receipts \subseteq coded \union (Others \X Codes)
  /\ coded \subseteq Posted \X Codes

ObjectsOK ==
  /\ mine \in [Msgs -> Records \union {None}]
  /\ feed \in [Msgs -> Records \union {None}]
  /\ same \subseteq {m \in Msgs : feed[m] # None /\ feed[m] = mine[m]}
  /\ \A m \in Msgs : pc[m] # "draft" => None \notin {mine[m], feed[m]}
  /\ \A m \in Msgs :
       /\ mine[m] = None \/ Sound(m, mine[m], coded, receipts)
       /\ feed[m] = None \/ Sound(m, feed[m], coded, receipts)

CacheOK ==
  /\ cache \in [Msgs -> Records \union {None}]
  /\ \A m \in Msgs :
       cache[m] = None \/ (Sound(m, cache[m], coded, receipts) /\ Plain(cache[m]))

RowsOK ==
  /\ row \in [Msgs -> Rows \union {None}]
  /\ \A m \in Msgs : row[m] = None \/ SoundRow(m, row[m], coded, receipts)

(* Each conjunct of the invariant is about the variables of one party.      *)
IInv == ControlOK /\ ObjectsOK /\ CacheOK /\ RowsOK

(* What the step keeps in the cache. *)
Marked(copies, m) == copies[m] # None /\ copies[m].status = "delivered"

CacheKept == \A m \in Msgs : Marked(cache, m) => Marked(cache', m)

-----------------------------------------------------------------------------
(* Records and rows *)

LEMMA FreshSound ==
  ASSUME NEW m, NEW cs, NEW rs
  PROVE  Sound(m, Fresh, cs, rs) /\ Plain(Fresh) /\ Fresh # None
<1>1. Fresh \in Records
  BY DEF Fresh, Records, Statuses
<1> QED BY <1>1, RecordAssumption DEF Fresh, Sound, Plain, Undelivered

LEMMA ReceiptIs ==
  ASSUME NEW rec \in Records
  PROVE  /\ Receipt(rec) \in Records /\ Receipt(rec).ack = rec.ack
         /\ Receipt(rec).status = "delivered" /\ Receipt(rec).delivered = TRUE
         /\ Receipt(rec) # None
<1>1. Receipt(rec) \in Records
  BY DEF Receipt, Records, Statuses
<1>2. /\ Receipt(rec).ack = rec.ack
      /\ Receipt(rec).status = "delivered" /\ Receipt(rec).delivered = TRUE
  BY DEF Receipt, Records
<1> QED BY <1>1, <1>2, RecordAssumption

LEMMA ReceiptSound ==
  ASSUME NEW m, NEW cs, NEW rs, NEW rec, Sound(m, rec, cs, rs),
         EvidenceIn(m, cs, rs)
  PROVE  Sound(m, Receipt(rec), cs, rs) /\ Plain(Receipt(rec))
<1>1. rec \in Records
  BY DEF Sound
<1> QED BY <1>1, ReceiptIs DEF Sound, Plain

LEMMA MergeSound ==
  ASSUME NEW m, NEW cs, NEW rs, NEW old, NEW rec,
         old \in Records, Sound(m, rec, cs, rs),
         ~Undelivered(old) => EvidenceIn(m, cs, rs)
  PROVE  Sound(m, Merge(old, rec), cs, rs)
<1>1. CASE "delivered" \in {old.status, rec.status}
  <2>1. EvidenceIn(m, cs, rs)
    BY <1>1 DEF Sound, Undelivered
  <2> QED BY <1>1, <2>1, ReceiptSound DEF Merge
<1>2. CASE "delivered" \notin {old.status, rec.status}
  BY <1>2 DEF Merge
<1> QED BY <1>1, <1>2

LEMMA MergePlain ==
  ASSUME NEW old, NEW rec \in Records, Plain(rec)
  PROVE  /\ Plain(Merge(old, rec))
         /\ old.status = "delivered" => Merge(old, rec).status = "delivered"
<1>1. CASE "delivered" \in {old.status, rec.status}
  BY <1>1, ReceiptIs DEF Merge, Plain
<1>2. CASE "delivered" \notin {old.status, rec.status}
  BY <1>2 DEF Merge
<1> QED BY <1>1, <1>2

LEMMA BridgeSound ==
  ASSUME NEW m, NEW rec \in BridgeRecords(m)
  PROVE  Sound(m, rec, coded, receipts) /\ Plain(rec)
<1>1. /\ rec \in Records
      /\ rec.ack # None => <<m, rec.ack>> \in coded
      /\ rec.delivered = (rec.status = "delivered")
      /\ rec.delivered => \E c \in Codes : <<m, c>> \in receipts
  BY DEF BridgeRecords
<1>2. ASSUME rec.delivered PROVE EvidenceIn(m, coded, receipts)
  <2>1. PICK c \in Codes : <<m, c>> \in receipts
    BY <1>1, <1>2
  <2>2. <<m, c>>[1] = m
    OBVIOUS
  <2> QED BY <2>1, <2>2 DEF EvidenceIn
<1> QED BY <1>1, <1>2 DEF Sound, Plain, Undelivered

(* A status that is assigned to a record. *)
LEMMA StatusSound ==
  ASSUME NEW m, NEW cs, NEW rs, NEW rec, Sound(m, rec, cs, rs),
         NEW s \in Statuses, s = "delivered" => EvidenceIn(m, cs, rs)
  PROVE  Sound(m, [rec EXCEPT !.status = s], cs, rs)
<1>1. rec \in Records
  BY DEF Sound
<1>2. [rec EXCEPT !.status = s] \in Records
  BY <1>1 DEF Records
<1>3. /\ [rec EXCEPT !.status = s].status = s
      /\ [rec EXCEPT !.status = s].delivered = rec.delivered
      /\ [rec EXCEPT !.status = s].ack = rec.ack
  BY <1>1 DEF Records
<1> QED BY <1>2, <1>3 DEF Sound, Undelivered

LEMMA CodeSound ==
  ASSUME NEW m, NEW cs, NEW rs, NEW rec, Sound(m, rec, cs, rs),
         NEW c \in Codes, <<m, c>> \in cs
  PROVE  /\ Sound(m, [rec EXCEPT !.ack = c], cs, rs)
         /\ Plain(rec) => Plain([rec EXCEPT !.ack = c])
         /\ [rec EXCEPT !.ack = c].status = rec.status
<1>1. rec \in Records
  BY DEF Sound
<1>2. [rec EXCEPT !.ack = c] \in Records
  BY <1>1 DEF Records
<1>3. /\ [rec EXCEPT !.ack = c].status = rec.status
      /\ [rec EXCEPT !.ack = c].delivered = rec.delivered
      /\ [rec EXCEPT !.ack = c].ack = c
  BY <1>1 DEF Records
<1> QED BY <1>2, <1>3 DEF Sound, Undelivered, Plain

(* What updateMessageStatus puts into the cache. *)
Told(rec, s) ==
  Merge(rec, [rec EXCEPT !.status = s, !.delivered = (s = "delivered")])

LEMMA CachedSound ==
  ASSUME NEW m, NEW cs, NEW rs, NEW rec, Sound(m, rec, cs, rs),
         NEW s \in Statuses, s = "delivered" => EvidenceIn(m, cs, rs)
  PROVE  /\ Sound(m, Told(rec, s), cs, rs) /\ Plain(Told(rec, s))
         /\ rec.status = "delivered" => Told(rec, s).status = "delivered"
<1> DEFINE new == [rec EXCEPT !.status = s, !.delivered = (s = "delivered")]
<1>1. rec \in Records
  BY DEF Sound
<1>2. new \in Records
  BY <1>1 DEF Records
<1>3. new.status = s /\ new.delivered = (s = "delivered") /\ new.ack = rec.ack
  BY <1>1 DEF Records
<1>4. Sound(m, new, cs, rs) /\ Plain(new)
  <2>1. Plain(new)
    BY <1>3 DEF Plain
  <2>2. ~Undelivered(new) => s = "delivered"
    BY <1>3 DEF Undelivered
  <2>3. ~Undelivered(new) => EvidenceIn(m, cs, rs)
    BY <2>2 DEF Sound
  <2> QED BY <1>2, <1>3, <2>1, <2>3 DEF Sound
<1>5. ~Undelivered(rec) => EvidenceIn(m, cs, rs)
  BY DEF Sound
<1> HIDE DEF new
<1>6. Sound(m, Merge(rec, new), cs, rs)
  BY <1>1, <1>4, <1>5, MergeSound
<1>7. Plain(Merge(rec, new)) /\ (rec.status = "delivered" => Merge(rec, new).status = "delivered")
  BY <1>2, <1>4, MergePlain
<1> QED BY <1>6, <1>7 DEF new, Told

(* A new row for a record. *)
LEMMA BubbleSound ==
  ASSUME NEW m, NEW cs, NEW rs, NEW rec, Sound(m, rec, cs, rs)
  PROVE  SoundRow(m, Bubble(rec), cs, rs) /\ Bubble(rec) # None
<1>1. rec \in Records /\ rec.status \in Statuses /\ rec.ack \in Codes \union {None}
  BY DEF Sound, Records
<1>2. Bubble(rec) \in Rows
  BY <1>1 DEF Bubble, Rows, Statuses
<1>3. /\ Bubble(rec).code = rec.ack
      /\ Bubble(rec).shown = IF Undelivered(rec) THEN rec.status ELSE "delivered"
  BY DEF Bubble
<1>4. CASE Undelivered(rec)
  BY <1>2, <1>3, <1>4, RecordAssumption DEF Sound, SoundRow, Undelivered
<1>5. CASE ~Undelivered(rec)
  BY <1>2, <1>3, <1>5, RecordAssumption DEF Sound, SoundRow
<1> QED BY <1>4, <1>5

(* A row that is told something: its code stays. *)
LEMMA ShownSound ==
  ASSUME NEW m, NEW cs, NEW rs, NEW r, SoundRow(m, r, cs, rs),
         NEW s \in Statuses \union {"unconfirmed"},
         s = "delivered" => EvidenceIn(m, cs, rs)
  PROVE  SoundRow(m, [r EXCEPT !.shown = s], cs, rs)
<1>1. r \in Rows
  BY DEF SoundRow
<1>2. /\ [r EXCEPT !.shown = s] \in Rows
      /\ [r EXCEPT !.shown = s].shown = s
      /\ [r EXCEPT !.shown = s].code = r.code
  BY <1>1 DEF Rows
<1> QED BY <1>2 DEF SoundRow

(* More registrations and acknowledgements justify what fewer did. *)
LEMMA StillSound ==
  ASSUME NEW m, NEW cs, NEW rs, NEW cs2, NEW rs2,
         cs \subseteq cs2, rs \subseteq rs2
  PROVE  /\ EvidenceIn(m, cs, rs) => EvidenceIn(m, cs2, rs2)
         /\ \A rec : Sound(m, rec, cs, rs) => Sound(m, rec, cs2, rs2)
         /\ \A r : SoundRow(m, r, cs, rs) => SoundRow(m, r, cs2, rs2)
<1>1. EvidenceIn(m, cs, rs) => EvidenceIn(m, cs2, rs2)
  BY DEF EvidenceIn
<1> QED BY <1>1 DEF Sound, SoundRow

-----------------------------------------------------------------------------
(* The invariant in terms of the properties *)

LEMMA Implied == IInv => TypeOK /\ ReceiptIsTrue
<1> SUFFICES ASSUME IInv PROVE TypeOK /\ ReceiptIsTrue
  OBVIOUS
<1>1. TypeOK
  BY DEF IInv, ControlOK, ObjectsOK, CacheOK, RowsOK, TypeOK
<1>2. ASSUME NEW m \in Msgs,
             \/ m \in Receipted(mine) \union Receipted(feed) \union Receipted(cache)
             \/ row[m] # None /\ row[m].shown = "delivered"
      PROVE  Evidence(m)
  <2>1. EvidenceIn(m, coded, receipts)
    <3>1. CASE m \in Receipted(mine) \union Receipted(feed) \union Receipted(cache)
      BY <3>1 DEF IInv, ObjectsOK, CacheOK, Receipted, Sound
    <3>2. CASE row[m] # None /\ row[m].shown = "delivered"
      BY <3>2 DEF IInv, RowsOK, SoundRow
    <3> QED BY <1>2, <3>1, <3>2
  <2> QED BY <2>1 DEF EvidenceIn, Evidence
<1> QED BY <1>1, <1>2 DEF ReceiptIsTrue

LEMMA Initially == Init => IInv
<1> SUFFICES ASSUME Init PROVE IInv
  OBVIOUS
<1>1. ControlOK
  BY DEF Init, ControlOK
<1>2. ObjectsOK /\ CacheOK /\ RowsOK
  BY DEF Init, ObjectsOK, CacheOK, RowsOK
<1> QED BY <1>1, <1>2 DEF IInv

-----------------------------------------------------------------------------
(* Parties that a step leaves alone *)

LEMMA ObjectsStay ==
  ASSUME ObjectsOK, UNCHANGED objects, coded \subseteq coded',
         receipts \subseteq receipts',
         \A m \in Msgs : pc'[m] # "draft" => pc[m] # "draft"
  PROVE  ObjectsOK'
<1>1. mine' = mine /\ feed' = feed /\ same' = same
  BY DEF objects
<1> QED BY <1>1, StillSound DEF ObjectsOK

LEMMA CacheStays ==
  ASSUME CacheOK, cache' = cache, coded \subseteq coded',
         receipts \subseteq receipts'
  PROVE  CacheOK' /\ CacheKept
BY StillSound DEF CacheOK, CacheKept, Marked

LEMMA RowsStay ==
  ASSUME RowsOK, row' = row, coded \subseteq coded', receipts \subseteq receipts'
  PROVE  RowsOK'
BY StillSound DEF RowsOK

(* A step of the sender past its draft, with no new answer. *)
LEMMA ControlAfter ==
  ASSUME ControlOK, NEW m \in Msgs, pc[m] # "draft",
         NEW s \in Busy \union {"accepted", "refused"},
         s = "saving" => pc[m] = "saving",
         pc' = [pc EXCEPT ![m] = s],
         answer' = answer \/ answer' = [answer EXCEPT ![m] = None],
         active' = active, UNCHANGED bridge,
         pending' \in [Codes -> Msgs \union {None}]
  PROVE  ControlOK'
<1>1. coded' = coded /\ receipts' = receipts
  BY DEF bridge
<1>2. /\ pc' \in [Msgs -> Busy \union {"draft", "accepted", "refused"}]
      /\ answer' \in [Msgs -> Codes \union {None}]
      /\ \A n \in Msgs : answer'[n] # None => <<n, answer'[n]>> \in coded
  BY DEF ControlOK
<1>3. Posted \subseteq Posted'
  BY DEF Posted, ControlOK, Busy
<1> QED BY <1>1, <1>2, <1>3 DEF ControlOK

LEMMA WaitsTyped ==
  ASSUME ControlOK, NEW m \in Msgs, NEW rec \in Records
  PROVE  Waits(m, rec) \in [Codes -> Msgs \union {None}]
<1>1. rec.ack \in Codes \union {None}
  BY DEF Records
<1> QED BY <1>1 DEF ControlOK, Waits

(* What an action learns of the objects of a message that is not a draft.   *)
LEMMA Captured ==
  ASSUME IInv, NEW m \in Msgs, pc[m] # "draft"
  PROVE  /\ mine[m] # None /\ mine[m] \in Records /\ Sound(m, mine[m], coded, receipts)
         /\ feed[m] # None /\ feed[m] \in Records /\ Sound(m, feed[m], coded, receipts)
BY DEF IInv, ObjectsOK

LEMMA CachedIs ==
  ASSUME IInv, NEW m \in Msgs, cache[m] # None
  PROVE  /\ cache[m] \in Records /\ Sound(m, cache[m], coded, receipts)
         /\ Plain(cache[m])
BY DEF IInv, CacheOK

-----------------------------------------------------------------------------
(* Writers *)

(* One record of the cache is written. *)
LEMMA CacheWrites ==
  ASSUME CacheOK, UNCHANGED bridge, NEW m \in Msgs, NEW rec,
         cache' = [cache EXCEPT ![m] = rec],
         rec # None, Sound(m, rec, coded, receipts), Plain(rec),
         Marked(cache, m) => rec.status = "delivered"
  PROVE  CacheOK' /\ CacheKept
<1>1. rec \in Records
  BY DEF Sound
<1> QED BY <1>1 DEF CacheOK, CacheKept, Marked, bridge

LEMMA CachedStatusKeeps ==
  ASSUME IInv, UNCHANGED bridge, NEW m \in Msgs, NEW s \in Statuses,
         s = "delivered" => EvidenceIn(m, coded, receipts),
         cache' = CachedStatus(m, s)
  PROVE  CacheOK' /\ CacheKept
<1>1. CASE cache[m] = None
  <2>1. cache' = cache
    BY <1>1 DEF CachedStatus
  <2> QED BY <2>1, CacheStays DEF IInv, bridge
<1>2. CASE cache[m] # None
  <2> DEFINE rec == Told(cache[m], s)
  <2>1. cache' = [cache EXCEPT ![m] = rec]
    BY <1>2 DEF CachedStatus, Told
  <2>2. /\ Sound(m, rec, coded, receipts) /\ Plain(rec)
        /\ cache[m].status = "delivered" => rec.status = "delivered"
    BY <1>2, CachedIs, CachedSound
  <2> HIDE DEF rec
  <2>3. rec # None
    BY <2>2, RecordAssumption DEF Sound
  <2> QED BY <2>1, <2>2, <2>3, CacheWrites DEF IInv, Marked
<1> QED BY <1>1, <1>2

LEMMA WriteMineKeeps ==
  ASSUME IInv, UNCHANGED bridge, NEW m \in Msgs, pc[m] # "draft", NEW rec,
         Sound(m, rec, coded, receipts), WriteMine(m, rec),
         \A n \in Msgs : pc'[n] # "draft" => pc[n] # "draft"
  PROVE  ObjectsOK'
<1>1. rec \in Records /\ rec # None
  BY RecordAssumption DEF Sound
<1>2. /\ mine' = [mine EXCEPT ![m] = rec] /\ same' = same
      /\ feed' = IF m \in same THEN [feed EXCEPT ![m] = rec] ELSE feed
  BY DEF WriteMine
<1>3. ObjectsOK /\ coded' = coded /\ receipts' = receipts
  BY DEF IInv, bridge
<1>4. /\ mine' \in [Msgs -> Records \union {None}]
      /\ feed' \in [Msgs -> Records \union {None}]
  BY <1>1, <1>2, <1>3 DEF ObjectsOK
<1>5. same' \subseteq {n \in Msgs : feed'[n] # None /\ feed'[n] = mine'[n]}
  BY <1>1, <1>2, <1>3 DEF ObjectsOK
<1>6. \A n \in Msgs : pc'[n] # "draft" => None \notin {mine'[n], feed'[n]}
  BY <1>1, <1>2, <1>3 DEF ObjectsOK
<1>7. ASSUME NEW n \in Msgs
      PROVE  /\ mine'[n] = None \/ Sound(n, mine'[n], coded, receipts)
             /\ feed'[n] = None \/ Sound(n, feed'[n], coded, receipts)
  BY <1>1, <1>2, <1>3 DEF ObjectsOK
<1> QED BY <1>3, <1>4, <1>5, <1>6, <1>7 DEF ObjectsOK

LEMMA SavedKeeps ==
  ASSUME IInv, UNCHANGED bridge, NEW m \in Msgs, NEW rec,
         Sound(m, rec, coded, receipts), Plain(rec),
         cache' = [cache EXCEPT ![m] = Saved(cache[m], rec)]
  PROVE  CacheOK' /\ CacheKept
<1> DEFINE old == IF cache[m] = None THEN rec ELSE cache[m]
<1>1. rec \in Records
  BY DEF Sound
<1>2. old \in Records /\ Sound(m, old, coded, receipts)
  BY <1>1, CachedIs
<1>3. Marked(cache, m) => old.status = "delivered"
  BY DEF Marked
<1>4. cache' = [cache EXCEPT ![m] = Merge(old, rec)]
  BY DEF Saved
<1> HIDE DEF old
<1>5. Sound(m, Merge(old, rec), coded, receipts)
  BY <1>2, MergeSound DEF Sound
<1>6. /\ Plain(Merge(old, rec))
      /\ old.status = "delivered" => Merge(old, rec).status = "delivered"
  BY <1>1, MergePlain
<1>7. Merge(old, rec) # None
  BY <1>5, RecordAssumption DEF Sound
<1> QED BY <1>3, <1>4, <1>5, <1>6, <1>7, CacheWrites DEF IInv

(* An assignment to every object of the conversation; f[m] is what it does  *)
(* to the record of m.                                                      *)
LEMMA FeedWrites ==
  ASSUME IInv, UNCHANGED <<sender, bridge>>, NEW f,
         \A m \in Msgs : \A rec \in Records :
           Sound(m, rec, coded, receipts) => Sound(m, f[m][rec], coded, receipts),
         feed' = [m \in Msgs |-> IF feed[m] = None THEN None ELSE f[m][feed[m]]],
         mine' = [m \in Msgs |-> IF m \in same THEN f[m][mine[m]] ELSE mine[m]],
         same' = same
  PROVE  ObjectsOK'
<1>1. ObjectsOK /\ coded' = coded /\ receipts' = receipts /\ pc' = pc
  BY DEF IInv, bridge, sender
<1>2. \A m \in Msgs : \A rec : Sound(m, rec, coded, receipts) => rec \in Records /\ rec # None
  BY RecordAssumption DEF Sound
<1>3. ASSUME NEW m \in Msgs
      PROVE  /\ mine'[m] \in Records \union {None} /\ feed'[m] \in Records \union {None}
             /\ mine'[m] = None \/ Sound(m, mine'[m], coded, receipts)
             /\ feed'[m] = None \/ Sound(m, feed'[m], coded, receipts)
             /\ mine[m] # None => mine'[m] # None
             /\ feed[m] # None => feed'[m] # None
             /\ m \in same => feed'[m] # None /\ feed'[m] = mine'[m]
  <2>1. CASE m \in same
    <3>1. feed[m] # None /\ feed[m] = mine[m]
      BY <1>1, <2>1 DEF ObjectsOK
    <3>2. Sound(m, f[m][feed[m]], coded, receipts)
      BY <1>1, <1>2, <3>1 DEF ObjectsOK
    <3>3. feed'[m] = f[m][feed[m]] /\ mine'[m] = f[m][feed[m]]
      BY <2>1, <3>1
    <3> QED BY <1>2, <3>1, <3>2, <3>3
  <2>2. CASE m \notin same
    <3>1. mine'[m] = mine[m] /\ feed'[m] = IF feed[m] = None THEN None ELSE f[m][feed[m]]
      BY <2>2
    <3>2. feed[m] # None => Sound(m, f[m][feed[m]], coded, receipts)
      BY <1>1, <1>2 DEF ObjectsOK
    <3> QED BY <1>1, <1>2, <2>2, <3>1, <3>2 DEF ObjectsOK
  <2> QED BY <2>1, <2>2
<1>4. /\ mine' \in [Msgs -> Records \union {None}]
      /\ feed' \in [Msgs -> Records \union {None}]
  BY <1>3
<1>5. same' \subseteq {m \in Msgs : feed'[m] # None /\ feed'[m] = mine'[m]}
  BY <1>1, <1>3 DEF ObjectsOK
<1>6. \A m \in Msgs : pc'[m] # "draft" => None \notin {mine'[m], feed'[m]}
  BY <1>1, <1>3 DEF ObjectsOK
<1> QED BY <1>1, <1>3, <1>4, <1>5, <1>6 DEF ObjectsOK

(* One row changes. *)
LEMMA RowWrites ==
  ASSUME RowsOK, UNCHANGED bridge, NEW m \in Msgs, NEW r,
         SoundRow(m, r, coded, receipts), row' = [row EXCEPT ![m] = r]
  PROVE  RowsOK'
<1>1. r \in Rows
  BY DEF SoundRow
<1> QED BY <1>1 DEF RowsOK, bridge

(* One row is told something else than a receipt, or a justified one. *)
LEMMA RowTold ==
  ASSUME RowsOK, UNCHANGED bridge, NEW m \in Msgs, row[m] # None,
         NEW s \in Statuses \union {"unconfirmed"},
         s = "delivered" => EvidenceIn(m, coded, receipts),
         row' = [row EXCEPT ![m].shown = s]
  PROVE  RowsOK'
<1>1. SoundRow(m, row[m], coded, receipts)
  BY DEF RowsOK
<1>2. SoundRow(m, [row[m] EXCEPT !.shown = s], coded, receipts)
  BY <1>1, ShownSound
<1>3. row' = [row EXCEPT ![m] = [row[m] EXCEPT !.shown = s]]
  BY DEF RowsOK
<1> QED BY <1>2, <1>3, RowWrites

-----------------------------------------------------------------------------
(* Sending *)

LEMMA SendKeeps ==
  ASSUME IInv, NEW m \in Msgs, Send(m)
  PROVE  IInv' /\ CacheKept
<1>1. /\ pc[m] = "draft" /\ pc' = [pc EXCEPT ![m] = "saving"]
      /\ mine' = [mine EXCEPT ![m] = Fresh] /\ feed' = [feed EXCEPT ![m] = Fresh]
      /\ same' = same \union {m}
      /\ row' = IF active THEN [row EXCEPT ![m] = Bubble(Fresh)] ELSE row
      /\ cache' = [cache EXCEPT ![m] = Saved(cache[m], Fresh)]
      /\ answer' = answer /\ active' = active /\ pending' = pending
      /\ UNCHANGED bridge
  BY DEF Send, IInv, CacheOK
<1>2. coded' = coded /\ receipts' = receipts
  BY <1>1 DEF bridge
<1>3. Sound(m, Fresh, coded, receipts) /\ Plain(Fresh) /\ Fresh # None
      /\ Fresh \in Records
  BY FreshSound DEF Sound
<1>4. ControlOK'
  <2>1. /\ pc' \in [Msgs -> Busy \union {"draft", "accepted", "refused"}]
        /\ Posted \subseteq Posted'
    BY <1>1 DEF IInv, ControlOK, Busy, Posted
  <2> QED BY <1>1, <1>2, <2>1 DEF IInv, ControlOK
<1>5. ObjectsOK'
  <2>1. ObjectsOK
    BY DEF IInv
  <2> HIDE DEF Fresh
  <2>2. /\ mine' \in [Msgs -> Records \union {None}]
        /\ feed' \in [Msgs -> Records \union {None}]
    BY <1>1, <1>3, <2>1 DEF ObjectsOK
  <2>3. same' \subseteq {n \in Msgs : feed'[n] # None /\ feed'[n] = mine'[n]}
    BY <1>1, <1>3, <2>1 DEF ObjectsOK
  <2>4. \A n \in Msgs : pc'[n] # "draft" => None \notin {mine'[n], feed'[n]}
    BY <1>1, <1>3, <2>1 DEF ObjectsOK, IInv, ControlOK
  <2>5. ASSUME NEW n \in Msgs
        PROVE  /\ mine'[n] = None \/ Sound(n, mine'[n], coded, receipts)
               /\ feed'[n] = None \/ Sound(n, feed'[n], coded, receipts)
    BY <1>1, <1>3, <2>1 DEF ObjectsOK
  <2> QED BY <1>2, <2>2, <2>3, <2>4, <2>5 DEF ObjectsOK
<1>6. CacheOK' /\ CacheKept
  BY <1>1, <1>3, SavedKeeps
<1>7. RowsOK'
  <2>1. SoundRow(m, Bubble(Fresh), coded, receipts)
    BY <1>3, BubbleSound
  <2>2. CASE active
    BY <1>1, <2>1, <2>2, RowWrites DEF IInv
  <2>3. CASE ~active
    BY <1>1, <1>2, <2>3, RowsStay DEF IInv
  <2> QED BY <2>2, <2>3
<1> QED BY <1>4, <1>5, <1>6, <1>7 DEF IInv

LEMMA PostKeeps ==
  ASSUME IInv, NEW m \in Msgs, Post(m)
  PROVE  IInv' /\ CacheKept
<1>1. /\ pc[m] # "draft" /\ pc' = [pc EXCEPT ![m] = "posting"]
      /\ answer' = answer /\ UNCHANGED objects /\ row' = row /\ active' = active
      /\ pending' = pending /\ cache' = cache /\ UNCHANGED bridge
      /\ "posting" \in Busy
  BY DEF Post, Busy
<1>2. coded' = coded /\ receipts' = receipts
  BY <1>1 DEF bridge
<1>3. ControlOK'
  BY <1>1, ControlAfter DEF IInv, ControlOK
<1>4. ObjectsOK'
  BY <1>1, <1>2, ObjectsStay DEF IInv, ControlOK
<1>5. CacheOK' /\ CacheKept /\ RowsOK'
  BY <1>1, <1>2, CacheStays, RowsStay DEF IInv
<1> QED BY <1>3, <1>4, <1>5 DEF IInv

LEMMA AcceptKeeps ==
  ASSUME IInv, NEW m \in Msgs, Accept(m)
  PROVE  IInv' /\ CacheKept
<1> DEFINE s == IF Undelivered(mine[m]) THEN "sent" ELSE mine[m].status
           rec == [mine[m] EXCEPT !.status = s]
<1>1. /\ pc[m] = "posting" /\ pc' = [pc EXCEPT ![m] = "marking"]
      /\ WriteMine(m, rec) /\ cache' = CachedStatus(m, s)
      /\ row' = row /\ active' = active /\ pending' = pending /\ UNCHANGED bridge
  BY DEF Accept
<1>2. coded' = coded /\ receipts' = receipts
  BY <1>1 DEF bridge
<1>3. mine[m] \in Records /\ Sound(m, mine[m], coded, receipts)
  BY <1>1, Captured
<1>4. s \in Statuses /\ (s = "delivered" => EvidenceIn(m, coded, receipts))
  BY <1>3 DEF Records, Statuses, Sound
<1> HIDE DEF s
<1>5. Sound(m, rec, coded, receipts)
  BY <1>3, <1>4, StatusSound
<1> HIDE DEF rec
<1>6. ControlOK'
  <2>1. PICK c \in Codes \union {None} :
          /\ c # None => <<m, c>> \in coded
          /\ answer' = [answer EXCEPT ![m] = c]
    BY DEF Accept
  <2>2. /\ answer' \in [Msgs -> Codes \union {None}]
        /\ \A n \in Msgs : answer'[n] # None => <<n, answer'[n]>> \in coded
    BY <2>1 DEF IInv, ControlOK
  <2>3. /\ pc' \in [Msgs -> Busy \union {"draft", "accepted", "refused"}]
        /\ Posted \subseteq Posted'
    BY <1>1 DEF IInv, ControlOK, Busy, Posted
  <2> QED BY <1>1, <1>2, <2>2, <2>3 DEF IInv, ControlOK
<1>7. ObjectsOK'
  <2>1. \A n \in Msgs : pc'[n] # "draft" => pc[n] # "draft"
    BY <1>1 DEF IInv, ControlOK
  <2> QED BY <1>1, <1>5, <2>1, WriteMineKeeps
<1>8. CacheOK' /\ CacheKept
  BY <1>1, <1>4, CachedStatusKeeps
<1>9. RowsOK'
  BY <1>1, <1>2, RowsStay DEF IInv
<1> QED BY <1>6, <1>7, <1>8, <1>9 DEF IInv

LEMMA TrackKeeps ==
  ASSUME IInv, NEW m \in Msgs, Track(m)
  PROVE  IInv' /\ CacheKept
<1> DEFINE c == answer[m]
           rec == [mine[m] EXCEPT !.ack = c]
<1>1. /\ pc[m] = "marking" /\ pc' = [pc EXCEPT ![m] = "tracking"]
      /\ c # None /\ WriteMine(m, rec) /\ pending' = Waits(m, rec)
      /\ cache' = IF cache[m] = None THEN cache ELSE [cache EXCEPT ![m].ack = c]
      /\ answer' = [answer EXCEPT ![m] = None]
      /\ row' = row /\ active' = active /\ UNCHANGED bridge
  BY DEF Track
<1>2. coded' = coded /\ receipts' = receipts
  BY <1>1 DEF bridge
<1>3. mine[m] \in Records /\ Sound(m, mine[m], coded, receipts)
  BY <1>1, Captured
<1>4. c \in Codes /\ <<m, c>> \in coded
  BY <1>1 DEF IInv, ControlOK
<1> HIDE DEF c
<1>5. Sound(m, rec, coded, receipts) /\ rec \in Records
  <2>1. Sound(m, rec, coded, receipts)
    BY <1>3, <1>4, CodeSound
  <2> QED BY <2>1 DEF Sound
<1> HIDE DEF rec
<1>6. ControlOK'
  <2>1. pending' \in [Codes -> Msgs \union {None}]
    BY <1>1, <1>5, WaitsTyped DEF IInv
  <2>2. "tracking" \in Busy
    BY DEF Busy
  <2> QED BY <1>1, <2>1, <2>2, ControlAfter DEF IInv
<1>7. ObjectsOK'
  <2>1. \A n \in Msgs : pc'[n] # "draft" => pc[n] # "draft"
    BY <1>1 DEF IInv, ControlOK
  <2> QED BY <1>1, <1>5, <2>1, WriteMineKeeps
<1>8. CacheOK' /\ CacheKept
  <2>1. CASE cache[m] = None
    BY <1>1, <1>2, <2>1, CacheStays DEF IInv
  <2>2. CASE cache[m] # None
    <3> DEFINE new == [cache[m] EXCEPT !.ack = c]
    <3>1. cache' = [cache EXCEPT ![m] = new]
      BY <1>1, <2>2
    <3>2. /\ Sound(m, new, coded, receipts) /\ Plain(new)
          /\ new.status = cache[m].status
      BY <1>4, <2>2, CachedIs, CodeSound
    <3> HIDE DEF new
    <3>3. new # None
      BY <3>2, RecordAssumption DEF Sound
    <3> QED BY <1>1, <3>1, <3>2, <3>3, CacheWrites DEF IInv, Marked
  <2> QED BY <2>1, <2>2
<1>9. RowsOK'
  BY <1>1, <1>2, RowsStay DEF IInv
<1> QED BY <1>6, <1>7, <1>8, <1>9 DEF IInv

LEMMA ShowKeeps ==
  ASSUME IInv, NEW m \in Msgs, Show(m)
  PROVE  IInv' /\ CacheKept
<1>1. /\ pc[m] \in {"marking", "tracking"} /\ pc' = [pc EXCEPT ![m] = "accepted"]
      /\ answer' = answer /\ UNCHANGED objects /\ active' = active
      /\ pending' = pending /\ cache' = cache /\ UNCHANGED bridge
  BY DEF Show
<1>2. coded' = coded /\ receipts' = receipts
  BY <1>1 DEF bridge
<1>3. ControlOK'
  BY <1>1, ControlAfter DEF IInv, ControlOK
<1>4. ObjectsOK'
  BY <1>1, <1>2, ObjectsStay DEF IInv, ControlOK
<1>5. CacheOK' /\ CacheKept
  BY <1>1, <1>2, CacheStays DEF IInv
<1>6. RowsOK'
  <2>1. CASE row[m] = None
    <3>1. row' = row
      BY <2>1 DEF Show
    <3> QED BY <1>2, <3>1, RowsStay DEF IInv
  <2>2. CASE row[m] # None
    <3> DEFINE code == IF mine[m].ack = None THEN row[m].code ELSE mine[m].ack
               shown == IF mine[m].delivered THEN row[m].shown ELSE "sent"
               r == [shown |-> shown, code |-> code]
    <3>1. row[m] \in Rows /\ SoundRow(m, row[m], coded, receipts)
      BY <2>2 DEF IInv, RowsOK
    <3>2. row' = [row EXCEPT ![m] = r]
      <4>1. row' = [row EXCEPT ![m].code = IF mine[m].ack = None THEN @ ELSE mine[m].ack,
                               ![m].shown = IF mine[m].delivered THEN @ ELSE "sent"]
        BY <2>2 DEF Show
      <4>2. row \in [Msgs -> Rows \union {None}]
        BY DEF IInv, RowsOK
      <4>3. /\ \A n \in Msgs : n # m => row'[n] = row[n]
            /\ DOMAIN row' = Msgs
        BY <4>1, <4>2
      <4>4. row'[m] = r
        BY <3>1, <4>1, <4>2 DEF Rows
      <4>5. row' = [n \in Msgs |-> row'[n]] /\ row = [n \in Msgs |-> row[n]]
        BY <4>1, <4>2
      <4> HIDE DEF r
      <4> QED BY <4>2, <4>3, <4>4, <4>5
    <3>3. mine[m] \in Records /\ Sound(m, mine[m], coded, receipts)
      BY <1>1, Captured
    <3>4. code \in Codes \union {None} /\ (code # None => <<m, code>> \in coded)
      BY <3>1, <3>3 DEF Rows, Records, Sound, SoundRow
    <3>5. /\ shown \in Statuses \union {"unconfirmed"}
          /\ shown = "delivered" => EvidenceIn(m, coded, receipts)
      BY <3>1, <3>3 DEF Rows, SoundRow, Statuses
    <3> HIDE DEF code, shown
    <3>6. SoundRow(m, r, coded, receipts)
      BY <3>4, <3>5 DEF SoundRow, Rows
    <3> QED BY <1>1, <3>2, <3>6, RowWrites DEF IInv
  <2> QED BY <2>1, <2>2
<1> QED BY <1>3, <1>4, <1>5, <1>6 DEF IInv

LEMMA RejectKeeps ==
  ASSUME IInv, NEW m \in Msgs, Reject(m)
  PROVE  IInv' /\ CacheKept
<1>1. /\ pc[m] = "posting" /\ answer' = answer /\ row' = row /\ active' = active
      /\ pending' = pending /\ UNCHANGED bridge
  BY DEF Reject
<1>2. coded' = coded /\ receipts' = receipts
  BY <1>1 DEF bridge
<1>3. RowsOK'
  BY <1>1, <1>2, RowsStay DEF IInv
<1>4. CASE Undelivered(mine[m])
  <2> DEFINE rec == [mine[m] EXCEPT !.status = "failed"]
  <2>1. /\ WriteMine(m, rec) /\ cache' = CachedStatus(m, "failed")
        /\ pc' = [pc EXCEPT ![m] = "failing"] /\ "failing" \in Busy
    BY <1>4 DEF Reject, Busy
  <2>2. "failed" \in Statuses
    BY DEF Statuses
  <2>3. Sound(m, rec, coded, receipts)
    BY <1>1, <2>2, Captured, StatusSound
  <2> HIDE DEF rec
  <2>4. ControlOK'
    BY <1>1, <2>1, ControlAfter DEF IInv, ControlOK
  <2>5. \A n \in Msgs : pc'[n] # "draft" => pc[n] # "draft"
    BY <1>1, <2>1 DEF IInv, ControlOK
  <2>6. ObjectsOK'
    BY <1>1, <2>1, <2>3, <2>5, WriteMineKeeps
  <2>7. CacheOK' /\ CacheKept
    BY <1>1, <2>1, <2>2, CachedStatusKeeps
  <2> QED BY <1>3, <2>4, <2>6, <2>7 DEF IInv
<1>5. CASE ~Undelivered(mine[m])
  <2>1. UNCHANGED objects /\ cache' = cache /\ pc' = [pc EXCEPT ![m] = "accepted"]
    BY <1>5 DEF Reject
  <2>2. ControlOK'
    BY <1>1, <2>1, ControlAfter DEF IInv, ControlOK
  <2>3. ObjectsOK'
    BY <1>1, <1>2, <2>1, ObjectsStay DEF IInv, ControlOK
  <2>4. CacheOK' /\ CacheKept
    BY <1>2, <2>1, CacheStays DEF IInv
  <2> QED BY <1>3, <2>2, <2>3, <2>4 DEF IInv
<1> QED BY <1>4, <1>5

LEMMA GiveBackKeeps ==
  ASSUME IInv, NEW m \in Msgs, GiveBack(m)
  PROVE  IInv' /\ CacheKept
<1>1. /\ pc[m] = "failing" /\ pc' = [pc EXCEPT ![m] = "refused"]
      /\ answer' = answer /\ UNCHANGED objects /\ active' = active
      /\ cache' = cache /\ UNCHANGED bridge
  BY DEF GiveBack
<1>2. coded' = coded /\ receipts' = receipts
  BY <1>1 DEF bridge
<1>3. mine[m] \in Records /\ Sound(m, mine[m], coded, receipts)
  BY <1>1, Captured
<1>4. ControlOK'
  <2>1. pending' \in [Codes -> Msgs \union {None}]
    BY <1>3, WaitsTyped DEF GiveBack, IInv, ControlOK
  <2> QED BY <1>1, <2>1, ControlAfter DEF IInv
<1>5. ObjectsOK'
  BY <1>1, <1>2, ObjectsStay DEF IInv, ControlOK
<1>6. CacheOK' /\ CacheKept
  BY <1>1, <1>2, CacheStays DEF IInv
<1>7. RowsOK'
  <2>1. CASE active /\ row[m] # None
    <3>1. row' = [row EXCEPT ![m] = Bubble(mine[m])]
      BY <2>1 DEF GiveBack
    <3>2. SoundRow(m, Bubble(mine[m]), coded, receipts)
      BY <1>3, BubbleSound
    <3> QED BY <1>1, <3>1, <3>2, RowWrites DEF IInv
  <2>2. CASE ~(active /\ row[m] # None)
    <3>1. row' = row
      BY <2>2 DEF GiveBack
    <3> QED BY <1>2, <3>1, RowsStay DEF IInv
  <2> QED BY <2>1, <2>2
<1> QED BY <1>4, <1>5, <1>6, <1>7 DEF IInv

-----------------------------------------------------------------------------
(* Events and timers *)

LEMMA OnChatKeeps ==
  ASSUME IInv, NEW m \in Msgs, m \in Posted, OnChat(m)
  PROVE  IInv' /\ CacheKept
<1>1. PICK told \in BridgeRecords(m) :
        LET rec == Merge(feed[m], told)
        IN  /\ feed' = [feed EXCEPT ![m] = rec]
            /\ same' = same \ {m}
            /\ cache' = [cache EXCEPT ![m] = Saved(cache[m], rec)]
            /\ IF row[m] = None
                 THEN UNCHANGED <<row, pending>>
                 ELSE /\ row' = [row EXCEPT ![m] = Bubble(rec)]
                      /\ pending' = Waits(m, rec)
  BY DEF OnChat, IInv, CacheOK
<1> DEFINE rec == Merge(feed[m], told)
<1>2. /\ feed' = [feed EXCEPT ![m] = rec] /\ same' = same \ {m}
      /\ cache' = [cache EXCEPT ![m] = Saved(cache[m], rec)]
      /\ row[m] = None => row' = row /\ pending' = pending
      /\ row[m] # None => row' = [row EXCEPT ![m] = Bubble(rec)] /\ pending' = Waits(m, rec)
  BY <1>1
<1>3. /\ UNCHANGED bridge /\ coded' = coded /\ receipts' = receipts
      /\ pc' = pc /\ answer' = answer /\ mine' = mine /\ active' = active
  BY DEF OnChat, bridge, sender
<1>4. pc[m] # "draft" /\ feed[m] \in Records /\ Sound(m, feed[m], coded, receipts)
  BY Captured DEF Posted
<1>5. Sound(m, rec, coded, receipts)
  <2>1. ~Undelivered(feed[m]) => EvidenceIn(m, coded, receipts)
    BY <1>4 DEF Sound
  <2> QED BY <1>4, <2>1, BridgeSound, MergeSound
<1>6. Plain(rec)
  BY BridgeSound, MergePlain DEF Sound
<1> HIDE DEF rec
<1>7. rec \in Records /\ rec # None
  BY <1>5, RecordAssumption DEF Sound
<1>8. ControlOK'
  <2>1. pending' \in [Codes -> Msgs \union {None}]
    BY <1>2, <1>7, WaitsTyped DEF IInv, ControlOK
  <2> QED BY <1>3, <2>1 DEF IInv, ControlOK, Posted
<1>9. ObjectsOK'
  BY <1>2, <1>3, <1>5, <1>7 DEF IInv, ObjectsOK
<1>10. CacheOK' /\ CacheKept
  BY <1>2, <1>3, <1>5, <1>6, SavedKeeps
<1>11. RowsOK'
  <2>1. CASE row[m] = None
    BY <1>2, <1>3, <2>1, RowsStay DEF IInv
  <2>2. CASE row[m] # None
    <3>1. SoundRow(m, Bubble(rec), coded, receipts)
      BY <1>5, BubbleSound
    <3> QED BY <1>2, <1>3, <2>2, <3>1, RowWrites DEF IInv
  <2> QED BY <2>1, <2>2
<1> QED BY <1>8, <1>9, <1>10, <1>11 DEF IInv

(* Whoever an acknowledgement is taken for has a right to it. *)
LEMMA AcknowledgedIsEvident ==
  ASSUME NEW m, NEW c \in Codes, <<m, c>> \in receipts, NEW n,
         n = m \/ <<n, c>> \in coded
  PROVE  EvidenceIn(n, coded, receipts)
<1>1. <<m, c>>[1] = m /\ <<m, c>>[2] = c
  OBVIOUS
<1> QED BY <1>1 DEF EvidenceIn

LEMMA AckedSound ==
  ASSUME NEW m, NEW c \in Codes, <<m, c>> \in receipts,
         NEW n, NEW rec, Sound(n, rec, coded, receipts),
         Acknowledges(m, c, n, rec)
  PROVE  Sound(n, Receipt(rec), coded, receipts) /\ Plain(Receipt(rec))
<1>1. n = m \/ <<n, c>> \in coded
  BY NoneAssumption DEF Acknowledges, Sound
<1>2. EvidenceIn(n, coded, receipts)
  BY <1>1, AcknowledgedIsEvident
<1> QED BY <1>2, ReceiptSound

LEMMA OnDeliveredKeeps ==
  ASSUME IInv, NEW m \in Msgs \union Others, NEW c \in Codes, OnDelivered(m, c)
  PROVE  IInv' /\ CacheKept
<1> DEFINE f == [n \in Msgs |-> [rec \in Records |->
                  IF Acknowledges(m, c, n, rec) THEN Receipt(rec) ELSE rec]]
<1>0. ControlOK /\ ObjectsOK /\ CacheOK /\ RowsOK
  BY DEF IInv
<1>1. /\ <<m, c>> \in receipts /\ pending' = [pending EXCEPT ![c] = None]
      /\ UNCHANGED <<sender, bridge>> /\ active' = active
      /\ coded' = coded /\ receipts' = receipts /\ pc' = pc /\ answer' = answer
  BY DEF OnDelivered, WriteFeed, sender, bridge
<1>2. ControlOK'
  BY <1>0, <1>1 DEF ControlOK, Posted
<1>3. ObjectsOK'
  <2>1. feed' = [n \in Msgs |-> IF feed[n] = None THEN None ELSE
                   IF Acknowledges(m, c, n, feed[n]) THEN Receipt(feed[n]) ELSE feed[n]]
        /\ mine' = [n \in Msgs |-> IF n \in same
                   THEN IF Acknowledges(m, c, n, mine[n]) THEN Receipt(mine[n]) ELSE mine[n]
                   ELSE mine[n]]
        /\ same' = same
    BY DEF OnDelivered, WriteFeed
  <2>2. \A n \in Msgs : feed[n] # None => feed[n] \in Records
    BY <1>0 DEF ObjectsOK
  <2>3. \A n \in Msgs : n \in same => mine[n] \in Records
    BY <1>0 DEF ObjectsOK
  <2>4. feed' = [n \in Msgs |-> IF feed[n] = None THEN None ELSE f[n][feed[n]]]
    BY <2>1, <2>2
  <2>5. mine' = [n \in Msgs |-> IF n \in same THEN f[n][mine[n]] ELSE mine[n]]
    BY <2>1, <2>3
  <2>6. ASSUME NEW n \in Msgs, NEW rec \in Records, Sound(n, rec, coded, receipts)
        PROVE  Sound(n, f[n][rec], coded, receipts)
    <3>1. f[n][rec] = IF Acknowledges(m, c, n, rec) THEN Receipt(rec) ELSE rec
      OBVIOUS
    <3> HIDE DEF f
    <3>2. CASE Acknowledges(m, c, n, rec)
      BY <1>1, <2>6, <3>1, <3>2, AckedSound
    <3>3. CASE ~Acknowledges(m, c, n, rec)
      BY <2>6, <3>1, <3>3
    <3> QED BY <3>2, <3>3
  <2> HIDE DEF f
  <2> QED BY <1>1, <2>1, <2>4, <2>5, <2>6, FeedWrites
<1>4. CacheOK' /\ CacheKept
  <2>1. cache' = [n \in Msgs |-> IF cache[n] = None THEN None ELSE
                    IF Acknowledges(m, c, n, cache[n]) THEN Receipt(cache[n]) ELSE cache[n]]
    BY DEF OnDelivered, WriteFeed
  <2>2. ASSUME NEW n \in Msgs, cache[n] # None
        PROVE  /\ cache'[n] # None /\ Sound(n, cache'[n], coded, receipts)
               /\ Plain(cache'[n]) /\ cache'[n] \in Records
               /\ Marked(cache, n) => Marked(cache', n)
    <3>1. cache[n] \in Records /\ Sound(n, cache[n], coded, receipts) /\ Plain(cache[n])
      BY <2>2, CachedIs
    <3>2. CASE Acknowledges(m, c, n, cache[n])
      <4>1. cache'[n] = Receipt(cache[n])
        BY <2>1, <2>2, <3>2
      <4>2. Sound(n, Receipt(cache[n]), coded, receipts) /\ Plain(Receipt(cache[n]))
        BY <1>1, <3>1, <3>2, AckedSound
      <4> QED BY <3>1, <4>1, <4>2, ReceiptIs DEF Marked
    <3>3. CASE ~Acknowledges(m, c, n, cache[n])
      <4>1. cache'[n] = cache[n]
        BY <2>1, <2>2, <3>3
      <4> QED BY <2>2, <3>1, <4>1 DEF Marked
    <3> QED BY <3>2, <3>3
  <2>3. \A n \in Msgs : cache[n] = None => cache'[n] = None
    BY <2>1
  <2>4. cache' \in [Msgs -> Records \union {None}]
    BY <2>1, <2>2, <2>3
  <2> QED BY <1>1, <2>2, <2>3, <2>4 DEF CacheOK, CacheKept, Marked
<1>5. RowsOK'
  <2>1. CASE AckRows(m, c) = {}
    <3>1. row' = row
      BY <2>1 DEF OnDelivered, WriteFeed
    <3> QED BY <1>0, <1>1, <3>1, RowsStay
  <2>2. CASE AckRows(m, c) # {}
    <3>1. PICK n \in AckRows(m, c) : row' = [row EXCEPT ![n].shown = "delivered"]
      BY <2>2 DEF OnDelivered, WriteFeed
    <3>2. n \in Msgs /\ row[n] # None /\ (n = m \/ row[n].code = c)
      BY <3>1 DEF AckRows
    <3>3. n = m \/ <<n, c>> \in coded
      BY <1>0, <3>2, NoneAssumption DEF RowsOK, SoundRow
    <3>4. EvidenceIn(n, coded, receipts) /\ "delivered" \in Statuses
      BY <1>1, <3>3, AcknowledgedIsEvident DEF Statuses
    <3> QED BY <1>0, <1>1, <3>1, <3>2, <3>4, RowTold
  <2> QED BY <2>1, <2>2
<1> QED BY <1>2, <1>3, <1>4, <1>5 DEF IInv

LEMMA OnStatusKeeps ==
  ASSUME IInv, NEW m \in Msgs, OnStatus(m)
  PROVE  IInv' /\ CacheKept
<1>0. ControlOK /\ ObjectsOK /\ CacheOK /\ RowsOK
  BY DEF IInv
<1>1. PICK s \in News :
        /\ feed' = [n \in Msgs |-> IF feed[n] = None THEN None ELSE
                     IF n = m THEN [feed[n] EXCEPT !.status = s] ELSE feed[n]]
        /\ mine' = [n \in Msgs |-> IF n \in same
                     THEN IF n = m THEN [mine[n] EXCEPT !.status = s] ELSE mine[n]
                     ELSE mine[n]]
        /\ same' = same
        /\ row' = IF row[m] = None \/ s = "queued" THEN row
                  ELSE [row EXCEPT ![m].shown = s]
        /\ cache' = CachedStatus(m, s)
  BY DEF OnStatus, WriteFeed
<1>2. /\ UNCHANGED <<sender, bridge>> /\ active' = active /\ pending' = pending
      /\ coded' = coded /\ receipts' = receipts /\ pc' = pc /\ answer' = answer
  BY DEF OnStatus, WriteFeed, sender, bridge
<1>3. s \in Statuses /\ s # "delivered"
  BY NewsAssumption DEF Statuses
<1>4. ControlOK'
  BY <1>0, <1>2 DEF ControlOK, Posted
<1>5. ObjectsOK'
  <2> DEFINE f == [n \in Msgs |-> [rec \in Records |->
                    IF n = m THEN [rec EXCEPT !.status = s] ELSE rec]]
  <2>1. \A n \in Msgs : feed[n] # None => feed[n] \in Records
    BY <1>0 DEF ObjectsOK
  <2>2. \A n \in Msgs : n \in same => mine[n] \in Records
    BY <1>0 DEF ObjectsOK
  <2>3. feed' = [n \in Msgs |-> IF feed[n] = None THEN None ELSE f[n][feed[n]]]
    BY <1>1, <2>1
  <2>4. mine' = [n \in Msgs |-> IF n \in same THEN f[n][mine[n]] ELSE mine[n]]
    BY <1>1, <2>2
  <2>5. ASSUME NEW n \in Msgs, NEW rec \in Records, Sound(n, rec, coded, receipts)
        PROVE  Sound(n, f[n][rec], coded, receipts)
    <3>1. f[n][rec] = IF n = m THEN [rec EXCEPT !.status = s] ELSE rec
      OBVIOUS
    <3> HIDE DEF f
    <3>2. CASE n = m
      BY <1>3, <2>5, <3>1, <3>2, StatusSound
    <3>3. CASE n # m
      BY <2>5, <3>1, <3>3
    <3> QED BY <3>2, <3>3
  <2> HIDE DEF f
  <2> QED BY <1>1, <1>2, <2>3, <2>4, <2>5, FeedWrites
<1>6. CacheOK' /\ CacheKept
  BY <1>1, <1>2, <1>3, CachedStatusKeeps
<1>7. RowsOK'
  <2>1. CASE row[m] = None \/ s = "queued"
    BY <1>0, <1>1, <1>2, <2>1, RowsStay
  <2>2. CASE ~(row[m] = None \/ s = "queued")
    BY <1>0, <1>1, <1>2, <1>3, <2>2, RowTold
  <2> QED BY <2>1, <2>2
<1> QED BY <1>4, <1>5, <1>6, <1>7 DEF IInv

LEMMA AckTimeoutKeeps ==
  ASSUME IInv, NEW c \in Codes, AckTimeout(c)
  PROVE  IInv' /\ CacheKept
<1>0. ControlOK /\ ObjectsOK /\ CacheOK /\ RowsOK
  BY DEF IInv
<1>1. /\ pending' = [pending EXCEPT ![c] = None] /\ UNCHANGED bridge
      /\ UNCHANGED objects /\ active' = active /\ cache' = cache
      /\ coded' = coded /\ receipts' = receipts /\ pc' = pc /\ answer' = answer
  BY DEF AckTimeout, sender, bridge
<1>2. ControlOK'
  BY <1>0, <1>1 DEF ControlOK, Posted
<1>3. ObjectsOK' /\ CacheOK' /\ CacheKept
  BY <1>0, <1>1, ObjectsStay, CacheStays
<1>4. RowsOK'
  <2>1. CASE row' = row
    BY <1>0, <1>1, <2>1, RowsStay
  <2>2. CASE row' # row
    <3>1. PICK n \in TimedRows(c) : row' = [row EXCEPT ![n].shown = "unconfirmed"]
      BY <2>2 DEF AckTimeout
    <3>2. n \in Msgs /\ row[n] # None
      BY <3>1 DEF TimedRows
    <3> QED BY <1>0, <1>1, <3>1, <3>2, RowTold
  <2> QED BY <2>1, <2>2
<1> QED BY <1>2, <1>3, <1>4 DEF IInv

-----------------------------------------------------------------------------
(* The screen and the bridge *)

LEMMA ScreenKeeps ==
  ASSUME IInv, Switch \/ PaintOther
  PROVE  IInv' /\ CacheKept
<1>0. ControlOK /\ ObjectsOK /\ CacheOK /\ RowsOK
  BY DEF IInv
<1>1. /\ pending' = pending /\ UNCHANGED objects /\ active' \in BOOLEAN
      /\ cache' = cache /\ coded' = coded /\ receipts' = receipts
      /\ pc' = pc /\ answer' = answer
      /\ row' = row \/ row' = [m \in Msgs |-> None]
  BY <1>0 DEF Switch, PaintOther, sender, bridge, ControlOK
<1>2. ControlOK'
  BY <1>0, <1>1 DEF ControlOK, Posted
<1>3. ObjectsOK' /\ CacheOK' /\ CacheKept
  BY <1>0, <1>1, ObjectsStay, CacheStays
<1>4. RowsOK'
  <2>1. CASE row' = row
    BY <1>0, <1>1, <2>1, RowsStay
  <2>2. CASE row' = [m \in Msgs |-> None]
    BY <2>2 DEF RowsOK
  <2> QED BY <1>1, <2>1, <2>2
<1> QED BY <1>2, <1>3, <1>4 DEF IInv

LEMMA RenderPageKeeps ==
  ASSUME IInv, RenderPage
  PROVE  IInv' /\ CacheKept
<1>0. ControlOK /\ ObjectsOK /\ CacheOK /\ RowsOK
  BY DEF IInv
<1>1. PICK found \in SUBSET Posted : \E page \in [found -> Records] :
        /\ \A m \in found : page[m] \in BridgeRecords(m)
        /\ cache' = [m \in Msgs |-> IF m \in found THEN Saved(cache[m], page[m])
                                                   ELSE cache[m]]
        /\ IF active
             THEN /\ feed' = [m \in Msgs |-> IF m \in found
                                               THEN Merge(feed[m], page[m])
                                               ELSE feed[m]]
                  /\ same' = same \ found
                  /\ Paint(feed')
             ELSE UNCHANGED <<feed, same, row, pending>>
        /\ UNCHANGED <<sender, mine, active, bridge>>
  BY DEF RenderPage
<1>2. PICK page \in [found -> Records] :
        /\ \A m \in found : page[m] \in BridgeRecords(m)
        /\ cache' = [m \in Msgs |-> IF m \in found THEN Saved(cache[m], page[m])
                                                   ELSE cache[m]]
        /\ IF active
             THEN /\ feed' = [m \in Msgs |-> IF m \in found
                                               THEN Merge(feed[m], page[m])
                                               ELSE feed[m]]
                  /\ same' = same \ found
                  /\ Paint(feed')
             ELSE UNCHANGED <<feed, same, row, pending>>
        /\ UNCHANGED <<sender, mine, active, bridge>>
  BY <1>1
<1>3. /\ mine' = mine /\ active' = active /\ coded' = coded /\ receipts' = receipts
      /\ pc' = pc /\ answer' = answer
  BY <1>2 DEF sender, bridge
<1>4. ASSUME NEW m \in found
      PROVE  /\ m \in Msgs /\ pc[m] # "draft" /\ feed[m] \in Records
             /\ Sound(m, page[m], coded, receipts) /\ Plain(page[m])
             /\ Sound(m, feed[m], coded, receipts)
  <2>1. m \in Msgs /\ pc[m] # "draft"
    BY <1>1 DEF Posted
  <2> QED BY <1>2, <2>1, Captured, BridgeSound
<1>5. CacheOK' /\ CacheKept
  <2>1. ASSUME NEW m \in found
        PROVE  /\ Sound(m, cache'[m], coded, receipts) /\ Plain(cache'[m])
               /\ cache'[m] \in Records /\ cache'[m] # None
               /\ Marked(cache, m) => Marked(cache', m)
    <3> DEFINE old == IF cache[m] = None THEN page[m] ELSE cache[m]
    <3>1. /\ m \in Msgs /\ Sound(m, page[m], coded, receipts) /\ Plain(page[m])
          /\ page[m] \in Records
      BY <1>4 DEF Sound
    <3>2. old \in Records /\ Sound(m, old, coded, receipts)
      BY <3>1, CachedIs
    <3>3. cache'[m] = Merge(old, page[m])
      BY <1>2, <3>1 DEF Saved
    <3>4. Marked(cache, m) => old.status = "delivered"
      BY DEF Marked
    <3> HIDE DEF old
    <3>5. ~Undelivered(old) => EvidenceIn(m, coded, receipts)
      BY <3>2 DEF Sound
    <3>6. Sound(m, Merge(old, page[m]), coded, receipts)
      BY <3>1, <3>2, <3>5, MergeSound
    <3>7. /\ Plain(Merge(old, page[m]))
          /\ old.status = "delivered" => Merge(old, page[m]).status = "delivered"
      BY <3>1, MergePlain
    <3>8. cache'[m] \in Records /\ cache'[m] # None
      BY <3>3, <3>6, RecordAssumption DEF Sound
    <3> QED BY <3>3, <3>4, <3>6, <3>7, <3>8 DEF Marked
  <2>2. \A m \in Msgs : m \notin found => cache'[m] = cache[m]
    BY <1>2
  <2>3. cache' \in [Msgs -> Records \union {None}]
    BY <1>0, <1>2, <2>1, <2>2 DEF CacheOK
  <2>4. \A m \in Msgs : \/ cache'[m] = None
                        \/ Sound(m, cache'[m], coded, receipts) /\ Plain(cache'[m])
    BY <1>0, <2>1, <2>2 DEF CacheOK
  <2>5. CacheKept
    BY <2>1, <2>2 DEF CacheKept, Marked
  <2> QED BY <1>3, <2>3, <2>4, <2>5 DEF CacheOK
<1>6. CASE ~active
  <2>1. feed' = feed /\ same' = same /\ row' = row /\ pending' = pending
    BY <1>2, <1>6
  <2>2. ControlOK'
    BY <1>0, <1>3, <2>1 DEF ControlOK, Posted
  <2>3. ObjectsOK' /\ RowsOK'
    BY <1>0, <1>3, <2>1, ObjectsStay, RowsStay DEF objects
  <2> QED BY <1>5, <2>2, <2>3 DEF IInv
<1>7. CASE active
  <2>1. /\ feed' = [m \in Msgs |-> IF m \in found THEN Merge(feed[m], page[m])
                                                  ELSE feed[m]]
        /\ same' = same \ found /\ Paint(feed')
    BY <1>2, <1>7
  <2>2. ASSUME NEW m \in found
        PROVE  /\ Sound(m, feed'[m], coded, receipts)
               /\ feed'[m] \in Records /\ feed'[m] # None
    <3>1. /\ m \in Msgs /\ feed[m] \in Records
          /\ Sound(m, page[m], coded, receipts) /\ Sound(m, feed[m], coded, receipts)
      BY <1>4
    <3>2. ~Undelivered(feed[m]) => EvidenceIn(m, coded, receipts)
      BY <3>1 DEF Sound
    <3>3. Sound(m, Merge(feed[m], page[m]), coded, receipts)
      BY <3>1, <3>2, MergeSound
    <3>4. feed'[m] = Merge(feed[m], page[m])
      BY <2>1, <3>1
    <3> QED BY <3>3, <3>4, RecordAssumption DEF Sound
  <2>3. \A m \in Msgs : m \notin found => feed'[m] = feed[m]
    BY <2>1
  <2>4. feed' \in [Msgs -> Records \union {None}]
    BY <1>0, <2>1, <2>2, <2>3 DEF ObjectsOK
  <2>5. \A m \in Msgs : feed'[m] = None \/ Sound(m, feed'[m], coded, receipts)
    BY <1>0, <2>2, <2>3 DEF ObjectsOK
  <2>6. ObjectsOK'
    <3>1. same' \subseteq {m \in Msgs : feed'[m] # None /\ feed'[m] = mine'[m]}
      BY <1>0, <1>3, <2>1, <2>3 DEF ObjectsOK
    <3>2. \A m \in Msgs : pc'[m] # "draft" => None \notin {mine'[m], feed'[m]}
      BY <1>0, <1>3, <2>2, <2>3 DEF ObjectsOK
    <3> QED BY <1>0, <1>3, <2>4, <2>5, <3>1, <3>2 DEF ObjectsOK
  <2>7. RowsOK'
    <3>1. row' = [m \in Msgs |-> IF feed'[m] = None THEN None ELSE Bubble(feed'[m])]
      BY <2>1 DEF Paint
    <3>2. \A m \in Msgs : feed'[m] # None => SoundRow(m, Bubble(feed'[m]), coded, receipts)
      BY <2>5, BubbleSound
    <3>3. row' \in [Msgs -> Rows \union {None}]
      BY <3>1, <3>2 DEF SoundRow
    <3>4. \A m \in Msgs : row'[m] = None \/ SoundRow(m, row'[m], coded, receipts)
      BY <3>1, <3>2
    <3> QED BY <1>3, <3>3, <3>4 DEF RowsOK
  <2>8. ControlOK'
    <3>1. pending' \in [Codes -> Msgs \union {None}]
      BY <2>1 DEF Paint
    <3> QED BY <1>0, <1>3, <3>1 DEF ControlOK, Posted
  <2> QED BY <1>5, <2>6, <2>7, <2>8 DEF IInv
<1> QED BY <1>6, <1>7

LEMMA BridgeKeeps ==
  ASSUME IInv, NEW m \in Msgs \union Others, NEW c \in Codes,
         (m \in Msgs /\ Register(m, c)) \/ Acknowledge(m, c)
  PROVE  IInv' /\ CacheKept
<1>0. ControlOK /\ ObjectsOK /\ CacheOK /\ RowsOK
  BY DEF IInv
<1>1. /\ pending' = pending /\ UNCHANGED objects /\ active' = active
      /\ cache' = cache /\ row' = row /\ pc' = pc /\ answer' = answer
      /\ coded \subseteq coded' /\ receipts \subseteq receipts'
  BY DEF Register, Acknowledge, sender
<1>2. /\ coded' \subseteq Posted \X Codes
      /\ receipts' \subseteq coded' \union (Others \X Codes)
  BY <1>0, OthersAssumption DEF ControlOK, Register, Acknowledge
<1>3. ControlOK'
  BY <1>0, <1>1, <1>2 DEF ControlOK, Posted
<1>4. ObjectsOK' /\ CacheOK' /\ CacheKept /\ RowsOK'
  BY <1>0, <1>1, ObjectsStay, CacheStays, RowsStay
<1> QED BY <1>3, <1>4 DEF IInv

LEMMA StutterKeeps ==
  ASSUME IInv, UNCHANGED vars
  PROVE  IInv' /\ CacheKept
<1>1. UNCHANGED <<sender, objects, row, active, pending, cache, bridge>>
  BY DEF vars
<1>2. coded' = coded /\ receipts' = receipts /\ pc' = pc /\ answer' = answer
  BY <1>1 DEF bridge, sender
<1>3. ControlOK'
  BY <1>1, <1>2 DEF IInv, ControlOK, Posted
<1>4. ObjectsOK' /\ CacheOK' /\ CacheKept /\ RowsOK'
  BY <1>1, <1>2, ObjectsStay, CacheStays, RowsStay DEF IInv
<1> QED BY <1>3, <1>4 DEF IInv

LEMMA EveryStep == IInv /\ [Next]_vars => IInv' /\ CacheKept
<1> SUFFICES ASSUME IInv, [Next]_vars PROVE IInv' /\ CacheKept
  OBVIOUS
<1>1. CASE \E m \in Msgs : Sending(m)
  BY <1>1, SendKeeps, PostKeeps, AcceptKeeps, TrackKeeps, ShowKeeps, RejectKeeps,
     GiveBackKeeps DEF Sending
<1>2. ASSUME NEW m \in Msgs, OnChat(m) \/ OnStatus(m) PROVE IInv' /\ CacheKept
  <2>1. CASE OnChat(m)
    <3>1. m \in Posted
      BY <2>1 DEF OnChat
    <3> QED BY <2>1, <3>1, OnChatKeeps
  <2>2. CASE OnStatus(m)
    BY <2>2, OnStatusKeeps
  <2> QED BY <1>2, <2>1, <2>2
<1>3. ASSUME NEW m \in Msgs, NEW c \in Codes, Register(m, c) PROVE IInv' /\ CacheKept
  BY <1>3, BridgeKeeps
<1>4. ASSUME NEW m \in Msgs \union Others, NEW c \in Codes,
             OnDelivered(m, c) \/ Acknowledge(m, c)
      PROVE  IInv' /\ CacheKept
  BY <1>4, OnDeliveredKeeps, BridgeKeeps
<1>5. ASSUME NEW c \in Codes, AckTimeout(c) PROVE IInv' /\ CacheKept
  BY <1>5, AckTimeoutKeeps
<1>6. CASE Switch \/ PaintOther
  BY <1>6, ScreenKeeps
<1>7. CASE RenderPage
  BY <1>7, RenderPageKeeps
<1>8. CASE UNCHANGED vars
  BY <1>8, StutterKeeps
<1> QED BY <1>1, <1>2, <1>3, <1>4, <1>5, <1>6, <1>7, <1>8 DEF Next

LEMMA Invariance == Spec => []IInv
<1>1. Init => IInv
  BY Initially
<1>2. IInv /\ [Next]_vars => IInv'
  BY EveryStep
<1> QED BY <1>1, <1>2, PTL DEF Spec

(* The copies of a message are well typed, and the objects that are one are *)
(* equal (chat.js outgoingMsg and channelFeeds).                            *)
THEOREM ChatTyped == Spec => []TypeOK
<1>1. IInv => TypeOK
  BY Implied
<1> QED BY <1>1, Invariance, PTL

(* No copy of a message shows a receipt without an acknowledgement for it   *)
(* or for a code it was given, in any order of answers, events, timers and  *)
(* pages (handleDeliveryAck, mergeMessage, createMessageBubble).            *)
THEOREM ReceiptsAreTrue == Spec => []ReceiptIsTrue
<1>1. IInv => ReceiptIsTrue
  BY Implied
<1> QED BY <1>1, Invariance, PTL

(* A receipt in the browser's cache stays, whatever comes late (mergeMessage, *)
(* _updateMessages).                                                        *)
THEOREM CacheKeepsReceipts == Spec => ReceiptsStayCached
<1>1. IInv /\ [Next]_vars => [Receipted(cache) \subseteq Receipted(cache')]_vars
  <2> SUFFICES ASSUME IInv, [Next]_vars
               PROVE  Receipted(cache) \subseteq Receipted(cache')
    OBVIOUS
  <2>1. CacheOK /\ CacheKept
    BY EveryStep DEF IInv
  <2>2. \A m \in Receipted(cache) : m \in Msgs /\ Marked(cache, m)
    BY <2>1 DEF Receipted, CacheOK, Plain, Undelivered, Marked
  <2> QED BY <2>1, <2>2 DEF CacheKept, Marked, Receipted, Undelivered
<1> QED BY <1>1, Invariance, PTL DEF Spec, ReceiptsStayCached
=============================================================================
