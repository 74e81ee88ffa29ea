----------------------- MODULE CompanionProxy_proofs -----------------------
(* Proofs about CompanionProxy: for any connections, commands and limit, a  *)
(* connection that is asked for its token has room, each command of a       *)
(* client that stays has one voice, replies are given to others only after  *)
(* something was given up, what was given up in the queue is not taken from *)
(* it to be sent, and no command waits for nobody.                          *)
EXTENDS CompanionProxy, SequenceTheorems, FiniteSetTheorems, TLAPS

Elems(s) == {s[i] : i \in 1 .. Len(s)}

(* No command is in the sequence twice. *)
Once(s) ==
  \A i, j \in 1 .. Len(s) : s[i] = s[j] /\ s[i] \in Commands => i = j

(* The command of the limiter left the queue, and waits for the radio from  *)
(* when it joins those who do until its outcome is known.                   *)
WorkerPlaced ==
  worker # None =>
    /\ worker \notin Elems(txq)
    /\ stage[worker] \in {"serving", "done"}
    /\ worker \in Elems(radio) <=> airing = "sending"

RoomOK == Cardinality(Active) + Cardinality(Pending) <= MaxClients

(* Where a command is, and how far it got. *)
PlacesOK ==
  /\ \A c \in Elems(line) : stage[c] = "waiting"
  /\ Once(line) /\ Once(txq) /\ Once(radio)
  /\ \A c \in Elems(txq) : c \notin Elems(radio) /\ stage[c] \in {"serving", "done"}
  /\ \A c \in Elems(radio) : c \in Commands => stage[c] \in {"serving", "done"}
  /\ \A c \in Commands : conn[Sender[c]] \in {"out", "pending"} => stage[c] = "unsent"
  /\ WorkerPlaced

(* One transaction at a time, and only it awaits an outcome. *)
TransactionOK ==
  /\ \A c \in Commands : stage[c] = "serving" => c = owner
  /\ owner # None => stage[owner] = "serving"
  /\ \A c \in Commands : result[c] = "awaited" => c = owner

(* _response_received tells whether the client of the transaction heard     *)
(* something, and it did when the outcome is good.                          *)
VoicesOK ==
  /\ \A c \in Commands : stage[c] \in {"unsent", "waiting"} => heard[c] = {} /\ c \notin errors
  /\ owner # None =>
       /\ owner \notin errors
       /\ Listens(owner) => (received <=> heard[owner] # {})
       /\ result[owner] = "true" => received
  /\ answer = "ok" /\ Holder = owner => received
  /\ airing = "sent" /\ worker = owner => received
  /\ OneVoice

(* What was given up is under way or over; if its outcome is still awaited, *)
(* it is with the radio or in the hand of the limiter.                      *)
LapsesOK ==
  \A c \in lapsed :
    c \in Commands =>
      /\ stage[c] \in {"serving", "done"}
      /\ result[c] = "awaited" => c \in Elems(radio) \/ worker = c

(* Before anything is given up, the radio owes only the reply that is       *)
(* awaited, and whoever waits for the radio, or is in the hand of the       *)
(* limiter, is the transaction.                                             *)
RepliesOK ==
  lapsed = {} =>
    /\ \A c \in Commands : heard[c] \subseteq {c}
    /\ \A r \in asked : answer = "awaited" /\ r = Holder
    /\ \A c \in Elems(radio) : c \in Commands => result[c] = "awaited"
    /\ worker # None => result[worker] = "awaited"

IInv ==
  TypeOK /\ RoomOK /\ PlacesOK /\ TransactionOK /\ VoicesOK /\ LapsesOK /\ RepliesOK

-----------------------------------------------------------------------------
(* Sequences *)

LEMMA Empty == Elems(<< >>) = {} /\ Once(<< >>)
BY DEF Elems, Once

LEMMA Appended ==
  ASSUME NEW S, NEW s \in Seq(S), NEW e \in S
  PROVE  /\ Append(s, e) \in Seq(S)
         /\ Append(s, e) # << >>
         /\ Elems(Append(s, e)) = Elems(s) \union {e}
         /\ Once(s) /\ e \notin Elems(s) \intersect Commands => Once(Append(s, e))
         /\ s # << >> => Head(Append(s, e)) = Head(s)
         /\ s = << >> => Head(Append(s, e)) = e
<1> DEFINE t == Append(s, e)
<1>1. /\ t \in Seq(S) /\ Len(s) \in Nat /\ Len(t) = Len(s) + 1
      /\ \A i \in 1 .. Len(s) : t[i] = s[i]
      /\ t[Len(s) + 1] = e
  OBVIOUS
<1>2. \A i \in 1 .. Len(t) : i \in 1 .. Len(s) \/ i = Len(s) + 1
  BY <1>1
<1>3. 1 .. Len(s) \subseteq 1 .. Len(t) /\ Len(s) + 1 \in 1 .. Len(t)
  BY <1>1
<1>4. t # << >> /\ Head(t) = t[1]
  BY <1>1
<1>5. s # << >> => Head(s) = s[1] /\ 1 \in 1 .. Len(s)
  OBVIOUS
<1>6. s = << >> => Len(s) = 0
  OBVIOUS
<1> HIDE DEF t
<1>7. Elems(t) = Elems(s) \union {e}
  BY <1>1, <1>2, <1>3 DEF Elems
<1>8. ASSUME Once(s), e \notin Elems(s) \intersect Commands PROVE Once(t)
  <2> SUFFICES ASSUME NEW i \in 1 .. Len(t), NEW j \in 1 .. Len(t),
                      t[i] = t[j], t[i] \in Commands
               PROVE  i = j
    BY DEF Once
  <2>1. CASE i \in 1 .. Len(s) /\ j \in 1 .. Len(s)
    BY <1>1, <1>8, <2>1 DEF Once
  <2>2. CASE i \in 1 .. Len(s) /\ j = Len(s) + 1
    BY <1>1, <1>8, <2>2 DEF Elems
  <2>3. CASE j \in 1 .. Len(s) /\ i = Len(s) + 1
    BY <1>1, <1>8, <2>3 DEF Elems
  <2> QED BY <1>2, <2>1, <2>2, <2>3
<1> QED BY <1>1, <1>4, <1>5, <1>6, <1>7, <1>8 DEF t

LEMMA Shortened ==
  ASSUME NEW S, NEW s \in Seq(S), s # << >>
  PROVE  /\ Tail(s) \in Seq(S)
         /\ Head(s) \in S
         /\ Elems(s) = Elems(Tail(s)) \union {Head(s)}
         /\ Once(s) => Once(Tail(s))
         /\ Once(s) /\ Head(s) \in Commands => Head(s) \notin Elems(Tail(s))
<1> DEFINE t == Tail(s)
<1>1. /\ t \in Seq(S) /\ Len(s) \in Nat \ {0} /\ Len(t) = Len(s) - 1
      /\ \A i \in 1 .. Len(t) : t[i] = s[i + 1]
      /\ Head(s) = s[1] /\ s[1] \in S
  OBVIOUS
<1>2. /\ \A i \in 1 .. Len(t) : i + 1 \in 1 .. Len(s) /\ i + 1 # 1
      /\ \A i \in 1 .. Len(s) : i = 1 \/ (i - 1 \in 1 .. Len(t) /\ (i - 1) + 1 = i)
      /\ 1 \in 1 .. Len(s)
      /\ \A i, j \in 1 .. Len(t) : i + 1 = j + 1 => i = j
  BY <1>1
<1> HIDE DEF t
<1>3. Elems(s) = Elems(t) \union {s[1]}
  <2>1. Elems(t) \union {s[1]} \subseteq Elems(s)
    BY <1>1, <1>2 DEF Elems
  <2>2. ASSUME NEW i \in 1 .. Len(s) PROVE s[i] \in Elems(t) \union {s[1]}
    <3>1. CASE i = 1
      BY <3>1
    <3>2. CASE i - 1 \in 1 .. Len(t) /\ (i - 1) + 1 = i
      BY <1>1, <3>2 DEF Elems
    <3> QED BY <1>2, <3>1, <3>2
  <2> QED BY <2>1, <2>2 DEF Elems
<1>4. ASSUME Once(s) PROVE Once(t)
  BY <1>1, <1>2, <1>4 DEF Once
<1>5. ASSUME Once(s), s[1] \in Commands PROVE s[1] \notin Elems(t)
  BY <1>1, <1>2, <1>5 DEF Once, Elems
<1> QED BY <1>1, <1>3, <1>4, <1>5 DEF t

(* What the deletion of one element leaves. *)
LEMMA Removed ==
  ASSUME NEW S, NEW s \in Seq(S), NEW i \in 1 .. Len(s)
  PROVE  /\ RemoveAt(s, i) \in Seq(S)
         /\ Len(RemoveAt(s, i)) = Len(s) - 1
         /\ \A j \in 1 .. Len(s) - 1 :
              RemoveAt(s, i)[j] = IF j < i THEN s[j] ELSE s[j + 1]
<1> DEFINE a == SubSeq(s, 1, i - 1)
           b == SubSeq(s, i + 1, Len(s))
<1>0. Len(s) \in Nat /\ i \in Nat
  OBVIOUS
<1>1. /\ a \in Seq(S) /\ Len(a) = i - 1
      /\ \A j \in 1 .. i - 1 : a[j] = s[j]
  <2>1. \A j \in 1 .. i - 1 : s[j] \in S
    BY <1>0
  <2> QED BY <1>0, <2>1
<1>2. /\ b \in Seq(S) /\ Len(b) = Len(s) - i
      /\ \A j \in 1 .. Len(s) - i : b[j] = s[i + j]
  <2>1. \A j \in i + 1 .. Len(s) : s[j] \in S
    BY <1>0
  <2> QED BY <1>0, <2>1
<1> HIDE DEF a, b
<1>3. /\ a \o b \in Seq(S) /\ Len(a \o b) = Len(s) - 1
      /\ \A j \in 1 .. Len(s) - 1 :
           (a \o b)[j] = IF j < i THEN s[j] ELSE s[j + 1]
  <2>1. a \o b \in Seq(S) /\ Len(a \o b) = Len(s) - 1
    BY <1>0, <1>1, <1>2
  <2>2. \A j \in 1 .. Len(s) - 1 : j < i => (a \o b)[j] = s[j]
    BY <1>0, <1>1, <1>2
  <2>3. ASSUME NEW j \in 1 .. Len(s) - 1, ~(j < i)
        PROVE  (a \o b)[j] = s[j + 1]
    <3>1. (a \o b)[j] = b[j - (i - 1)]
      BY <1>0, <1>1, <1>2, <2>3
    <3>2. j - (i - 1) \in 1 .. Len(s) - i
      BY <1>0, <2>3
    <3>3. i + (j - (i - 1)) = j + 1
      BY <1>0
    <3> QED BY <1>2, <3>1, <3>2, <3>3
  <2> QED BY <2>1, <2>2, <2>3
<1>4. RemoveAt(s, i) = a \o b
  BY DEF RemoveAt, a, b
<1> QED BY <1>3, <1>4

LEMMA Deleted ==
  ASSUME NEW S, NEW s \in Seq(S), NEW i \in 1 .. Len(s)
  PROVE  /\ RemoveAt(s, i) \in Seq(S)
         /\ Elems(RemoveAt(s, i)) \subseteq Elems(s)
         /\ Once(s) => Once(RemoveAt(s, i))
         /\ i # 1 => RemoveAt(s, i) # << >> /\ Head(RemoveAt(s, i)) = Head(s)
<1> DEFINE t == RemoveAt(s, i)
<1>0. /\ t \in Seq(S) /\ Len(t) = Len(s) - 1
      /\ \A j \in 1 .. Len(s) - 1 : t[j] = IF j < i THEN s[j] ELSE s[j + 1]
  BY Removed, Zenon
<1> HIDE DEF t
<1>1. /\ t \in Seq(S) /\ Len(s) \in Nat \ {0} /\ Len(t) = Len(s) - 1
      /\ \A j \in 1 .. Len(t) : t[j] = IF j < i THEN s[j] ELSE s[j + 1]
      /\ Head(s) = s[1] /\ i \in Nat
  BY <1>0
<1>2. \A j \in 1 .. Len(t) : j \in 1 .. Len(s) /\ j + 1 \in 1 .. Len(s)
  BY <1>1
<1>3. Elems(t) \subseteq Elems(s)
  BY <1>1, <1>2 DEF Elems
<1>4. ASSUME Once(s) PROVE Once(t)
  <2> DEFINE f(j) == IF j < i THEN j ELSE j + 1
  <2>1. \A j \in 1 .. Len(t) : t[j] = s[f(j)] /\ f(j) \in 1 .. Len(s)
    BY <1>1, <1>2
  <2>2. \A j, k \in 1 .. Len(t) : f(j) = f(k) => j = k
    BY <1>1
  <2> HIDE DEF f
  <2> QED BY <1>4, <2>1, <2>2 DEF Once
<1>5. ASSUME i # 1 PROVE t # << >> /\ Head(t) = Head(s)
  <2>1. 1 < i /\ 1 \in 1 .. Len(t)
    BY <1>1, <1>5
  <2>2. t # << >> /\ Head(t) = t[1]
    BY <1>1, <2>1
  <2> QED BY <1>1, <2>1, <2>2
<1> QED BY <1>1, <1>3, <1>4, <1>5 DEF t

(* What else was in the sequence stays there. *)
LEMMA Spared ==
  ASSUME NEW S, NEW s \in Seq(S), NEW i \in 1 .. Len(s), NEW e \in Elems(s), e # s[i]
  PROVE  e \in Elems(RemoveAt(s, i))
<1> DEFINE t == RemoveAt(s, i)
<1>0. /\ Len(t) = Len(s) - 1
      /\ \A k \in 1 .. Len(s) - 1 : t[k] = IF k < i THEN s[k] ELSE s[k + 1]
  BY Removed, Zenon
<1> HIDE DEF t
<1>1. /\ Len(s) \in Nat /\ Len(t) = Len(s) - 1
      /\ \A k \in 1 .. Len(t) : t[k] = IF k < i THEN s[k] ELSE s[k + 1]
  BY <1>0
<1>2. PICK j \in 1 .. Len(s) : e = s[j]
  BY DEF Elems
<1>3. CASE j < i
  <2>1. j \in 1 .. Len(t) /\ t[j] = e
    BY <1>1, <1>2, <1>3
  <2> QED BY <2>1 DEF Elems, t
<1>4. CASE ~(j < i)
  <2>1. j # i
    BY <1>2
  <2>2. j - 1 \in 1 .. Len(t) /\ ~(j - 1 < i) /\ (j - 1) + 1 = j
    BY <1>1, <1>4, <2>1
  <2>3. t[j - 1] = e
    BY <1>1, <1>2, <2>2
  <2> QED BY <2>2, <2>3 DEF Elems, t
<1> QED BY <1>3, <1>4

LEMMA First ==
  ASSUME NEW S, NEW s \in Seq(S), s # << >>
  PROVE  Head(s) \in Elems(s) /\ 1 \in 1 .. Len(s) /\ Head(s) = s[1]
BY Shortened

LEMMA Contained ==
  ASSUME NEW S, NEW s \in Seq(S), NEW e
  PROVE  Contains(s, e) <=> e \in Elems(s)
BY DEF Contains, Elems

-----------------------------------------------------------------------------
(* The initial states *)

LEMMA Initially == Init => IInv
<1> SUFFICES ASSUME Init PROVE IInv
  OBVIOUS
<1>1. Elems(line) = {} /\ Elems(txq) = {} /\ Elems(radio) = {}
  BY Empty DEF Init
<1>2. Once(line) /\ Once(txq) /\ Once(radio)
  BY Empty DEF Init
<1>3. TypeOK
  <2>1. /\ conn \in [Clients -> {"out", "pending", "active", "closing", "gone"}]
        /\ stage \in [Commands -> {"unsent", "waiting", "serving", "done"}]
        /\ result \in [Commands -> {"none", "awaited", "true", "false"}]
        /\ heard \in [Commands -> SUBSET (Commands \union Own)]
    BY DEF Init
  <2>2. << >> \in Seq(Commands) /\ << >> \in Seq(Rf) /\ << >> \in Seq(Commands \union Own)
    OBVIOUS
  <2> QED BY <2>1, <2>2 DEF Init, TypeOK
<1>4. RoomOK
  <2>1. Active = {} /\ Pending = {}
    BY DEF Init, Active, Pending
  <2> QED BY <2>1, FS_EmptySet, LimitAssumption DEF RoomOK
<1>5. PlacesOK
  BY <1>1, <1>2, CommandsAssumption DEF Init, PlacesOK, WorkerPlaced
<1>6. TransactionOK
  BY DEF Init, TransactionOK
<1>7. VoicesOK
  BY DEF Init, VoicesOK, OneVoice
<1>8. LapsesOK /\ RepliesOK
  BY <1>1 DEF Init, LapsesOK, RepliesOK
<1> QED BY <1>3, <1>4, <1>5, <1>6, <1>7, <1>8 DEF IInv

-----------------------------------------------------------------------------
(* Types *)

LEMMA Stuttering == ASSUME IInv, UNCHANGED vars PROVE IInv'
BY DEF IInv, TypeOK, RoomOK, PlacesOK, WorkerPlaced, TransactionOK, VoicesOK, LapsesOK, RepliesOK,
       OneVoice, Listens, Holder, HoldsRaw, Active, Pending,
       vars, clients, lock, limiter, adapter, voices

LEMMA HolderTyped ==
  ASSUME TypeOK, radio # << >>
  PROVE  Holder \in Commands \union Own /\ Tail(radio) \in Seq(Commands \union Own)
BY Shortened DEF TypeOK, Holder

LEMMA ConnTyped ==
  ASSUME TypeOK, NEW w \in Clients,
         NEW t \in {"out", "pending", "active", "closing", "gone"}, Becomes(w, t)
  PROVE  TypeOK'
BY DEF TypeOK, Becomes, HoldsRaw, Holder, lock, limiter, adapter, voices

LEMMA BeginTyped == ASSUME TypeOK, Begin PROVE TypeOK'
<1> DEFINE c == Head(line)
<1>1. line # << >> /\ line \in Seq(Commands)
  BY DEF Begin, TypeOK
<1>2. c \in Commands /\ Tail(line) \in Seq(Commands)
  BY <1>1, Shortened
<1>3. Refuse(c) \/ Submit(c) \/ Ask(c)
  BY DEF Begin
<1>4. /\ result' \in [Commands -> {"none", "awaited", "true", "false"}]
      /\ txq' \in Seq(Rf)
  <2>1. CASE Refuse(c)
    BY <1>2, <2>1 DEF TypeOK, Refuse
  <2>2. CASE Submit(c)
    <3>1. c \in Rf /\ txq' = Append(txq, c) /\ txq \in Seq(Rf)
      BY <2>2 DEF TypeOK, Submit
    <3>2. txq' \in Seq(Rf)
      BY <3>1, Appended
    <3> QED BY <1>2, <2>2, <3>2 DEF TypeOK, Submit
  <2>3. CASE Ask(c)
    BY <1>2, <2>3 DEF TypeOK, Ask
  <2> QED BY <1>3, <2>1, <2>2, <2>3
<1>5. radio' \in Seq(Commands \union Own) /\ (answer' # "none" => HoldsRaw')
  <2>1. CASE radio' = radio
    BY <2>1 DEF TypeOK, Begin, HoldsRaw, Holder
  <2>2. CASE radio' = Append(radio, c)
    BY <1>2, <2>2, Appended DEF TypeOK, Begin, HoldsRaw, Holder
  <2> QED BY <1>3, <2>1, <2>2 DEF Refuse, Submit, Ask
<1>6. stage' \in [Commands -> {"unsent", "waiting", "serving", "done"}]
  BY <1>2 DEF TypeOK, Begin
<1>7. received' \in BOOLEAN
  BY DEF Begin
<1> QED BY <1>2, <1>4, <1>5, <1>6, <1>7 DEF TypeOK, Begin, clients

LEMMA TakeTyped == ASSUME TypeOK, Take PROVE TypeOK'
<1> DEFINE c == Head(txq)
<1>1. txq # << >> /\ txq \in Seq(Rf)
  BY DEF Take, TypeOK
<1>2. c \in Rf /\ c \in Commands /\ Tail(txq) \in Seq(Rf) /\ c # None
  BY <1>1, Shortened, CommandsAssumption, NamesAssumption
<1>3. Skip(c) \/ Deny(c) \/ Record(c) \/ Transmit(c)
  BY DEF Take
<1>4. /\ result' \in [Commands -> {"none", "awaited", "true", "false"}]
      /\ worker' \in Rf \union {None}
      /\ airing' \in {"idle", "recording", "sending", "sent", "failed"}
      /\ worker' = None <=> airing' = "idle"
  BY <1>2, <1>3 DEF TypeOK, Skip, Deny, Record, Transmit
<1>5. radio' \in Seq(Commands \union Own) /\ (answer' # "none" => HoldsRaw')
  <2>1. CASE radio' = radio
    BY <2>1 DEF TypeOK, Take, HoldsRaw, Holder
  <2>2. CASE radio' = Append(radio, c)
    BY <1>2, <2>2, Appended DEF TypeOK, Take, HoldsRaw, Holder
  <2> QED BY <1>3, <2>1, <2>2 DEF Skip, Deny, Record, Transmit
<1> QED BY <1>1, <1>2, <1>4, <1>5 DEF TypeOK, Take, clients, lock, voices

LEMMA ResolveTyped ==
  ASSUME TypeOK, NEW c, NEW o \in {"true", "false"}, Resolve(c, o)
  PROVE  result' \in [Commands -> {"none", "awaited", "true", "false"}]
BY DEF TypeOK, Resolve

LEMMA SettleTyped ==
  ASSUME TypeOK, NEW o \in {"true", "false"}, Settle(o)
  PROVE  /\ result' \in [Commands -> {"none", "awaited", "true", "false"}]
         /\ worker' = None /\ airing' = "idle"
BY ResolveTyped DEF Settle

LEMMA RecordedTyped == ASSUME TypeOK, Recorded PROVE TypeOK'
<1>1. worker \in Rf /\ worker \in Commands /\ worker # None
  BY CommandsAssumption DEF TypeOK, Recorded
<1>2. CASE airing' = "sending" /\ radio' = Append(radio, worker) /\ UNCHANGED <<result, worker>>
  <2>1. radio' \in Seq(Commands \union Own) /\ (answer' # "none" => HoldsRaw')
    BY <1>1, <1>2, Appended DEF TypeOK, Recorded, HoldsRaw, Holder
  <2> QED BY <1>1, <1>2, <2>1 DEF TypeOK, Recorded, clients, lock, voices
<1>3. CASE airing' = "failed" /\ UNCHANGED <<result, worker, radio>>
  BY <1>1, <1>3 DEF TypeOK, Recorded, HoldsRaw, Holder, clients, lock, voices
<1>4. CASE Settle("false") /\ UNCHANGED radio
  BY <1>4, SettleTyped DEF TypeOK, Recorded, HoldsRaw, Holder, clients, lock, voices
<1> QED BY <1>2, <1>3, <1>4 DEF Recorded

LEMMA ReportTyped == ASSUME TypeOK, Report PROVE TypeOK'
<1>1. PICK o \in {"true", "false"} : Settle(o)
  BY DEF Report
<1> QED BY <1>1, SettleTyped DEF TypeOK, Report, HoldsRaw, Holder, clients, lock, adapter, voices

LEMMA ReturnsTyped ==
  ASSUME TypeOK, HoldsRaw, NEW o \in {"true", "false"}, Returns(o), answer' = "none"
  PROVE  TypeOK'
<1>1. Tail(radio) \in Seq(Commands \union Own)
  BY HolderTyped DEF HoldsRaw
<1>2. /\ result' \in [Commands -> {"none", "awaited", "true", "false"}]
      /\ worker' \in Rf \union {None}
      /\ airing' \in {"idle", "recording", "sending", "sent", "failed"}
      /\ worker' = None <=> airing' = "idle"
  <2>1. CASE Holder # worker /\ Resolve(Holder, o) /\ UNCHANGED <<worker, airing>>
    BY <2>1, ResolveTyped DEF TypeOK
  <2>2. CASE Settle(o)
    BY <2>2, SettleTyped
  <2>3. CASE /\ Holder = worker
             /\ airing' = IF o = "true" THEN "sent" ELSE "failed"
             /\ UNCHANGED <<result, worker>>
    BY <2>3, NamesAssumption DEF TypeOK, HoldsRaw
  <2> QED BY <2>1, <2>2, <2>3 DEF Returns
<1> QED BY <1>1, <1>2 DEF TypeOK, HoldsRaw, Returns, clients, lock, voices

LEMMA StopCancelTyped == ASSUME TypeOK, StopCancel PROVE TypeOK'
<1>1. /\ conn' \in [Clients -> {"out", "pending", "active", "closing", "gone"}]
      /\ stage' \in [Commands -> {"unsent", "waiting", "serving", "done"}]
      /\ result' \in [Commands -> {"none", "awaited", "true", "false"}]
      /\ lapsed' \subseteq Commands \union Own
  BY DEF TypeOK, StopCancel, Abandoned
<1>2. line' \in Seq(Commands) /\ owner' \in Commands \union {None}
  BY DEF StopCancel
<1>3. radio' \in Seq(Commands \union Own) /\ (answer' # "none" => HoldsRaw')
  <2>1. CASE Places = {}
    BY <2>1 DEF TypeOK, StopCancel, HoldsRaw, Holder
  <2>2. CASE Places # {}
    <3>1. PICK i \in Places : radio' = RemoveAt(radio, i)
      BY <2>2 DEF StopCancel
    <3>2. i \in 1 .. Len(radio) /\ radio[i] = owner /\ owner \notin Rf
      BY <3>1 DEF Places
    <3>3. radio' \in Seq(Commands \union Own)
      BY <3>1, <3>2, Deleted DEF TypeOK
    <3>4. ASSUME answer' # "none" PROVE HoldsRaw'
      <4>1. HoldsRaw /\ Holder \in Rf
        BY <3>4 DEF StopCancel, TypeOK
      <4>2. i # 1
        BY <3>2, <4>1, First DEF TypeOK, HoldsRaw, Holder
      <4> QED BY <3>1, <3>2, <4>1, <4>2, Deleted DEF TypeOK, HoldsRaw, Holder
    <3> QED BY <3>3, <3>4
  <2> QED BY <2>1, <2>2
<1>4. answer' \in {"none", "awaited", "ok", "failed"}
  BY DEF TypeOK, StopCancel
<1> QED BY <1>1, <1>2, <1>3, <1>4 DEF TypeOK, StopCancel, limiter, voices

LEMMA ForwardedTyped ==
  ASSUME TypeOK, NEW r \in asked, Forwarded(r)
  PROVE  /\ heard' \in [Commands -> SUBSET (Commands \union Own)]
         /\ received' \in BOOLEAN
<1>1. received' \in BOOLEAN
  BY DEF TypeOK, Forwarded
<1>2. CASE owner # None /\ Listens(owner)
  <2>1. heard' = [heard EXCEPT ![owner] = @ \union {r}]
    BY <1>2 DEF Forwarded
  <2> QED BY <1>1, <1>2, <2>1 DEF TypeOK
<1>3. CASE ~(owner # None /\ Listens(owner))
  BY <1>1, <1>3 DEF TypeOK, Forwarded
<1> QED BY <1>2, <1>3

LEMMA TypesStay == ASSUME TypeOK, Next PROVE TypeOK'
<1> USE CommandsAssumption, NamesAssumption
<1>1. ASSUME NEW w \in Clients,
             Connect(w) \/ Authenticated(w) \/ Reject(w) \/ DropSlow(w) \/ Leave(w)
      PROVE  TypeOK'
  BY <1>1, ConnTyped DEF Connect, Authenticated, Reject, DropSlow, Leave
<1>2. ASSUME NEW c \in Commands, Arrive(c) PROVE TypeOK'
  <2>1. line' \in Seq(Commands)
    BY <1>2, Appended DEF TypeOK, Arrive
  <2> QED BY <1>2, <2>1 DEF TypeOK, Arrive, HoldsRaw, Holder, clients, limiter, adapter, voices
<1>3. CASE Deadline
  BY <1>3 DEF TypeOK, Deadline, HoldsRaw, Holder, clients, lock, limiter, adapter, voices
<1>4. CASE End
  BY <1>4 DEF TypeOK, End, HoldsRaw, Holder, clients, limiter, adapter
<1>5. CASE SendRaw
  BY <1>5 DEF TypeOK, SendRaw, HoldsRaw, Holder, clients, lock, limiter, voices
<1>6. CASE SendFails
  BY <1>6, ReturnsTyped DEF SendFails
<1>7. CASE RawTimeout
  BY <1>7 DEF TypeOK, RawTimeout, HoldsRaw, Holder, clients, lock, limiter, voices
<1>8. CASE Release
  <2>1. HoldsRaw
    BY <1>8 DEF Release, TypeOK
  <2> QED BY <1>8, <2>1, ReturnsTyped DEF Release
<1>9. ASSUME NEW o \in Own, OwnAsks(o) PROVE TypeOK'
  <2>0. radio \in Seq(Commands \union Own) /\ radio' = Append(radio, o)
    BY <1>9 DEF TypeOK, OwnAsks
  <2>1. radio' \in Seq(Commands \union Own) /\ (radio # << >> => radio' # << >> /\ Holder' = Holder)
    BY <2>0, Appended DEF Holder
  <2> QED BY <1>9, <2>1 DEF TypeOK, OwnAsks, HoldsRaw, clients, lock, limiter, voices
<1>10. CASE OwnEnds
  <2>1. Tail(radio) \in Seq(Commands \union Own) /\ answer = "none"
    BY <1>10, HolderTyped DEF OwnEnds, TypeOK, HoldsRaw
  <2> QED BY <1>10, <2>1 DEF TypeOK, OwnEnds, clients, lock, limiter, voices
<1>11. ASSUME NEW r \in Commands \union Own, Reply(r) PROVE TypeOK'
  <2>1. r \in asked /\ Forwarded(r)
    BY <1>11 DEF Reply
  <2>2. /\ heard' \in [Commands -> SUBSET (Commands \union Own)]
        /\ received' \in BOOLEAN
    BY <2>1, ForwardedTyped
  <2> QED BY <1>11, <2>2 DEF TypeOK, Reply, HoldsRaw, Holder, clients, lock, limiter
<1>12. ASSUME NEW r \in Commands \union Own, Ignore(r) PROVE TypeOK'
  BY <1>12 DEF TypeOK, Ignore, HoldsRaw, Holder, clients, lock, limiter, voices
<1>13. ASSUME NEW r \in Commands \union Own, ListItem(r) PROVE TypeOK'
  <2>1. r \in asked /\ Forwarded(r)
    BY <1>13 DEF ListItem
  <2>2. /\ heard' \in [Commands -> SUBSET (Commands \union Own)]
        /\ received' \in BOOLEAN
    BY <2>1, ForwardedTyped
  <2> QED BY <1>13, <2>2 DEF TypeOK, ListItem, HoldsRaw, Holder, clients, lock, limiter, adapter
<1>14. CASE StopBegin
  BY <1>14 DEF TypeOK, StopBegin, HoldsRaw, Holder, lock, limiter, adapter, voices
<1> QED
  BY <1>1, <1>2, <1>3, <1>4, <1>5, <1>6, <1>7, <1>8, <1>9, <1>10, <1>11, <1>12, <1>13, <1>14,
     BeginTyped, TakeTyped, RecordedTyped, ReportTyped, StopCancelTyped DEF Next

-----------------------------------------------------------------------------
(* Connections *)

LEMMA Counted ==
  /\ IsFiniteSet(Active) /\ Cardinality(Active) \in Nat
  /\ IsFiniteSet(Pending) /\ Cardinality(Pending) \in Nat
<1>1. Active \subseteq Clients /\ Pending \subseteq Clients
  BY DEF Active, Pending
<1>2. IsFiniteSet(Active) /\ IsFiniteSet(Pending)
  BY <1>1, FS_Subset, LimitAssumption
<1> QED BY <1>2, FS_CardinalityType

LEMMA Fewer ==
  ASSUME RoomOK, Active' \subseteq Active, Pending' \subseteq Pending
  PROVE  RoomOK'
<1>1. /\ IsFiniteSet(Active') /\ Cardinality(Active') <= Cardinality(Active)
      /\ IsFiniteSet(Pending') /\ Cardinality(Pending') <= Cardinality(Pending)
  BY Counted, FS_Subset
<1>2. Cardinality(Active') \in Nat /\ Cardinality(Pending') \in Nat
  BY <1>1, FS_CardinalityType
<1> QED BY <1>1, <1>2, Counted, LimitAssumption DEF RoomOK

LEMMA RoomStays == ASSUME TypeOK, RoomOK, Next PROVE RoomOK'
<1> USE LimitAssumption
<1>1. ASSUME NEW w \in Clients, Connect(w) PROVE RoomOK'
  <2>1. CASE Crowded
    <3>1. Active' \subseteq Active /\ Pending' \subseteq Pending
      BY <1>1, <2>1 DEF TypeOK, Connect, Becomes, Active, Pending
    <3> QED BY <3>1, Fewer
  <2>2. CASE ~Crowded
    <3>1. Active' = Active /\ Pending' = Pending \union {w} /\ w \notin Pending
      BY <1>1, <2>2 DEF TypeOK, Connect, Becomes, Active, Pending
    <3>2. Cardinality(Pending') = Cardinality(Pending) + 1
      BY <3>1, Counted, FS_AddElement
    <3> QED BY <2>2, <3>1, <3>2, Counted DEF RoomOK, Crowded
  <2> QED BY <2>1, <2>2
<1>2. ASSUME NEW w \in Clients, Authenticated(w) PROVE RoomOK'
  <2>1. CASE Cardinality(Active) >= MaxClients
    <3>1. Active' \subseteq Active /\ Pending' \subseteq Pending
      BY <1>2, <2>1 DEF TypeOK, Authenticated, Becomes, Active, Pending
    <3> QED BY <3>1, Fewer
  <2>2. CASE ~(Cardinality(Active) >= MaxClients)
    <3>1. /\ Active' = Active \union {w} /\ w \notin Active
          /\ Pending' = Pending \ {w} /\ w \in Pending
      BY <1>2, <2>2 DEF TypeOK, Authenticated, Becomes, Active, Pending
    <3>2. Cardinality(Active') = Cardinality(Active) + 1
      BY <3>1, Counted, FS_AddElement
    <3>3. Cardinality(Pending') = Cardinality(Pending) - 1
      BY <3>1, Counted, FS_RemoveElement
    <3> QED BY <3>2, <3>3, Counted DEF RoomOK
  <2> QED BY <2>1, <2>2
<1>3. ASSUME NEW w \in Clients, Reject(w) \/ DropSlow(w) \/ Leave(w) PROVE RoomOK'
  <2>1. Active' \subseteq Active /\ Pending' \subseteq Pending
    BY <1>3 DEF TypeOK, Reject, DropSlow, Leave, Becomes, Active, Pending
  <2> QED BY <2>1, Fewer
<1>4. CASE StopCancel
  <2>1. Active' \subseteq Active /\ Pending' \subseteq Pending
    BY <1>4 DEF TypeOK, StopCancel, Active, Pending
  <2> QED BY <2>1, Fewer
<1>5. CASE UNCHANGED conn
  BY <1>5, Fewer DEF Active, Pending
<1>6. ASSUME \/ \E c \in Commands : Arrive(c)
             \/ Begin \/ Deadline \/ End \/ Take \/ Recorded \/ Report
             \/ SendRaw \/ SendFails \/ RawTimeout \/ Release \/ OwnEnds
             \/ \E s \in Own : OwnAsks(s)
             \/ \E r \in Commands \union Own : Reply(r) \/ Ignore(r) \/ ListItem(r)
             \/ StopBegin
      PROVE  UNCHANGED conn
  BY <1>6 DEF Arrive, Begin, Deadline, End, Take, Recorded, Report, SendRaw, SendFails,
       RawTimeout, Release, Returns, OwnEnds, OwnAsks, Reply, Ignore, ListItem, StopBegin, clients
<1> QED BY <1>1, <1>2, <1>3, <1>4, <1>5, <1>6 DEF Next

-----------------------------------------------------------------------------
(* Places *)

LEMMA ConnPlaces ==
  ASSUME TypeOK, PlacesOK, NEW w \in Clients, NEW t, Becomes(w, t),
         t \in {"out", "pending"} => conn[w] \in {"out", "pending"}
  PROVE  PlacesOK'
<1>1. \A c \in Commands : conn'[Sender[c]] \in {"out", "pending"} => stage[c] = "unsent"
  <2> SUFFICES ASSUME NEW c \in Commands, conn'[Sender[c]] \in {"out", "pending"}
               PROVE  stage[c] = "unsent"
    OBVIOUS
  <2>1. conn[Sender[c]] \in {"out", "pending"}
    BY CommandsAssumption DEF TypeOK, Becomes
  <2> QED BY <2>1 DEF PlacesOK
<1> QED BY <1>1 DEF PlacesOK, WorkerPlaced, Becomes, lock, limiter, adapter

LEMMA BeginPlaces == ASSUME TypeOK, PlacesOK, Begin PROVE PlacesOK'
<1> DEFINE c == Head(line)
<1>1. /\ c \in Commands /\ c \in Elems(line) /\ c \notin Elems(line') /\ Once(line')
      /\ Elems(line) = Elems(line') \union {c}
  BY Shortened DEF Begin, TypeOK, PlacesOK
<1>2. stage[c] = "waiting" /\ stage' = [stage EXCEPT ![c] = "serving"]
  BY <1>1 DEF Begin, PlacesOK
<1>3. c \notin Elems(txq) /\ c \notin Elems(radio)
  BY <1>1, <1>2 DEF PlacesOK
<1>4. \/ txq' = txq /\ radio' = radio
      \/ c \in Rf /\ txq' = Append(txq, c) /\ radio' = radio
      \/ radio' = Append(radio, c) /\ txq' = txq
  BY DEF Begin, Refuse, Submit, Ask
<1>5. /\ Once(txq') /\ Once(radio')
      /\ \/ Elems(txq') = Elems(txq) /\ Elems(radio') = Elems(radio)
         \/ Elems(txq') = Elems(txq) \union {c} /\ Elems(radio') = Elems(radio)
         \/ Elems(radio') = Elems(radio) \union {c} /\ Elems(txq') = Elems(txq)
  <2>0. Once(txq) /\ Once(radio) /\ txq \in Seq(Rf) /\ radio \in Seq(Commands \union Own)
    BY DEF TypeOK, PlacesOK
  <2>1. c \in Rf => Once(Append(txq, c)) /\ Elems(Append(txq, c)) = Elems(txq) \union {c}
    BY <1>3, <2>0, Appended
  <2>2. Once(Append(radio, c)) /\ Elems(Append(radio, c)) = Elems(radio) \union {c}
    BY <1>1, <1>3, <2>0, Appended
  <2> QED BY <1>4, <2>0, <2>1, <2>2
<1>6. Elems(txq) \subseteq Commands
  BY CommandsAssumption DEF TypeOK, Elems
<1>7. /\ \A e \in Elems(line') : stage'[e] = "waiting"
      /\ \A e \in Elems(txq') : e \notin Elems(radio') /\ stage'[e] \in {"serving", "done"}
      /\ \A e \in Elems(radio') : e \in Commands => stage'[e] \in {"serving", "done"}
  <2>1. \A e \in Commands : stage'[e] = IF e = c THEN "serving" ELSE stage[e]
    BY <1>2 DEF TypeOK
  <2>2. Elems(line') \subseteq Commands
    <3>1. Elems(line) \subseteq Commands
      BY DEF TypeOK, Elems
    <3> QED BY <1>1, <3>1
  <2>3. \A e \in Elems(line') : stage'[e] = "waiting"
    BY <1>1, <2>1, <2>2 DEF PlacesOK
  <2>4. \A e \in Elems(txq) \union {c} : e \in Commands /\ stage'[e] \in {"serving", "done"}
    BY <1>1, <1>6, <2>1 DEF PlacesOK
  <2>5. \A e \in Elems(radio) \union {c} : e \in Commands => stage'[e] \in {"serving", "done"}
    BY <1>1, <2>1 DEF PlacesOK
  <2>6. \A e \in Elems(txq) : e \notin Elems(radio)
    BY DEF PlacesOK
  <2>7. \A e \in Elems(txq') : e \notin Elems(radio')
    BY <1>3, <1>5, <2>6
  <2> QED BY <1>5, <2>3, <2>4, <2>5, <2>7
<1>8. \A e \in Commands : conn'[Sender[e]] \in {"out", "pending"} => stage'[e] = "unsent"
  BY <1>1, <1>2 DEF TypeOK, PlacesOK, Begin, clients
<1>9. WorkerPlaced'
  <2>1. worker # None => worker \in Commands /\ worker # c
    BY <1>2, CommandsAssumption DEF TypeOK, PlacesOK, WorkerPlaced
  <2>2. worker' = worker /\ airing' = airing
    BY DEF Begin
  <2>3. worker # None => stage'[worker] = stage[worker]
    BY <1>2, <2>1 DEF TypeOK
  <2> HIDE DEF c
  <2> QED BY <1>5, <2>1, <2>2, <2>3 DEF PlacesOK, WorkerPlaced
<1> QED BY <1>1, <1>5, <1>7, <1>8, <1>9 DEF PlacesOK

LEMMA TakePlaces == ASSUME TypeOK, PlacesOK, Take PROVE PlacesOK'
<1> DEFINE c == Head(txq)
<1>1. /\ c \in Rf /\ c \notin Elems(txq') /\ Once(txq')
      /\ Elems(txq) = Elems(txq') \union {c}
  BY Shortened, CommandsAssumption DEF Take, TypeOK, PlacesOK
<1>2. c \notin Elems(radio) /\ stage[c] \in {"serving", "done"} /\ c \in Commands
  BY <1>1, CommandsAssumption DEF PlacesOK
<1>3. radio' = radio \/ radio' = Append(radio, c)
  BY DEF Take, Skip, Deny, Record, Transmit
<1>4. Once(radio') /\ (Elems(radio') = Elems(radio) \/ Elems(radio') = Elems(radio) \union {c})
  <2>0. Once(radio) /\ radio \in Seq(Commands \union Own)
    BY DEF TypeOK, PlacesOK
  <2>1. Once(Append(radio, c)) /\ Elems(Append(radio, c)) = Elems(radio) \union {c}
    BY <1>2, <2>0, Appended
  <2> QED BY <1>3, <2>0, <2>1
<1>5. line' = line /\ stage' = stage /\ conn' = conn
  BY DEF Take, lock, clients
<1>6. WorkerPlaced'
  <2>1. Elems(Append(radio, c)) = Elems(radio) \union {c}
    BY <1>2, Appended DEF TypeOK
  <2>2. worker = None /\ (Skip(c) \/ Deny(c) \/ Record(c) \/ Transmit(c))
    BY DEF Take
  <2> HIDE DEF c
  <2> QED BY <1>1, <1>2, <1>5, <2>1, <2>2 DEF WorkerPlaced, Skip, Deny, Record, Transmit
<1> QED BY <1>1, <1>2, <1>4, <1>5, <1>6 DEF PlacesOK

LEMMA RecordedPlaces == ASSUME TypeOK, PlacesOK, Recorded PROVE PlacesOK'
<1>1. /\ worker \in Commands /\ worker # None
      /\ worker \notin Elems(txq) /\ worker \notin Elems(radio)
      /\ stage[worker] \in {"serving", "done"}
  BY CommandsAssumption DEF TypeOK, Recorded, PlacesOK, WorkerPlaced
<1>2. UNCHANGED <<conn, stage, line, txq>>
  BY DEF Recorded, clients, lock
<1>3. CASE airing' = "sending" /\ radio' = Append(radio, worker) /\ UNCHANGED <<result, worker>>
  <2>1. Once(radio') /\ Elems(radio') = Elems(radio) \union {worker}
    BY <1>1, <1>3, Appended DEF TypeOK, PlacesOK
  <2>2. \A c \in Elems(txq) : c \notin Elems(radio')
    BY <1>1, <2>1 DEF PlacesOK
  <2> QED BY <1>1, <1>2, <1>3, <2>1, <2>2 DEF PlacesOK, WorkerPlaced
<1>4. CASE (worker' = None \/ (worker' = worker /\ airing' = "failed")) /\ UNCHANGED radio
  BY <1>1, <1>2, <1>4 DEF PlacesOK, WorkerPlaced
<1> QED BY <1>3, <1>4 DEF Recorded, Settle

(* A step that may take something from the line of the radio. *)
LEMMA RadioPlaces ==
  ASSUME PlacesOK, Once(radio'),
         \A c \in Elems(radio') : c \in Commands => c \in Elems(radio),
         UNCHANGED <<conn, stage, line, txq>>, Elems(txq) \subseteq Commands,
         WorkerPlaced'
  PROVE  PlacesOK'
BY DEF PlacesOK

LEMMA StopCancelPlaces ==
  ASSUME TypeOK, PlacesOK, StopCancel
  PROVE  PlacesOK' /\ Elems(radio') \subseteq Elems(radio)
<1>1. Once(radio') /\ Elems(radio') \subseteq Elems(radio)
  <2>1. CASE Places = {}
    BY <2>1 DEF StopCancel, PlacesOK
  <2>2. CASE Places # {}
    <3>1. PICK i \in Places : radio' = RemoveAt(radio, i)
      BY <2>2 DEF StopCancel
    <3> QED BY <3>1, Deleted DEF TypeOK, Places, PlacesOK
  <2> QED BY <2>1, <2>2
<1>2. line' = << >> /\ Elems(line') = {} /\ Once(line')
  BY Empty DEF StopCancel
<1>3. \A c \in Commands : stage[c] \in {"serving", "done"} => stage'[c] = "done"
  BY DEF StopCancel
<1>4. Elems(txq) \subseteq Commands /\ txq' = txq
  BY CommandsAssumption DEF TypeOK, Elems, StopCancel, limiter
<1>5. \A c \in Commands : conn'[Sender[c]] \in {"out", "pending"} => stage'[c] = "unsent"
  BY CommandsAssumption DEF TypeOK, PlacesOK, StopCancel
<1>6. WorkerPlaced'
  <2>1. worker # None => worker \in Rf /\ worker \in Commands
    BY CommandsAssumption DEF TypeOK
  <2>2. worker # None /\ worker \in Elems(radio) => worker \in Elems(radio')
    <3>1. CASE Places = {}
      BY <3>1 DEF StopCancel
    <3>2. CASE Places # {}
      <4>1. PICK i \in Places : radio' = RemoveAt(radio, i)
        BY <3>2 DEF StopCancel
      <4> QED BY <2>1, <4>1, Spared DEF TypeOK, Places
    <3> QED BY <3>1, <3>2
  <2> QED BY <1>1, <1>3, <1>4, <2>1, <2>2 DEF PlacesOK, WorkerPlaced, StopCancel, limiter
<1> QED BY <1>1, <1>2, <1>3, <1>4, <1>5, <1>6 DEF PlacesOK

LEMMA PlacesStay == ASSUME TypeOK, PlacesOK, TransactionOK, Next PROVE PlacesOK'
<1>0. Elems(txq) \subseteq Commands
  BY CommandsAssumption DEF TypeOK, Elems
<1>1. ASSUME NEW w \in Clients,
             Connect(w) \/ Authenticated(w) \/ Reject(w) \/ DropSlow(w) \/ Leave(w)
      PROVE  PlacesOK'
  BY <1>1, ConnPlaces DEF Connect, Authenticated, Reject, DropSlow, Leave
<1>2. ASSUME NEW c \in Commands, Arrive(c) PROVE PlacesOK'
  <2>1. c \notin Elems(line) /\ c \notin Elems(txq) /\ c \notin Elems(radio)
    BY <1>2 DEF PlacesOK, Arrive
  <2>2. Once(line') /\ Elems(line') = Elems(line) \union {c}
    BY <1>2, <2>1, Appended DEF PlacesOK, Arrive, TypeOK
  <2>3. \A e \in Commands : stage'[e] = IF e = c THEN "waiting" ELSE stage[e]
    BY <1>2 DEF TypeOK, Arrive
  <2>4. Elems(line) \subseteq Commands
    BY DEF TypeOK, Elems
  <2>5. conn' = conn /\ txq' = txq /\ radio' = radio /\ conn[Sender[c]] \in {"active", "closing"}
    BY <1>2 DEF Arrive, clients, limiter, adapter
  <2>6. \A e \in Commands : conn'[Sender[e]] \in {"out", "pending"} => stage'[e] = "unsent"
    BY <2>3, <2>5 DEF PlacesOK
  <2>7. WorkerPlaced'
    <3>1. UNCHANGED <<worker, airing>> /\ (worker # None => worker \in Commands)
      BY <1>2, CommandsAssumption DEF TypeOK, Arrive, limiter
    <3> QED BY <1>2, <2>3, <2>5, <3>1 DEF PlacesOK, WorkerPlaced, Arrive
  <2> QED BY <1>0, <2>1, <2>2, <2>3, <2>4, <2>5, <2>6, <2>7 DEF PlacesOK
<1>3. CASE End
  <2>1. \A e \in Commands : stage'[e] = IF e = owner THEN "done" ELSE stage[e]
    BY <1>3 DEF TypeOK, End
  <2>2. owner \in Commands /\ result[owner] \in {"true", "false"}
    BY <1>3 DEF End, TypeOK
  <2>3. UNCHANGED <<conn, line, txq, radio>>
    BY <1>3 DEF End, clients, limiter, adapter
  <2>4. stage[owner] = "serving"
    BY <1>3 DEF TransactionOK, End
  <2>5. Elems(line) \subseteq Commands
    BY DEF TypeOK, Elems
  <2>6. \A e \in Elems(line) : stage'[e] = "waiting"
    BY <2>1, <2>4, <2>5 DEF PlacesOK
  <2>7. \A e \in Commands : stage[e] \in {"serving", "done"} => stage'[e] \in {"serving", "done"}
    BY <2>1
  <2>8. \A e \in Commands : conn'[Sender[e]] \in {"out", "pending"} => stage'[e] = "unsent"
    BY <2>1, <2>3, <2>4 DEF PlacesOK
  <2>9. WorkerPlaced'
    <3>1. UNCHANGED <<worker, airing>> /\ (worker # None => worker \in Commands)
      BY <1>3, CommandsAssumption DEF TypeOK, End, limiter
    <3> QED BY <2>3, <2>7, <3>1 DEF PlacesOK, WorkerPlaced
  <2> QED BY <1>0, <2>3, <2>6, <2>7, <2>8, <2>9 DEF PlacesOK
<1>4. ASSUME HoldsRaw, NEW o, Returns(o) PROVE PlacesOK'
  <2>1. Once(radio') /\ Elems(radio') \subseteq Elems(radio)
    BY <1>4, Shortened DEF HoldsRaw, Returns, TypeOK, PlacesOK
  <2>2. WorkerPlaced'
    <3>1. /\ Holder \in Commands /\ Holder \notin Elems(radio')
          /\ Elems(radio) = Elems(radio') \union {Holder}
      BY <1>4, Shortened DEF HoldsRaw, Returns, Holder, TypeOK, PlacesOK
    <3>2. UNCHANGED <<stage, txq>>
      BY <1>4 DEF Returns, lock
    <3>3. \/ Holder # worker /\ UNCHANGED <<worker, airing>>
          \/ worker' = None
          \/ Holder = worker /\ worker' = worker /\ airing' \in {"sent", "failed"}
      BY <1>4 DEF Returns, Settle
    <3> QED BY <3>1, <3>2, <3>3 DEF PlacesOK, WorkerPlaced
  <2> QED BY <1>0, <1>4, <2>1, <2>2, RadioPlaces DEF Returns, clients, lock
<1>5. CASE SendFails \/ Release
  BY <1>4, <1>5 DEF SendFails, Release, TypeOK
<1>6. ASSUME NEW o \in Own, OwnAsks(o) PROVE PlacesOK'
  <2>1. o \notin Commands /\ radio' = Append(radio, o)
    BY <1>6, NamesAssumption DEF OwnAsks
  <2>2. Once(radio) /\ radio \in Seq(Commands \union Own)
    BY DEF TypeOK, PlacesOK
  <2>3. Once(radio') /\ Elems(radio') = Elems(radio) \union {o}
    BY <2>1, <2>2, Appended
  <2>4. WorkerPlaced'
    <3>1. worker # None => worker \in Commands
      BY CommandsAssumption DEF TypeOK
    <3> QED BY <1>6, <2>1, <2>3, <3>1 DEF PlacesOK, WorkerPlaced, OwnAsks, lock, limiter
  <2> QED BY <1>0, <1>6, <2>1, <2>3, <2>4, RadioPlaces DEF OwnAsks, clients, lock, limiter
<1>7. CASE OwnEnds
  <2>1. Once(radio') /\ Elems(radio') \subseteq Elems(radio)
    BY <1>7, Shortened DEF OwnEnds, TypeOK, PlacesOK
  <2>2. WorkerPlaced'
    <3>1. Elems(radio) = Elems(radio') \union {Holder} /\ Holder \notin Commands
      BY <1>7, Shortened, NamesAssumption DEF OwnEnds, TypeOK, Holder
    <3>2. worker # None => worker \in Commands
      BY CommandsAssumption DEF TypeOK
    <3> QED BY <1>7, <3>1, <3>2 DEF PlacesOK, WorkerPlaced, OwnEnds, lock, limiter
  <2> QED BY <1>0, <1>7, <2>1, <2>2, RadioPlaces DEF OwnEnds, clients, lock, limiter
<1>8. ASSUME \/ Deadline \/ SendRaw \/ RawTimeout \/ StopBegin
             \/ \E r \in Commands \union Own : Reply(r) \/ Ignore(r) \/ ListItem(r)
      PROVE  UNCHANGED <<conn, stage, line, txq, worker, airing, radio>>
  BY <1>8 DEF Deadline, SendRaw, RawTimeout, StopBegin, Reply, Ignore, ListItem,
       clients, lock, limiter, adapter
<1>9. CASE UNCHANGED <<conn, stage, line, txq, worker, airing, radio>>
  BY <1>9 DEF PlacesOK, WorkerPlaced
<1>10. CASE Report
  <2>1. UNCHANGED <<conn, stage, line, txq, radio>> /\ worker' = None
    BY <1>10 DEF Report, Settle, clients, lock, adapter
  <2> QED BY <2>1 DEF PlacesOK, WorkerPlaced
<1> QED
  BY <1>1, <1>2, <1>3, <1>5, <1>6, <1>7, <1>8, <1>9, <1>10,
     BeginPlaces, TakePlaces, RecordedPlaces, StopCancelPlaces DEF Next

-----------------------------------------------------------------------------
(* Transactions *)

LEMMA TransactionStays ==
  ASSUME TypeOK, PlacesOK, TransactionOK, Next
  PROVE  TransactionOK'
<1>1. ASSUME NEW c \in Commands, Arrive(c) PROVE TransactionOK'
  <2>1. \A e \in Commands : stage'[e] = IF e = c THEN "waiting" ELSE stage[e]
    BY <1>1 DEF TypeOK, Arrive
  <2>2. stage[c] = "unsent" /\ owner' = owner /\ result' = result
    BY <1>1 DEF Arrive
  <2> QED BY <2>1, <2>2 DEF TransactionOK, TypeOK
<1>2. CASE Begin
  <2> DEFINE c == Head(line)
  <2>1. c \in Commands /\ owner = None /\ owner' = c
    BY <1>2, Shortened DEF Begin, LockFree, TypeOK
  <2>2. \A e \in Commands : stage'[e] = IF e = c THEN "serving" ELSE stage[e]
    BY <1>2, <2>1 DEF TypeOK, Begin
  <2>3. \A e \in Commands : e # c => result'[e] = result[e]
    BY <1>2, <2>1 DEF TypeOK, Begin, Refuse, Submit, Ask
  <2>4. \A e \in Commands : e # None
    BY NamesAssumption
  <2> QED BY <2>1, <2>2, <2>3, <2>4 DEF TransactionOK
<1>3. CASE End
  <2>1. \A e \in Commands : stage'[e] = IF e = owner THEN "done" ELSE stage[e]
    BY <1>3 DEF TypeOK, End
  <2>2. owner' = None /\ result' = result /\ result[owner] # "awaited"
    BY <1>3 DEF End
  <2> QED BY <2>1, <2>2 DEF TransactionOK
<1>4. CASE StopCancel
  <2>1. owner' = None /\ \A c \in Commands : stage'[c] \in {"unsent", "done"}
    BY <1>4 DEF StopCancel
  <2>2. \A c \in Commands : result'[c] # "awaited"
    <3> SUFFICES ASSUME NEW c \in Commands PROVE result'[c] # "awaited"
      OBVIOUS
    <3>1. result'[c] = IF c \in Abandoned THEN "false" ELSE result[c]
      BY <1>4 DEF StopCancel
    <3>2. result[c] = "awaited" => c \in Abandoned
      BY NamesAssumption DEF Abandoned, TransactionOK
    <3> QED BY <3>1, <3>2
  <2> QED BY <2>1, <2>2 DEF TransactionOK
<1>5. CASE UNCHANGED <<stage, owner>> /\ \A c \in Commands : result'[c] = "awaited" => result[c] = "awaited"
  BY <1>5 DEF TransactionOK
<1>6. ASSUME NEW o \in {"true", "false"}, Returns(o)
      PROVE  UNCHANGED <<stage, owner>> /\ \A c \in Commands : result'[c] = "awaited" => result[c] = "awaited"
  BY <1>6 DEF Returns, Settle, Resolve, lock, TypeOK
<1>7. CASE SendFails \/ Release
  BY <1>5, <1>6, <1>7 DEF SendFails, Release
<1>8. CASE Deadline
  BY <1>5, <1>8 DEF Deadline, lock, TypeOK
<1>9. CASE Take
  <2>1. \A c \in Commands : result'[c] = "awaited" => result[c] = "awaited"
    BY <1>9 DEF Take, Skip, Deny, Record, Transmit, TypeOK
  <2> QED BY <1>5, <1>9, <2>1 DEF Take, lock
<1>10. ASSUME \/ \E w \in Clients :
                   Connect(w) \/ Authenticated(w) \/ Reject(w) \/ DropSlow(w) \/ Leave(w)
              \/ SendRaw \/ RawTimeout \/ OwnEnds \/ StopBegin
              \/ \E s \in Own : OwnAsks(s)
              \/ \E r \in Commands \union Own : Reply(r) \/ Ignore(r) \/ ListItem(r)
       PROVE  UNCHANGED <<stage, owner, result>>
  BY <1>10 DEF Connect, Authenticated, Reject, DropSlow, Leave, Becomes, SendRaw, RawTimeout,
       OwnEnds, StopBegin, OwnAsks, Reply, Ignore, ListItem, lock
<1>11. CASE UNCHANGED <<stage, owner, result>>
  BY <1>11 DEF TransactionOK
<1>12. CASE Recorded \/ Report
  <2>1. \A c \in Commands : result'[c] = "awaited" => result[c] = "awaited"
    BY <1>12 DEF Recorded, Report, Settle, Resolve, TypeOK
  <2> QED BY <1>5, <1>12, <2>1 DEF Recorded, Report, lock
<1> QED BY <1>1, <1>2, <1>3, <1>4, <1>7, <1>8, <1>9, <1>10, <1>11, <1>12 DEF Next

-----------------------------------------------------------------------------
(* Voices *)

(* Steps that neither serve, tell nor answer. *)
LEMMA VoicesFrame ==
  ASSUME VoicesOK, UNCHANGED <<stage, owner, voices>>,
         \A c \in Commands : stage[c] \in {"serving", "done"} => (Listens(c)' => Listens(c)),
         owner # None => owner \in Commands /\ stage[owner] = "serving",
         owner # None /\ result'[owner] = "true" => received,
         answer' = "ok" /\ Holder' = owner => received,
         airing' = "sent" /\ worker' = owner => received
  PROVE  VoicesOK'
<1>1. OneVoice'
  BY DEF VoicesOK, OneVoice, voices
<1>2. owner' # None =>
        /\ owner' \notin errors'
        /\ Listens(owner)' => (received' <=> heard'[owner'] # {})
        /\ result'[owner'] = "true" => received'
  BY DEF VoicesOK, voices
<1>3. /\ answer' = "ok" /\ Holder' = owner' => received'
      /\ airing' = "sent" /\ worker' = owner' => received'
  BY DEF voices
<1> QED BY <1>1, <1>2, <1>3 DEF VoicesOK, voices

LEMMA BeginVoices == ASSUME TypeOK, PlacesOK, VoicesOK, Begin PROVE VoicesOK'
<1> DEFINE c == Head(line)
<1>1. /\ c \in Commands /\ stage[c] = "waiting" /\ owner' = c /\ received' = FALSE
      /\ heard' = heard /\ errors' = errors /\ answer' = answer /\ UNCHANGED clients
  BY Shortened DEF Begin, TypeOK, PlacesOK
<1>2. \A e \in Commands : stage'[e] = IF e = c THEN "serving" ELSE stage[e]
  BY <1>1 DEF TypeOK, Begin
<1>3. heard[c] = {} /\ c \notin errors
  BY <1>1 DEF VoicesOK
<1>4. result'[c] # "true"
  BY <1>1 DEF TypeOK, Begin, Refuse, Submit, Ask
<1>5. ASSUME answer' = "ok" PROVE Holder' # c
  <2>1. radio # << >> /\ radio \in Seq(Commands \union Own)
    BY <1>1, <1>5 DEF TypeOK, HoldsRaw
  <2>2. Head(radio) \in Elems(radio) /\ c \notin Elems(radio)
    BY <1>1, <2>1, First DEF PlacesOK
  <2>3. radio' = radio \/ radio' = Append(radio, c)
    BY DEF Begin, Refuse, Submit, Ask
  <2>4. Head(radio') = Head(radio)
    BY <1>1, <2>1, <2>3, Appended
  <2> QED BY <2>2, <2>4 DEF Holder
<1>6. OneVoice'
  BY <1>1, <1>2 DEF VoicesOK, OneVoice, Listens, clients
<1>7. worker' # c
  BY <1>1, NamesAssumption DEF Begin, PlacesOK, WorkerPlaced
<1> QED BY <1>1, <1>2, <1>3, <1>4, <1>5, <1>6, <1>7 DEF VoicesOK

LEMMA EndVoices == ASSUME TypeOK, TransactionOK, VoicesOK, End PROVE VoicesOK'
<1>1. /\ owner \in Commands /\ owner' = None /\ received' = received /\ heard' = heard
      /\ result' = result /\ UNCHANGED <<clients, answer, radio>>
  BY DEF End, TypeOK, limiter, adapter
<1>2. \A e \in Commands : stage'[e] = IF e = owner THEN "done" ELSE stage[e]
  BY DEF TypeOK, End
<1>3. \A e \in Commands : e # owner => (e \in errors' <=> e \in errors)
  BY DEF End
<1>4. stage[owner] = "serving" /\ owner # None
  BY <1>1 DEF TransactionOK, End
<1>5. Listens(owner) => (heard[owner] = {} <=> owner \in errors')
  BY <1>4 DEF VoicesOK, End, Unanswered
<1>6. OneVoice'
  BY <1>1, <1>2, <1>3, <1>5 DEF VoicesOK, OneVoice, Listens, clients
<1>7. \A e \in Commands : stage'[e] \in {"unsent", "waiting"} => heard'[e] = {} /\ e \notin errors'
  BY <1>1, <1>2, <1>3, <1>4 DEF VoicesOK
<1>8. answer' = "ok" => Holder' # None
  <2>1. answer = "ok" => Holder \in Commands
    BY DEF TypeOK, HoldsRaw
  <2> QED BY <1>1, <2>1, NamesAssumption DEF Holder
<1>9. airing' = "sent" => worker' # None
  BY DEF End, limiter, TypeOK
<1> QED BY <1>1, <1>6, <1>7, <1>8, <1>9 DEF VoicesOK

LEMMA ForwardedVoices ==
  ASSUME TypeOK, TransactionOK, VoicesOK, NEW r \in asked, Forwarded(r), answer = "awaited",
         UNCHANGED <<clients, lock, result, limiter, radio, errors>>
  PROVE  VoicesOK'
<1>1. /\ stage' = stage /\ owner' = owner /\ errors' = errors /\ result' = result
      /\ Holder' = Holder /\ worker' = worker /\ airing' = airing
  BY DEF lock, limiter, Holder
<1>2. \A e \in Commands : Listens(e)' <=> Listens(e)
  BY DEF Listens, clients
<1>3. Holder \in Commands /\ Holder # None
  BY NamesAssumption DEF TypeOK, HoldsRaw
<1>4. CASE owner = None
  <2>1. heard' = heard
    BY <1>4 DEF Forwarded
  <2>2. OneVoice'
    BY <1>1, <1>2, <2>1 DEF VoicesOK, OneVoice
  <2>3. Holder' # owner' /\ owner' = None /\ (airing' = "sent" => worker' # owner')
    BY <1>1, <1>3, <1>4 DEF TypeOK
  <2> QED BY <1>1, <2>1, <2>2, <2>3 DEF VoicesOK
<1>5. CASE owner # None
  <2>1. owner \in Commands /\ stage[owner] = "serving" /\ received' = TRUE
    BY <1>5 DEF TypeOK, TransactionOK, Forwarded
  <2>2. \A e \in Commands : e # owner => heard'[e] = heard[e]
    BY <2>1 DEF Forwarded, TypeOK
  <2>3. Listens(owner) => heard'[owner] # {}
    <3>1. ASSUME Listens(owner) PROVE heard'[owner] = heard[owner] \union {r}
      BY <1>5, <2>1, <3>1 DEF Forwarded, TypeOK
    <3> QED BY <3>1
  <2>4. OneVoice'
    BY <1>1, <1>2, <2>1, <2>2 DEF VoicesOK, OneVoice
  <2>5. \A e \in Commands : stage'[e] \in {"unsent", "waiting"} => heard'[e] = {} /\ e \notin errors'
    BY <1>1, <2>1, <2>2 DEF VoicesOK
  <2>6. owner' \notin errors' /\ (Listens(owner)' => (received' <=> heard'[owner'] # {}))
    BY <1>1, <1>2, <1>5, <2>1, <2>3 DEF VoicesOK
  <2> QED BY <2>1, <2>4, <2>5, <2>6 DEF VoicesOK
<1> QED BY <1>4, <1>5

LEMMA ConnVoices ==
  ASSUME TypeOK, PlacesOK, TransactionOK, VoicesOK, NEW w \in Clients,
         Connect(w) \/ Authenticated(w) \/ Reject(w) \/ DropSlow(w) \/ Leave(w)
  PROVE  VoicesOK'
<1>1. /\ UNCHANGED <<running, stage, owner, result, worker, airing, voices, answer, radio>>
      /\ \A v \in Clients : conn'[v] = "active" => conn[v] \in {"active", "pending"}
  BY DEF Connect, Authenticated, Reject, DropSlow, Leave, Becomes, lock, limiter, adapter, TypeOK
<1>2. \A c \in Commands : stage[c] \in {"serving", "done"} => (Listens(c)' => Listens(c))
  BY <1>1, CommandsAssumption DEF Listens, PlacesOK
<1>3. owner # None => owner \in Commands /\ stage[owner] = "serving"
  BY DEF TypeOK, TransactionOK
<1>4. owner # None /\ result'[owner] = "true" => received
  BY <1>1 DEF VoicesOK
<1>5. /\ answer' = "ok" /\ Holder' = owner => received
      /\ airing' = "sent" /\ worker' = owner => received
  BY <1>1 DEF VoicesOK, Holder
<1> QED BY <1>1, <1>2, <1>3, <1>4, <1>5, VoicesFrame

LEMMA ReturnsVoices ==
  ASSUME TypeOK, TransactionOK, VoicesOK, HoldsRaw, NEW o \in {"true", "false"}, Returns(o),
         o = "true" => answer = "ok", answer' = "none"
  PROVE  VoicesOK'
<1>1. UNCHANGED <<stage, owner, voices, running, conn>>
  BY DEF Returns, lock, clients
<1>2. owner # None => owner \in Commands /\ stage[owner] = "serving"
  BY DEF TypeOK, TransactionOK
<1>3. ASSUME owner # None, result'[owner] = "true" PROVE received
  <2>1. CASE result[owner] = "true"
    BY <1>3, <2>1 DEF VoicesOK
  <2>2. CASE result[owner] # "true"
    <3>1. Holder = owner /\ o = "true"
      BY <1>2, <1>3, <2>2 DEF Returns, Settle, Resolve, TypeOK
    <3> QED BY <3>1 DEF VoicesOK
  <2> QED BY <2>1, <2>2
<1>4. \A c \in Commands : Listens(c)' => Listens(c)
  BY <1>1 DEF Listens
<1>5. ASSUME airing' = "sent", worker' = owner PROVE received
  <2>1. CASE UNCHANGED <<worker, airing>>
    BY <1>5, <2>1 DEF VoicesOK
  <2>2. CASE Holder = worker /\ worker' = worker /\ o = "true"
    BY <1>5, <2>2 DEF VoicesOK
  <2> QED BY <1>5, <2>1, <2>2 DEF Returns, Settle
<1> QED BY <1>1, <1>2, <1>3, <1>4, <1>5, VoicesFrame

(* A step of the limiter that ends no outcome but one that was heard. *)
LEMMA LimiterVoices ==
  ASSUME TypeOK, TransactionOK, VoicesOK, UNCHANGED <<clients, lock, voices, answer>>,
         radio' = radio \/ \E c \in Commands : radio' = Append(radio, c),
         owner # None /\ result'[owner] = "true" => received,
         airing' = "sent" => UNCHANGED <<worker, airing>>
  PROVE  VoicesOK'
<1>1. UNCHANGED <<running, conn, stage, owner>>
  BY DEF clients, lock
<1>2. owner # None => owner \in Commands /\ stage[owner] = "serving"
  BY DEF TypeOK, TransactionOK
<1>3. ASSUME answer' = "ok", Holder' = owner PROVE received
  <2>1. radio # << >> /\ radio \in Seq(Commands \union Own) /\ answer = "ok"
    BY <1>3 DEF TypeOK, HoldsRaw
  <2>2. Holder' = Holder
    BY <2>1, Appended DEF Holder
  <2> QED BY <1>3, <2>1, <2>2 DEF VoicesOK
<1>4. \A c \in Commands : Listens(c)' => Listens(c)
  BY <1>1 DEF Listens
<1>5. airing' = "sent" /\ worker' = owner => received
  BY DEF VoicesOK
<1> QED BY <1>1, <1>2, <1>3, <1>4, <1>5, VoicesFrame

LEMMA StopCancelVoices ==
  ASSUME TypeOK, TransactionOK, VoicesOK, StopCancel
  PROVE  VoicesOK'
<1>1. /\ \A c \in Commands : ~Listens(c)'
      /\ \A c \in Commands : stage'[c] = "unsent" => stage[c] = "unsent"
      /\ \A c \in Commands : stage'[c] # "waiting"
      /\ owner' = None /\ heard' = heard /\ errors' = errors
  BY DEF StopCancel, Listens, voices
<1>2. OneVoice'
  BY <1>1 DEF OneVoice
<1>3. answer' = "ok" => Holder' # None
  <2>1. answer' = "ok" => HoldsRaw'
    BY StopCancelTyped DEF TypeOK
  <2> QED BY <2>1, NamesAssumption DEF HoldsRaw
<1>4. \A c \in Commands : stage'[c] \in {"unsent", "waiting"} => heard'[c] = {} /\ c \notin errors'
  BY <1>1 DEF VoicesOK
<1>5. airing' = "sent" => worker' # None
  BY DEF StopCancel, limiter, TypeOK
<1> QED BY <1>1, <1>2, <1>3, <1>4, <1>5 DEF VoicesOK

LEMMA VoicesStay ==
  ASSUME TypeOK, PlacesOK, TransactionOK, VoicesOK, Next
  PROVE  VoicesOK'
<1>1. owner # None => owner \in Commands /\ stage[owner] = "serving"
  BY DEF TypeOK, TransactionOK
<1>2. ASSUME NEW c \in Commands, Arrive(c) PROVE VoicesOK'
  <2>1. \A e \in Commands : stage'[e] = IF e = c THEN "waiting" ELSE stage[e]
    BY <1>2 DEF TypeOK, Arrive
  <2>2. /\ stage[c] = "unsent"
        /\ UNCHANGED <<running, conn, owner, result, worker, airing, answer, radio, voices>>
    BY <1>2 DEF Arrive, clients, limiter, adapter
  <2>3. OneVoice'
    BY <2>1, <2>2 DEF VoicesOK, OneVoice, Listens, voices
  <2>4. \A e \in Commands : stage'[e] \in {"unsent", "waiting"} => heard'[e] = {} /\ e \notin errors'
    BY <2>1, <2>2 DEF VoicesOK, voices
  <2> QED BY <2>2, <2>3, <2>4 DEF VoicesOK, Listens, Holder, voices
<1>3. CASE Take
  <2>1. owner # None /\ result'[owner] = "true" => received
    <3>1. owner # None /\ result'[owner] = "true" => result[owner] = "true"
      BY <1>1, <1>3 DEF Take, Skip, Deny, Record, Transmit, TypeOK
    <3> QED BY <3>1 DEF VoicesOK
  <2>2. radio' = radio \/ \E c \in Commands : radio' = Append(radio, c)
    BY <1>3, Shortened, CommandsAssumption DEF Take, Skip, Deny, Record, Transmit, TypeOK
  <2>3. airing' = "sent" => UNCHANGED <<worker, airing>>
    BY <1>3 DEF Take, Skip, Deny, Record, Transmit
  <2>4. UNCHANGED <<clients, lock, voices, answer>>
    BY <1>3 DEF Take
  <2> QED BY <2>1, <2>2, <2>3, <2>4, LimiterVoices
<1>13. CASE Recorded
  <2>1. owner # None /\ result'[owner] = "true" => received
    <3>1. owner # None /\ result'[owner] = "true" => result[owner] = "true"
      BY <1>1, <1>13 DEF Recorded, Settle, Resolve, TypeOK
    <3> QED BY <3>1 DEF VoicesOK
  <2>2. radio' = radio \/ \E c \in Commands : radio' = Append(radio, c)
    BY <1>13, CommandsAssumption DEF Recorded, TypeOK
  <2>3. airing' # "sent"
    BY <1>13 DEF Recorded, Settle
  <2>4. UNCHANGED <<clients, lock, voices, answer>>
    BY <1>13 DEF Recorded
  <2> QED BY <2>1, <2>2, <2>3, <2>4, LimiterVoices
<1>14. CASE Report
  <2>1. owner # None /\ result'[owner] = "true" => received
    <3>1. ASSUME owner # None, result'[owner] = "true", result[owner] # "true"
          PROVE  worker = owner /\ airing = "sent"
      BY <1>1, <1>14, <3>1 DEF Report, Settle, Resolve, TypeOK
    <3> QED BY <3>1 DEF VoicesOK
  <2>2. radio' = radio /\ UNCHANGED <<clients, lock, voices, answer>> /\ airing' = "idle"
    BY <1>14 DEF Report, Settle, adapter
  <2> QED BY <2>1, <2>2, LimiterVoices
<1>4. CASE SendFails
  BY <1>4, ReturnsVoices DEF SendFails
<1>5. CASE Release
  <2>1. HoldsRaw
    BY <1>5 DEF Release, TypeOK
  <2> QED BY <1>5, <2>1, ReturnsVoices DEF Release
<1>6. ASSUME UNCHANGED <<conn, stage, owner, worker, airing, voices>>, running' => running,
             owner # None /\ result'[owner] = "true" => result[owner] = "true",
             answer' = "ok" => answer = "ok" /\ Holder' = Holder
      PROVE  VoicesOK'
  <2>1. \A c \in Commands : Listens(c)' => Listens(c)
    BY <1>6 DEF Listens
  <2>2. owner # None /\ result'[owner] = "true" => received
    BY <1>6 DEF VoicesOK
  <2>3. /\ answer' = "ok" /\ Holder' = owner => received
        /\ airing' = "sent" /\ worker' = owner => received
    BY <1>6 DEF VoicesOK
  <2> QED BY <1>1, <1>6, <2>1, <2>2, <2>3, VoicesFrame
<1>7. CASE Deadline
  <2>1. owner # None /\ result'[owner] = "true" => result[owner] = "true"
    BY <1>7 DEF Deadline, TypeOK
  <2> QED BY <1>6, <1>7, <2>1 DEF Deadline, clients, lock, limiter, adapter, Holder
<1>8. CASE SendRaw \/ RawTimeout \/ StopBegin
  BY <1>6, <1>8 DEF SendRaw, RawTimeout, StopBegin, clients, lock, limiter, adapter, Holder
<1>9. ASSUME NEW s \in Own, OwnAsks(s) PROVE VoicesOK'
  <2>1. answer' = "ok" => Holder' = Holder
    BY <1>9, Appended DEF OwnAsks, TypeOK, HoldsRaw, Holder
  <2> QED BY <1>6, <1>9, <2>1 DEF OwnAsks, clients, lock, limiter
<1>10. CASE OwnEnds
  <2>1. answer = "none"
    BY <1>10, NamesAssumption DEF OwnEnds, TypeOK, HoldsRaw
  <2> QED BY <1>6, <1>10, <2>1 DEF OwnEnds, clients, lock, limiter
<1>11. ASSUME NEW r \in Commands \union Own, Reply(r) \/ ListItem(r) PROVE VoicesOK'
  <2>1. /\ r \in asked /\ Forwarded(r) /\ answer = "awaited"
        /\ UNCHANGED <<clients, lock, result, limiter, radio, errors>>
    BY <1>11 DEF Reply, ListItem, adapter
  <2> QED BY <2>1, ForwardedVoices
<1>12. ASSUME NEW r \in Commands \union Own, Ignore(r) PROVE VoicesOK'
  BY <1>6, <1>12 DEF Ignore, clients, lock, limiter, Holder
<1> QED
  BY <1>2, <1>3, <1>4, <1>5, <1>7, <1>8, <1>9, <1>10, <1>11, <1>12, <1>13, <1>14,
     ConnVoices, BeginVoices, EndVoices, StopCancelVoices DEF Next

(* A command joins those who wait for the radio. *)
LEMMA Joined ==
  ASSUME TypeOK, NEW c \in Commands
  PROVE  /\ Elems(Append(radio, c)) = Elems(radio) \union {c}
         /\ radio # << >> => Head(Append(radio, c)) = Head(radio)
<1>1. radio \in Seq(Commands \union Own) /\ c \in Commands \union Own
  BY DEF TypeOK
<1> QED BY <1>1, Appended

-----------------------------------------------------------------------------
(* Lapses *)

LEMMA LapsesStay ==
  ASSUME TypeOK, PlacesOK, TransactionOK, LapsesOK, Next
  PROVE  LapsesOK'
<1>1. ASSUME NEW c \in Commands, Arrive(c) PROVE LapsesOK'
  <2>1. UNCHANGED <<result, worker, radio, lapsed>>
    BY <1>1 DEF Arrive, limiter, adapter
  <2>2. \A e \in Commands : stage[e] \in {"serving", "done"} => stage'[e] \in {"serving", "done"}
    BY <1>1 DEF TypeOK, Arrive
  <2> QED BY <2>1, <2>2 DEF LapsesOK
<1>2. CASE Begin
  <2> DEFINE c == Head(line)
  <2>1. c \in Commands /\ stage[c] = "waiting"
    BY <1>2, Shortened DEF Begin, TypeOK, PlacesOK
  <2>2. \A e \in Commands : stage'[e] = IF e = c THEN "serving" ELSE stage[e]
    BY <1>2, <2>1 DEF TypeOK, Begin
  <2>3. \A e \in Commands : e # c => result'[e] = result[e]
    BY <1>2, <2>1 DEF TypeOK, Begin, Refuse, Submit, Ask
  <2>4. Elems(radio) \subseteq Elems(radio')
    <3>1. radio' = radio \/ radio' = Append(radio, c)
      BY <1>2 DEF Begin, Refuse, Submit, Ask
    <3> QED BY <2>1, <3>1, Joined
  <2>5. lapsed' = lapsed /\ c \notin lapsed /\ worker' = worker
    BY <1>2, <2>1 DEF Begin, LapsesOK
  <2> QED BY <2>1, <2>2, <2>3, <2>4, <2>5 DEF LapsesOK
<1>3. CASE End
  <2>1. \A e \in Commands : stage'[e] = IF e = owner THEN "done" ELSE stage[e]
    BY <1>3 DEF TypeOK, End
  <2> QED BY <1>3, <2>1 DEF LapsesOK, End, limiter, adapter
<1>4. CASE StopCancel
  <2>1. \A c \in Commands : result'[c] # "awaited"
    <3> SUFFICES ASSUME NEW c \in Commands PROVE result'[c] # "awaited"
      OBVIOUS
    <3>1. result'[c] = IF c \in Abandoned THEN "false" ELSE result[c]
      BY <1>4 DEF StopCancel
    <3>2. result[c] = "awaited" => c \in Abandoned
      BY NamesAssumption DEF Abandoned, TransactionOK
    <3> QED BY <3>1, <3>2
  <2>2. \A c \in Commands : stage[c] \in {"serving", "done"} => stage'[c] = "done"
    BY <1>4 DEF StopCancel
  <2>3. \A c \in Abandoned : c \in Commands /\ stage[c] = "serving"
    BY DEF Abandoned, TypeOK, TransactionOK
  <2>4. lapsed' = lapsed \union Abandoned
    BY <1>4 DEF StopCancel
  <2> QED BY <2>1, <2>2, <2>3, <2>4 DEF LapsesOK
<1>5. CASE Deadline
  <2>1. owner \in Commands /\ stage[owner] = "serving"
    BY <1>5, CommandsAssumption, NamesAssumption DEF Deadline, TransactionOK
  <2>2. \A e \in Commands : result'[e] = IF e = owner THEN "false" ELSE result[e]
    BY <1>5, <2>1 DEF Deadline, TypeOK
  <2> QED BY <1>5, <2>1, <2>2 DEF LapsesOK, Deadline, lock, limiter, adapter
<1>6. CASE Take
  <2>1. UNCHANGED <<stage, lapsed>> /\ worker = None
    BY <1>6 DEF Take, lock
  <2>2. \A c \in Commands : result'[c] = "awaited" => result[c] = "awaited"
    BY <1>6 DEF Take, Skip, Deny, Record, Transmit, TypeOK
  <2>3. Elems(radio) \subseteq Elems(radio')
    <3>1. Head(txq) \in Commands
      BY <1>6, Shortened, CommandsAssumption DEF Take, TypeOK
    <3>2. radio' = radio \/ radio' = Append(radio, Head(txq))
      BY <1>6 DEF Take, Skip, Deny, Record, Transmit
    <3> QED BY <3>1, <3>2, Joined
  <2> QED BY <2>1, <2>2, <2>3, NamesAssumption DEF LapsesOK
<1>15. ASSUME UNCHANGED <<stage, lapsed>>, Elems(radio) \subseteq Elems(radio') \union {worker},
              NEW o \in {"true", "false"}, Settle(o)
       PROVE  LapsesOK'
  <2>1. \A c \in Commands : result'[c] = "awaited" => result[c] = "awaited" /\ c # worker
    BY <1>15 DEF Settle, Resolve, Cancelled, TypeOK
  <2> QED BY <1>15, <2>1 DEF LapsesOK
<1>16. CASE Recorded
  <2>1. UNCHANGED <<stage, lapsed>>
    BY <1>16 DEF Recorded, lock
  <2>2. CASE airing' = "sending" /\ radio' = Append(radio, worker) /\ UNCHANGED <<result, worker>>
    <3>1. worker \in Commands
      BY <1>16, CommandsAssumption DEF Recorded, TypeOK
    <3>2. Elems(radio) \subseteq Elems(radio')
      BY <2>2, <3>1, Joined
    <3> QED BY <2>1, <2>2, <3>2 DEF LapsesOK
  <2>3. CASE UNCHANGED <<result, worker, radio>>
    BY <2>1, <2>3 DEF LapsesOK
  <2>4. CASE Settle("false") /\ UNCHANGED radio
    BY <1>15, <2>1, <2>4
  <2> QED BY <1>16, <2>2, <2>3, <2>4 DEF Recorded
<1>17. CASE Report
  <2>1. UNCHANGED <<stage, lapsed, radio>>
    BY <1>17 DEF Report, lock, adapter
  <2> QED BY <1>15, <1>17, <2>1 DEF Report
<1>7. ASSUME HoldsRaw, NEW o \in {"true", "false"}, Returns(o) PROVE LapsesOK'
  <2>1. UNCHANGED <<stage, lapsed>>
    BY <1>7 DEF Returns, lock
  <2>2. Elems(radio) = Elems(radio') \union {Holder}
    BY <1>7, Shortened DEF HoldsRaw, Returns, Holder, TypeOK
  <2>3. CASE Holder # worker /\ Resolve(Holder, o) /\ UNCHANGED <<worker, airing>>
    <3>1. \A c \in Commands : result'[c] = "awaited" => result[c] = "awaited" /\ c # Holder
      BY <1>7, <2>3 DEF Resolve, Cancelled, HoldsRaw, TypeOK
    <3> QED BY <2>1, <2>2, <2>3, <3>1 DEF LapsesOK
  <2>4. CASE Holder = worker /\ Settle(o)
    BY <1>15, <2>1, <2>2, <2>4
  <2>5. CASE Holder = worker /\ UNCHANGED <<result, worker>>
    BY <2>1, <2>2, <2>5 DEF LapsesOK
  <2> QED BY <1>7, <2>3, <2>4, <2>5 DEF Returns
<1>8. CASE SendFails
  BY <1>7, <1>8 DEF SendFails
<1>9. CASE Release
  <2>1. HoldsRaw
    BY <1>9 DEF Release, TypeOK
  <2> QED BY <1>7, <1>9, <2>1 DEF Release
<1>10. CASE RawTimeout
  <2>1. HoldsRaw
    BY <1>10 DEF RawTimeout, TypeOK
  <2>2. Holder \in Elems(radio) /\ Holder \in Commands /\ stage[Holder] \in {"serving", "done"}
    BY <2>1, First DEF HoldsRaw, Holder, TypeOK, PlacesOK
  <2> QED BY <1>10, <2>2 DEF LapsesOK, RawTimeout, lock, limiter
<1>11. ASSUME NEW s \in Own, OwnAsks(s) PROVE LapsesOK'
  <2>1. Elems(radio) \subseteq Elems(radio')
    BY <1>11, Appended DEF OwnAsks, TypeOK
  <2> QED BY <1>11, <2>1 DEF LapsesOK, OwnAsks, lock, limiter
<1>12. CASE OwnEnds
  <2>1. Elems(radio) = Elems(radio') \union {Holder} /\ Holder \notin Commands
    BY <1>12, Shortened, NamesAssumption DEF OwnEnds, Holder, TypeOK
  <2>2. \A c \in lapsed' : c \in Commands => c \in lapsed
    BY <1>12, <2>1 DEF OwnEnds
  <2> QED BY <1>12, <2>1, <2>2 DEF LapsesOK, OwnEnds, lock, limiter
<1>13. ASSUME \/ \E w \in Clients :
                   Connect(w) \/ Authenticated(w) \/ Reject(w) \/ DropSlow(w) \/ Leave(w)
              \/ SendRaw \/ StopBegin
              \/ \E r \in Commands \union Own : Reply(r) \/ Ignore(r) \/ ListItem(r)
       PROVE  UNCHANGED <<stage, result, worker, radio, lapsed>>
  BY <1>13 DEF Connect, Authenticated, Reject, DropSlow, Leave, Becomes, SendRaw, StopBegin,
       Reply, Ignore, ListItem, lock, limiter, adapter
<1>14. CASE UNCHANGED <<stage, result, worker, radio, lapsed>>
  BY <1>14 DEF LapsesOK
<1> QED
  BY <1>1, <1>2, <1>3, <1>4, <1>5, <1>6, <1>8, <1>9, <1>10, <1>11, <1>12, <1>13, <1>14, <1>16,
     <1>17 DEF Next

-----------------------------------------------------------------------------
(* Replies *)

LEMMA RepliesStay ==
  ASSUME TypeOK, PlacesOK, TransactionOK, VoicesOK, RepliesOK, Next
  PROVE  RepliesOK'
<1> SUFFICES ASSUME lapsed' = {}
             PROVE  /\ \A c \in Commands : heard'[c] \subseteq {c}
                    /\ \A r \in asked' : answer' = "awaited" /\ r = Holder'
                    /\ \A c \in Elems(radio') : c \in Commands => result'[c] = "awaited"
                    /\ worker' # None => result'[worker'] = "awaited"
  BY DEF RepliesOK
<1>0. lapsed = {}
  BY DEF Next, Connect, Authenticated, Reject, DropSlow, Leave, Becomes, Arrive, Begin, Deadline,
     End, Take, Recorded, Report, SendRaw, SendFails, RawTimeout, Release, Returns, OwnEnds, OwnAsks, Reply, Ignore,
     ListItem, StopBegin, StopCancel
<1>1. /\ \A c \in Commands : heard[c] \subseteq {c}
      /\ \A r \in asked : answer = "awaited" /\ r = Holder
      /\ \A c \in Elems(radio) : c \in Commands => result[c] = "awaited"
      /\ worker # None => result[worker] = "awaited"
  BY <1>0 DEF RepliesOK
<1>2. CASE Begin
  <2> DEFINE c == Head(line)
  <2>1. c \in Commands /\ c \notin Elems(radio)
    BY <1>2, Shortened DEF Begin, TypeOK, PlacesOK
  <2>2. \A e \in Commands : e # c => result'[e] = result[e]
    BY <1>2, <2>1 DEF TypeOK, Begin, Refuse, Submit, Ask
  <2>3. radio' = radio \/ (radio' = Append(radio, c) /\ result'[c] = "awaited")
    BY <1>2, <2>1 DEF Begin, Refuse, Submit, Ask, TypeOK
  <2>4. \A e \in Elems(radio') : e \in Commands => result'[e] = "awaited"
    <3>1. Elems(Append(radio, c)) = Elems(radio) \union {c}
      BY <2>1, Joined
    <3>2. \A e \in Elems(radio) : e \in Commands => result'[e] = "awaited"
      BY <1>1, <2>1, <2>2
    <3> QED BY <2>3, <3>1, <3>2
  <2>5. radio # << >> => Holder' = Holder
    BY <2>1, <2>3, Joined DEF Holder
  <2>6. answer = "awaited" => radio # << >>
    BY DEF TypeOK, HoldsRaw
  <2>7. worker' # None => result'[worker'] = "awaited"
    <3>1. worker # None => worker \in Commands /\ stage[worker] # "waiting"
      BY CommandsAssumption DEF TypeOK, PlacesOK, WorkerPlaced
    <3>2. worker # None => worker # c
      BY <1>2, <3>1, Shortened DEF Begin, TypeOK, PlacesOK
    <3> QED BY <1>1, <1>2, <2>2, <3>1, <3>2 DEF Begin
  <2> QED BY <1>1, <1>2, <2>4, <2>5, <2>6, <2>7 DEF Begin
<1>3. CASE Take
  <2> DEFINE c == Head(txq)
  <2>1. c \in Commands /\ c \notin Elems(radio)
    BY <1>3, Shortened, CommandsAssumption DEF Take, TypeOK, PlacesOK
  <2>2. \A e \in Commands : e # c => result'[e] = result[e]
    BY <1>3, <2>1 DEF TypeOK, Take, Skip, Deny, Record, Transmit
  <2>3. radio' = radio \/ (radio' = Append(radio, c) /\ result'[c] = "awaited")
    <3>1. Skip(c) \/ Deny(c) \/ Record(c) \/ Transmit(c)
      BY <1>3 DEF Take
    <3>2. ASSUME Transmit(c) PROVE radio' = Append(radio, c) /\ result'[c] = "awaited"
      BY <3>2 DEF Transmit, Cancelled
    <3> QED BY <3>1, <3>2 DEF Skip, Deny, Record
  <2>4. \A e \in Elems(radio') : e \in Commands => result'[e] = "awaited"
    <3>1. Elems(Append(radio, c)) = Elems(radio) \union {c}
      BY <2>1, Joined
    <3>2. \A e \in Elems(radio) : e \in Commands => result'[e] = "awaited"
      BY <1>1, <2>1, <2>2
    <3> QED BY <2>3, <3>1, <3>2
  <2>5. radio # << >> => Holder' = Holder
    BY <2>1, <2>3, Joined DEF Holder
  <2>6. answer = "awaited" => radio # << >>
    BY DEF TypeOK, HoldsRaw
  <2>7. worker' # None => result'[worker'] = "awaited"
    BY <1>3 DEF Take, Skip, Deny, Record, Transmit, Cancelled
  <2> QED BY <1>1, <1>3, <2>4, <2>5, <2>6, <2>7 DEF Take, voices
<1>4. ASSUME HoldsRaw, answer # "awaited", NEW o \in {"true", "false"}, Returns(o) PROVE
        /\ \A c \in Commands : heard'[c] \subseteq {c}
        /\ \A r \in asked' : answer' = "awaited" /\ r = Holder'
        /\ \A c \in Elems(radio') : c \in Commands => result'[c] = "awaited"
        /\ worker' # None => result'[worker'] = "awaited"
  <2>1. Elems(radio) = Elems(radio') \union {Holder} /\ Holder \notin Elems(radio')
    BY <1>4, Shortened DEF HoldsRaw, Returns, Holder, TypeOK, PlacesOK
  <2>2. \A c \in Commands : c # Holder => result'[c] = result[c]
    BY <1>4 DEF Returns, Settle, Resolve, TypeOK
  <2>3. worker' # None => result'[worker'] = "awaited"
    <3>1. worker # None => worker \in Commands
      BY CommandsAssumption DEF TypeOK
    <3> QED BY <1>1, <1>4, <2>2, <3>1 DEF Returns, Settle
  <2> QED BY <1>1, <1>4, <2>1, <2>2, <2>3 DEF Returns, voices
<1>5. CASE SendFails
  BY <1>4, <1>5 DEF SendFails
<1>6. CASE Release
  <2>1. HoldsRaw
    BY <1>6 DEF Release, TypeOK
  <2> QED BY <1>4, <1>6, <2>1 DEF Release
<1>7. CASE SendRaw
  <2>1. asked = {}
    BY <1>1, <1>7 DEF SendRaw
  <2> QED BY <1>1, <1>7, <2>1 DEF SendRaw, limiter, voices, Holder
<1>8. ASSUME NEW s \in Own, OwnAsks(s) PROVE
        /\ \A c \in Commands : heard'[c] \subseteq {c}
        /\ \A r \in asked' : answer' = "awaited" /\ r = Holder'
        /\ \A c \in Elems(radio') : c \in Commands => result'[c] = "awaited"
        /\ worker' # None => result'[worker'] = "awaited"
  <2>1. Elems(radio') = Elems(radio) \union {s} /\ s \notin Commands
    BY <1>8, Appended, NamesAssumption DEF OwnAsks, TypeOK
  <2>2. answer = "awaited" => Holder' = Holder
    BY <1>8, Appended DEF OwnAsks, TypeOK, HoldsRaw, Holder
  <2> QED BY <1>1, <1>8, <2>1, <2>2 DEF OwnAsks, limiter, voices
<1>9. CASE OwnEnds
  <2>1. answer = "none"
    BY <1>9, NamesAssumption DEF OwnEnds, TypeOK, HoldsRaw
  <2>2. asked = {} /\ asked' = asked
    BY <1>1, <1>9, <2>1 DEF OwnEnds
  <2>3. Elems(radio') \subseteq Elems(radio)
    BY <1>9, Shortened DEF OwnEnds, TypeOK
  <2> QED BY <1>1, <1>9, <2>2, <2>3 DEF OwnEnds, limiter, voices
<1>10. ASSUME NEW r \in Commands \union Own, Reply(r) \/ ListItem(r) PROVE
         /\ \A c \in Commands : heard'[c] \subseteq {c}
         /\ \A e \in asked' : answer' = "awaited" /\ e = Holder'
         /\ \A c \in Elems(radio') : c \in Commands => result'[c] = "awaited"
         /\ worker' # None => result'[worker'] = "awaited"
  <2>1. /\ r \in asked /\ Forwarded(r) /\ answer = "awaited" /\ UNCHANGED <<radio, result, worker>>
        /\ \/ asked' = asked \ {r}
           \/ asked' = asked /\ answer' = answer
    BY <1>10 DEF Reply, ListItem, limiter, adapter
  <2>2. r = Holder /\ Holder \in Commands /\ Holder \in Elems(radio)
    BY <1>1, <2>1, First DEF TypeOK, HoldsRaw, Holder
  <2>3. r = owner
    BY <1>1, <2>2 DEF TransactionOK
  <2>4. \A c \in Commands : heard'[c] \subseteq {c}
    BY <1>1, <2>1, <2>3 DEF Forwarded, TypeOK
  <2>5. \A e \in asked' : answer' = "awaited" /\ e = Holder'
    BY <1>1, <2>1, <2>2 DEF Holder
  <2> QED BY <1>1, <2>1, <2>4, <2>5
<1>11. ASSUME NEW r \in Commands \union Own, Ignore(r) PROVE
         /\ \A c \in Commands : heard'[c] \subseteq {c}
         /\ \A e \in asked' : answer' = "awaited" /\ e = Holder'
         /\ \A c \in Elems(radio') : c \in Commands => result'[c] = "awaited"
         /\ worker' # None => result'[worker'] = "awaited"
  BY <1>1, <1>11 DEF Ignore, limiter, voices, Holder
<1>12. CASE StopCancel
  <2>1. Abandoned = {} /\ heard' = heard /\ asked' = asked
    BY <1>12 DEF StopCancel, voices
  <2>2. \A c \in Elems(radio) : c \notin Commands
    <3> SUFFICES ASSUME NEW c \in Elems(radio), c \in Commands PROVE FALSE
      OBVIOUS
    <3>1. result[c] = "awaited" /\ c = owner /\ c # None
      BY <1>1, NamesAssumption DEF TransactionOK
    <3> QED BY <2>1, <3>1 DEF Abandoned
  <2>3. answer = "none"
    <3>1. radio # << >> => Holder \in Elems(radio)
      BY First DEF TypeOK, Holder
    <3> QED BY <2>2, <3>1 DEF TypeOK, HoldsRaw
  <2>4. Elems(radio') \subseteq Elems(radio)
    BY <1>12, StopCancelPlaces
  <2>5. worker' # None => result'[worker'] = "awaited"
    <3>1. worker' = worker /\ (worker # None => worker \in Commands)
      BY <1>12, CommandsAssumption DEF StopCancel, limiter, TypeOK
    <3> QED BY <1>1, <1>12, <2>1, <3>1 DEF StopCancel
  <2> QED BY <1>1, <2>1, <2>2, <2>3, <2>4, <2>5
<1>13. CASE Deadline \/ RawTimeout
  BY <1>13 DEF Deadline, RawTimeout
<1>14. ASSUME \/ \E w \in Clients :
                   Connect(w) \/ Authenticated(w) \/ Reject(w) \/ DropSlow(w) \/ Leave(w)
              \/ \E c \in Commands : Arrive(c)
              \/ End \/ StopBegin
       PROVE  UNCHANGED <<heard, asked, answer, radio, result, worker>>
  BY <1>14 DEF Connect, Authenticated, Reject, DropSlow, Leave, Becomes, Arrive, End, StopBegin,
       limiter, adapter, voices
<1>15. CASE UNCHANGED <<heard, asked, answer, radio, result, worker>>
  BY <1>1, <1>15 DEF Holder
<1>16. CASE Recorded
  <2>1. worker \in Commands /\ worker # None
    BY <1>16, CommandsAssumption DEF Recorded, TypeOK
  <2>2. worker \notin Elems(radio)
    BY <1>16, <2>1 DEF Recorded, PlacesOK, WorkerPlaced
  <2>3. UNCHANGED <<heard, asked, answer>>
    BY <1>16 DEF Recorded, voices
  <2>4. answer = "awaited" => radio # << >>
    BY DEF TypeOK, HoldsRaw
  <2>5. CASE radio' = Append(radio, worker) /\ UNCHANGED <<result, worker>>
    BY <1>1, <2>1, <2>3, <2>4, <2>5, Joined DEF Holder
  <2>6. CASE UNCHANGED <<result, worker, radio>>
    BY <1>1, <2>3, <2>6 DEF Holder
  <2>7. CASE Settle("false") /\ UNCHANGED radio
    <3>1. worker' = None /\ \A c \in Commands : c # worker => result'[c] = result[c]
      BY <2>7 DEF Settle, Resolve, TypeOK
    <3> QED BY <1>1, <2>2, <2>3, <2>7, <3>1 DEF Holder
  <2> QED BY <1>16, <2>5, <2>6, <2>7 DEF Recorded
<1>17. CASE Report
  <2>1. worker \in Commands /\ worker \notin Elems(radio)
    BY <1>17, CommandsAssumption DEF Report, TypeOK, PlacesOK, WorkerPlaced
  <2>2. worker' = None /\ \A c \in Commands : c # worker => result'[c] = result[c]
    BY <1>17 DEF Report, Settle, Resolve, TypeOK
  <2>3. UNCHANGED <<heard, asked, answer, radio>>
    BY <1>17 DEF Report, voices, adapter
  <2> QED BY <1>1, <2>1, <2>2, <2>3 DEF Holder
<1> QED
  BY <1>2, <1>3, <1>5, <1>6, <1>7, <1>8, <1>9, <1>10, <1>11, <1>12, <1>13, <1>14, <1>15,
     <1>16, <1>17 DEF Next

-----------------------------------------------------------------------------
(* The invariant and the theorems *)

LEMMA Inductive == ASSUME IInv, [Next]_vars PROVE IInv'
<1>1. CASE Next
  BY <1>1, TypesStay, RoomStays, PlacesStay, TransactionStays, VoicesStay, LapsesStay, RepliesStay
     DEF IInv
<1>2. CASE UNCHANGED vars
  BY <1>2, Stuttering
<1> QED BY <1>1, <1>2

LEMMA Invariance == Spec => []IInv
BY Initially, Inductive, PTL DEF Spec

(* The state of the proxy, of its connections and of the adapter is well    *)
(* typed, and only a command that holds the lock of the radio awaits a      *)
(* reply (tcp_companion_server.py, sdk_adapter.py).                         *)
THEOREM ProxyTyped == Spec => []TypeOK
<1>1. IInv => TypeOK
  BY DEF IInv
<1> QED BY <1>1, Invariance, PTL

(* The second check of the limit, after the token, never turns a client     *)
(* away (_handle_client).                                                   *)
THEOREM InvitedAreAdmitted == Spec => []InvitedHaveRoom
<1>1. IInv => InvitedHaveRoom
  <2> SUFFICES ASSUME RoomOK, Pending # {} PROVE Cardinality(Active) < MaxClients
    BY DEF IInv, InvitedHaveRoom
  <2>1. PICK w : w \in Pending
    OBVIOUS
  <2>2. /\ IsFiniteSet(Pending \ {w})
        /\ Cardinality(Pending \ {w}) = Cardinality(Pending) - 1
    BY <2>1, Counted, FS_RemoveElement
  <2>3. Cardinality(Pending \ {w}) \in Nat
    BY <2>2, FS_CardinalityType
  <2> QED BY <2>2, <2>3, Counted, LimitAssumption DEF RoomOK
<1> QED BY <1>1, Invariance, PTL

(* A client that stays hears the radio or the server about each of its      *)
(* commands, never neither and never the server after the radio             *)
(* (_dispatch_companion_command).                                           *)
THEOREM CommandsHaveOneVoice == Spec => []OneVoice
<1>1. IInv => OneVoice
  BY DEF IInv, VoicesOK
<1> QED BY <1>1, Invariance, PTL

(* Before anything is given up each reply goes to the sender of its command *)
(* (_observe_companion_frame, on_raw_companion_frame_rx).                   *)
THEOREM RepliesFindTheirOwner == Spec => []StraysFollowALapse
<1>1. IInv => StraysFollowALapse
  BY DEF IInv, RepliesOK, StraysFollowALapse
<1> QED BY <1>1, Invariance, PTL

(* What was given up in the queue of the limiter is not taken from it any   *)
(* more, and what was given up anywhere joins the line of the radio only if *)
(* the limiter had it in hand already, in the await that records a message  *)
(* (_worker_loop, _execute_tx_transmission).                                *)
THEOREM GivenUpStaysUnsent == Spec => GivenUpIsNotSent
<1> DEFINE Unsent(c) ==
      /\ worker' = c => worker = c
      /\ Contains(radio', c) => Contains(radio, c) \/ worker = c
<1>1. ASSUME IInv, [Next]_vars
      PROVE  [\A c \in lapsed \ Own : Unsent(c)]_vars
  <2>0. /\ TypeOK /\ PlacesOK /\ LapsesOK /\ TypeOK'
    BY <1>1, Inductive DEF IInv
  <2> SUFFICES ASSUME Next, NEW c \in lapsed \ Own PROVE Unsent(c)
    BY <1>1
  <2>1. c \in Commands /\ c # None
    BY <2>0, NamesAssumption DEF TypeOK
  <2>2. /\ Contains(radio, c) <=> c \in Elems(radio)
        /\ Contains(radio', c) <=> c \in Elems(radio')
    BY <2>0, Contained DEF TypeOK
  <2> SUFFICES /\ worker' = c => worker = c
               /\ c \in Elems(radio') => c \in Elems(radio) \/ worker = c
    BY <2>2
  <2> HIDE DEF Unsent
  <2>3. CASE Begin
    <3>1. Head(line) \in Commands /\ stage[Head(line)] = "waiting"
      BY <2>0, <2>3, Shortened DEF Begin, TypeOK, PlacesOK
    <3>2. c # Head(line)
      BY <2>0, <2>1, <3>1 DEF LapsesOK
    <3>3. (radio' = radio \/ radio' = Append(radio, Head(line))) /\ worker' = worker
      BY <2>3 DEF Begin, Refuse, Submit, Ask
    <3> QED BY <2>0, <3>1, <3>2, <3>3, Joined
  <2>4. CASE Take
    <3>1. Head(txq) \in Commands /\ Head(txq) \notin Elems(radio) /\ worker = None
      BY <2>0, <2>4, Shortened, CommandsAssumption DEF Take, TypeOK, PlacesOK
    <3>2. \/ UNCHANGED <<worker, radio>>
          \/ /\ worker' = Head(txq) /\ result[Head(txq)] = "awaited"
             /\ radio' = radio \/ radio' = Append(radio, Head(txq))
      BY <2>4 DEF Take, Skip, Deny, Record, Transmit, Cancelled
    <3>3. result[Head(txq)] = "awaited" => c # Head(txq)
      BY <2>0, <2>1, <3>1, NamesAssumption DEF LapsesOK
    <3> QED BY <2>0, <2>1, <3>1, <3>2, <3>3, Joined
  <2>5. CASE Recorded
    <3>1. worker \in Commands
      BY <2>0, <2>5, CommandsAssumption DEF Recorded, TypeOK
    <3>2. radio' = radio \/ radio' = Append(radio, worker)
      BY <2>5 DEF Recorded
    <3>3. worker' \in {worker, None}
      BY <2>5 DEF Recorded, Settle
    <3> QED BY <2>0, <2>1, <3>1, <3>2, <3>3, Joined
  <2>6. ASSUME NEW s \in Own, OwnAsks(s) PROVE worker' = worker /\ (c \in Elems(radio') => c \in Elems(radio))
    <3>1. Elems(radio') = Elems(radio) \union {s} /\ worker' = worker
      BY <2>0, <2>6, Appended DEF TypeOK, OwnAsks, limiter
    <3> QED BY <2>1, <3>1
  <2>7. CASE StopCancel
    BY <2>0, <2>7, StopCancelPlaces DEF StopCancel, limiter
  <2>8. CASE SendFails \/ Release \/ OwnEnds
    <3>1. radio # << >> /\ radio' = Tail(radio)
      BY <2>0, <2>8 DEF SendFails, Release, Returns, OwnEnds, TypeOK, HoldsRaw
    <3>2. worker' \in {worker, None}
      BY <2>8 DEF SendFails, Release, Returns, Settle, OwnEnds, limiter
    <3> QED BY <2>0, <2>1, <3>1, <3>2, Shortened DEF TypeOK
  <2>9. ASSUME \/ \E w \in Clients :
                    Connect(w) \/ Authenticated(w) \/ Reject(w) \/ DropSlow(w) \/ Leave(w)
               \/ \E e \in Commands : Arrive(e)
               \/ Deadline \/ End \/ Report \/ SendRaw \/ RawTimeout \/ StopBegin
               \/ \E r \in Commands \union Own : Reply(r) \/ Ignore(r) \/ ListItem(r)
        PROVE  radio' = radio /\ worker' \in {worker, None}
    BY <2>9 DEF Connect, Authenticated, Reject, DropSlow, Leave, Becomes, Arrive, Deadline, End,
         Report, Settle, SendRaw, RawTimeout, StopBegin, Reply, Ignore, ListItem, limiter, adapter
  <2> QED BY <2>1, <2>3, <2>4, <2>5, <2>6, <2>7, <2>8, <2>9 DEF Next
<1> QED BY <1>1, Invariance, PTL DEF Spec, GivenUpIsNotSent

-----------------------------------------------------------------------------
(* Who waits has someone to wait for *)

(* A command that waits is in the line; the transaction has its outcome, a  *)
(* deadline, or a place with the radio.                                     *)
Helped ==
  /\ \A c \in Commands : stage[c] = "waiting" => c \in Elems(line)
  /\ owner # None =>
       \/ result[owner] \in {"true", "false"}
       \/ result[owner] = "awaited" /\ (owner \in Rf \/ owner \in Elems(radio))

(* What the limiter transmits has a place with the radio, but while it      *)
(* waits for the database, before that or after it.                         *)
Aired ==
  worker # None => worker \in Elems(radio) \/ airing \in {"recording", "sent", "failed"}

(* A step that takes nothing from the lines and leaves the transaction with *)
(* what it had, or an outcome.                                              *)
LEMMA HelpStays ==
  ASSUME Helped, UNCHANGED <<stage, line, owner>>, Elems(radio) \subseteq Elems(radio'),
         owner # None => result'[owner] = result[owner] \/ result'[owner] \in {"true", "false"}
  PROVE  Helped'
BY DEF Helped

LEMMA BeginHelps == ASSUME TypeOK, PlacesOK, TransactionOK, Helped, Begin PROVE Helped'
<1> DEFINE c == Head(line)
<1>1. /\ c \in Commands /\ Elems(line) = Elems(line') \union {c}
      /\ radio \in Seq(Commands \union Own)
  BY Shortened DEF Begin, TypeOK
<1>2. \A e \in Commands : stage'[e] = IF e = c THEN "serving" ELSE stage[e]
  BY <1>1 DEF Begin, TypeOK
<1>3. owner' = c
  BY DEF Begin
<1>4. \/ result' = [result EXCEPT ![c] = "false"] /\ radio' = radio
      \/ c \in Rf /\ result' = [result EXCEPT ![c] = "awaited"] /\ radio' = radio
      \/ result' = [result EXCEPT ![c] = "awaited"] /\ radio' = Append(radio, c)
  BY DEF Begin, Refuse, Submit, Ask
<1>5. Elems(Append(radio, c)) = Elems(radio) \union {c}
  BY <1>1, Appended
<1> HIDE DEF c
<1>6. result'[c] = "false" \/ (result'[c] = "awaited" /\ (c \in Rf \/ c \in Elems(radio')))
  BY <1>1, <1>4, <1>5 DEF TypeOK
<1> QED BY <1>1, <1>2, <1>3, <1>6 DEF Helped

LEMMA TakeHelps == ASSUME TypeOK, TransactionOK, Helped, Take PROVE Helped'
<1> DEFINE c == Head(txq)
<1>1. c \in Rf /\ c \in Commands /\ radio \in Seq(Commands \union Own)
  BY Shortened, CommandsAssumption DEF Take, TypeOK
<1>2. Elems(Append(radio, c)) = Elems(radio) \union {c}
  BY <1>1, Appended
<1>3. \/ UNCHANGED <<result, radio>>
      \/ result' = [result EXCEPT ![c] = "false"] /\ UNCHANGED radio
      \/ radio' = Append(radio, c) /\ UNCHANGED result
  BY DEF Take, Skip, Deny, Record, Transmit
<1>4. UNCHANGED <<stage, line, owner>>
  BY DEF Take, lock
<1> HIDE DEF c
<1>5. Elems(radio) \subseteq Elems(radio')
  BY <1>2, <1>3
<1>6. owner # None => result'[owner] = result[owner] \/ result'[owner] = "false"
  BY <1>3 DEF TypeOK
<1> QED BY <1>4, <1>5, <1>6, HelpStays

LEMMA LimiterHelps == ASSUME TypeOK, Helped, Recorded \/ Report PROVE Helped'
<1>1. worker \in Commands /\ UNCHANGED <<stage, line, owner>>
  BY CommandsAssumption DEF TypeOK, Recorded, Report, lock
<1>2. Elems(radio) \subseteq Elems(radio')
  <2>1. radio' = radio \/ radio' = Append(radio, worker)
    BY DEF Recorded, Report, adapter
  <2> QED BY <1>1, <2>1, Joined
<1>3. owner # None => result'[owner] = result[owner] \/ result'[owner] \in {"true", "false"}
  BY DEF TypeOK, Recorded, Report, Settle, Resolve
<1> QED BY <1>1, <1>2, <1>3, HelpStays

(* Who leaves the radio has its outcome, or is in the hand of the limiter.  *)
LEMMA ReturnsHelp ==
  ASSUME TypeOK, PlacesOK, TransactionOK, Helped, HoldsRaw, NEW o \in {"true", "false"}, Returns(o)
  PROVE  Helped'
<1>1. /\ Holder \in Commands /\ Elems(radio) = Elems(radio') \union {Holder}
      /\ Holder \notin Elems(radio')
  BY Shortened DEF HoldsRaw, Holder, Returns, TypeOK, PlacesOK
<1>2. UNCHANGED <<stage, line, owner>>
  BY DEF Returns, lock
<1>3. \/ Holder \in Rf
      \/ result' = IF result[Holder] = "awaited" THEN [result EXCEPT ![Holder] = o] ELSE result
  BY <1>1, NamesAssumption DEF Returns, Resolve, Cancelled, TypeOK
<1>4. owner # None => result'[owner] = result[owner] \/ result'[owner] \in {"true", "false"}
  BY DEF TypeOK, Returns, Settle, Resolve
<1>5. owner # None => \/ result'[owner] \in {"true", "false"}
                      \/ result'[owner] = "awaited" /\ (owner \in Rf \/ owner \in Elems(radio'))
  BY <1>1, <1>3, <1>4 DEF TypeOK, Helped
<1> QED BY <1>2, <1>5 DEF Helped

LEMMA StopCancelHelps == ASSUME StopCancel PROVE Helped'
BY DEF StopCancel, Helped

LEMMA HelpStep == ASSUME IInv, Helped, [Next]_vars PROVE Helped'
<1>0. TypeOK /\ PlacesOK /\ TransactionOK
  BY DEF IInv
<1>1. ASSUME NEW c \in Commands, Arrive(c) PROVE Helped'
  <2>1. Elems(line') = Elems(line) \union {c} /\ \A e \in Commands \ {c} : stage'[e] = stage[e]
    BY <1>0, <1>1, Appended DEF TypeOK, Arrive
  <2>2. UNCHANGED <<owner, result, radio>>
    BY <1>1 DEF Arrive, adapter
  <2> QED BY <2>1, <2>2 DEF Helped
<1>2. CASE Begin
  BY <1>0, <1>2, BeginHelps
<1>3. CASE End
  <2>1. owner' = None /\ \A e \in Commands : stage'[e] = "waiting" => stage[e] = "waiting"
    BY <1>0, <1>3 DEF TypeOK, End
  <2>2. UNCHANGED <<line, radio>>
    BY <1>3 DEF End, adapter
  <2> QED BY <2>1, <2>2 DEF Helped
<1>4. CASE Deadline
  <2>1. result'[owner] = "false"
    BY <1>0, <1>4, CommandsAssumption DEF TypeOK, Deadline
  <2> QED BY <1>4, <2>1, HelpStays DEF Deadline, lock, adapter
<1>5. CASE Take
  BY <1>0, <1>5, TakeHelps
<1>6. CASE SendFails \/ Release
  <2>1. HoldsRaw /\ \E o \in {"true", "false"} : Returns(o)
    BY <1>0, <1>6 DEF SendFails, Release, TypeOK
  <2> QED BY <1>0, <2>1, ReturnsHelp
<1>7. CASE OwnEnds
  <2>1. Elems(radio) = Elems(radio') \union {Holder} /\ Holder \notin Commands
    BY <1>0, <1>7, Shortened, NamesAssumption DEF TypeOK, OwnEnds, Holder
  <2>2. UNCHANGED <<stage, line, owner, result>>
    BY <1>7 DEF OwnEnds, lock
  <2>3. owner # None => owner \in Commands
    BY <1>0 DEF TypeOK
  <2> QED BY <2>1, <2>2, <2>3 DEF Helped
<1>8. ASSUME NEW s \in Own, OwnAsks(s) PROVE Helped'
  <2>0. radio \in Seq(Commands \union Own) /\ radio' = Append(radio, s)
    BY <1>0, <1>8 DEF TypeOK, OwnAsks
  <2>1. Elems(Append(radio, s)) = Elems(radio) \union {s}
    BY <2>0, Appended, s \in Commands \union Own
  <2> QED BY <1>8, <2>0, <2>1, HelpStays DEF OwnAsks, lock
<1>9. CASE StopCancel
  BY <1>9, StopCancelHelps
<1>10. ASSUME \/ \E w \in Clients :
                   Connect(w) \/ Authenticated(w) \/ Reject(w) \/ DropSlow(w) \/ Leave(w)
              \/ SendRaw \/ RawTimeout \/ StopBegin \/ UNCHANGED vars
              \/ \E r \in Commands \union Own : Reply(r) \/ Ignore(r) \/ ListItem(r)
       PROVE  UNCHANGED <<stage, line, owner, result, radio>>
  BY <1>10 DEF Connect, Authenticated, Reject, DropSlow, Leave, Becomes, SendRaw, RawTimeout,
       StopBegin, Reply, Ignore, ListItem, vars, lock, adapter
<1>11. CASE UNCHANGED <<stage, line, owner, result, radio>>
  BY <1>11 DEF Helped
<1>12. CASE Recorded \/ Report
  BY <1>0, <1>12, LimiterHelps
<1> QED BY <1>1, <1>2, <1>3, <1>4, <1>5, <1>6, <1>7, <1>8, <1>9, <1>10, <1>11, <1>12 DEF Next

(* Nobody waits for nobody (_transaction_lock, _command_lock, the limiter's *)
(* queue).  A command that waits is in the line; the owner of the lock has  *)
(* an outcome to end with, a deadline to give up at, or a place among those *)
(* who wait for the radio; what the limiter transmits has such a place too, *)
(* or awaits the record of the message or of its outcome                    *)
(* (publish_chat_event).  This is the safety core of TransactionsEnd:       *)
(* whoever is first with the radio has an answer, a failure, or a timeout   *)
(* to leave it by, and the transaction never awaits the database alone.     *)
THEOREM TransactionsAttended == Spec => [](Helped /\ Aired)
<1>1. Init => Helped
  BY DEF Init, Helped
<1>2. IInv /\ Helped /\ [Next]_vars => Helped'
  BY HelpStep
<1>3. IInv => Aired
  BY DEF IInv, TypeOK, PlacesOK, WorkerPlaced, Aired
<1> QED BY <1>1, <1>2, <1>3, Invariance, PTL DEF Spec

-----------------------------------------------------------------------------
(* The server keeps the promise of CompanionContract *)

(* What the contract sees. *)
seen == <<stage, line, owner, Told, Present>>

LEMMA ToldOf ==
  /\ Told = [c \in Commands |-> Told[c]]
  /\ \A c \in Commands :
       /\ Told[c] = "nobody" <=> heard[c] = {} /\ c \notin errors
       /\ Told[c] = "server" <=> heard[c] = {} /\ c \in errors
       /\ Told[c] = "radio" <=> heard[c] # {} /\ c \notin errors
       /\ Told[c] = "both" <=> heard[c] # {} /\ c \in errors
BY DEF Told

LEMMA ToldKept == ASSUME heard' = heard, errors' = errors PROVE Told' = Told
BY DEF Told

LEMMA PresentKept == ASSUME UNCHANGED clients PROVE Present' = Present
BY DEF Present, Listens, clients

LEMMA GoesAway ==
  ASSUME UNCHANGED <<stage, line, owner, Told>>, Present' \subseteq Present
  PROVE  Contract!Next
<1> DEFINE S == Present \ Present'
<1>1. Present' = Present \ S /\ S \in SUBSET Commands
  BY DEF Present
<1> HIDE DEF S
<1>2. Contract!Go(S)
  BY <1>1 DEF Contract!Go
<1> QED BY <1>1, <1>2 DEF Contract!Next

LEMMA ConnServed ==
  ASSUME TypeOK, PlacesOK, NEW w \in Clients,
         Connect(w) \/ Authenticated(w) \/ Reject(w) \/ DropSlow(w) \/ Leave(w)
  PROVE  Contract!Next
<1>1. PICK s \in {"pending", "active", "closing", "gone"} :
        Becomes(w, s) /\ (s = "active" => conn[w] = "pending")
  BY DEF Connect, Authenticated, Reject, DropSlow, Leave
<1>2. /\ \A v \in Clients : conn'[v] = IF v = w THEN s ELSE conn[v]
      /\ running' = running /\ heard' = heard /\ errors' = errors
      /\ UNCHANGED <<stage, line, owner>>
  BY <1>1 DEF Becomes, TypeOK, lock, voices
<1>3. Told' = Told
  BY <1>2, ToldKept
<1>4. CASE s = "active"
  <2> DEFINE S == Present' \ Present
  <2>1. Present' = Present \union S
    <3>1. ASSUME NEW c \in Present PROVE c \in Present'
      BY <1>1, <1>2, <1>4, <3>1, CommandsAssumption DEF Present, Listens
    <3> QED BY <3>1
  <2>2. S \in SUBSET Commands
    BY DEF Present
  <2>3. ASSUME NEW c \in S PROVE stage[c] = "unsent"
    <3>1. c \in Commands /\ Sender[c] = w
      BY <1>2, <2>3, CommandsAssumption DEF Present, Listens
    <3> QED BY <1>1, <1>4, <3>1 DEF PlacesOK
  <2> HIDE DEF S
  <2>4. Contract!Come(S)
    BY <1>2, <1>3, <2>1, <2>3 DEF Contract!Come
  <2> QED BY <2>2, <2>4 DEF Contract!Next
<1>5. CASE s # "active"
  <2>1. Present' \subseteq Present
    BY <1>2, <1>5, CommandsAssumption DEF Present, Listens
  <2> QED BY <1>2, <1>3, <2>1, GoesAway
<1> QED BY <1>4, <1>5

LEMMA ArriveServed == ASSUME NEW c \in Commands, Arrive(c) PROVE Contract!Next
<1>1. Told' = Told /\ Present' = Present
  BY ToldKept, PresentKept DEF Arrive, voices
<1>2. Contract!Line(c)
  BY <1>1 DEF Arrive, Contract!Line
<1> QED BY <1>2 DEF Contract!Next

LEMMA BeginServed == ASSUME Begin PROVE Contract!Next
<1>1. Told' = Told /\ Present' = Present
  BY ToldKept, PresentKept DEF Begin
<1>2. Contract!Serve
  BY <1>1 DEF Begin, LockFree, Contract!Serve
<1> QED BY <1>2 DEF Contract!Next

(* A frame of the radio reaches the sender of the command that is served,   *)
(* or nobody.                                                               *)
LEMMA ForwardServed ==
  ASSUME TypeOK, VoicesOK, NEW r \in Commands \union Own, Forwarded(r),
         UNCHANGED <<clients, lock, errors>>
  PROVE  Contract!Next \/ UNCHANGED seen
<1>1. Present' = Present /\ UNCHANGED <<stage, line, owner>>
  BY PresentKept DEF lock
<1>2. CASE owner # None /\ Listens(owner)
  <2>1. owner \in Commands /\ owner \in Present /\ owner \notin errors
    BY <1>2 DEF TypeOK, Present, VoicesOK
  <2>2. \A c \in Commands : heard'[c] = IF c = owner THEN heard[c] \union {r} ELSE heard[c]
    BY <1>2 DEF Forwarded, TypeOK
  <2>3. Told' = [Told EXCEPT ![owner] = "radio"]
    BY <2>1, <2>2 DEF Told
  <2>4. Told[owner] # "server"
    BY <2>1, ToldOf
  <2>5. Contract!Hear
    BY <1>1, <2>1, <2>3, <2>4 DEF Contract!Hear
  <2> QED BY <2>5 DEF Contract!Next
<1>3. CASE ~(owner # None /\ Listens(owner))
  BY <1>1, <1>3, ToldKept DEF Forwarded, seen
<1> QED BY <1>2, <1>3

LEMMA EndServed == ASSUME TypeOK, VoicesOK, End PROVE Contract!Next
<1>1. owner \in Commands /\ owner # None /\ owner \notin errors
  BY DEF End, TypeOK, VoicesOK
<1>2. Present' = Present
  BY PresentKept DEF End
<1>3. owner \in Present <=> Listens(owner)
  BY <1>1 DEF Present
<1>4. Listens(owner) =>
        ((result[owner] = "false" /\ ~received) <=> Told[owner] = "nobody")
  BY <1>1, ToldOf DEF End, VoicesOK
<1>5. CASE owner \in Present /\ Told[owner] = "nobody"
  <2>1. errors' = errors \union {owner} /\ heard' = heard
    BY <1>3, <1>4, <1>5 DEF End, Unanswered
  <2>2. heard[owner] = {}
    BY <1>1, <1>5, ToldOf
  <2>3. Told' = [Told EXCEPT ![owner] = "server"]
    BY <1>1, <2>1, <2>2 DEF Told
  <2>4. Contract!End
    BY <1>1, <1>2, <1>5, <2>3 DEF End, Contract!End
  <2> QED BY <2>4 DEF Contract!Next
<1>6. CASE ~(owner \in Present /\ Told[owner] = "nobody")
  <2>1. Told' = Told
    BY <1>3, <1>4, <1>6, ToldKept DEF End, Unanswered
  <2>2. Contract!End
    BY <1>1, <1>2, <1>6, <2>1 DEF End, Contract!End
  <2> QED BY <2>2 DEF Contract!Next
<1> QED BY <1>5, <1>6

LEMMA StopCancelServed == ASSUME StopCancel PROVE Contract!Next
<1>1. Told' = Told /\ Present' = {}
  BY ToldKept DEF StopCancel, voices, Present, Listens
<1>2. Contract!Stop
  BY <1>1 DEF StopCancel, Contract!Stop
<1> QED BY <1>2 DEF Contract!Next

LEMMA ServedStep == ASSUME IInv, [Next]_vars PROVE Contract!Next \/ UNCHANGED seen
<1>0. TypeOK /\ PlacesOK /\ VoicesOK
  BY DEF IInv
<1>1. ASSUME NEW w \in Clients,
             Connect(w) \/ Authenticated(w) \/ Reject(w) \/ DropSlow(w) \/ Leave(w)
      PROVE  Contract!Next
  BY <1>0, <1>1, ConnServed
<1>2. ASSUME NEW c \in Commands, Arrive(c) PROVE Contract!Next
  BY <1>2, ArriveServed
<1>3. CASE Begin
  BY <1>3, BeginServed
<1>4. CASE End
  BY <1>0, <1>4, EndServed
<1>5. ASSUME NEW r \in Commands \union Own, Reply(r) \/ ListItem(r)
      PROVE  Contract!Next \/ UNCHANGED seen
  <2>1. Forwarded(r) /\ UNCHANGED <<clients, lock, errors>>
    BY <1>5 DEF Reply, ListItem
  <2> QED BY <1>0, <2>1, ForwardServed
<1>6. CASE StopBegin
  <2>1. UNCHANGED <<stage, line, owner, Told>> /\ Present' \subseteq Present
    BY <1>6, ToldKept DEF StopBegin, lock, voices, Present, Listens
  <2> QED BY <2>1, GoesAway
<1>7. CASE StopCancel
  BY <1>7, StopCancelServed
<1>8. ASSUME \/ Deadline \/ Take \/ Recorded \/ Report \/ SendRaw \/ SendFails \/ RawTimeout \/ Release \/ OwnEnds
             \/ \E s \in Own : OwnAsks(s)
             \/ \E r \in Commands \union Own : Ignore(r)
             \/ UNCHANGED vars
      PROVE  UNCHANGED seen
  <2>1. UNCHANGED <<clients, stage, line, owner, heard, errors>>
    BY <1>8 DEF Deadline, Take, Recorded, Report, SendRaw, SendFails, RawTimeout, Release, Returns, OwnEnds,
       OwnAsks, Ignore, vars, lock, voices
  <2> QED BY <2>1, ToldKept, PresentKept DEF seen
<1> QED BY <1>1, <1>2, <1>3, <1>4, <1>5, <1>6, <1>7, <1>8 DEF Next

(* The TCP server and the transactions of the proxy implement               *)
(* CompanionContract (_dispatch_companion_command,                          *)
(* handle_tcp_companion_command, on_raw_companion_frame_rx): a command has  *)
(* one turn, in the order of arrival and one at a time; only during it, and *)
(* only to its sender, the radio speaks; a sender that stays until the end  *)
(* heard the radio or hears one error of the server, never both.            *)
THEOREM ServerKeepsItsPromise == Spec => ServedAsPromised
<1>1. Init => Contract!Init
  <2> SUFFICES ASSUME Init PROVE Contract!Init
    OBVIOUS
  <2>1. Told = [c \in Commands |-> "nobody"]
    BY DEF Init, Told
  <2>2. Present = {}
    BY CommandsAssumption DEF Init, Present, Listens
  <2> QED BY <2>1, <2>2 DEF Init, Contract!Init
<1>2. IInv /\ [Next]_vars => [Contract!Next]_(Contract!promise)
  BY ServedStep DEF seen, Contract!promise
<1> QED BY <1>1, <1>2, Invariance, PTL DEF Spec, ServedAsPromised, Contract!Spec
=============================================================================
