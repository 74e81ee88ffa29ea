-------------------------- MODULE DeliveryContract --------------------------
(***************************************************************************)
(* What the bridge promises of a delivery receipt: an acknowledgement      *)
(* settles on at most one message, one that was on the air with its code;  *)
(* a message is proven by such an acknowledgement only, is shown as        *)
(* delivered only when it is proven, and is shown until it is forgotten.   *)
(***************************************************************************)
CONSTANTS Msgs, Codes, None, Open

VARIABLES
  carried, \* the codes each message was on the air with
  claim,   \* the acknowledgement being handled: None, Open or its message
  proven,  \* messages with a delivery on record
  shown    \* messages the user sees as delivered
promise == <<carried, claim, proven, shown>>

Init ==
  /\ carried = [m \in Msgs |-> {}]
  /\ claim = [c \in Codes |-> None]
  /\ proven = {}
  /\ shown = {}

Send(m, c) ==
  /\ carried' = [carried EXCEPT ![m] = @ \union {c}]
  /\ UNCHANGED <<claim, proven, shown>>

(* An acknowledgement arrives with a code that was on the air.              *)
Hear(c) ==
  /\ claim[c] = None
  /\ \E m \in Msgs : c \in carried[m]
  /\ claim' = [claim EXCEPT ![c] = Open]
  /\ UNCHANGED <<carried, proven, shown>>

(* The acknowledgement settles on m, and may prove it at once.              *)
Settle(c, m) ==
  /\ claim[c] = Open
  /\ c \in carried[m]
  /\ claim' = [claim EXCEPT ![c] = m]
  /\ \/ UNCHANGED <<proven, shown>>
     \/ proven' = proven \union {m} /\ shown' \in {shown, shown \union {m}}
  /\ UNCHANGED carried

(* The message the acknowledgement settled on is recorded as delivered.     *)
Prove(c, m) ==
  /\ claim[c] = m
  /\ claim' = [claim EXCEPT ![c] = None]
  /\ proven' = proven \union {m}
  /\ shown' \in {shown, shown \union {m}}
  /\ UNCHANGED carried

(* Acknowledgements are lost with the process, or because a write failed.   *)
Drop(C) ==
  /\ claim' = [c \in Codes |-> IF c \in C THEN None ELSE claim[c]]
  /\ UNCHANGED <<carried, proven, shown>>

Show(S) ==
  /\ S \subseteq proven
  /\ shown' = shown \union S
  /\ UNCHANGED <<carried, claim, proven>>

(* The conversation is cleared, or an old record of a delivery expires.     *)
Forget(m) ==
  /\ shown' = shown \ {m}
  /\ proven' \in {proven, proven \ {m}}
  /\ UNCHANGED <<carried, claim>>
Expire(m) ==
  /\ m \notin shown
  /\ proven' = proven \ {m}
  /\ UNCHANGED <<carried, claim, shown>>

Next ==
  \/ \E m \in Msgs : Forget(m) \/ Expire(m)
  \/ \E S \in SUBSET Msgs : Show(S)
  \/ \E m \in Msgs, c \in Codes : Send(m, c) \/ Settle(c, m) \/ Prove(c, m)
  \/ \E c \in Codes : Hear(c)
  \/ \E C \in SUBSET Codes : Drop(C)

Spec == Init /\ [][Next]_promise
=============================================================================
