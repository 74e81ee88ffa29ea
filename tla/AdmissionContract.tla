------------------------- MODULE AdmissionContract -------------------------
(***************************************************************************)
(* What the dispatcher promises to the brokers and to the bridge: at most  *)
(* Limit requests are admitted or at work at any time; each is worked on   *)
(* at most once, while the dispatcher is open; one that was refused or     *)
(* given up is gone, whatever happens later; and once the dispatcher says  *)
(* that it is quiet nothing is at work until it opens again.               *)
(***************************************************************************)
EXTENDS Naturals, FiniteSets

CONSTANTS Requests, Limit

VARIABLES
  fate, \* what became of each request
  mode  \* "open", "closing" or "quiet"
promise == <<fate, mode>>

In(fates)    == {m \in Requests : fate[m] \in fates}
Occupied     == In({"admitted", "working"})
Room(m)      == Cardinality(Occupied \union {m}) <= Limit
Becomes(m, f) == fate' = [fate EXCEPT ![m] = f]

Init ==
  /\ fate = [m \in Requests |-> "new"]
  /\ mode = "open"

(* A request waits outside until the dispatcher looks at it.                *)
Offer(m) ==
  /\ fate[m] = "new"
  /\ Becomes(m, "offered")
  /\ UNCHANGED mode

Admit(m) ==
  /\ mode = "open"
  /\ fate[m] = "new" /\ Room(m)
  /\ Becomes(m, "admitted")
  /\ UNCHANGED mode

(* Work begins, on an admitted request or on one that is admitted by that.  *)
Begin(m) ==
  /\ mode = "open"
  /\ fate[m] = "admitted" \/ (fate[m] = "offered" /\ Room(m))
  /\ Becomes(m, "working")
  /\ UNCHANGED mode

End(m) ==
  /\ fate[m] = "working"
  /\ Becomes(m, "over")
  /\ UNCHANGED mode

Refuse(m) ==
  /\ fate[m] \in {"new", "offered", "admitted"}
  /\ Becomes(m, "gone")
  /\ UNCHANGED mode

(* What is admitted and did not begin is given up.                          *)
Close ==
  /\ mode = "open"
  /\ mode' = "closing"
  /\ fate' = [m \in Requests |-> IF fate[m] = "admitted" THEN "gone" ELSE fate[m]]

Quiet ==
  /\ mode = "closing"
  /\ In({"working"}) = {}
  /\ mode' = "quiet"
  /\ UNCHANGED fate

Open ==
  /\ mode # "open"
  /\ mode' = "open"
  /\ UNCHANGED fate

Next ==
  \/ \E m \in Requests : Offer(m) \/ Admit(m) \/ Begin(m) \/ End(m) \/ Refuse(m)
  \/ Close \/ Quiet \/ Open

Spec == Init /\ [][Next]_promise
=============================================================================
