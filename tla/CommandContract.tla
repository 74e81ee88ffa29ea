-------------------------- MODULE CommandContract --------------------------
(***************************************************************************)
(* What the bridge promises to whoever sends commands with an identifier:   *)
(* only the content the identifier was first sent with is executed, at most *)
(* once, after the command is recorded as dispatched and not when it is     *)
(* recorded as failed; 'completed' is recorded only after the execution;   *)
(* and a result stands, unless closing the bridge makes it uncertain. The   *)
(* promise holds for an identifier until it is forgotten.                   *)
(***************************************************************************)
CONSTANTS Ids, Contents, None

VARIABLES
  entry, \* what is on record of each identifier: a status and a content
  runs   \* its executions, each a record with the content executed
promise == <<entry, runs>>

Unknown   == [status |-> "none", content |-> None]
Forgotten == [status |-> "forgotten", content |-> None]

Init ==
  /\ entry = [c \in Ids |-> Unknown]
  /\ runs = [c \in Ids |-> {}]

(* The identifiers of F are forgotten; nothing is promised of them.         *)
Forgetting(F, kept) ==
  /\ entry' = [c \in Ids |-> IF c \in F THEN Forgotten ELSE kept[c]]
  /\ runs' = [c \in Ids |-> IF c \in F THEN {} ELSE runs[c]]
Forget(F) == Forgetting(F, entry)

(* A command with a new identifier is accepted, which may cost old records. *)
Admit(c, f, F) ==
  /\ entry[c] = Unknown
  /\ c \notin F
  /\ Forgetting(F, [entry EXCEPT ![c] = [status |-> "admitted", content |-> f]])

(* The command is executed, once it is recorded as dispatched, though       *)
(* whoever sent it may have given up.                                       *)
Execute(c) ==
  /\ entry[c].status \in {"admitted", "dispatching", "uncertain"}
  /\ entry' \in {entry, [entry EXCEPT ![c].status = "dispatching"]}
  /\ entry'[c].status # "admitted"
  /\ runs[c] = {}
  /\ \E x \in runs'[c] :
       /\ x.content = entry[c].content
       /\ runs' = [runs EXCEPT ![c] = {x}]

(* What may be recorded of a command, by what is on record.                 *)
Successors(c) ==
  LET open == {"dispatching", "failed", "uncertain"} IN
  CASE entry[c].status = "admitted" -> open
    [] entry[c].status \in {"dispatching", "uncertain"} ->
         open \union {s \in {"completed"} : runs[c] # {}}
    [] entry[c].status \in {"completed", "failed"} -> {"uncertain"}
    [] OTHER -> {}
Record(c, status) ==
  /\ status \in Successors(c)
  /\ entry' = [entry EXCEPT ![c].status = status]
  /\ UNCHANGED runs

Next ==
  \/ \E F \in SUBSET Ids : Forget(F)
  \/ \E c \in Ids, f \in Contents, F \in SUBSET Ids : Admit(c, f, F)
  \/ \E c \in Ids : Execute(c)
  \/ \E c \in Ids, s \in {"dispatching", "completed", "failed", "uncertain"} : Record(c, s)

Spec == Init /\ [][Next]_promise
=============================================================================
