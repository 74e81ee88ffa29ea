------------------------- MODULE CompanionContract -------------------------
(***************************************************************************)
(* What the TCP server promises to the applications that share the radio:  *)
(* each command has its turn once, in the order in which the commands came *)
(* and one at a time; during its turn only its sender hears the radio; and *)
(* a sender that stays until the end of the turn heard the radio, or hears *)
(* one error of the server, and never both.  The server may stop at any    *)
(* time.                                                                   *)
(***************************************************************************)
EXTENDS Sequences

CONSTANTS Commands, None

VARIABLES
  phase,   \* "unsent", "waiting", "serving" or "done"
  turn,    \* the commands that wait, in order
  serving, \* the command whose turn it is
  told,    \* whom its sender heard: nobody, the radio or the server
  present  \* the commands whose sender listens
promise == <<phase, turn, serving, told, present>>

Init ==
  /\ phase = [c \in Commands |-> "unsent"]
  /\ turn = << >> /\ serving = None
  /\ told = [c \in Commands |-> "nobody"]
  /\ present = {}

Come(S) ==
  /\ \A c \in S : phase[c] = "unsent"
  /\ present' = present \union S
  /\ UNCHANGED <<phase, turn, serving, told>>

Go(S) ==
  /\ present' = present \ S
  /\ UNCHANGED <<phase, turn, serving, told>>

Line(c) ==
  /\ phase[c] = "unsent"
  /\ phase' = [phase EXCEPT ![c] = "waiting"]
  /\ turn' = Append(turn, c)
  /\ UNCHANGED <<serving, told, present>>

Serve ==
  /\ serving = None /\ turn # << >>
  /\ serving' = Head(turn)
  /\ turn' = Tail(turn)
  /\ phase' = [phase EXCEPT ![Head(turn)] = "serving"]
  /\ UNCHANGED <<told, present>>

Hear ==
  /\ serving \in present
  /\ told[serving] # "server"
  /\ told' = [told EXCEPT ![serving] = "radio"]
  /\ UNCHANGED <<phase, turn, serving, present>>

End ==
  /\ serving # None /\ serving' = None
  /\ phase' = [phase EXCEPT ![serving] = "done"]
  /\ told' = IF serving \in present /\ told[serving] = "nobody"
             THEN [told EXCEPT ![serving] = "server"] ELSE told
  /\ UNCHANGED <<turn, present>>

Stop ==
  /\ turn' = << >> /\ serving' = None /\ present' = {}
  /\ phase' = [c \in Commands |-> IF phase[c] = "unsent" THEN "unsent" ELSE "done"]
  /\ UNCHANGED told

Next ==
  \/ \E S \in SUBSET Commands : Come(S) \/ Go(S)
  \/ \E c \in Commands : Line(c)
  \/ Serve \/ Hear \/ End \/ Stop

Spec == Init /\ [][Next]_promise
=============================================================================
