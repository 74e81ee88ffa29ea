--------------------------- MODULE MCChatHistory ---------------------------
(* ChatHistory for TLC: the messages of the instances.                      *)
EXTENDS ChatHistory, TLC

CONSTANTS f1, f2, s1, s2, m1, m2

OneEach == (m1 :> f1) @@ (m2 :> f2)
OneStation == [m \in Msgs |-> s1]
TwoStations == (m1 :> s1) @@ (m2 :> s2)

Symmetry == Permutations(Slots)
=============================================================================
