-------------------------- MODULE MCOutgoingChat ---------------------------
(* OutgoingChat for TLC: messages and codes are symmetric.                  *)
EXTENDS OutgoingChat, TLC

Symmetry == Permutations(Msgs) \union Permutations(Codes)
=============================================================================
