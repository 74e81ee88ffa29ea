------------------------- MODULE MCMessageDelivery -------------------------
(* MessageDelivery for TLC: the identifiers and codes are symmetric.        *)
EXTENDS MessageDelivery, TLC

Symmetry == Permutations(Msgs) \union Permutations(Codes)
=============================================================================
