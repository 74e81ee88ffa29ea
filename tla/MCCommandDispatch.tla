------------------------- MODULE MCCommandDispatch -------------------------
(* CommandDispatch for TLC: what arrives, by the question of the run.       *)
EXTENDS CommandDispatch, TLC

CONSTANTS c1, c2, f1, f2

Kind(via, id, fp, priority) ==
  [via |-> via, id |-> id, fingerprint |-> fp, priority |-> priority]

(* One identifier, sent twice, reused for another content, and used by a    *)
(* request of the web API and by an administrative command of its own.      *)
Duplicates == {Kind("tx", c1, f1, 1), Kind("tx", c1, f2, 2), Kind("http", c1, f1, 1),
               Kind("admin", c2, f1, 1)}

(* Two identifiers, commands without one and requests of the web API, of    *)
(* every priority.                                                          *)
Crowded == {Kind("tx", c1, f1, 1), Kind("tx", c2, f2, 2), Kind("tx", None, f1, 2),
            Kind("http", c1, f1, 0), Kind("http", None, f1, 2)}

Symmetry == Permutations(Requests)
=============================================================================
