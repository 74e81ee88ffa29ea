-------------------------- MODULE MCCompanionProxy --------------------------
(* CompanionProxy for TLC: who sends which command.                         *)
EXTENDS CompanionProxy, TLC

CONSTANTS a, b, chat, query

(* One application transmits, another one asks; a third only connects. *)
Senders == (chat :> a) @@ (query :> b)
=============================================================================
