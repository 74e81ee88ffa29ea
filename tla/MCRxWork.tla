------------------------------ MODULE MCRxWork ------------------------------
(* RxWork for TLC.                                                          *)
EXTENDS RxWork
=============================================================================
