---------------------------- MODULE MCInactivity ----------------------------
(* Inactivity for TLC: a wheel shorter and longer than its timeouts. *)
EXTENDS Inactivity
=============================================================================
