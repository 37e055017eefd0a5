------------------------------- MODULE MCMillis -------------------------------
(* Small instances of Millis. *)
EXTENDS Millis
===============================================================================
