------------------------------ MODULE MCSession ------------------------------
(* Instances of Session; the unit of time is about 8 s. *)
EXTENDS Session
===============================================================================
