------------------------------ MODULE MCTakeover ------------------------------
(* Small instances of Takeover. *)
EXTENDS Takeover, TLC

Phases == 1 :> {0, 2} @@ 2 :> {4}
===============================================================================
