----------------------------- MODULE MCFailover -----------------------------
(* Small instances of Failover. *)
EXTENDS Failover

\* Two chips whose MACs hash to neighbouring slots, so that they can promote at
\* the same time or one shortly after the other.
MCSlot == [n \in Node |-> IF n = 1 THEN 1 ELSE 0]
===============================================================================
