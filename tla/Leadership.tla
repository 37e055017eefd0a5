------------------------------ MODULE Leadership ------------------------------
(***************************************************************************)
(* What the election promises about who serves, with no scan, timer,       *)
(* backoff or role machine in it: servers come and go, and                 *)
(*   - nobody claims the SSID against an established server,               *)
(*   - of two servers the higher one is young,                             *)
(*   - a server that steps down by itself leaves another one behind,       *)
(*     unless a loss of power took away the one it counted on.             *)
(* The first two hold as long as no scan missed an access point ("sure").  *)
(* Failover implements it.                                                 *)
(***************************************************************************)
EXTENDS Naturals

CONSTANTS
  Node,     \* the nodes, as SoftAP BSSIDs
  MaxAge,   \* saturation of the ages
  Fresh,    \* a claim may overlook a server at most this old
  Overlap   \* how long the higher of two servers may stay

VARIABLES
  powered,  \* the nodes that have power
  reign,    \* how long each server has served; its domain is the servers
  sure,     \* no scan has missed an access point so far
  excused   \* servers that may step down and leave nobody

vars == <<powered, reign, sure, excused>>

Serving == DOMAIN reign

Init == powered = {} /\ reign = [n \in {} |-> 0] /\ sure = TRUE /\ excused = {}

PowerOn(n) == powered' = powered \cup {n} /\ UNCHANGED <<reign, sure, excused>>

Claim(n) ==
  /\ n \in powered \ Serving
  /\ sure => \A m \in Serving : reign[m] <= Fresh
  /\ reign' = [m \in Serving \cup {n} |-> IF m = n THEN 0 ELSE reign[m]]
  /\ UNCHANGED <<powered, sure, excused>>

Leave(n) == reign' = [m \in Serving \ {n} |-> reign[m]]

\* By its own decision; who was counting on it is excused with it.
StepDown(n) ==
  /\ n \in Serving /\ Leave(n)
  /\ IF n \in excused THEN excused' \subseteq Serving \ {n}
     ELSE Serving \ {n} # {} /\ excused' = excused
  /\ UNCHANGED <<powered, sure>>

\* Only a server that loses power can excuse others.
PowerOff(n) ==
  /\ n \in powered
  /\ powered' = powered \ {n} /\ Leave(n)
  /\ IF n \in Serving THEN excused' \subseteq Serving \ {n} ELSE excused' = excused
  /\ UNCHANGED sure

Tick ==
  /\ reign' = [m \in Serving |-> IF reign[m] < MaxAge THEN reign[m] + 1 ELSE reign[m]]
  /\ sure => \A p, q \in Serving : p < q => reign'[q] <= Overlap
  /\ UNCHANGED <<powered, sure, excused>>

Degrade == sure' = FALSE /\ UNCHANGED <<powered, reign, excused>>

Next ==
  \/ Tick \/ Degrade
  \/ \E n \in Node : PowerOn(n) \/ PowerOff(n) \/ Claim(n) \/ StepDown(n)

Spec == Init /\ [][Next]_vars
===============================================================================
