------------------------------- MODULE Takeover -------------------------------
(***************************************************************************)
(* What survives a change of server.  Every node has a millis() of its     *)
(* own, the schedule of a message names a moment in the clock of the       *)
(* server that planned it, and a client reads it through an offset it      *)
(* estimated by syncClock.  When another node is promoted, or the Pi's     *)
(* server process restarts, the clock domain, the sequence numbers and the *)
(* queue change; schedules and offsets of the old reign stay behind in the *)
(* nodes that were up.                                                     *)
(*                                                                         *)
(* Who is promoted and when is Failover's; here there is at most one       *)
(* server.  The clocks tick together and wrap around at M, so only their   *)
(* differences matter: clock[n] is what n's millis() is ahead of a         *)
(* reference that ticks with it, fixed when n starts, and a tick moves     *)
(* every displayAt one closer.  A tick is long against loop(): a schedule  *)
(* that is over is retired, a message that may be published is, and an     *)
(* exchange with the server is answered or given up within it.             *)
(***************************************************************************)
EXTENDS SharedClock, FiniteSets

CONSTANTS
  Node,        \* the nodes
  Pi,          \* those that may be Pis, which run server.py, not the firmware
  Phase,       \* per node: the clock differences it may start with
  Lead,        \* DISPLAY_LEAD_MS
  Length,      \* from displayAt to the end of the scroll
  Grace,       \* PROMOTION_GRACE_MS
  Banner,      \* how long xdisplayText("SERVER"/"CLIENT") blocks loop()
  MaxTrip,     \* longest round trip of /time
  Samples,     \* samples of one syncClock: 3
  MaxDelay,    \* longest delivery of a /play
  MaxSeq,      \* bound on globalSeq
  MaxFaults    \* bound on power losses, restarts, blips and abdications

ASSUME TakeoverAssumption ==
  /\ Pi \subseteq Node /\ Phase \in [Node -> SUBSET Clock]
  /\ {Lead, Length, Grace, Banner, MaxTrip, Samples, MaxDelay, MaxSeq, MaxFaults} \subseteq Nat
  /\ Length + Banner < Half /\ Lead + MaxTrip < Half

VARIABLES
  clock,    \* millis() of each node, against the reference
  node,     \* the rest of each node's state
  waiting,  \* a message in the server's queue has plays left
  air,      \* /play requests under way
  faults    \* changes and disturbances so far

vars == <<clock, node, waiting, air, faults>>
-------------------------------------------------------------------------------
Role == {"off", "away", "client", "server"}

\* currentSchedule.  "ours" is history: planned by the present server.
Schedule == [active : BOOLEAN, seq : 0 .. MaxSeq, at : Clock, ours : BOOLEAN]
NoSchedule == [active |-> FALSE, seq |-> 0, at |-> 0, ours |-> FALSE]

\* A syncClock under way: samples to go, bestRtt, bestOffset, and (history)
\* whether that is the present server's.
NoTrip == MaxTrip + 1   \* UINT32_MAX
Sync == [left : 0 .. Samples, trip : 0 .. NoTrip, offset : Clock, ours : BOOLEAN]
NoSync == [left |-> 0, trip |-> NoTrip, offset |-> 0, ours |-> FALSE]

NodeState ==
  [pi     : BOOLEAN,          \* a Pi
   role   : Role,             \* nodeRole; "away" while JOINING or CANDIDATE
   offset : Clock,            \* clockOffset, as a uint32_t
   synced : BOOLEAN,          \* clockSynced
   ours   : BOOLEAN,          \* history: the offset is to the present server
   sched  : Schedule,
   seq    : 0 .. MaxSeq,    \* globalSeq
   grace  : 0 .. Grace,       \* what is left until serverReadyAt
   busy   : 0 .. Banner,      \* what is left of the role banner
   sync   : Sync]

Booted == [pi |-> FALSE, role |-> "away", offset |-> 0, synced |-> FALSE, ours |-> FALSE,
           sched |-> NoSchedule, seq |-> 0, grace |-> 0, busy |-> 0, sync |-> NoSync]

Unpowered(pi) == [Booted EXCEPT !.pi = pi, !.role = "off"]

Play == [to : Node, seq : 0 .. MaxSeq, at : Clock, ours : BOOLEAN, left : 0 .. MaxDelay]

TypeOK ==
  /\ clock \in [Node -> Clock]
  /\ node \in [Node -> NodeState]
  /\ waiting \in BOOLEAN
  /\ air \subseteq Play
  /\ faults \in 0 .. MaxFaults

Servers == {n \in Node : node[n].role = "server"}
Clients == {n \in Node : node[n].role = "client"}

Now(n) == ServerNow(clock[n], node[n].offset)

\* renderScheduled: how far the schedule of n is, as n reads its clock.
Elapsed(n) == Signed(Now(n) - node[n].sched.at)
-------------------------------------------------------------------------------
(* Rendering: renderScheduled under serverSequencerLoop or clientPlayerLoop. *)

\* Mutant: only the players render.
RendersClients(n) == node[n].role = "client" /\ node[n].synced /\ node[n].busy = 0

Renders(n) ==
  /\ node[n].busy = 0
  /\ \/ node[n].role = "server" /\ node[n].grace = 0
     \/ node[n].role = "client" /\ node[n].synced

\* Mutant: one column too many.
OverLate(n) == Elapsed(n) > Length

Over(n) == Elapsed(n) >= Length

Retirable(n) == node[n].sched.active /\ Renders(n) /\ Over(n)

Retire(n) ==
  /\ Retirable(n)
  /\ node' = [node EXCEPT ![n].sched = NoSchedule]
  /\ UNCHANGED <<clock, waiting, air, faults>>

(* The server. *)

Send ==
  /\ ~waiting /\ \E s \in Servers : node[s].seq < MaxSeq
  /\ waiting' = TRUE
  /\ UNCHANGED <<clock, node, air, faults>>

Publishable(s) ==
  /\ node[s].role = "server" /\ node[s].grace = 0 /\ node[s].busy = 0
  /\ ~node[s].sched.active /\ waiting

\* serverSequencerLoop plans a message: displayAt is millis() + Lead, whatever
\* the offset.
Publish(s) ==
  /\ Publishable(s)
  /\ LET seq == node[s].seq + 1
         at  == Wrap(clock[s] + Lead)
     IN /\ node' = [node EXCEPT ![s].seq = seq, ![s].sched =
                      [active |-> TRUE, seq |-> seq, at |-> at, ours |-> TRUE]]
        /\ air' = air \cup [to : Clients, seq : {seq}, at : {at}, ours : {TRUE},
                            left : {MaxDelay}]
  /\ waiting' = FALSE
  /\ UNCHANGED <<clock, faults>>

(* handlePlay *)

IsDuplicate(n, p) == node[n].sched.active /\ node[n].sched.seq = p.seq

Receive(p) ==
  /\ p \in air /\ node[p.to].role = "client"
  /\ air' = air \ {p}
  /\ IF IsDuplicate(p.to, p) THEN node' = node
     ELSE node' = [node EXCEPT ![p.to].sched =
                     [active |-> TRUE, seq |-> p.seq, at |-> p.at, ours |-> p.ours]]
  /\ UNCHANGED <<clock, waiting, faults>>

\* The request fails, whether the client is there or not.
Lose(p) ==
  /\ p \in air /\ air' = air \ {p}
  /\ UNCHANGED <<clock, node, waiting, faults>>
-------------------------------------------------------------------------------
(* syncClock *)

\* Mutant: a client that is synchronised never asks again.
SyncStartOnce(c) ==
  /\ node[c].role = "client" /\ node[c].sync.left = 0 /\ Servers # {} /\ ~node[c].synced
  /\ node' = [node EXCEPT ![c].sync.left = Samples]
  /\ UNCHANGED <<clock, waiting, air, faults>>

\* After a heartbeat, a late registration, and an IP_EVENT_STA_GOT_IP that did not
\* go with a change of role.
SyncStart(c) ==
  /\ node[c].role = "client" /\ node[c].sync.left = 0 /\ Servers # {}
  /\ node' = [node EXCEPT ![c].sync.left = Samples]
  /\ UNCHANGED <<clock, waiting, air, faults>>

\* One sample, taken over when its round trip is the shortest so far.
Keep(y, trip, offset) ==
  IF trip < y.trip THEN [y EXCEPT !.trip = trip, !.offset = offset, !.ours = TRUE] ELSE y

\* The sample is in; the last one sets clockOffset, unless all failed.
Sampled(s, y) ==
  IF y.left > 1 THEN [s EXCEPT !.sync = [y EXCEPT !.left = @ - 1]]
  ELSE IF y.trip = NoTrip THEN [s EXCEPT !.sync = NoSync]
  ELSE [s EXCEPT !.offset = y.offset, !.synced = TRUE, !.ours = y.ours, !.sync = NoSync]

\* A reply that is under way while the server restarts does what one that arrives just
\* before the restart does: Reigns marks either as no longer ours.
Sample(c) ==
  /\ node[c].role = "client" /\ node[c].sync.left > 0
  /\ \E s \in Servers, trip \in 0 .. MaxTrip : \E back \in 0 .. trip :
       LET offset == Estimate(Wrap(clock[s] - back), Wrap(clock[c] - trip), clock[c])
       IN node' = [node EXCEPT ![c] = Sampled(@, Keep(@.sync, trip, offset))]
  /\ UNCHANGED <<clock, waiting, air, faults>>

\* No answer, for whatever reason.
SampleFails(c) ==
  /\ node[c].sync.left > 0
  /\ node' = [node EXCEPT ![c] = Sampled(@, @.sync)]
  /\ UNCHANGED <<clock, waiting, air, faults>>
-------------------------------------------------------------------------------
(* Roles.  A sync that is under way ends before the role changes: its requests *)
(* time out sooner than any promotion is due.                                  *)

\* enterClient: the banner, and the sync of the GOT_IP event.
Join(c) ==
  /\ node[c].role = "away" /\ node[c].sync.left = 0 /\ Servers # {}
  /\ node' = [node EXCEPT ![c].role = "client", ![c].busy = Banner, ![c].sync.left = Samples]
  /\ UNCHANGED <<clock, waiting, air, faults>>

\* enterCandidate: the schedule, the offset and clockSynced stay.
Leave(c) ==
  /\ node[c].role = "client"
  /\ node' = [node EXCEPT ![c].role = "away", ![c].busy = 0]
  /\ IF Servers # {} THEN faults < MaxFaults /\ faults' = faults + 1 ELSE faults' = faults
  /\ UNCHANGED <<clock, waiting, air>>

\* What the nodes and the requests carry over to a new reign is no longer ours.
StaleNode(s) == [s EXCEPT !.ours = FALSE, !.sched.ours = FALSE, !.sync.ours = FALSE]

\* Mutant: clockOffset is not reset.
ReignsOldOffset(s, s0) ==
  /\ node' = [n \in Node |->
       IF n = s THEN [StaleNode(s0) EXCEPT !.role = "server", !.synced = TRUE, !.ours = TRUE]
       ELSE StaleNode(node[n])]
  /\ air' = {[p EXCEPT !.ours = FALSE] : p \in air}
  /\ waiting' = FALSE

\* s serves, from the state s0 on, with an empty queue and its own clock.
Reigns(s, s0) ==
  /\ node' = [n \in Node |->
       IF n = s THEN [StaleNode(s0) EXCEPT !.role = "server", !.offset = 0, !.synced = TRUE,
                                           !.ours = TRUE]
       ELSE StaleNode(node[n])]
  /\ air' = {[p EXCEPT !.ours = FALSE] : p \in air}
  /\ waiting' = FALSE

\* enterServer: the queue is cleared, currentSchedule and globalSeq stay.
Promote(n) ==
  /\ ~node[n].pi /\ node[n].role = "away" /\ node[n].sync.left = 0 /\ Servers = {}
  /\ Reigns(n, [node[n] EXCEPT !.grace = Grace, !.busy = Banner])
  /\ UNCHANGED <<clock, faults>>

\* tickServer yields to a lower server, which clears the way for its promotion.
Abdicate(s) ==
  /\ ~node[s].pi /\ node[s].role = "server" /\ faults < MaxFaults
  /\ node' = [node EXCEPT ![s].role = "away", ![s].grace = 0, ![s].busy = 0]
  /\ waiting' = FALSE /\ faults' = faults + 1
  /\ UNCHANGED <<clock, air>>

\* Power loss.  Of a server: a client that loses power has nothing to carry over.
Fail(s) ==
  /\ node[s].role = "server" /\ faults < MaxFaults
  /\ node' = [node EXCEPT ![s] = Unpowered(@.pi)]
  /\ waiting' = FALSE /\ faults' = faults + 1
  /\ UNCHANGED <<clock, air>>

\* millis() starts at 0: somewhere against the clocks that run.
Starts(n) == \E k \in Phase[n] : clock' = [clock EXCEPT ![n] = k]

Boot(n) ==
  /\ ~node[n].pi /\ node[n].role = "off"
  /\ node' = [node EXCEPT ![n] = Booted]
  /\ Starts(n)
  /\ UNCHANGED <<waiting, air, faults>>

\* server.py starts: by itself again, while its access point and its clients
\* stay (a fault), or with the Pi, when no other node serves.
Start(s) ==
  /\ node[s].pi
  /\ \/ node[s].role = "server" /\ faults < MaxFaults /\ faults' = faults + 1
     \/ node[s].role = "off" /\ Servers = {} /\ faults' = faults
  /\ Reigns(s, [Booted EXCEPT !.pi = TRUE])
  /\ Starts(s)
-------------------------------------------------------------------------------
(* Time. *)

Sooner(k) == IF k > 0 THEN k - 1 ELSE 0

\* What is over within the tick.
Urgent ==
  \/ \E n \in Node : Retirable(n) \/ Publishable(n) \/ node[n].sync.left > 0
  \/ \E p \in air : p.left = 0

Closer(x) == [x EXCEPT !.at = Wrap(@ - 1)]

\* No schedule is left for half of M, 24 days, without being rendered.
Ages(n) == node[n].sched.active /\ Elapsed(n) < Half - 1

Tick ==
  /\ ~Urgent
  /\ node' = [n \in Node |->
       [node[n] EXCEPT !.grace = Sooner(@), !.busy = Sooner(@),
                       !.sched = IF Ages(n) THEN Closer(@) ELSE @]]
  /\ air' = {[Closer(p) EXCEPT !.left = @ - 1] : p \in air}
  /\ UNCHANGED <<clock, waiting, faults>>
-------------------------------------------------------------------------------
Init ==
  /\ clock \in {c \in [Node -> Clock] : \A n \in Node : c[n] \in Phase[n]}
  /\ \E pis \in SUBSET Pi : node = [n \in Node |-> IF n \in pis THEN Unpowered(TRUE) ELSE Booted]
  /\ waiting = FALSE /\ air = {}
  /\ faults = 0

NodeStep(n) == Retire(n) \/ Publish(n)
SyncStep(c) == Sample(c) \/ SampleFails(c)
RoleStep(n) == Join(n) \/ Leave(n) \/ Promote(n)
Deliver == \E p \in air : Receive(p) \/ Lose(p)

Next ==
  \/ Tick \/ Send \/ Deliver
  \/ \E n \in Node : NodeStep(n) \/ SyncStart(n) \/ SyncStep(n) \/ RoleStep(n)
                     \/ Abdicate(n) \/ Fail(n) \/ Boot(n) \/ Start(n)

Spec == Init /\ [][Next]_vars

\* Time passes, however often clients ask for it; loop() and the web task run,
\* requests end, a client beats, the election promotes and joins.  A server that is
\* up answers one of many requests for its time.  Nothing is assumed of power or of
\* blips.
FairSpec ==
  /\ Spec
  /\ SF_vars(Tick) /\ WF_vars(Deliver)
  /\ \A n \in Node :
       /\ WF_vars(NodeStep(n)) /\ WF_vars(SyncStart(n)) /\ WF_vars(SyncStep(n))
       /\ SF_vars(Sample(n))
       /\ WF_vars(Join(n)) /\ WF_vars(Promote(n)) /\ WF_vars(Leave(n) /\ faults' = faults)
-------------------------------------------------------------------------------
\* What Cristian's method may err: half of the longest round trip (SyncError).
MaxBehind == (MaxTrip + 1) \div 2
MaxAhead == MaxTrip \div 2

\* A client that has synchronised with the present server reads the same time as
\* the server does, whatever either of them was before (syncClock, enterServer).
InStep ==
  \A s \in Servers, c \in Clients : node[c].synced /\ node[c].ours =>
    Signed(Now(c) - Now(s)) \in -MaxBehind .. MaxAhead

\* A message of the present server is not taken off a synchronised panel while it
\* is due or scrolling by the server's clock (renderScheduled).
NotCutShort ==
  [][ \A s \in Servers, n \in Node :
        (/\ node[n].sched.active /\ node[n].sched.ours /\ node[n].ours
         /\ node'[n] = [node[n] EXCEPT !.sched = NoSchedule])
        => Signed(clock[s] - node[n].sched.at) \notin -Lead .. Length - MaxAhead - 1 ]_vars

Inherited(s) == node[s].sched.active /\ ~node[s].sched.ours

\* What the server waits for before its next message is its own last one, and that is
\* at most the lead time ahead and the scroll behind; or else a schedule from its
\* time as a client (serverSequencerLoop, enterServer).
OwnInReach ==
  \A s \in Servers : node[s].sched.active /\ ~Inherited(s) => Elapsed(s) \in -Lead .. Length

\* docs/failover-design.md, 25: a promoted server with a fresh clock domain is
\* handled by the existing logic.
PromotedInReach == \A s \in Servers : node[s].sched.active => Elapsed(s) >= -Lead

\* Once the changes end, every client is synchronised with the server it has, and
\* no node holds a message of a former server: for good.
SettlesInStep ==
  <>[](/\ \A c \in Clients : Servers # {} => node[c].synced /\ node[c].ours
       /\ \A n \in Servers \cup Clients : node[n].sched.active => node[n].sched.ours)
===============================================================================
