------------------------------- MODULE Session -------------------------------
(***************************************************************************)
(* The registration of one client with the serving node, a controller      *)
(* (ws_wifi.cpp) or the Raspberry Pi (server.py).                          *)
(* On the client two tasks share clientId and isConnected without a lock:  *)
(* loop(), where tickClient re-registers and sends heartbeats, and the     *)
(* WiFi event task, which registers when the station gets an address.  On  *)
(* the server webServerTask keeps the registry and loop() removes from it  *)
(* who has not been heard of; the Pi, whose state_lock makes each request  *)
(* and each cleanup one step, first takes it for inactive and forgets it   *)
(* much later.  Clients do not interact here: one stands for all of them,  *)
(* identified by its IP address.                                           *)
(*                                                                         *)
(* A request blocks its task for up to RequestTime.  A timer of the code   *)
(* is an age, saturated at the value it is compared with.  The election    *)
(* (Failover) is reduced to the client being in its role or away.          *)
(***************************************************************************)
EXTENDS Integers, Sequences

CONSTANTS
  HeartbeatInterval,  \* heartbeatInterval
  HeartbeatTimeout,   \* HEARTBEAT_TIMEOUT
  PurgeAfter,         \* PURGE_INACTIVE of server.py
  CleanupInterval,    \* CLEANUP_INTERVAL
  FirstDelay,         \* regDelay after a success
  MaxRetryDelay,      \* maxRetryDelay
  BlipWindow,         \* the 4000 ms tickClient tolerates without a link
  HEARTBEAT_FAIL_N,
  RequestTime,        \* longest a request takes, answered or not
  MaxFaults           \* bound on lost requests and answers, link losses and
                      \* server failures

\* A client that is not in touch comes back after a heartbeat or a backoff, and after
\* the two requests it may wait for.
Longer == IF HeartbeatInterval > MaxRetryDelay THEN HeartbeatInterval ELSE MaxRetryDelay
RecoveryTime == Longer + 2 * RequestTime + 1

ASSUME SessionAssumption ==
  /\ {HeartbeatInterval, CleanupInterval, FirstDelay, MaxRetryDelay,
      HEARTBEAT_FAIL_N} \subseteq Nat \ {0}
  /\ {HeartbeatTimeout, BlipWindow, RequestTime, MaxFaults} \subseteq Nat
  /\ FirstDelay <= MaxRetryDelay
  /\ RecoveryTime <= HeartbeatTimeout
  /\ PurgeAfter \in Nat /\ HeartbeatTimeout <= PurgeAfter

VARIABLES
  pi,         \* the server is the Pi
  up,         \* the server is on the air
  deaf,       \* its web task has stopped answering, for good
  entry,      \* its registry: how long ago it heard of the client, or Absent
  active,     \* the entry is broadcast to: c['active'] of server.py
  cleanupAge, \* millis() - lastCleanup
  link,       \* WiFi.status() == WL_CONNECTED on the client
  events,     \* WiFi events the event task has still to handle
  client,     \* the variables of the client, see ClientState
  loop,       \* the request loop() waits for
  task,       \* the request the event task waits for
  faults,     \* faults so far
  quiet       \* history: time since the last fault with a link to the server, and
              \* no link event left to handle

vars == <<pi, up, deaf, entry, active, cleanupAge, link, events, client, loop, task, faults, quiet>>
-------------------------------------------------------------------------------
Absent == -1
MaxIdle == PurgeAfter + CleanupInterval + 1

ClientState == [role : {"CLIENT", "AWAY"},
                roleAge : 0 .. BlipWindow + 1,   \* millis() - roleSince
                known : BOOLEAN,                 \* clientId # -1
                connected : BOOLEAN,             \* isConnected
                failures : 0 .. HEARTBEAT_FAIL_N,
                beatAge : 0 .. HeartbeatInterval, \* millis() - lastHeartbeat
                regAge : 0 .. MaxRetryDelay,     \* millis() - lastReg
                regDelay : FirstDelay .. MaxRetryDelay]

Request == [kind : {"none", "register", "heartbeat"},
            answer : {"none", "ok", "refused", "failed"}, age : 0 .. RequestTime]
NoRequest == [kind |-> "none", answer |-> "none", age |-> 0]
Sent(kind) == [kind |-> kind, answer |-> "none", age |-> 0]

TypeOK ==
  /\ {pi, up, deaf, link, active} \subseteq BOOLEAN
  /\ entry \in {Absent} \cup 0 .. MaxIdle
  /\ cleanupAge \in 0 .. CleanupInterval
  /\ events \in Seq({"lost", "gotIp"}) /\ Len(events) <= 2 * MaxFaults + 1
  /\ client \in ClientState
  /\ loop \in Request /\ task \in Request
  /\ faults \in 0 .. MaxFaults /\ quiet \in 0 .. RecoveryTime

Reachable == up /\ ~deaf /\ link

\* A fault starts the quiet time anew.
Fault == faults < MaxFaults /\ faults' = faults + 1 /\ quiet' = 0
NoFault == UNCHANGED <<faults, quiet>>

Unlink == link' = FALSE /\ events' = IF link THEN Append(events, "lost") ELSE events

\* enterCandidate; it disconnects a station that still has its link.
Left == [client EXCEPT !.role = "AWAY", !.roleAge = 0, !.known = FALSE, !.connected = FALSE]

Init ==
  /\ pi \in BOOLEAN /\ up = TRUE /\ deaf = FALSE
  /\ entry = Absent /\ active = FALSE /\ cleanupAge = 0
  /\ link = FALSE /\ events = <<>>
  /\ client = [role |-> "AWAY", roleAge |-> 0, known |-> FALSE, connected |-> FALSE,
               failures |-> 0, beatAge |-> 0, regAge |-> 0, regDelay |-> FirstDelay]
  /\ loop = NoRequest /\ task = NoRequest
  /\ faults = 0 /\ quiet = 0
-------------------------------------------------------------------------------
(* The client: loop(). *)

LoopFree == loop = NoRequest
LoopOnly ==
  /\ IF client.role = "CLIENT" /\ client'.role = "AWAY"
     THEN Unlink ELSE UNCHANGED <<link, events>>
  /\ UNCHANGED <<pi, up, deaf, entry, active, cleanupAge, task, faults, quiet>>

\* tickJoining finds the station connected: enterClient.
EnterClient ==
  /\ LoopFree /\ client.role = "AWAY" /\ link
  /\ client' = [client EXCEPT !.role = "CLIENT", !.roleAge = 0, !.failures = 0,
                              !.connected = TRUE, !.beatAge = 0]
  /\ UNCHANGED loop /\ LoopOnly

\* tickClient: the link is gone for longer than a blip.
LeaveClient ==
  /\ LoopFree /\ client.role = "CLIENT" /\ ~link /\ client.roleAge > BlipWindow
  /\ client' = Left
  /\ UNCHANGED loop /\ LoopOnly

InRole == LoopFree /\ client.role = "CLIENT" /\ link

\* ... there is no registration, and the backoff is over.
Reregister ==
  /\ InRole /\ ~client.known /\ client.regAge >= client.regDelay
  /\ client' = [client EXCEPT !.regAge = 0, !.connected = TRUE]
  /\ loop' = Sent("register")
  /\ LoopOnly

\* What tickClient makes of a heartbeat that was sent, or could not be: known is
\* whether the client still has its id.
Counted(known) ==
  LET c == [client EXCEPT !.beatAge = 0, !.known = known]
  IN IF client.connected THEN [c EXCEPT !.failures = 0]
     ELSE IF client.failures + 1 >= HEARTBEAT_FAIL_N
          THEN [Left EXCEPT !.beatAge = 0, !.failures = HEARTBEAT_FAIL_N]
          ELSE [c EXCEPT !.failures = @ + 1]

\* ... a heartbeat is due.
Beat ==
  /\ InRole /\ client.known /\ client.beatAge >= HeartbeatInterval
  /\ IF client.connected
     THEN loop' = Sent("heartbeat") /\ client' = [client EXCEPT !.beatAge = 0]
     ELSE loop' = loop /\ client' = Counted(TRUE)
  /\ LoopOnly

\* Mutant: a rejected heartbeat keeps the id.
BeatAnsweredKept ==
  /\ loop.kind = "heartbeat" /\ loop.answer # "none"
  /\ client' = [Counted(client.known) EXCEPT !.beatAge = client.beatAge]
  /\ loop' = NoRequest
  /\ LoopOnly

\* sendHeartbeat returns: a failure drops the id, and leaves isConnected alone.
BeatAnswered ==
  /\ loop.kind = "heartbeat" /\ loop.answer # "none"
  /\ client' = [Counted(client.known /\ loop.answer = "ok") EXCEPT !.beatAge = client.beatAge]
  /\ loop' = NoRequest
  /\ LoopOnly

\* Mutant: the backoff grows without the cap.
DoubledUncapped(d) == 2 * d

Doubled(d) == IF 2 * d < MaxRetryDelay THEN 2 * d ELSE MaxRetryDelay

\* registerWithServer returns; the event task may have registered meanwhile.
RegisterAnswered ==
  /\ loop.kind = "register" /\ loop.answer # "none"
  /\ client' = IF client.known \/ loop.answer = "ok"
               THEN [client EXCEPT !.known = TRUE, !.regDelay = FirstDelay, !.failures = 0]
               ELSE [client EXCEPT !.regDelay = Doubled(@)]
  /\ loop' = NoRequest
  /\ LoopOnly

LoopDue ==
  \/ loop.answer # "none"
  \/ LoopFree /\ client.role = "AWAY" /\ link
  \/ LoopFree /\ client.role = "CLIENT" /\ ~link /\ client.roleAge > BlipWindow
  \/ InRole /\ ~client.known /\ client.regAge >= client.regDelay
  \/ InRole /\ client.known /\ client.beatAge >= HeartbeatInterval

LoopStep ==
  EnterClient \/ LeaveClient \/ Reregister \/ Beat \/ BeatAnswered \/ RegisterAnswered
-------------------------------------------------------------------------------
(* The client: the WiFi event task, WiFiEvent. *)

TaskOnly == UNCHANGED <<pi, up, deaf, entry, active, cleanupAge, link, loop, faults, quiet>>

StaDisconnected ==
  /\ task = NoRequest /\ events # <<>> /\ Head(events) = "lost"
  /\ events' = Tail(events)
  /\ client' = [client EXCEPT !.connected = FALSE]
  /\ UNCHANGED task /\ TaskOnly

StaGotIp ==
  /\ task = NoRequest /\ events # <<>> /\ Head(events) = "gotIp"
  /\ events' = Tail(events)
  /\ client' = [client EXCEPT !.connected = TRUE]
  /\ task' = Sent("register")
  /\ TaskOnly

TaskAnswered ==
  /\ task.answer # "none"
  /\ client' = [client EXCEPT !.known = @ \/ task.answer = "ok"]
  /\ task' = NoRequest
  /\ UNCHANGED events /\ TaskOnly

TaskDue == task.answer # "none" \/ (task = NoRequest /\ events # <<>>)

TaskStep == StaDisconnected \/ StaGotIp \/ TaskAnswered
-------------------------------------------------------------------------------
(* The server. *)

\* Mutant: only a registration refreshes the entry.
HeardRegisterOnly(kind) == IF kind = "register" THEN 0 ELSE entry

\* handleRegister and handleHeartbeat: the entry after a request of this kind.
Heard(kind) == IF kind = "register" \/ entry # Absent THEN 0 ELSE Absent

\* The web task serves request r, which becomes r'; an answer that is lost looks
\* like a failure.
Served(r, answer) ==
  /\ r.kind # "none" /\ r.answer = "none" /\ Reachable
  /\ entry' = Heard(r.kind) /\ active' = (entry' # Absent)
  /\ \/ /\ answer = (IF r.kind = "register" \/ entry # Absent THEN "ok" ELSE "refused")
        /\ NoFault
     \/ answer = "failed" /\ Fault
  /\ UNCHANGED <<pi, up, deaf, cleanupAge, link, events, client>>

\* The request fails: nobody is there, or it got lost.
Failed(r, answer) ==
  /\ r.kind # "none" /\ r.answer = "none" /\ answer = "failed"
  /\ IF Reachable THEN Fault ELSE NoFault
  /\ UNCHANGED <<pi, up, deaf, entry, active, cleanupAge, link, events, client>>

RequestEnds == \E answer \in {"ok", "refused", "failed"} :
  \/ /\ Served(loop, answer) \/ Failed(loop, answer)
     /\ loop' = [loop EXCEPT !.answer = answer] /\ UNCHANGED task
  \/ /\ Served(task, answer) \/ Failed(task, answer)
     /\ task' = [task EXCEPT !.answer = answer] /\ UNCHANGED loop

CleanupDue == up /\ cleanupAge >= CleanupInterval

\* Mutant: the interval is tested again after the caller has restarted it.
CleanupGatedTwice ==
  /\ CleanupDue
  /\ cleanupAge' = 0 /\ UNCHANGED <<entry, active>>
  /\ UNCHANGED <<pi, up, deaf, link, events, client, loop, task, faults, quiet>>

\* What cleanupStaleClients removes a client for.
Stale == entry > HeartbeatTimeout

\* server.py forgets a client only in a round after the one that took it for inactive.
Forgotten == IF pi THEN ~active /\ entry > PurgeAfter ELSE Stale

\* cleanupStaleClients, or a round of cleanup_stale_clients in server.py.
Cleanup ==
  /\ CleanupDue
  /\ cleanupAge' = 0
  /\ active' = (active /\ ~Stale)
  /\ entry' = IF Forgotten THEN Absent ELSE entry
  /\ UNCHANGED <<pi, up, deaf, link, events, client, loop, task, faults, quiet>>
-------------------------------------------------------------------------------
(* What happens to them. *)

\* The station associates and gets its address.
Associate ==
  /\ up /\ ~link
  /\ link' = TRUE /\ events' = Append(events, "gotIp")
  /\ UNCHANGED <<pi, up, deaf, entry, active, cleanupAge, client, loop, task, faults, quiet>>

LinkBlip ==
  /\ link /\ Unlink /\ Fault
  /\ UNCHANGED <<pi, up, deaf, entry, active, cleanupAge, client, loop, task>>

\* The server loses power, and its registry with it.
ServerDown ==
  /\ up /\ up' = FALSE /\ entry' = Absent /\ active' = FALSE
  /\ Unlink /\ Fault
  /\ UNCHANGED <<pi, deaf, cleanupAge, client, loop, task>>

\* A node is on the air again; lastCleanup is whatever it was there.
ServerUp ==
  /\ ~up /\ up' = TRUE /\ cleanupAge' \in 0 .. CleanupInterval
  /\ UNCHANGED <<pi, deaf, entry, active, link, events, client, loop, task, faults, quiet>>

\* The process of server.py is restarted, which the access point of the Pi survives.
Restart ==
  /\ pi /\ up /\ entry' = Absent /\ active' = FALSE /\ cleanupAge' = CleanupInterval
  /\ Fault
  /\ UNCHANGED <<pi, up, deaf, link, events, client, loop, task>>

\* The web task stops, the access point stays.
GoDeaf ==
  /\ up /\ ~deaf /\ deaf' = TRUE /\ Fault
  /\ UNCHANGED <<pi, up, entry, active, cleanupAge, link, events, client, loop, task>>

\* loop() and the event task run at once; a request ends in time.
Urgent ==
  \/ LoopDue \/ TaskDue \/ CleanupDue
  \/ loop.kind # "none" /\ loop.age = RequestTime
  \/ task.kind # "none" /\ task.age = RequestTime

Up1(n, max) == IF n < max THEN n + 1 ELSE max
Aged(r) == IF r.kind = "none" THEN r ELSE [r EXCEPT !.age = @ + 1]

Tick ==
  /\ ~Urgent
  /\ entry' = IF entry = Absent THEN Absent ELSE Up1(entry, MaxIdle)
  /\ cleanupAge' = Up1(cleanupAge, CleanupInterval)
  /\ client' = [client EXCEPT !.roleAge = IF link /\ LoopFree THEN 0 ELSE Up1(@, BlipWindow + 1),
                              !.beatAge = Up1(@, HeartbeatInterval),
                              !.regAge = Up1(@, MaxRetryDelay)]
  /\ loop' = Aged(loop) /\ task' = Aged(task)
  /\ quiet' = IF Reachable /\ events = <<>> THEN Up1(quiet, RecoveryTime) ELSE 0
  /\ UNCHANGED <<pi, up, deaf, active, link, events, faults>>
-------------------------------------------------------------------------------
Next ==
  \/ LoopStep \/ TaskStep \/ RequestEnds \/ Cleanup
  \/ Associate \/ LinkBlip \/ ServerDown \/ ServerUp \/ Restart \/ GoDeaf \/ Tick

Spec == Init /\ [][Next]_vars

\* Tasks run, requests end, time passes, the station looks for the network.
FairSpec ==
  Spec /\ WF_vars(LoopStep) /\ WF_vars(TaskStep) /\ WF_vars(RequestEnds)
       /\ WF_vars(Cleanup) /\ WF_vars(Associate) /\ WF_vars(Tick)
-------------------------------------------------------------------------------
\* Whatever was lost, and whichever of its two tasks registered last, a client
\* with a link to an answering server is in its registry, and knows it, once nothing has
\* gone wrong for a heartbeat or a backoff, whichever is longer, and two requests.
Recovered == quiet = RecoveryTime => active /\ client.known

\* The cleanup takes no client for gone that has kept its link and lost nothing for
\* one heartbeat or one backoff, even one that holds on to an id of an earlier session.
NoLiveClientRemoved == [][ Cleanup /\ active /\ ~active' => quiet <= Longer + RequestTime ]_vars

\* A client that is gone is broadcast to for no longer than the timeout and one
\* cleanup.
StaleEntriesGo == active => entry <= HeartbeatTimeout + CleanupInterval

\* "heartbeat fails >= N: CANDIDATE": a client that is registered with a server that
\* stops answering leaves it.
DeafServerLeft == (deaf /\ client.role = "CLIENT" /\ client.known) ~> (client.role = "AWAY")
===============================================================================
