----------------------------- MODULE SessionProofs -----------------------------
(* What the registration promises for every timing of the heartbeats, backoffs  *)
(* and timeouts, any number of faults and any interleaving of the client's tasks. *)
EXTENDS Session, SequenceTheorems, TLAPS

(* The inductive invariant. *)

\* The event task lags behind the link, but misses nothing.
NextEvent == IF events # <<>> THEN Head(events) ELSE IF link THEN "lost" ELSE "gotIp"

LinkEvents ==
  /\ \A i \in 1 .. Len(events) - 1 : events[i] # events[i + 1]
  /\ events # <<>> => (events[Len(events)] = "gotIp" <=> link)

\* With nothing left to handle, isConnected is right.  In the role it is wrong only
\* while a disconnection is handled and the address after it is not.
ConnectedTracks ==
  /\ events = <<>> => (client.connected <=> link)
  /\ client.role = "CLIENT" /\ ~client.connected => NextEvent = "gotIp"
  /\ client.role = "AWAY" => LoopFree

\* Every fault adds two events at most; a client that leaves by itself adds two more,
\* and has handled two since the last time it did.
QueueShort ==
  LET most == 2 * faults + (IF link THEN 1 ELSE 0)
  IN /\ Len(events) <= most
     /\ NextEvent = "lost" => Len(events) + 1 <= most
     /\ client.role = "CLIENT" /\ ~client.connected => Len(events) + 2 <= most

\* Only a server that is on the air broadcasts, and only to entries of its registry.
ActiveEntries ==
  /\ active => up /\ entry # Absent /\ entry <= HeartbeatTimeout + cleanupAge

\* Both tasks are in order, and what is answered at this moment was heard at this moment.
TasksAgree ==
  /\ Reachable /\ events = <<>> /\ client.role = "CLIENT" /\ client.connected
  /\ loop.answer # "failed" /\ task.answer # "failed"
  /\ loop.answer = "ok" \/ task.answer # "none" => active
  /\ (loop.answer # "none" \/ task.answer # "none") /\ active => entry = 0

\* They are once some time has passed without a fault.
Calm == quiet > 0 => TasksAgree

\* In touch: the server has heard of the client since its last heartbeat.
InTouch ==
  /\ active /\ client.known /\ loop.answer # "refused"
  /\ entry <= IF LoopFree THEN client.beatAge ELSE HeartbeatInterval + loop.age

\* Not yet: how long that can last in each phase of the recovery.
NoAttempt == quiet <= client.regAge \/ client.regAge = MaxRetryDelay

Recovering ==
  /\ LoopFree /\ client.known => quiet <= client.beatAge /\ NoAttempt
  /\ LoopFree /\ ~client.known =>
       /\ NoAttempt /\ quiet <= Longer + RequestTime
       /\ active => quiet <= Longer \/ entry <= quiet
  /\ loop.kind = "heartbeat" => NoAttempt /\ quiet <= HeartbeatInterval + loop.age
  /\ loop.kind = "register" =>
       /\ quiet <= Longer + RequestTime + loop.age
       /\ active => quiet <= Longer + loop.age \/ entry <= quiet

\* Only a heartbeat can be refused, and only loop() sends one.
Requests ==
  /\ task.kind # "heartbeat" /\ task.answer # "refused"
  /\ loop.kind = "register" => loop.answer # "refused"
  /\ task.kind = "none" => task = NoRequest
  /\ loop.kind = "none" => loop = NoRequest

IInv ==
  /\ TypeOK /\ LinkEvents /\ ConnectedTracks /\ QueueShort /\ ActiveEntries /\ Requests
  /\ Calm /\ (InTouch \/ Recovering)
-------------------------------------------------------------------------------
(* Types. *)

LEMMA Numbers ==
  /\ HeartbeatInterval \in Nat \ {0} /\ CleanupInterval \in Nat \ {0}
  /\ FirstDelay \in Nat \ {0} /\ MaxRetryDelay \in Nat \ {0} /\ HEARTBEAT_FAIL_N \in Nat \ {0}
  /\ HeartbeatTimeout \in Nat /\ PurgeAfter \in Nat /\ BlipWindow \in Nat
  /\ RequestTime \in Nat /\ MaxFaults \in Nat /\ Longer \in Nat
  /\ HeartbeatInterval <= Longer /\ MaxRetryDelay <= Longer /\ FirstDelay <= MaxRetryDelay
  /\ RecoveryTime = Longer + 2 * RequestTime + 1 /\ RecoveryTime \in Nat
  /\ RecoveryTime <= HeartbeatTimeout
  /\ MaxIdle \in Nat /\ MaxIdle > HeartbeatTimeout + CleanupInterval
BY SessionAssumption, SMT DEF Longer, RecoveryTime, MaxIdle

LEMMA ClientFields ==
  ASSUME NEW c \in ClientState
  PROVE  /\ c.role \in {"CLIENT", "AWAY"} /\ c.known \in BOOLEAN /\ c.connected \in BOOLEAN
         /\ c.roleAge \in 0 .. BlipWindow + 1 /\ c.failures \in 0 .. HEARTBEAT_FAIL_N
         /\ c.beatAge \in 0 .. HeartbeatInterval /\ c.regAge \in 0 .. MaxRetryDelay
         /\ c.regDelay \in FirstDelay .. MaxRetryDelay
         /\ c.beatAge \in Nat /\ c.regAge \in Nat /\ c.regDelay \in Nat
         /\ c.beatAge <= HeartbeatInterval /\ c.regAge <= MaxRetryDelay
         /\ c.regDelay <= MaxRetryDelay
<1>1. /\ c.role \in {"CLIENT", "AWAY"} /\ c.known \in BOOLEAN /\ c.connected \in BOOLEAN
      /\ c.roleAge \in 0 .. BlipWindow + 1 /\ c.failures \in 0 .. HEARTBEAT_FAIL_N
      /\ c.beatAge \in 0 .. HeartbeatInterval /\ c.regAge \in 0 .. MaxRetryDelay
      /\ c.regDelay \in FirstDelay .. MaxRetryDelay
  BY Zenon DEF ClientState
<1> QED
  BY <1>1, Numbers, SMT

LEMMA RequestFields ==
  ASSUME NEW r \in Request
  PROVE  /\ r.kind \in {"none", "register", "heartbeat"}
         /\ r.answer \in {"none", "ok", "refused", "failed"}
         /\ r.age \in 0 .. RequestTime /\ r.age \in Nat /\ r.age <= RequestTime
         /\ \A a \in {"none", "ok", "refused", "failed"} :
              /\ [r EXCEPT !.answer = a] \in Request
              /\ [r EXCEPT !.answer = a].kind = r.kind
              /\ [r EXCEPT !.answer = a].answer = a
              /\ [r EXCEPT !.answer = a].age = r.age
<1>1. /\ r.kind \in {"none", "register", "heartbeat"}
      /\ r.answer \in {"none", "ok", "refused", "failed"} /\ r.age \in 0 .. RequestTime
  BY Zenon DEF Request
<1>2. r.age \in Nat /\ r.age <= RequestTime
  BY <1>1, Numbers, SMT
<1>3. ASSUME NEW a \in {"none", "ok", "refused", "failed"}
      PROVE  /\ [r EXCEPT !.answer = a] \in Request
             /\ [r EXCEPT !.answer = a].kind = r.kind
             /\ [r EXCEPT !.answer = a].answer = a
             /\ [r EXCEPT !.answer = a].age = r.age
  BY Zenon DEF Request
<1> QED
  BY <1>1, <1>2, <1>3

LEMMA NewRequests ==
  /\ NoRequest \in Request /\ NoRequest.kind = "none" /\ NoRequest.answer = "none"
  /\ NoRequest.age = 0
  /\ \A k \in {"register", "heartbeat"} :
       /\ Sent(k) \in Request /\ Sent(k).kind = k /\ Sent(k).answer = "none" /\ Sent(k).age = 0
       /\ Sent(k) # NoRequest
<1>1. 0 \in 0 .. RequestTime
  BY Numbers, SMT
<1>2. /\ NoRequest \in Request /\ NoRequest.kind = "none" /\ NoRequest.answer = "none"
      /\ NoRequest.age = 0
  BY <1>1, SMT DEF NoRequest, Request
<1>3. ASSUME NEW k \in {"register", "heartbeat"}
      PROVE  Sent(k) \in Request /\ Sent(k).kind = k /\ Sent(k).answer = "none" /\ Sent(k).age = 0
  BY <1>1, <1>3, SMT DEF Sent, Request
<1> QED
  BY <1>2, <1>3

\* The zeros and maxima the handlers assign.
LEMMA Bounds ==
  /\ 0 \in 0 .. BlipWindow + 1 /\ 0 \in 0 .. HEARTBEAT_FAIL_N
  /\ HEARTBEAT_FAIL_N \in 0 .. HEARTBEAT_FAIL_N
  /\ 0 \in 0 .. HeartbeatInterval /\ 0 \in 0 .. MaxRetryDelay
  /\ FirstDelay \in FirstDelay .. MaxRetryDelay
  /\ 0 \in 0 .. RecoveryTime /\ 0 \in 0 .. CleanupInterval /\ 0 \in 0 .. MaxIdle
  /\ CleanupInterval \in 0 .. CleanupInterval
BY Numbers, SMT
-------------------------------------------------------------------------------
(* What each handler leaves of the client. *)

LEMMA EnterClientEffect ==
  ASSUME TypeOK, EnterClient
  PROVE  client' \in ClientState /\ client'.role = "CLIENT" /\ client'.connected = TRUE
BY Bounds, Zenon DEF TypeOK, EnterClient, ClientState

LEMMA LeftType ==
  ASSUME TypeOK
  PROVE  /\ Left \in ClientState /\ Left.role = "AWAY" /\ Left.connected = FALSE
         /\ [Left EXCEPT !.beatAge = 0, !.failures = HEARTBEAT_FAIL_N] \in ClientState
         /\ [Left EXCEPT !.beatAge = 0, !.failures = HEARTBEAT_FAIL_N].role = "AWAY"
         /\ [Left EXCEPT !.beatAge = 0, !.failures = HEARTBEAT_FAIL_N].connected = FALSE
<1>1. Left \in ClientState /\ Left.role = "AWAY" /\ Left.connected = FALSE
  BY Bounds, Zenon DEF TypeOK, Left, ClientState
<1> DEFINE c == Left
<1>2. c \in ClientState /\ c.role = "AWAY" /\ c.connected = FALSE
  BY <1>1
<1> HIDE DEF c
<1>3. /\ [c EXCEPT !.beatAge = 0, !.failures = HEARTBEAT_FAIL_N] \in ClientState
      /\ [c EXCEPT !.beatAge = 0, !.failures = HEARTBEAT_FAIL_N].role = "AWAY"
      /\ [c EXCEPT !.beatAge = 0, !.failures = HEARTBEAT_FAIL_N].connected = FALSE
  BY <1>2, Bounds, Zenon DEF ClientState
<1> QED
  BY <1>1, <1>3 DEF c

LEMMA ReregisterEffect ==
  ASSUME TypeOK, Reregister
  PROVE  /\ client' \in ClientState /\ client'.role = client.role /\ client'.connected = TRUE
         /\ client'.known = client.known /\ client'.beatAge = client.beatAge
BY Bounds, Zenon DEF TypeOK, Reregister, ClientState

\* A heartbeat is counted: the client stays, or leaves after the last of too many
\* failures, which takes a broken connection.
LEMMA CountedEffect ==
  ASSUME TypeOK, NEW known \in BOOLEAN
  PROVE  LET c == Counted(known)
         IN /\ c \in ClientState /\ c.beatAge = 0
            /\ \/ /\ c.role = client.role /\ c.connected = client.connected
                  /\ c.known = known /\ c.regAge = client.regAge
               \/ c.role = "AWAY" /\ c.connected = FALSE /\ client.connected = FALSE
<1> DEFINE c0 == [client EXCEPT !.beatAge = 0, !.known = known]
           more == client.failures + 1
           c1 == [c0 EXCEPT !.failures = 0]
           c2 == [Left EXCEPT !.beatAge = 0, !.failures = HEARTBEAT_FAIL_N]
           c3 == [c0 EXCEPT !.failures = more]
<1>1. /\ c0 \in ClientState /\ c0.role = client.role /\ c0.connected = client.connected
      /\ c0.known = known /\ c0.regAge = client.regAge /\ c0.beatAge = 0
      /\ c0.failures = client.failures
  BY Bounds, Zenon DEF TypeOK, ClientState
<1>2. client.connected \in BOOLEAN /\ client.failures \in 0 .. HEARTBEAT_FAIL_N
  BY ClientFields DEF TypeOK
<1>3. ~(more >= HEARTBEAT_FAIL_N) => more \in 0 .. HEARTBEAT_FAIL_N
  BY <1>2, Numbers, SMT
<1>4. Counted(known) = IF client.connected THEN c1
                       ELSE IF more >= HEARTBEAT_FAIL_N THEN c2
                       ELSE c3
  BY <1>1, Zenon DEF Counted
<1>5. c2 \in ClientState /\ c2.role = "AWAY" /\ c2.connected = FALSE /\ c2.beatAge = 0
  <2> DEFINE l == Left
  <2>1. l \in ClientState
    BY LeftType
  <2> HIDE DEF l
  <2>2. [l EXCEPT !.beatAge = 0, !.failures = HEARTBEAT_FAIL_N].beatAge = 0
    BY <2>1, Zenon DEF ClientState
  <2> QED
    BY <2>2, LeftType DEF l
<1> HIDE DEF c0, more
<1>6. /\ c1 \in ClientState /\ c1.role = c0.role /\ c1.connected = c0.connected
      /\ c1.known = c0.known /\ c1.regAge = c0.regAge /\ c1.beatAge = c0.beatAge
  BY <1>1, Bounds, Zenon DEF ClientState
<1>7. ~(more >= HEARTBEAT_FAIL_N) =>
      /\ c3 \in ClientState /\ c3.role = c0.role /\ c3.connected = c0.connected
      /\ c3.known = c0.known /\ c3.regAge = c0.regAge /\ c3.beatAge = c0.beatAge
  BY <1>1, <1>3, Zenon DEF ClientState
<1> HIDE DEF c1, c2, c3
<1> QED
  BY <1>1, <1>2, <1>4, <1>5, <1>6, <1>7, Zenon

LEMMA BeatEffect ==
  ASSUME TypeOK, Beat
  PROVE  /\ LoopFree /\ client.role = "CLIENT" /\ link /\ client.known
         /\ client' \in ClientState
         /\ \/ /\ client.connected /\ loop' = Sent("heartbeat")
               /\ client'.role = client.role /\ client'.connected = client.connected
               /\ client'.known = client.known /\ client'.regAge = client.regAge
               /\ client'.beatAge = 0
            \/ /\ ~client.connected /\ loop' = loop
               /\ \/ client'.role = client.role /\ client'.connected = client.connected
                  \/ client'.role = "AWAY" /\ client'.connected = FALSE
<1>1. LoopFree /\ client.role = "CLIENT" /\ link /\ client.known
  BY DEF Beat, InRole
<1>2. CASE client.connected
  <2>1. loop' = Sent("heartbeat") /\ client' = [client EXCEPT !.beatAge = 0]
    BY <1>2, Zenon DEF Beat
  <2>2. /\ client' \in ClientState
        /\ client'.role = client.role /\ client'.connected = client.connected
        /\ client'.known = client.known /\ client'.regAge = client.regAge /\ client'.beatAge = 0
    BY <2>1, Bounds, Zenon DEF TypeOK, ClientState
  <2> QED
    BY <1>1, <1>2, <2>1, <2>2
<1>3. CASE ~client.connected
  BY <1>1, <1>3, CountedEffect DEF Beat
<1> QED
  BY <1>2, <1>3

LEMMA BeatAnsweredEffect ==
  ASSUME TypeOK, BeatAnswered
  PROVE  /\ client' \in ClientState /\ client'.beatAge = client.beatAge
         /\ \/ /\ client'.role = client.role /\ client'.connected = client.connected
               /\ client'.known = (client.known /\ loop.answer = "ok")
               /\ client'.regAge = client.regAge
            \/ client'.role = "AWAY" /\ client'.connected = FALSE /\ client.connected = FALSE
<1> DEFINE known == client.known /\ loop.answer = "ok"
           c == Counted(known)
           age == client.beatAge
<1>1. known \in BOOLEAN /\ age \in 0 .. HeartbeatInterval
  BY ClientFields DEF TypeOK
<1>2. /\ c \in ClientState
      /\ \/ /\ c.role = client.role /\ c.connected = client.connected
            /\ c.known = known /\ c.regAge = client.regAge
         \/ c.role = "AWAY" /\ c.connected = FALSE /\ client.connected = FALSE
  BY <1>1, CountedEffect
<1>3. client' = [c EXCEPT !.beatAge = age]
  BY Zenon DEF BeatAnswered
<1> HIDE DEF c, age
<1>4. /\ client' \in ClientState /\ client'.beatAge = age
      /\ client'.role = c.role /\ client'.connected = c.connected
      /\ client'.known = c.known /\ client'.regAge = c.regAge
  BY <1>1, <1>2, <1>3, Zenon DEF ClientState
<1> QED
  BY <1>2, <1>4, Zenon DEF age

LEMMA DoubledType ==
  ASSUME NEW d \in FirstDelay .. MaxRetryDelay
  PROVE  Doubled(d) \in FirstDelay .. MaxRetryDelay
BY Numbers, SMT DEF Doubled

LEMMA RegisterAnsweredEffect ==
  ASSUME TypeOK, RegisterAnswered
  PROVE  /\ client' \in ClientState
         /\ client'.role = client.role /\ client'.connected = client.connected
         /\ client'.beatAge = client.beatAge /\ client'.regAge = client.regAge
         /\ client'.known = (client.known \/ loop.answer = "ok")
<1>1. client \in ClientState /\ client.known \in BOOLEAN
  BY ClientFields DEF TypeOK
<1> DEFINE twice == Doubled(client.regDelay)
<1>2. twice \in FirstDelay .. MaxRetryDelay
  BY <1>1, ClientFields, DoubledType
<1>3. client' = IF client.known \/ loop.answer = "ok"
                THEN [client EXCEPT !.known = TRUE, !.regDelay = FirstDelay, !.failures = 0]
                ELSE [client EXCEPT !.regDelay = twice]
  BY Zenon DEF RegisterAnswered
<1> HIDE DEF twice
<1>4. CASE client.known \/ loop.answer = "ok"
  <2>1. client' = [client EXCEPT !.known = TRUE, !.regDelay = FirstDelay, !.failures = 0]
    BY <1>3, <1>4
  <2>2. /\ client' \in ClientState
        /\ client'.role = client.role /\ client'.connected = client.connected
        /\ client'.beatAge = client.beatAge /\ client'.regAge = client.regAge
        /\ client'.known = TRUE
    BY <1>1, <2>1, Bounds, Zenon DEF ClientState
  <2> QED
    BY <1>4, <2>2, Zenon
<1>5. CASE ~(client.known \/ loop.answer = "ok")
  <2>1. client' = [client EXCEPT !.regDelay = twice]
    BY <1>3, <1>5
  <2>2. /\ client' \in ClientState
        /\ client'.role = client.role /\ client'.connected = client.connected
        /\ client'.beatAge = client.beatAge /\ client'.regAge = client.regAge
        /\ client'.known = client.known
    BY <1>1, <1>2, <2>1, Zenon DEF ClientState
  <2> QED
    BY <1>1, <1>5, <2>2, Zenon
<1> QED
  BY <1>4, <1>5

LEMMA TaskEffect ==
  ASSUME TypeOK, TaskStep
  PROVE  /\ client' \in ClientState
         /\ client'.role = client.role
         /\ client'.beatAge = client.beatAge /\ client'.regAge = client.regAge
         /\ StaDisconnected => client'.connected = FALSE
         /\ StaGotIp => client'.connected = TRUE
         /\ TaskAnswered => /\ client'.connected = client.connected
                            /\ client'.known = (client.known \/ task.answer = "ok")
<1>1. client \in ClientState /\ client.known \in BOOLEAN
  BY ClientFields DEF TypeOK
<1>2. ASSUME NEW b \in BOOLEAN, client' = [client EXCEPT !.connected = b]
      PROVE  /\ client' \in ClientState /\ client'.role = client.role /\ client'.connected = b
             /\ client'.beatAge = client.beatAge /\ client'.regAge = client.regAge
  BY <1>1, <1>2, Zenon DEF ClientState
<1>3. ASSUME TaskAnswered
      PROVE  /\ client' \in ClientState /\ client'.role = client.role
             /\ client'.beatAge = client.beatAge /\ client'.regAge = client.regAge
             /\ client'.connected = client.connected
             /\ client'.known = (client.known \/ task.answer = "ok")
  <2> DEFINE b == client.known \/ task.answer = "ok"
  <2>1. b \in BOOLEAN /\ client' = [client EXCEPT !.known = b]
    BY <1>3, Zenon DEF TaskAnswered
  <2> HIDE DEF b
  <2>2. /\ client' \in ClientState /\ client'.role = client.role
        /\ client'.beatAge = client.beatAge /\ client'.regAge = client.regAge
        /\ client'.connected = client.connected /\ client'.known = b
    BY <1>1, <2>1, Zenon DEF ClientState
  <2> QED
    BY <2>2, Zenon DEF b
<1>4. /\ StaDisconnected => client' = [client EXCEPT !.connected = FALSE]
      /\ StaGotIp => client' = [client EXCEPT !.connected = TRUE]
  BY DEF StaDisconnected, StaGotIp
<1>5. /\ StaDisconnected => task.answer = "none" /\ task = NoRequest
      /\ StaGotIp => task.answer = "none" /\ task = NoRequest
      /\ TaskAnswered => task.answer # "none"
      /\ StaDisconnected => Head(events) = "lost"
      /\ StaGotIp => Head(events) = "gotIp"
  BY NewRequests DEF StaDisconnected, StaGotIp, TaskAnswered
<1>6. CASE StaDisconnected
  BY <1>2, <1>4, <1>5, <1>6, Zenon
<1>7. CASE StaGotIp
  BY <1>2, <1>4, <1>5, <1>7, Zenon
<1>8. CASE TaskAnswered
  BY <1>3, <1>5, <1>8, Zenon
<1> QED
  BY <1>6, <1>7, <1>8 DEF TaskStep

\* A timer grows to its cap.
LEMMA Up1Type ==
  ASSUME NEW max \in Nat, NEW n \in 0 .. max
  PROVE  /\ Up1(n, max) \in 0 .. max /\ Up1(n, max) <= n + 1
         /\ Up1(n, max) = n + 1 \/ (n = max /\ Up1(n, max) = max)
BY SMT DEF Up1

LEMMA AgedType ==
  ASSUME NEW r \in Request, r.kind # "none" => r.age # RequestTime
  PROVE  /\ Aged(r) \in Request /\ Aged(r).kind = r.kind /\ Aged(r).answer = r.answer
         /\ r.kind = "none" => Aged(r) = r
         /\ r.kind # "none" => Aged(r).age = r.age + 1
<1> DEFINE age == r.age + 1
<1>1. CASE r.kind = "none"
  BY <1>1 DEF Aged
<1>2. CASE r.kind # "none"
  <2>1. age \in 0 .. RequestTime
    <3>1. r.age \in Nat /\ r.age <= RequestTime /\ r.age # RequestTime
      BY <1>2, RequestFields
    <3> QED
      BY <3>1, Numbers, SMT
  <2>2. Aged(r) = [r EXCEPT !.age = age]
    BY <1>2, Zenon DEF Aged
  <2> HIDE DEF age
  <2>3. Aged(r) \in Request /\ Aged(r).kind = r.kind /\ Aged(r).answer = r.answer
        /\ Aged(r).age = age
    BY <2>1, <2>2, Zenon DEF Request
  <2> QED
    BY <1>2, <2>3, Zenon DEF age
<1> QED
  BY <1>1, <1>2

LEMMA TickEffect ==
  ASSUME TypeOK, Tick
  PROVE  /\ client' \in ClientState
         /\ client'.role = client.role /\ client'.connected = client.connected
         /\ client'.known = client.known
         /\ client'.beatAge = Up1(client.beatAge, HeartbeatInterval)
         /\ client'.regAge = Up1(client.regAge, MaxRetryDelay)
         /\ loop' = Aged(loop) /\ loop' \in Request /\ task' = Aged(task) /\ task' \in Request
<1> DEFINE r0 == Up1(client.roleAge, BlipWindow + 1)
           r == IF link /\ LoopFree THEN 0 ELSE r0
           b == Up1(client.beatAge, HeartbeatInterval)
           g == Up1(client.regAge, MaxRetryDelay)
<1>1. /\ r \in 0 .. BlipWindow + 1 /\ b \in 0 .. HeartbeatInterval /\ g \in 0 .. MaxRetryDelay
  <2>1. BlipWindow + 1 \in Nat /\ HeartbeatInterval \in Nat /\ MaxRetryDelay \in Nat
    BY Numbers, SMT
  <2>2. r0 \in 0 .. BlipWindow + 1 /\ b \in 0 .. HeartbeatInterval /\ g \in 0 .. MaxRetryDelay
    BY <2>1, ClientFields, Up1Type DEF TypeOK
  <2> HIDE DEF r0
  <2> QED
    BY <2>2, Bounds
<1>2. client' = [client EXCEPT !.roleAge = r, !.beatAge = b, !.regAge = g]
  BY Zenon DEF Tick
<1> HIDE DEF r, b, g
<1>3. /\ client' \in ClientState
      /\ client'.role = client.role /\ client'.connected = client.connected
      /\ client'.known = client.known /\ client'.beatAge = b /\ client'.regAge = g
  BY <1>1, <1>2, Zenon DEF TypeOK, ClientState
<1>4. /\ loop.kind # "none" => loop.age # RequestTime
      /\ task.kind # "none" => task.age # RequestTime
  BY DEF Tick, Urgent
<1>5. loop' = Aged(loop) /\ loop' \in Request /\ task' = Aged(task) /\ task' \in Request
  BY <1>4, AgedType DEF TypeOK, Tick
<1> QED
  BY <1>3, <1>5, Zenon DEF b, g
-------------------------------------------------------------------------------
(* The link and its events. *)

Event == {"lost", "gotIp"}

LEMMA Appended ==
  ASSUME NEW s \in Seq(Event), NEW e \in Event
  PROVE  /\ Append(s, e) \in Seq(Event) /\ Append(s, e) # <<>>
         /\ Len(s) \in Nat /\ Len(Append(s, e)) = Len(s) + 1
         /\ Append(s, e)[Len(s) + 1] = e
         /\ \A i \in 1 .. Len(s) : Append(s, e)[i] = s[i]
         /\ Head(Append(s, e)) = IF s = <<>> THEN e ELSE Head(s)
<1>1. /\ Append(s, e) \in Seq(Event) /\ Append(s, e) # <<>>
      /\ Len(s) \in Nat /\ Len(Append(s, e)) = Len(s) + 1
      /\ Append(s, e)[Len(s) + 1] = e
      /\ \A i \in 1 .. Len(s) : Append(s, e)[i] = s[i]
  BY AppendProperties, LenProperties
<1>2. Head(Append(s, e)) = Append(s, e)[1]
  BY <1>1, HeadTailProperties, SMT
<1>3. s = <<>> => Len(s) + 1 = 1
  BY SMT
<1>4. s # <<>> => 1 \in 1 .. Len(s) /\ Head(s) = s[1]
  BY SMT
<1> QED
  BY <1>1, <1>2, <1>3, <1>4

LEMMA Taken ==
  ASSUME NEW s \in Seq(Event), s # <<>>
  PROVE  /\ Tail(s) \in Seq(Event) /\ Len(s) \in Nat /\ Len(s) >= 1
         /\ Len(Tail(s)) = Len(s) - 1 /\ Head(s) = s[1] /\ Head(s) \in Event
         /\ \A i \in 1 .. Len(s) - 1 : Tail(s)[i] = s[i + 1]
         /\ Tail(s) = <<>> => Len(s) = 1
         /\ Tail(s) # <<>> => Head(Tail(s)) = s[2] /\ Len(s) >= 2
<1>1. /\ Tail(s) \in Seq(Event) /\ Head(s) \in Event /\ Len(Tail(s)) = Len(s) - 1
      /\ \A i \in 1 .. Len(Tail(s)) : Tail(s)[i] = s[i + 1]
  BY HeadTailProperties
<1>2. Len(s) \in Nat /\ Len(s) >= 1
  BY EmptySeq, SMT
<1>3. Head(s) = s[1]
  BY SMT
<1>4. Tail(s) = <<>> => Len(Tail(s)) = 0
  BY EmptySeq
<1>5. Tail(s) # <<>> => Len(Tail(s)) \in Nat \ {0} /\ Head(Tail(s)) = Tail(s)[1]
  BY <1>1, EmptySeq, SMT
<1>6. Tail(s) # <<>> => 1 \in 1 .. Len(Tail(s)) /\ Len(s) >= 2 /\ 1 + 1 = 2
  BY <1>1, <1>2, <1>5, SMT
<1>7. Tail(s) = <<>> => Len(s) = 1
  BY <1>1, <1>2, <1>4, SMT
<1> QED
  BY <1>1, <1>2, <1>3, <1>5, <1>6, <1>7

\* The events that end in this one, by the link.
EndsRight(s, on) ==
  /\ \A i \in 1 .. Len(s) - 1 : s[i] # s[i + 1]
  /\ s # <<>> => (s[Len(s)] = "gotIp" <=> on)

LEMMA AppendEnds ==
  ASSUME NEW s \in Seq(Event), NEW on \in BOOLEAN, EndsRight(s, on)
  PROVE  EndsRight(Append(s, IF on THEN "lost" ELSE "gotIp"), ~on)
<1> DEFINE e == IF on THEN "lost" ELSE "gotIp"
           t == Append(s, e)
<1>0. e \in Event /\ (e = "gotIp" <=> ~on)
  BY DEF Event
<1> HIDE DEF e
<1>1. /\ t \in Seq(Event) /\ Len(s) \in Nat /\ Len(t) = Len(s) + 1 /\ t[Len(s) + 1] = e
      /\ \A i \in 1 .. Len(s) : t[i] = s[i]
  BY <1>0, Appended
<1>2. t[Len(t)] = e
  BY <1>1
<1>3. ASSUME NEW i \in 1 .. Len(t) - 1 PROVE t[i] # t[i + 1]
  <2>1. i \in 1 .. Len(s)
    BY <1>1, <1>3, SMT
  <2>2. CASE i = Len(s)
    <3>1. s # <<>> /\ t[i] = s[Len(s)] /\ t[i + 1] = e
      BY <1>1, <2>1, <2>2, SMT
    <3>2. (s[Len(s)] = "gotIp" <=> on)
      BY <3>1 DEF EndsRight
    <3> QED
      BY <3>1, <3>2, <1>0, Zenon
  <2>3. CASE i # Len(s)
    <3>1. i \in 1 .. Len(s) - 1 /\ i + 1 \in 1 .. Len(s)
      BY <1>1, <2>1, <2>3, SMT
    <3>2. t[i] = s[i] /\ t[i + 1] = s[i + 1] /\ s[i] # s[i + 1]
      BY <1>1, <2>1, <3>1 DEF EndsRight
    <3> QED
      BY <3>2
  <2> QED
    BY <2>2, <2>3
<1> HIDE DEF t
<1>4. EndsRight(t, ~on)
  BY <1>0, <1>2, <1>3, Zenon DEF EndsRight
<1> QED
  BY <1>4 DEF t, e

LEMMA TailEnds ==
  ASSUME NEW s \in Seq(Event), s # <<>>, NEW on \in BOOLEAN, EndsRight(s, on)
  PROVE  /\ EndsRight(Tail(s), on)
         /\ Tail(s) = <<>> => (Head(s) = "gotIp" <=> on)
         /\ Tail(s) # <<>> => Head(Tail(s)) # Head(s)
<1> DEFINE t == Tail(s)
<1>1. /\ t \in Seq(Event) /\ Len(s) \in Nat /\ Len(s) >= 1
      /\ Len(t) = Len(s) - 1 /\ Head(s) = s[1]
      /\ \A i \in 1 .. Len(s) - 1 : t[i] = s[i + 1]
      /\ t = <<>> => Len(s) = 1
      /\ t # <<>> => Head(t) = s[2] /\ Len(s) >= 2
  BY Taken
<1>2. ASSUME NEW i \in 1 .. Len(t) - 1 PROVE t[i] # t[i + 1]
  <2>1. i \in 1 .. Len(s) - 1 /\ i + 1 \in 1 .. Len(s) - 1
    BY <1>1, <1>2, SMT
  <2> QED
    BY <1>1, <2>1 DEF EndsRight
<1>3. t # <<>> => t[Len(t)] = s[Len(s)]
  <2>1. t # <<>> => Len(t) \in 1 .. Len(s) - 1 /\ Len(t) + 1 = Len(s)
    BY <1>1, SMT
  <2> QED
    BY <1>1, <2>1
<1>4. t # <<>> => 1 \in 1 .. Len(s) - 1 /\ 1 + 1 = 2
  BY <1>1, SMT
<1>5. t # <<>> => s[1] # s[2]
  BY <1>4 DEF EndsRight
<1>6. s[Len(s)] = "gotIp" <=> on
  BY DEF EndsRight
<1> HIDE DEF t
<1>7. EndsRight(t, on)
  BY <1>2, <1>3, <1>6, Zenon DEF EndsRight
<1>8. t = <<>> => (Head(s) = "gotIp" <=> on)
  BY <1>1, <1>6, Zenon
<1>9. t # <<>> => Head(t) # Head(s)
  BY <1>1, <1>5
<1> QED
  BY <1>7, <1>8, <1>9 DEF t

\* The four ways a step can touch the link, its events, and what the client makes of
\* them; the last two also cost a fault or none.
Steady ==
  /\ UNCHANGED <<link, events>> /\ faults' \in {faults, faults + 1}
  /\ client'.role = client.role /\ client'.connected = client.connected
  /\ client.role = "AWAY" /\ LoopFree => loop' = NoRequest
Connects ==
  /\ UNCHANGED <<link, events, faults>> /\ link
  /\ client'.role = "CLIENT" /\ client'.connected = TRUE
Leaves ==
  /\ client.role = "CLIENT" /\ client'.role = "AWAY" /\ client'.connected = FALSE
  /\ loop' = NoRequest /\ UNCHANGED faults
  /\ Unlink /\ (link => ~client.connected)
Handles(event) ==
  /\ events # <<>> /\ Head(events) = event /\ events' = Tail(events)
  /\ UNCHANGED <<link, faults, loop>> /\ client'.role = client.role
  /\ client'.connected = (event = "gotIp")
Associates ==
  ~link /\ link' = TRUE /\ events' = Append(events, "gotIp") /\ UNCHANGED <<client, loop, faults>>
Unlinks == Unlink /\ faults' = faults + 1 /\ UNCHANGED <<client, loop>>

LinkShape ==
  Steady \/ Connects \/ Leaves \/ Handles("lost") \/ Handles("gotIp") \/ Associates \/ Unlinks

LEMMA Shapes ==
  ASSUME TypeOK, Requests, ConnectedTracks, [Next]_vars
  PROVE  LinkShape
<1>0. client \in ClientState /\ client.role \in {"CLIENT", "AWAY"} /\ faults \in Nat
  BY ClientFields, Numbers, SMT DEF TypeOK
<1>1. CASE EnterClient
  <2>1. client'.role = "CLIENT" /\ client'.connected = TRUE /\ link
    BY <1>1, EnterClientEffect DEF EnterClient
  <2> QED
    BY <1>1, <2>1 DEF EnterClient, LoopOnly, LinkShape, Connects
<1>2. CASE LeaveClient
  BY <1>2, LeftType DEF LeaveClient, LoopOnly, LoopFree, LinkShape, Leaves
<1>3. CASE Reregister
  BY <1>3, ReregisterEffect DEF Reregister, InRole, LoopOnly, LinkShape, Connects
<1>4. CASE Beat
  BY <1>0, <1>4, BeatEffect DEF Beat, LoopOnly, LoopFree, LinkShape, Leaves, Steady
<1>5. CASE BeatAnswered
  <2>1. client.role = "CLIENT"
    BY <1>0, <1>5, NewRequests DEF BeatAnswered, ConnectedTracks, LoopFree
  <2> QED
    BY <1>5, <2>1, BeatAnsweredEffect
       DEF BeatAnswered, LoopOnly, LinkShape, Leaves, Steady
<1>6. CASE RegisterAnswered
  BY <1>6, RegisterAnsweredEffect DEF RegisterAnswered, LoopOnly, LinkShape, Steady
<1>7. CASE TaskStep
  <2>1. StaDisconnected => Handles("lost")
    BY <1>7, TaskEffect DEF StaDisconnected, TaskOnly, Handles
  <2>2. StaGotIp => Handles("gotIp")
    BY <1>7, TaskEffect DEF StaGotIp, TaskOnly, Handles
  <2>3. TaskAnswered => Steady
    BY <1>7, TaskEffect DEF TaskAnswered, TaskOnly, Steady, LoopFree
  <2> QED
    BY <1>7, <2>1, <2>2, <2>3 DEF TaskStep, LinkShape
<1>8. CASE RequestEnds
  <2>1. UNCHANGED <<link, events, client>> /\ faults' \in {faults, faults + 1}
    BY <1>8 DEF RequestEnds, Served, Failed, NoFault, Fault
  <2>2. LoopFree => loop' = NoRequest
    BY <1>8, NewRequests DEF RequestEnds, Served, Failed, LoopFree
  <2> QED
    BY <2>1, <2>2 DEF LinkShape, Steady
<1>9. CASE Cleanup \/ ServerUp \/ Restart \/ GoDeaf
  BY <1>9 DEF Cleanup, ServerUp, Restart, GoDeaf, Fault, LinkShape, Steady, LoopFree
<1>10. CASE Associate
  BY <1>10 DEF Associate, LinkShape, Associates
<1>11. CASE LinkBlip \/ ServerDown
  BY <1>11 DEF LinkBlip, ServerDown, Fault, LinkShape, Unlinks
<1>12. CASE Tick
  BY <1>12, TickEffect, NewRequests DEF Tick, Aged, LinkShape, Steady, LoopFree
<1>13. CASE UNCHANGED vars
  BY <1>13 DEF vars, LinkShape, Steady, LoopFree
<1> QED
  BY <1>1, <1>2, <1>3, <1>4, <1>5, <1>6, <1>7, <1>8, <1>9, <1>10, <1>11, <1>12, <1>13
     DEF Next, LoopStep

LEMMA UnlinkEffect ==
  ASSUME TypeOK, LinkEvents, Unlink
  PROVE  /\ link' = FALSE /\ events' \in Seq(Event) /\ EndsRight(events', FALSE)
         /\ Len(events) \in Nat
         /\ Len(events') = Len(events) + (IF link THEN 1 ELSE 0)
         /\ NextEvent' = IF events = <<>> /\ link THEN "lost" ELSE NextEvent
<1>1. link \in BOOLEAN /\ events \in Seq(Event) /\ EndsRight(events, link) /\ "lost" \in Event
  BY DEF TypeOK, LinkEvents, EndsRight, Event
<1>2. CASE link
  <2>1. link' = FALSE /\ events' = Append(events, IF link THEN "lost" ELSE "gotIp")
        /\ events' = Append(events, "lost")
    BY <1>2 DEF Unlink
  <2>2. EndsRight(events', ~link)
    BY <1>1, <2>1, AppendEnds
  <2> QED
    BY <1>1, <1>2, <2>1, <2>2, Appended DEF NextEvent
<1>3. CASE ~link
  <2>1. link' = FALSE /\ events' = events /\ link = FALSE
    BY <1>1, <1>3 DEF Unlink
  <2>2. Len(events) \in Nat /\ Len(events) = Len(events) + 0
    BY <1>1, LenProperties, SMT
  <2> QED
    BY <1>1, <1>3, <2>1, <2>2 DEF NextEvent
<1> QED
  BY <1>2, <1>3

\* The event that is handled next is of the other kind.
LEMMA HandlesEffect ==
  ASSUME TypeOK, LinkEvents, NEW event \in Event, Handles(event)
  PROVE  /\ link' = link /\ events' \in Seq(Event) /\ EndsRight(events', link)
         /\ Len(events) \in Nat /\ Len(events') = Len(events) - 1
         /\ NextEvent = event /\ NextEvent' # event /\ NextEvent' \in Event
         /\ events' = <<>> => (event = "gotIp" <=> link)
<1>1. /\ link \in BOOLEAN /\ events \in Seq(Event) /\ EndsRight(events, link) /\ events # <<>>
      /\ Head(events) = event /\ events' = Tail(events) /\ link' = link
  BY DEF TypeOK, LinkEvents, EndsRight, Event, Handles
<1>2. /\ events' \in Seq(Event) /\ Len(events) \in Nat /\ Len(events') = Len(events) - 1
  BY <1>1, Taken
<1>3. /\ EndsRight(events', link)
      /\ events' = <<>> => (event = "gotIp" <=> link)
      /\ events' # <<>> => Head(events') # event
  BY <1>1, TailEnds
<1>4. events' # <<>> => Head(events') \in Event
  BY <1>2, Taken
<1>5. NextEvent = event
  BY <1>1 DEF NextEvent
<1>6. NextEvent' # event /\ NextEvent' \in Event
  BY <1>1, <1>3, <1>4 DEF NextEvent, Event
<1> QED
  BY <1>1, <1>2, <1>3, <1>5, <1>6

LEMMA AssociatesEffect ==
  ASSUME TypeOK, LinkEvents, Associates
  PROVE  /\ link' = TRUE /\ ~link /\ events' \in Seq(Event) /\ EndsRight(events', TRUE)
         /\ events' # <<>> /\ Len(events) \in Nat /\ Len(events') = Len(events) + 1
         /\ NextEvent' = NextEvent
<1>1. /\ events \in Seq(Event) /\ EndsRight(events, FALSE) /\ "gotIp" \in Event /\ ~link
      /\ link' = TRUE /\ events' = Append(events, "gotIp")
  BY DEF TypeOK, LinkEvents, EndsRight, Event, Associates
<1>2. EndsRight(Append(events, IF FALSE THEN "lost" ELSE "gotIp"), ~FALSE)
  BY <1>1, AppendEnds
<1>3. EndsRight(events', TRUE)
  BY <1>1, <1>2
<1> QED
  BY <1>1, <1>3, Appended DEF NextEvent

LEMMA LinkStep ==
  ASSUME TypeOK, LinkEvents, ConnectedTracks, QueueShort, LinkShape,
         client' \in ClientState, faults' \in Nat
  PROVE  /\ link' \in BOOLEAN /\ events' \in Seq(Event) /\ Len(events') \in Nat
         /\ LinkEvents' /\ ConnectedTracks' /\ QueueShort'
<1> DEFINE Most(f, l) == 2 * f + (IF l THEN 1 ELSE 0)
           Room(l, f) == /\ Len(events) <= Most(f, l)
                         /\ NextEvent = "lost" => Len(events) + 1 <= Most(f, l)
                         /\ client.role = "CLIENT" /\ ~client.connected =>
                              Len(events) + 2 <= Most(f, l)
<1>0. /\ link \in BOOLEAN /\ events \in Seq(Event) /\ faults \in Nat /\ Len(events) \in Nat
      /\ client.connected \in BOOLEAN /\ client.role \in {"CLIENT", "AWAY"}
      /\ client'.connected \in BOOLEAN /\ client'.role \in {"CLIENT", "AWAY"}
      /\ "lost" # "gotIp" /\ "CLIENT" # "AWAY"
  <2>1. events \in Seq(Event) /\ link \in BOOLEAN
    BY DEF TypeOK, Event
  <2>2. Len(events) \in Nat /\ faults \in Nat
    BY <2>1, LenProperties, Numbers, SMT DEF TypeOK
  <2> QED
    BY <2>1, <2>2, ClientFields DEF TypeOK
<1>1. CASE Steady
  <2>1. /\ link' = link /\ events' = events /\ NextEvent' = NextEvent
        /\ faults' \in {faults, faults + 1}
        /\ client'.role = client.role /\ client'.connected = client.connected
    BY <1>1 DEF Steady, NextEvent
  <2>2. LinkEvents'
    BY <2>1 DEF LinkEvents
  <2>3. ConnectedTracks'
    BY <1>1, <2>1 DEF ConnectedTracks, LoopFree, Steady
  <2>4. QueueShort'
    BY <1>0, <2>1, SMT DEF QueueShort
  <2> QED
    BY <1>0, <2>1, <2>2, <2>3, <2>4
<1>2. CASE Connects
  <2>1. /\ link' = link /\ events' = events /\ NextEvent' = NextEvent /\ faults' = faults
        /\ client'.role = "CLIENT" /\ client'.connected = TRUE /\ link = TRUE
    BY <1>0, <1>2 DEF Connects, NextEvent
  <2>2. LinkEvents'
    BY <2>1 DEF LinkEvents
  <2>3. ConnectedTracks'
    BY <1>0, <2>1 DEF ConnectedTracks
  <2>4. QueueShort'
    BY <1>0, <2>1, SMT DEF QueueShort
  <2> QED
    BY <1>0, <2>1, <2>2, <2>3, <2>4
<1>3. CASE Leaves
  <2>1. /\ client.role = "CLIENT" /\ client'.role = "AWAY" /\ client'.connected = FALSE
        /\ loop' = NoRequest /\ faults' = faults /\ (link => ~client.connected)
    BY <1>3 DEF Leaves
  <2>2. /\ link' = FALSE /\ events' \in Seq(Event) /\ EndsRight(events', FALSE)
        /\ Len(events') = Len(events) + (IF link THEN 1 ELSE 0)
        /\ NextEvent' = IF events = <<>> /\ link THEN "lost" ELSE NextEvent
    BY <1>3, UnlinkEffect DEF Leaves
  <2>3. LinkEvents'
    BY <2>2 DEF LinkEvents, EndsRight
  <2>4. ConnectedTracks'
    BY <1>0, <2>1, <2>2 DEF ConnectedTracks, LoopFree
  <2>5. link => events # <<>> /\ NextEvent = "gotIp"
    BY <1>0, <2>1 DEF ConnectedTracks
  <2>6. QueueShort'
    <3>1. CASE link
      <4>1. Len(events') = Len(events) + 1 /\ NextEvent' = "gotIp"
        BY <2>2, <2>5, <3>1
      <4>2. Len(events) + 2 <= 2 * faults + 1
        BY <2>1, <3>1 DEF QueueShort
      <4> QED
        BY <1>0, <2>1, <2>2, <4>1, <4>2, SMT DEF QueueShort
    <3>2. CASE ~link
      <4>1. Len(events') = Len(events) + 0 /\ NextEvent' = NextEvent
        BY <2>2, <3>2
      <4>2. /\ Len(events) <= 2 * faults + 0
            /\ NextEvent = "lost" => Len(events) + 1 <= 2 * faults + 0
        BY <3>2 DEF QueueShort
      <4> QED
        BY <1>0, <2>1, <2>2, <4>1, <4>2, SMT DEF QueueShort
    <3> QED
      BY <3>1, <3>2
  <2>7. Len(events') \in Nat
    BY <2>2, LenProperties
  <2> QED
    BY <2>2, <2>3, <2>4, <2>6, <2>7
<1>4. ASSUME NEW event \in Event, Handles(event)
      PROVE  /\ link' \in BOOLEAN /\ events' \in Seq(Event) /\ Len(events') \in Nat
             /\ LinkEvents' /\ ConnectedTracks' /\ QueueShort'
  <2>1. /\ link' = link /\ events' \in Seq(Event) /\ EndsRight(events', link)
        /\ Len(events') = Len(events) - 1
        /\ NextEvent = event /\ NextEvent' # event /\ NextEvent' \in Event
        /\ events' = <<>> => (event = "gotIp" <=> link)
    BY <1>4, HandlesEffect
  <2>2. /\ faults' = faults /\ loop' = loop /\ client'.role = client.role
        /\ client'.connected = (event = "gotIp")
    BY <1>4 DEF Handles
  <2>3. LinkEvents'
    BY <2>1 DEF LinkEvents, EndsRight
  <2>4. event = "lost" => NextEvent' = "gotIp"
    BY <2>1 DEF Event
  <2>5. ~client'.connected => event = "lost"
    BY <1>4, <2>2, Zenon DEF Event
  <2>6. ConnectedTracks'
    <3>1. events' = <<>> => (client'.connected <=> link')
      BY <2>1, <2>2, Zenon
    <3>2. client'.role = "AWAY" => loop' = NoRequest
      BY <2>2 DEF ConnectedTracks, LoopFree
    <3> QED
      BY <2>4, <2>5, <3>1, <3>2 DEF ConnectedTracks, LoopFree
  <2>7. QueueShort'
    <3>1. CASE event = "lost"
      <4>1. NextEvent = "lost" /\ NextEvent' = "gotIp"
        BY <2>1, <2>4, <3>1
      <4> QED
        BY <1>0, <2>1, <2>2, <4>1, SMT DEF QueueShort
    <3>2. CASE event = "gotIp"
      <4>1. client'.connected
        BY <2>2, <3>2
      <4> QED
        BY <1>0, <2>1, <2>2, <4>1, SMT DEF QueueShort
    <3> QED
      BY <1>4, <3>1, <3>2 DEF Event
  <2>8. Len(events') \in Nat
    BY <2>1, LenProperties
  <2> QED
    BY <1>0, <2>1, <2>3, <2>6, <2>7, <2>8
<1>5. CASE Associates
  <2>1. /\ link' = TRUE /\ ~link /\ events' \in Seq(Event) /\ EndsRight(events', TRUE)
        /\ events' # <<>> /\ Len(events') = Len(events) + 1 /\ NextEvent' = NextEvent
    BY <1>5, AssociatesEffect
  <2>2. client' = client /\ loop' = loop /\ faults' = faults
    BY <1>5 DEF Associates
  <2>3. LinkEvents'
    BY <2>1 DEF LinkEvents, EndsRight
  <2>4. ConnectedTracks'
    BY <2>1, <2>2 DEF ConnectedTracks, LoopFree
  <2>5. QueueShort'
    BY <1>0, <2>1, <2>2, SMT DEF QueueShort
  <2>6. Len(events') \in Nat
    BY <2>1, LenProperties
  <2> QED
    BY <2>1, <2>3, <2>4, <2>5, <2>6
<1>6. CASE Unlinks
  <2>1. /\ link' = FALSE /\ events' \in Seq(Event) /\ EndsRight(events', FALSE)
        /\ Len(events') = Len(events) + (IF link THEN 1 ELSE 0)
        /\ NextEvent' = IF events = <<>> /\ link THEN "lost" ELSE NextEvent
    BY <1>6, UnlinkEffect DEF Unlinks
  <2>2. client' = client /\ loop' = loop /\ faults' = faults + 1
    BY <1>6 DEF Unlinks
  <2>3. LinkEvents'
    BY <2>1 DEF LinkEvents, EndsRight
  <2>4. link => events' # <<>>
    <3>1. link => Len(events') = Len(events) + 1
      BY <2>1
    <3> QED
      BY <1>0, <3>1, EmptySeq, SMT
  <2>5. events = <<>> /\ link => client.connected
    BY DEF ConnectedTracks
  <2>6. events' = <<>> => events = <<>> /\ ~link
    <3>1. events' = <<>> => Len(events') = 0
      BY EmptySeq
    <3>2. events # <<>> => Len(events) > 0
      BY <1>0, EmptySeq, SMT
    <3> QED
      BY <1>0, <2>1, <2>4, <3>1, <3>2, SMT
  <2>7. ConnectedTracks'
    BY <1>0, <2>1, <2>2, <2>5, <2>6 DEF ConnectedTracks, LoopFree
  <2>8. QueueShort'
    <3>1. NextEvent' = "lost" => NextEvent = "lost"
      BY <2>1 DEF NextEvent
    <3> QED
      BY <1>0, <2>1, <2>2, <3>1, SMT DEF QueueShort
  <2>9. Len(events') \in Nat
    BY <2>1, LenProperties
  <2> QED
    BY <2>1, <2>3, <2>7, <2>8, <2>9
<1> QED
  BY <1>1, <1>2, <1>3, <1>4, <1>5, <1>6 DEF LinkShape, Event
-------------------------------------------------------------------------------
(* The requests, and the types of everything else. *)

\* A request ends: what that does to the server's entry and to the history.
LEMMA EndEffect ==
  ASSUME TypeOK, Requests, RequestEnds
  PROVE  \E r \in {loop, task}, answer \in {"ok", "refused", "failed"} :
           /\ r.kind # "none" /\ r.answer = "none" /\ (Served(r, answer) \/ Failed(r, answer))
           /\ answer = "refused" => r.kind = "heartbeat"
           /\ \/ r = loop /\ loop' = [loop EXCEPT !.answer = answer] /\ task' = task
              \/ r = task /\ task' = [task EXCEPT !.answer = answer] /\ loop' = loop
           /\ loop' \in Request /\ task' \in Request
           /\ loop'.kind = loop.kind /\ loop'.age = loop.age /\ task'.kind = task.kind
<1>0. loop \in Request /\ task \in Request
  BY DEF TypeOK
<1>1. PICK answer \in {"ok", "refused", "failed"} :
        \/ /\ Served(loop, answer) \/ Failed(loop, answer)
           /\ loop' = [loop EXCEPT !.answer = answer] /\ UNCHANGED task
        \/ /\ Served(task, answer) \/ Failed(task, answer)
           /\ task' = [task EXCEPT !.answer = answer] /\ UNCHANGED loop
  BY DEF RequestEnds
<1>2. ASSUME NEW r \in {loop, task}
      PROVE  /\ Served(r, answer) \/ Failed(r, answer) =>
                  r.kind # "none" /\ r.answer = "none" /\ (answer = "refused" => r.kind = "heartbeat")
             /\ [r EXCEPT !.answer = answer] \in Request
             /\ [r EXCEPT !.answer = answer].kind = r.kind
             /\ [r EXCEPT !.answer = answer].age = r.age
  <2>0. r \in Request
    BY <1>0
  <2>1. /\ r.kind \in {"none", "register", "heartbeat"}
        /\ answer \in {"none", "ok", "refused", "failed"}
    BY <2>0, RequestFields, Zenon
  <2>2. /\ [r EXCEPT !.answer = answer] \in Request
        /\ [r EXCEPT !.answer = answer].kind = r.kind
        /\ [r EXCEPT !.answer = answer].age = r.age
    BY <2>0, <2>1, Zenon DEF Request
  <2>3. Served(r, answer) \/ Failed(r, answer) =>
          /\ r.kind # "none" /\ r.answer = "none"
          /\ answer = "refused" => r.kind # "register"
    BY Zenon DEF Served, Failed
  <2> QED
    BY <2>1, <2>2, <2>3, Zenon
<1>4. CASE /\ Served(loop, answer) \/ Failed(loop, answer)
           /\ loop' = [loop EXCEPT !.answer = answer] /\ UNCHANGED task
  BY <1>0, <1>2, <1>4
<1>5. CASE /\ Served(task, answer) \/ Failed(task, answer)
           /\ task' = [task EXCEPT !.answer = answer] /\ UNCHANGED loop
  BY <1>0, <1>2, <1>5
<1> QED
  BY <1>1, <1>4, <1>5

LEMMA ClientType ==
  ASSUME TypeOK, [Next]_vars
  PROVE  client' \in ClientState
<1>1. CASE LoopStep
  BY <1>1, EnterClientEffect, LeftType, ReregisterEffect, BeatEffect, BeatAnsweredEffect,
     RegisterAnsweredEffect DEF LoopStep, LeaveClient
<1>2. CASE TaskStep
  BY <1>2, TaskEffect
<1>3. CASE Tick
  BY <1>3, TickEffect
<1>4. ASSUME ~LoopStep, ~TaskStep, ~Tick PROVE client' = client
  BY <1>4 DEF Next, RequestEnds, Served, Failed, Cleanup, Associate, LinkBlip, ServerDown,
              ServerUp, Restart, GoDeaf, vars
<1> QED
  BY <1>1, <1>2, <1>3, <1>4 DEF TypeOK

LEMMA RequestsStep ==
  ASSUME TypeOK, Requests, [Next]_vars
  PROVE  loop' \in Request /\ task' \in Request /\ Requests'
<1>0. loop \in Request /\ task \in Request
  BY DEF TypeOK
<1>1. CASE LoopStep
  <2>1. task' = task
    BY <1>1 DEF LoopStep, EnterClient, LeaveClient, Reregister, Beat, BeatAnswered,
                RegisterAnswered, LoopOnly
  <2>2. loop' = loop \/ loop' = NoRequest \/ loop' = Sent("register") \/ loop' = Sent("heartbeat")
    BY <1>1 DEF LoopStep, EnterClient, LeaveClient, Reregister, Beat, BeatAnswered,
                RegisterAnswered
  <2> QED
    BY <1>0, <2>1, <2>2, NewRequests DEF Requests
<1>2. CASE TaskStep
  <2>1. loop' = loop /\ (task' = task \/ task' = NoRequest \/ task' = Sent("register"))
    BY <1>2 DEF TaskStep, StaDisconnected, StaGotIp, TaskAnswered, TaskOnly
  <2> QED
    BY <1>0, <2>1, NewRequests DEF Requests
<1>3. CASE RequestEnds
  <2>1. PICK r \in {loop, task}, answer \in {"ok", "refused", "failed"} :
           /\ r.kind # "none" /\ (answer = "refused" => r.kind = "heartbeat")
           /\ \/ r = loop /\ loop' = [loop EXCEPT !.answer = answer] /\ task' = task
              \/ r = task /\ task' = [task EXCEPT !.answer = answer] /\ loop' = loop
           /\ loop' \in Request /\ task' \in Request
           /\ loop'.kind = loop.kind /\ loop'.age = loop.age /\ task'.kind = task.kind
    BY <1>3, EndEffect
  <2>2. /\ [loop EXCEPT !.answer = answer].answer = answer
        /\ [task EXCEPT !.answer = answer].answer = answer
    BY <1>0, RequestFields
  <2>3. CASE r = loop /\ loop' = [loop EXCEPT !.answer = answer] /\ task' = task
    BY <2>1, <2>2, <2>3 DEF Requests
  <2>4. CASE r = task /\ task' = [task EXCEPT !.answer = answer] /\ loop' = loop
    BY <2>1, <2>2, <2>4 DEF Requests
  <2> QED
    BY <2>1, <2>3, <2>4
<1>4. CASE Tick
  <2>1. loop' = Aged(loop) /\ loop' \in Request /\ task' = Aged(task) /\ task' \in Request
    BY <1>4, TickEffect
  <2>2. /\ loop.kind # "none" => loop.age # RequestTime
        /\ task.kind # "none" => task.age # RequestTime
    BY <1>4 DEF Tick, Urgent
  <2>3. /\ Aged(loop).kind = loop.kind /\ Aged(loop).answer = loop.answer
        /\ Aged(task).kind = task.kind /\ Aged(task).answer = task.answer
        /\ loop.kind = "none" => Aged(loop) = loop
        /\ task.kind = "none" => Aged(task) = task
    BY <1>0, <2>2, AgedType
  <2> QED
    BY <2>1, <2>3 DEF Requests
<1>5. ASSUME ~LoopStep, ~TaskStep, ~RequestEnds, ~Tick PROVE loop' = loop /\ task' = task
  BY <1>5 DEF Next, Cleanup, Associate, LinkBlip, ServerDown, ServerUp, Restart, GoDeaf, vars
<1> QED
  BY <1>0, <1>1, <1>2, <1>3, <1>4, <1>5 DEF Requests

LEMMA ServerTypes ==
  ASSUME TypeOK, Requests, [Next]_vars
  PROVE  /\ pi' \in BOOLEAN /\ up' \in BOOLEAN /\ deaf' \in BOOLEAN /\ active' \in BOOLEAN
         /\ entry' \in {Absent} \cup 0 .. MaxIdle /\ cleanupAge' \in 0 .. CleanupInterval
         /\ faults' \in 0 .. MaxFaults /\ quiet' \in 0 .. RecoveryTime
<1>0. /\ pi \in BOOLEAN /\ up \in BOOLEAN /\ deaf \in BOOLEAN /\ active \in BOOLEAN
      /\ entry \in {Absent} \cup 0 .. MaxIdle /\ cleanupAge \in 0 .. CleanupInterval
      /\ faults \in 0 .. MaxFaults /\ quiet \in 0 .. RecoveryTime
  BY DEF TypeOK
<1>1. Fault => faults' \in 0 .. MaxFaults /\ quiet' \in 0 .. RecoveryTime
  <2>1. Fault => faults' \in 0 .. MaxFaults
    BY <1>0, Numbers, SMT DEF Fault
  <2> QED
    BY <2>1, Bounds DEF Fault
<1>2. CASE LoopStep \/ TaskStep
  BY <1>0, <1>2 DEF LoopStep, EnterClient, LeaveClient, Reregister, Beat, BeatAnswered,
     RegisterAnswered, LoopOnly, TaskStep, StaDisconnected, StaGotIp, TaskAnswered, TaskOnly
<1>3. CASE RequestEnds
  <2>1. PICK r \in {loop, task}, answer \in {"ok", "refused", "failed"} :
          Served(r, answer) \/ Failed(r, answer)
    BY <1>3, EndEffect
  <2>2. Served(r, answer) => /\ entry' \in {Absent} \cup 0 .. MaxIdle /\ active' \in BOOLEAN
                             /\ Fault \/ NoFault
                             /\ UNCHANGED <<pi, up, deaf, cleanupAge>>
    BY <1>0, Bounds, Zenon DEF Served, Heard
  <2>3. Failed(r, answer) => /\ Fault \/ NoFault
                             /\ UNCHANGED <<pi, up, deaf, entry, active, cleanupAge>>
    BY DEF Failed
  <2> QED
    BY <1>0, <1>1, <2>1, <2>2, <2>3 DEF NoFault
<1>4. CASE Cleanup
  BY <1>0, <1>4, Bounds, Zenon DEF Cleanup
<1>5. CASE Associate \/ LinkBlip \/ ServerDown \/ ServerUp \/ Restart \/ GoDeaf
  BY <1>0, <1>1, <1>5, Bounds
     DEF Associate, LinkBlip, ServerDown, ServerUp, Restart, GoDeaf
<1>6. CASE Tick
  <2>1. /\ Up1(cleanupAge, CleanupInterval) \in 0 .. CleanupInterval
        /\ Up1(quiet, RecoveryTime) \in 0 .. RecoveryTime
        /\ entry # Absent => Up1(entry, MaxIdle) \in 0 .. MaxIdle
    <3>1. CleanupInterval \in Nat /\ RecoveryTime \in Nat /\ MaxIdle \in Nat
      BY Numbers
    <3> QED
      BY <1>0, <3>1, Up1Type
  <2>2. /\ entry' = (IF entry = Absent THEN Absent ELSE Up1(entry, MaxIdle))
        /\ cleanupAge' = Up1(cleanupAge, CleanupInterval)
        /\ quiet' = (IF Reachable /\ events = <<>> THEN Up1(quiet, RecoveryTime) ELSE 0)
        /\ UNCHANGED <<pi, up, deaf, active, faults>>
    BY <1>6 DEF Tick
  <2> QED
    BY <1>0, <2>1, <2>2, Bounds
<1>7. CASE UNCHANGED vars
  BY <1>0, <1>7 DEF vars
<1> QED
  BY <1>2, <1>3, <1>4, <1>5, <1>6, <1>7 DEF Next

LEMMA TypeStep ==
  ASSUME TypeOK, LinkEvents, ConnectedTracks, QueueShort, Requests, [Next]_vars
  PROVE  TypeOK' /\ LinkEvents' /\ ConnectedTracks' /\ QueueShort' /\ Requests'
<1>1. client' \in ClientState /\ loop' \in Request /\ task' \in Request /\ Requests'
  BY ClientType, RequestsStep
<1>2. /\ pi' \in BOOLEAN /\ up' \in BOOLEAN /\ deaf' \in BOOLEAN /\ active' \in BOOLEAN
      /\ entry' \in {Absent} \cup 0 .. MaxIdle /\ cleanupAge' \in 0 .. CleanupInterval
      /\ faults' \in 0 .. MaxFaults /\ quiet' \in 0 .. RecoveryTime
  BY ServerTypes
<1>3. faults' \in Nat /\ faults' <= MaxFaults
  BY <1>2, Numbers, SMT
<1>4. /\ link' \in BOOLEAN /\ events' \in Seq(Event) /\ Len(events') \in Nat
      /\ LinkEvents' /\ ConnectedTracks' /\ QueueShort'
  BY <1>1, <1>3, Shapes, LinkStep
<1>5. Len(events') <= 2 * MaxFaults + 1
  <2>1. Len(events') <= 2 * faults' + (IF link' THEN 1 ELSE 0)
    BY <1>4 DEF QueueShort
  <2> QED
    BY <1>3, <1>4, <2>1, Numbers, SMT
<1> QED
  BY <1>1, <1>2, <1>4, <1>5 DEF TypeOK, Event

\* The registry: what is broadcast to.
LEMMA ActiveStep ==
  ASSUME TypeOK, Requests, ActiveEntries, [Next]_vars
  PROVE  ActiveEntries'
<1>0. /\ entry \in {Absent} \cup 0 .. MaxIdle /\ cleanupAge \in 0 .. CleanupInterval
      /\ up \in BOOLEAN
  BY DEF TypeOK
<1>1. CASE LoopStep \/ TaskStep
  BY <1>1 DEF LoopStep, EnterClient, LeaveClient, Reregister, Beat, BeatAnswered,
     RegisterAnswered, LoopOnly, TaskStep, StaDisconnected, StaGotIp, TaskAnswered, TaskOnly,
     ActiveEntries
<1>2. CASE RequestEnds
  <2>1. PICK r \in {loop, task}, answer \in {"ok", "refused", "failed"} :
          Served(r, answer) \/ Failed(r, answer)
    BY <1>2, EndEffect
  <2>2. CASE Served(r, answer)
    <3>1. /\ entry' \in {0, Absent} /\ active' = (entry' # Absent) /\ up /\ up' = up
          /\ cleanupAge' = cleanupAge
      BY <2>2 DEF Served, Heard, Reachable
    <3>2. 0 <= HeartbeatTimeout + cleanupAge
      BY <1>0, Numbers, SMT
    <3> QED
      BY <3>1, <3>2 DEF ActiveEntries
  <2>3. CASE Failed(r, answer)
    BY <2>3 DEF Failed, ActiveEntries
  <2> QED
    BY <2>1, <2>2, <2>3
<1>3. CASE Cleanup
  <2>1. /\ active' = (active /\ entry <= HeartbeatTimeout) /\ cleanupAge' = 0 /\ up' = up
        /\ entry' = IF Forgotten THEN Absent ELSE entry
    <3>1. active => (~Stale <=> entry <= HeartbeatTimeout)
      BY <1>0, Numbers, SMT DEF ActiveEntries, Absent, Stale
    <3> QED
      BY <1>3, <3>1 DEF Cleanup
  <2>2. active' => ~Forgotten
    BY <1>3 DEF Cleanup, Forgotten
  <2>3. active' => entry <= HeartbeatTimeout + 0
    <3>1. entry <= HeartbeatTimeout => entry <= HeartbeatTimeout + 0
      BY Numbers, SMT
    <3> QED
      BY <2>1, <3>1, Zenon
  <2> QED
    BY <2>1, <2>2, <2>3 DEF ActiveEntries
<1>4. CASE Associate \/ LinkBlip \/ ServerDown \/ ServerUp \/ Restart \/ GoDeaf
  BY <1>0, <1>4 DEF Associate, LinkBlip, ServerDown, ServerUp, Restart, GoDeaf, ActiveEntries
<1>5. CASE Tick
  <2>1. /\ entry' = (IF entry = Absent THEN Absent ELSE Up1(entry, MaxIdle))
        /\ cleanupAge' = Up1(cleanupAge, CleanupInterval)
        /\ active' = active /\ up' = up
    BY <1>5 DEF Tick
  <2>2. up => ~(cleanupAge >= CleanupInterval)
    BY <1>5 DEF Tick, Urgent, CleanupDue
  <2>3. ASSUME active PROVE up' /\ entry' # Absent /\ entry' <= HeartbeatTimeout + cleanupAge'
    <3>1. up /\ entry # Absent /\ entry <= HeartbeatTimeout + cleanupAge
      BY <2>3 DEF ActiveEntries
    <3>2. /\ entry \in 0 .. MaxIdle /\ CleanupInterval \in Nat /\ MaxIdle \in Nat
          /\ HeartbeatTimeout \in Nat /\ cleanupAge < CleanupInterval
      BY <1>0, <2>2, <3>1, Numbers, SMT
    <3>3. /\ Up1(entry, MaxIdle) \in 0 .. MaxIdle /\ Up1(entry, MaxIdle) <= entry + 1
          /\ Up1(cleanupAge, CleanupInterval) = cleanupAge + 1
      BY <1>0, <3>2, SMT DEF Up1
    <3> QED
      BY <1>0, <2>1, <3>1, <3>2, <3>3, SMT DEF Absent
  <2> QED
    BY <2>1, <2>3 DEF ActiveEntries
<1>6. CASE UNCHANGED vars
  BY <1>6 DEF vars, ActiveEntries
<1> QED
  BY <1>1, <1>2, <1>3, <1>4, <1>5, <1>6 DEF Next
-------------------------------------------------------------------------------
(* The recovery. *)

\* The quiet time has just begun.
LEMMA QuietBegins ==
  ASSUME TypeOK', quiet' = 0
  PROVE  Calm' /\ Recovering'
<1>1. /\ client'.beatAge \in Nat /\ client'.regAge \in Nat /\ loop'.age \in Nat
  BY ClientFields, RequestFields DEF TypeOK
<1>2. /\ 0 <= client'.beatAge /\ 0 <= client'.regAge /\ 0 <= Longer + RequestTime /\ 0 <= Longer
      /\ 0 <= HeartbeatInterval + loop'.age /\ 0 <= Longer + RequestTime + loop'.age
      /\ 0 <= Longer + loop'.age /\ ~(0 > 0)
  BY <1>1, Numbers, SMT
<1> QED
  BY <1>2, Zenon DEF Calm, Recovering, NoAttempt

\* Without a fault only these steps are left, and no time passes in them.
LEMMA CalmActions ==
  ASSUME TypeOK, Requests, Calm, [Next]_vars, ~Tick, quiet' # 0
  PROVE  /\ quiet' = quiet /\ quiet > 0 /\ TasksAgree
         /\ \/ Reregister \/ (Beat /\ client.connected) \/ BeatAnswered \/ RegisterAnswered
            \/ TaskAnswered \/ Cleanup \/ UNCHANGED vars
            \/ RequestEnds /\ UNCHANGED quiet
<1>1. quiet' = quiet
  <2>1. ~Fault
    BY DEF Fault
  <2>2. CASE LoopStep \/ TaskStep
    BY <2>2 DEF LoopStep, EnterClient, LeaveClient, Reregister, Beat, BeatAnswered,
       RegisterAnswered, LoopOnly, TaskStep, StaDisconnected, StaGotIp, TaskAnswered, TaskOnly
  <2>3. CASE RequestEnds
    BY <2>1, <2>3 DEF RequestEnds, Served, Failed, NoFault
  <2>4. ASSUME ~LoopStep, ~TaskStep, ~RequestEnds PROVE quiet' = quiet
    BY <2>1, <2>4 DEF Next, Cleanup, Associate, LinkBlip, ServerDown, ServerUp, Restart, GoDeaf,
                      vars
  <2> QED
    BY <2>2, <2>3, <2>4
<1>2. quiet > 0
  <2>1. quiet \in 0 .. RecoveryTime /\ quiet # 0
    BY <1>1 DEF TypeOK
  <2> QED
    BY <2>1, Numbers, SMT
<1>3. TasksAgree
  BY <1>2 DEF Calm
<1>4. /\ ~Fault /\ up /\ link /\ events = <<>> /\ client.role = "CLIENT" /\ client.connected
  BY <1>3 DEF Fault, TasksAgree, Reachable
<1>5. /\ ~EnterClient /\ ~LeaveClient /\ ~StaDisconnected /\ ~StaGotIp /\ ~Associate
      /\ ~LinkBlip /\ ~ServerDown /\ ~ServerUp /\ ~Restart /\ ~GoDeaf
  BY <1>4 DEF EnterClient, LeaveClient, StaDisconnected, StaGotIp, Associate, LinkBlip,
              ServerDown, ServerUp, Restart, GoDeaf
<1> QED
  BY <1>1, <1>2, <1>3, <1>4, <1>5 DEF Next, LoopStep, TaskStep

LEMMA TickCalm ==
  ASSUME TypeOK, ConnectedTracks, Requests, Tick, quiet' # 0
  PROVE  /\ TasksAgree' /\ quiet' \in Nat /\ quiet' <= quiet + 1
         /\ quiet' = quiet + 1 \/ quiet = RecoveryTime
         /\ loop.answer = "none" /\ client.role = "CLIENT" /\ link
<1>1. /\ Reachable /\ events = <<>> /\ quiet' = Up1(quiet, RecoveryTime)
  BY Zenon DEF Tick
<1>2. ~LoopDue /\ ~TaskDue
  BY DEF Tick, Urgent
<1>3. link /\ client.connected
  BY <1>1 DEF ConnectedTracks, Reachable
<1>4. client.role = "CLIENT"
  BY <1>2, <1>3, ClientFields DEF LoopDue, ConnectedTracks, TypeOK
<1>5. loop.answer = "none" /\ task.answer = "none"
  BY <1>2 DEF LoopDue, TaskDue
<1>6. /\ loop'.answer = "none" /\ task'.answer = "none"
      /\ client'.role = "CLIENT" /\ client'.connected = client.connected
  <2>1. /\ loop.kind # "none" => loop.age # RequestTime
        /\ task.kind # "none" => task.age # RequestTime
    BY DEF Tick, Urgent
  <2> QED
    BY <1>4, <1>5, <2>1, TickEffect, AgedType DEF TypeOK
<1>7. Reachable' /\ events' = <<>>
  BY <1>1 DEF Tick, Reachable
<1>8. TasksAgree'
  BY <1>3, <1>6, <1>7 DEF TasksAgree
<1>9. quiet \in 0 .. RecoveryTime /\ RecoveryTime \in Nat
  BY Numbers DEF TypeOK
<1>10. quiet' \in Nat /\ quiet' <= quiet + 1 /\ (quiet' = quiet + 1 \/ quiet = RecoveryTime)
  BY <1>1, <1>9, SMT DEF Up1
<1> QED
  BY <1>3, <1>4, <1>5, <1>8, <1>10

LEMMA TickRecovers ==
  ASSUME TypeOK, ConnectedTracks, ActiveEntries, Requests, InTouch \/ Recovering, Tick, quiet' # 0
  PROVE  InTouch' \/ Recovering'
<1>0. /\ quiet' \in Nat /\ quiet' <= quiet + 1 /\ (quiet' = quiet + 1 \/ quiet = RecoveryTime)
      /\ loop.answer = "none" /\ client.role = "CLIENT" /\ link
  BY TickCalm
<1>1. /\ quiet \in Nat /\ client.beatAge \in Nat /\ client.regAge \in Nat /\ client.regDelay \in Nat
      /\ loop.age \in Nat /\ client.beatAge <= HeartbeatInterval
      /\ client.regAge <= MaxRetryDelay /\ client.regDelay <= MaxRetryDelay
      /\ loop \in Request /\ loop.age <= RequestTime
  <2>1. quiet \in Nat
    BY Numbers, SMT DEF TypeOK
  <2> QED
    BY <2>1, ClientFields, RequestFields DEF TypeOK
<1>2. ~LoopDue /\ (loop.kind # "none" => loop.age # RequestTime)
  BY DEF Tick, Urgent
<1>3. /\ client'.known = client.known /\ active' = active
      /\ client'.beatAge = Up1(client.beatAge, HeartbeatInterval)
      /\ client'.regAge = Up1(client.regAge, MaxRetryDelay) /\ loop' = Aged(loop)
      /\ entry' = (IF entry = Absent THEN Absent ELSE Up1(entry, MaxIdle))
  BY TickEffect DEF Tick
<1>4. /\ loop'.kind = loop.kind /\ loop'.answer = "none"
      /\ loop.kind = "none" => loop' = loop
      /\ loop.kind # "none" => loop'.age = loop.age + 1
  BY <1>0, <1>1, <1>2, <1>3, AgedType
<1>5. /\ LoopFree' <=> LoopFree
      /\ LoopFree <=> loop.kind = "none"
  BY <1>4, NewRequests DEF LoopFree, Requests
<1>6. active => entry \in Nat /\ entry' \in Nat /\ entry' <= entry + 1
  <2>1. active => entry \in 0 .. MaxIdle /\ entry' = Up1(entry, MaxIdle)
    BY <1>3 DEF ActiveEntries, TypeOK
  <2> QED
    BY <2>1, Numbers, SMT DEF Up1
<1>7. NoAttempt => NoAttempt'
  BY <1>0, <1>1, <1>3, Numbers, SMT DEF NoAttempt, Up1
<1>8. LoopFree /\ client.known => client'.beatAge = client.beatAge + 1
  <2>1. LoopFree /\ client.known => ~(client.beatAge >= HeartbeatInterval)
    BY <1>0, <1>2 DEF LoopDue, InRole
  <2> QED
    BY <1>1, <1>3, <2>1, Numbers, SMT DEF Up1
<1>9. CASE InTouch
  <2>1. entry' <= IF LoopFree' THEN client'.beatAge ELSE HeartbeatInterval + loop'.age
    <3>1. CASE LoopFree
      <4>1. active /\ client.known /\ entry <= client.beatAge
        BY <1>9, <3>1 DEF InTouch
      <4>2. entry' <= client'.beatAge
        BY <1>1, <1>6, <1>8, <3>1, <4>1, SMT
      <4> QED
        BY <1>5, <3>1, <4>2
    <3>2. CASE ~LoopFree
      <4>1. active /\ entry <= HeartbeatInterval + loop.age /\ loop'.age = loop.age + 1
        BY <1>4, <1>5, <1>9, <3>2 DEF InTouch
      <4>2. entry' <= HeartbeatInterval + loop'.age
        BY <1>1, <1>6, <4>1, Numbers, SMT
      <4> QED
        BY <1>5, <3>2, <4>2
    <3> QED
      BY <3>1, <3>2
  <2> QED
    BY <1>3, <1>4, <1>9, <2>1 DEF InTouch
<1>10. CASE Recovering
  <2>1. ASSUME LoopFree, client.known PROVE quiet' <= client'.beatAge /\ NoAttempt'
    <3>1. quiet <= client.beatAge /\ NoAttempt
      BY <1>10, <2>1 DEF Recovering
    <3> QED
      BY <1>0, <1>1, <1>7, <1>8, <2>1, <3>1, SMT
  <2>2. ASSUME LoopFree, ~client.known
        PROVE  NoAttempt' /\ quiet' <= Longer + RequestTime /\ quiet' <= Longer
    <3>1. ~(client.regAge >= client.regDelay)
      BY <1>0, <1>2, <2>2 DEF LoopDue, InRole
    <3>2. NoAttempt
      BY <1>10, <2>2 DEF Recovering
    <3>3. quiet <= client.regAge /\ client.regAge < MaxRetryDelay
      BY <1>1, <3>1, <3>2, Numbers, SMT DEF NoAttempt
    <3> QED
      BY <1>0, <1>1, <1>7, <3>2, <3>3, Numbers, SMT
  <2>3. ASSUME loop.kind = "heartbeat"
        PROVE  NoAttempt' /\ quiet' <= HeartbeatInterval + loop'.age
    <3>1. NoAttempt /\ quiet <= HeartbeatInterval + loop.age /\ loop'.age = loop.age + 1
      BY <1>4, <1>10, <2>3 DEF Recovering
    <3> QED
      BY <1>0, <1>1, <1>7, <3>1, Numbers, SMT
  <2>4. ASSUME loop.kind = "register"
        PROVE  /\ quiet' <= Longer + RequestTime + loop'.age
               /\ active => quiet' <= Longer + loop'.age \/ entry' <= quiet'
    <3>1. /\ quiet <= Longer + RequestTime + loop.age /\ loop'.age = loop.age + 1
          /\ active => quiet <= Longer + loop.age \/ entry <= quiet
      BY <1>4, <1>10, <2>4 DEF Recovering
    <3>2. loop.age < RequestTime
      BY <1>1, <1>2, <2>4, Numbers, SMT
    <3>3. quiet' = quiet + 1
      BY <1>0, <1>1, <3>1, <3>2, Numbers, SMT
    <3> QED
      BY <1>0, <1>1, <1>6, <3>1, <3>3, Numbers, SMT
  <2> QED
    BY <1>3, <1>4, <1>5, <2>1, <2>2, <2>3, <2>4 DEF Recovering
<1> QED
  BY <1>9, <1>10

\* The client's own steps while all is calm.
LEMMA ClientRecovers ==
  ASSUME IInv, quiet > 0, quiet' = quiet,
         Reregister \/ (Beat /\ client.connected) \/ BeatAnswered \/ RegisterAnswered \/ TaskAnswered
  PROVE  TasksAgree' /\ (InTouch' \/ Recovering')
<1> USE DEF IInv
<1>0. /\ TasksAgree /\ TypeOK /\ client \in ClientState /\ loop \in Request
      /\ quiet \in Nat /\ client.beatAge \in Nat /\ client.beatAge <= HeartbeatInterval
      /\ loop.age \in Nat /\ loop.age <= RequestTime /\ loop.answer # "failed"
      /\ 0 <= quiet /\ 0 <= client.beatAge /\ 0 <= HeartbeatInterval + loop.age
  <2>1. TasksAgree /\ TypeOK
    BY DEF Calm
  <2>2. quiet \in Nat /\ 0 <= quiet
    BY <2>1, Numbers, SMT DEF TypeOK
  <2>3. /\ client.beatAge \in Nat /\ client.beatAge <= HeartbeatInterval
        /\ loop.age \in Nat /\ loop.age <= RequestTime
    BY <2>1, ClientFields, RequestFields DEF TypeOK
  <2>4. 0 <= client.beatAge /\ 0 <= HeartbeatInterval + loop.age
    BY <2>3, Numbers, SMT
  <2> QED
    BY <2>1, <2>2, <2>3, <2>4 DEF TasksAgree, TypeOK
<1>1. CASE Reregister
  <2>1. /\ LoopFree /\ ~client.known /\ loop' = Sent("register") /\ task' = task
        /\ UNCHANGED <<up, deaf, entry, active, link, events>>
    BY <1>0, <1>1, ReregisterEffect DEF Reregister, InRole, LoopOnly, TasksAgree
  <2>2. /\ loop'.kind = "register" /\ loop'.answer = "none" /\ loop'.age = 0 /\ loop' # NoRequest
    BY <2>1, NewRequests
  <2>3. client'.role = client.role /\ client'.connected = TRUE
    BY <1>0, <1>1, ReregisterEffect
  <2>4. TasksAgree'
    BY <1>0, <2>1, <2>2, <2>3 DEF TasksAgree, Reachable
  <2>5. quiet <= Longer + RequestTime /\ (active => quiet <= Longer \/ entry <= quiet)
    BY <2>1 DEF InTouch, Recovering
  <2>6. quiet <= Longer + RequestTime + 0 /\ (active => quiet <= Longer + 0 \/ entry <= quiet)
    BY <2>5, Numbers, SMT
  <2>7. Recovering'
    BY <2>1, <2>2, <2>6, quiet' = quiet DEF Recovering, LoopFree
  <2> QED
    BY <2>4, <2>7
<1>2. CASE Beat /\ client.connected
  <2>1. /\ LoopFree /\ client.known /\ loop' = Sent("heartbeat")
        /\ client'.role = client.role /\ client'.connected = client.connected
        /\ client'.known = client.known /\ client'.regAge = client.regAge
    BY <1>0, <1>2, BeatEffect
  <2>2. /\ task' = task /\ UNCHANGED <<up, deaf, entry, active, link, events>>
    BY <1>0, <1>2, <2>1 DEF Beat, LoopOnly, TasksAgree
  <2>3. /\ loop'.kind = "heartbeat" /\ loop'.answer = "none" /\ loop'.age = 0
        /\ loop' # NoRequest
    BY <2>1, NewRequests
  <2>4. TasksAgree'
    BY <1>0, <2>1, <2>2, <2>3 DEF TasksAgree, Reachable
  <2>5. CASE InTouch
    <3>1. active /\ client.known /\ entry <= client.beatAge
      BY <2>1, <2>5 DEF InTouch
    <3>2. entry \in Int
      BY <1>0, Numbers, SMT DEF TypeOK, Absent
    <3>3. entry <= HeartbeatInterval + 0
      BY <1>0, <3>1, <3>2, Numbers, SMT
    <3> QED
      BY <2>1, <2>2, <2>3, <2>4, <3>1, <3>3 DEF InTouch, LoopFree
  <2>6. CASE Recovering
    <3>1. NoAttempt /\ quiet <= client.beatAge
      BY <2>1, <2>6 DEF Recovering
    <3>2. quiet <= HeartbeatInterval + 0
      BY <1>0, <3>1, Numbers, SMT
    <3>3. NoAttempt'
      BY <2>1, <3>1, quiet' = quiet DEF NoAttempt
    <3> QED
      BY <2>3, <2>4, <3>2, <3>3, quiet' = quiet DEF Recovering, LoopFree
  <2> QED
    BY <2>5, <2>6
<1>3. CASE BeatAnswered
  <2>1. /\ client'.role = client.role /\ client'.connected = client.connected
        /\ client'.known = (client.known /\ loop.answer = "ok")
        /\ client'.regAge = client.regAge /\ client'.beatAge = client.beatAge
    BY <1>0, <1>3, BeatAnsweredEffect DEF TasksAgree
  <2>2. /\ loop' = NoRequest /\ loop.kind = "heartbeat" /\ loop.answer # "none" /\ task' = task
        /\ UNCHANGED <<up, deaf, entry, active, link, events>>
    BY <1>0, <1>3, <2>1 DEF BeatAnswered, LoopOnly, TasksAgree
  <2>3. TasksAgree'
    BY <1>0, <2>1, <2>2, NewRequests DEF TasksAgree, Reachable
  <2>4. active => entry = 0
    BY <1>0, <2>2 DEF TasksAgree
  <2>5. loop.answer = "ok" => active
    BY <1>0 DEF TasksAgree
  <2>6. CASE client.known /\ loop.answer = "ok"
    <3>1. active' /\ client'.known = TRUE /\ entry' = 0
      BY <2>1, <2>2, <2>4, <2>5, <2>6, Zenon
    <3> QED
      BY <1>0, <2>1, <2>2, <2>3, <3>1, NewRequests DEF InTouch, LoopFree
  <2>7. CASE ~(client.known /\ loop.answer = "ok")
    <3>1. Recovering
      BY <1>0, <2>2, <2>7, RequestFields DEF InTouch
    <3>2. NoAttempt /\ quiet <= HeartbeatInterval + loop.age
      BY <2>2, <3>1 DEF Recovering
    <3>3. quiet <= Longer + RequestTime
      BY <1>0, <3>2, Numbers, SMT
    <3>4. NoAttempt'
      BY <2>1, <3>2, quiet' = quiet DEF NoAttempt
    <3>5. client'.known = FALSE
      BY <2>1, <2>7, Zenon
    <3> QED
      BY <1>0, <2>2, <2>3, <2>4, <3>3, <3>4, <3>5, NewRequests, quiet' = quiet
         DEF Recovering, LoopFree
  <2> QED
    BY <2>6, <2>7
<1>4. CASE RegisterAnswered
  <2>1. /\ client'.role = client.role /\ client'.connected = client.connected
        /\ client'.beatAge = client.beatAge
        /\ client'.known = (client.known \/ loop.answer = "ok")
    BY <1>0, <1>4, RegisterAnsweredEffect
  <2>2. /\ loop' = NoRequest /\ loop.kind = "register" /\ loop.answer # "none" /\ task' = task
        /\ UNCHANGED <<up, deaf, entry, active, link, events>>
    BY <1>0, <1>4, <2>1 DEF RegisterAnswered, LoopOnly, TasksAgree
  <2>3. loop.answer = "ok"
    BY <1>0, <2>2, RequestFields DEF Requests
  <2>4. active /\ entry = 0
    BY <1>0, <2>3 DEF TasksAgree
  <2>5. TasksAgree'
    BY <1>0, <2>1, <2>2, NewRequests DEF TasksAgree, Reachable
  <2>6. client'.known = TRUE
    BY <2>1, <2>3, Zenon
  <2> QED
    BY <1>0, <2>1, <2>2, <2>4, <2>5, <2>6, NewRequests DEF InTouch, LoopFree
<1>5. CASE TaskAnswered
  <2>1. /\ client'.role = client.role /\ client'.connected = client.connected
        /\ client'.beatAge = client.beatAge
        /\ client'.known = (client.known \/ task.answer = "ok")
    BY <1>0, <1>5, TaskEffect DEF TaskStep
  <2>2. /\ loop' = loop /\ task' = NoRequest /\ task.answer # "none"
        /\ UNCHANGED <<up, deaf, entry, active, link, events>>
    BY <1>0, <1>5 DEF TaskAnswered, TaskOnly
  <2>3. task.answer = "ok"
    BY <1>0, <2>2, RequestFields DEF Requests, TasksAgree, TypeOK
  <2>4. active /\ entry = 0
    BY <1>0, <2>2 DEF TasksAgree
  <2>5. TasksAgree'
    BY <1>0, <2>1, <2>2, <2>4, NewRequests DEF TasksAgree, Reachable
  <2>6. client'.known = TRUE
    BY <2>1, <2>3, Zenon
  <2>7. CASE loop.answer # "refused"
    BY <1>0, <2>1, <2>2, <2>4, <2>5, <2>6, <2>7 DEF InTouch, LoopFree
  <2>8. CASE loop.answer = "refused"
    <3>1. loop.kind = "heartbeat" /\ ~LoopFree
      BY <1>0, <2>8, RequestFields, NewRequests DEF Requests, LoopFree
    <3>2. NoAttempt /\ quiet <= HeartbeatInterval + loop.age
      BY <2>8, <3>1 DEF InTouch, Recovering
    <3>3. NoAttempt'
      BY <1>0, <1>5, <3>2, TaskEffect, quiet' = quiet DEF NoAttempt, TaskStep
    <3> QED
      BY <2>2, <2>5, <3>1, <3>2, <3>3, quiet' = quiet DEF Recovering, LoopFree
  <2> QED
    BY <2>7, <2>8
<1> QED
  BY <1>1, <1>2, <1>3, <1>4, <1>5

\* The server's steps while all is calm.
LEMMA ServerRecovers ==
  ASSUME IInv, quiet > 0, quiet' = quiet, RequestEnds \/ Cleanup
  PROVE  TasksAgree' /\ (InTouch' \/ Recovering')
<1> USE DEF IInv
<1>0. /\ TasksAgree /\ TypeOK /\ quiet \in Nat /\ client.beatAge \in Nat
      /\ client.beatAge <= HeartbeatInterval /\ loop \in Request /\ task \in Request
      /\ loop.age \in Nat /\ loop.age <= RequestTime
      /\ 0 <= quiet /\ 0 <= client.beatAge /\ 0 <= HeartbeatInterval + loop.age
  <2>1. TasksAgree /\ TypeOK
    BY DEF Calm
  <2>2. quiet \in Nat /\ 0 <= quiet
    BY <2>1, Numbers, SMT DEF TypeOK
  <2>3. /\ client.beatAge \in Nat /\ client.beatAge <= HeartbeatInterval
        /\ loop.age \in Nat /\ loop.age <= RequestTime
    BY <2>1, ClientFields, RequestFields DEF TypeOK
  <2>4. 0 <= client.beatAge /\ 0 <= HeartbeatInterval + loop.age
    BY <2>3, Numbers, SMT
  <2> QED
    BY <2>1, <2>2, <2>3, <2>4 DEF TypeOK
<1>1. CASE RequestEnds
  <2>1. PICK r \in {loop, task}, answer \in {"ok", "refused", "failed"} :
           /\ r.kind # "none" /\ r.answer = "none" /\ (Served(r, answer) \/ Failed(r, answer))
           /\ answer = "refused" => r.kind = "heartbeat"
           /\ \/ r = loop /\ loop' = [loop EXCEPT !.answer = answer] /\ task' = task
              \/ r = task /\ task' = [task EXCEPT !.answer = answer] /\ loop' = loop
           /\ loop' \in Request /\ task' \in Request
           /\ loop'.kind = loop.kind /\ loop'.age = loop.age /\ task'.kind = task.kind
    BY <1>1, EndEffect
  <2>2. ~Fault
    BY quiet > 0, quiet' = quiet, <1>0, SMT DEF Fault
  <2>3. Served(r, answer)
    BY <1>0, <2>1, <2>2 DEF Failed, TasksAgree
  <2>4. /\ answer = (IF r.kind = "register" \/ entry # Absent THEN "ok" ELSE "refused")
        /\ entry' = Heard(r.kind) /\ active' = (entry' # Absent)
        /\ UNCHANGED <<up, deaf, link, events, client>>
    BY <2>2, <2>3 DEF Served
  <2>5. /\ [loop EXCEPT !.answer = answer].answer = answer
        /\ [task EXCEPT !.answer = answer].answer = answer
    BY <1>0, <2>1, RequestFields
  <2>6. LoopFree' <=> LoopFree
    BY <2>1, NewRequests DEF LoopFree, Requests
  <2>7. CASE answer = "ok"
    <3>0. r.kind = "register" \/ entry # Absent
      BY <2>4, <2>7
    <3>1. entry' = 0 /\ active' = TRUE
      <4>1. entry' = 0
        BY <2>4, <3>0, Zenon DEF Heard
      <4>2. entry' # Absent
        BY <4>1, SMT DEF Absent
      <4> QED
        BY <2>4, <4>1, <4>2, Zenon
    <3>2. loop'.answer \in {loop.answer, "ok"} /\ task'.answer \in {task.answer, "ok"}
      BY <2>1, <2>5, <2>7
    <3>3. TasksAgree'
      BY <1>0, <2>4, <3>1, <3>2 DEF TasksAgree, Reachable
    <3>4. CASE InTouch
      BY <1>0, <2>1, <2>4, <2>6, <3>1, <3>2, <3>3, <3>4 DEF InTouch
    <3>5. CASE Recovering
      BY <1>0, <2>1, <2>4, <2>6, <3>1, <3>3, <3>5, quiet' = quiet DEF Recovering, NoAttempt
    <3> QED
      BY <3>4, <3>5
  <2>8. CASE answer = "refused"
    <3>1. entry = Absent /\ entry' = Absent /\ active' = FALSE /\ ~active
      BY <2>4, <2>8 DEF Heard, ActiveEntries
    <3>2. r.kind = "heartbeat" /\ r = loop /\ task' = task /\ loop'.answer = "refused"
      BY <2>1, <2>5, <2>8 DEF Requests
    <3>3. TasksAgree'
      BY <1>0, <2>4, <3>1, <3>2 DEF TasksAgree, Reachable
    <3>4. Recovering /\ loop.kind = "heartbeat" /\ ~LoopFree
      BY <3>1, <3>2, NewRequests DEF InTouch, LoopFree
    <3>5. Recovering'
      BY <2>1, <2>4, <2>6, <3>4, quiet' = quiet DEF Recovering, NoAttempt
    <3> QED
      BY <3>3, <3>5
  <2> QED
    BY <2>4, <2>7, <2>8
<1>2. CASE Cleanup
  <2>1. entry \in Int /\ (~Stale <=> entry <= HeartbeatTimeout)
    <3>1. entry \in Int
      BY <1>0, Numbers, SMT DEF TypeOK, Absent
    <3> QED
      BY <3>1, Numbers, SMT DEF Stale
  <2>2. /\ active' = (active /\ entry <= HeartbeatTimeout)
        /\ entry' = (IF Forgotten THEN Absent ELSE entry)
        /\ UNCHANGED <<up, deaf, link, events, client, loop, task>>
    BY <1>2, <2>1 DEF Cleanup
  <2>3. active /\ entry <= HeartbeatTimeout => active' /\ entry' = entry
    BY <2>2, <2>1 DEF Forgotten
  <2>4. active' => active /\ entry' = entry
    BY <2>2, <2>3
  <2>5. active /\ entry = 0 => active' /\ entry' = 0
    <3>1. entry = 0 => entry <= HeartbeatTimeout
      BY Numbers, SMT
    <3> QED
      BY <2>3, <3>1
  <2>6. TasksAgree'
    BY <1>0, <2>2, <2>4, <2>5 DEF TasksAgree, Reachable
  <2>7. CASE InTouch
    <3>1. active /\ entry <= HeartbeatTimeout
      BY <1>0, <2>1, <2>7, Numbers, SMT DEF InTouch
    <3> QED
      BY <2>2, <2>3, <2>6, <2>7, <3>1 DEF InTouch, LoopFree
  <2>8. CASE Recovering
    BY <2>2, <2>4, <2>6, <2>8, quiet' = quiet DEF Recovering, NoAttempt, LoopFree
  <2> QED
    BY <2>7, <2>8
<1> QED
  BY <1>1, <1>2

LEMMA RecoveryStep ==
  ASSUME IInv, TypeOK', [Next]_vars
  PROVE  Calm' /\ (InTouch' \/ Recovering')
<1>1. CASE quiet' = 0
  BY <1>1, QuietBegins
<1>2. CASE Tick /\ quiet' # 0
  BY <1>2, TickCalm, TickRecovers DEF IInv, Calm
<1>3. CASE ~Tick /\ quiet' # 0
  <2>1. /\ quiet' = quiet /\ quiet > 0 /\ TasksAgree
        /\ \/ Reregister \/ (Beat /\ client.connected) \/ BeatAnswered \/ RegisterAnswered
           \/ TaskAnswered \/ Cleanup \/ UNCHANGED vars
           \/ RequestEnds /\ UNCHANGED quiet
    BY <1>3, CalmActions DEF IInv
  <2>2. CASE UNCHANGED vars
    BY <2>1, <2>2 DEF vars, IInv, Calm, TasksAgree, Reachable, InTouch, Recovering, NoAttempt,
                      LoopFree
  <2> QED
    BY <2>1, <2>2, ClientRecovers, ServerRecovers DEF Calm
<1> QED
  BY <1>1, <1>2, <1>3

LEMMA InvStep ==
  ASSUME IInv, [Next]_vars
  PROVE  IInv'
<1>1. TypeOK' /\ LinkEvents' /\ ConnectedTracks' /\ QueueShort' /\ Requests'
  BY TypeStep DEF IInv
<1>2. ActiveEntries'
  BY ActiveStep DEF IInv
<1>3. Calm' /\ (InTouch' \/ Recovering')
  BY <1>1, RecoveryStep
<1> QED
  BY <1>1, <1>2, <1>3 DEF IInv

LEMMA InvInit == Init => IInv
<1> SUFFICES ASSUME Init PROVE IInv
  OBVIOUS
<1>1. client \in ClientState /\ client.role = "AWAY" /\ client.connected = FALSE
  <2>1. client = [role |-> "AWAY", roleAge |-> 0, known |-> FALSE, connected |-> FALSE,
                  failures |-> 0, beatAge |-> 0, regAge |-> 0, regDelay |-> FirstDelay]
    BY DEF Init
  <2> QED
    BY <2>1, Bounds, Zenon DEF ClientState
<1>2. /\ events \in Seq({"lost", "gotIp"}) /\ Len(events) = 0 /\ events = <<>>
  BY EmptySeq DEF Init
<1>3. TypeOK
  <2>1. 0 <= 2 * MaxFaults + 1 /\ 0 \in 0 .. MaxFaults
    BY Numbers, SMT
  <2> QED
    BY <1>1, <1>2, <2>1, Bounds, NewRequests DEF Init, TypeOK
<1>4. LinkEvents
  <2>1. ASSUME NEW i \in 1 .. Len(events) - 1 PROVE FALSE
    BY <1>2, <2>1, SMT
  <2> QED
    BY <1>2, <2>1 DEF LinkEvents
<1>5. NextEvent = "gotIp" /\ link = FALSE
  BY <1>2 DEF Init, NextEvent
<1>6. ConnectedTracks /\ Requests
  BY <1>1, <1>2, <1>5, NewRequests DEF Init, ConnectedTracks, Requests, LoopFree
<1>7. QueueShort
  <2>1. 0 <= 2 * 0 + 0
    BY SMT
  <2> QED
    BY <1>1, <1>2, <1>5, <2>1 DEF QueueShort, Init
<1>8. ActiveEntries
  BY DEF Init, ActiveEntries
<1>9. Calm /\ Recovering
  <2>1. /\ 0 <= client.beatAge /\ 0 <= client.regAge /\ 0 <= Longer + RequestTime /\ 0 <= Longer
        /\ 0 <= HeartbeatInterval + loop.age /\ 0 <= Longer + RequestTime + loop.age
        /\ 0 <= Longer + loop.age /\ ~(0 > 0)
    <3>1. client.beatAge \in Nat /\ client.regAge \in Nat /\ loop.age = 0
      BY <1>1, ClientFields, NewRequests DEF Init
    <3> QED
      BY <3>1, Numbers, SMT
  <2>2. quiet = 0
    BY DEF Init
  <2> QED
    BY <2>1, <2>2, Zenon DEF Calm, Recovering, NoAttempt
<1> QED
  BY <1>3, <1>4, <1>6, <1>7, <1>8, <1>9 DEF IInv
-------------------------------------------------------------------------------
(* The theorems. *)

\* The inductive invariant of the registration: what the client's two tasks and the
\* server's registry know of each other, and how far a recovery has got.
THEOREM InvCorrect == Spec => []IInv
BY InvInit, InvStep, PTL DEF Spec

\* Every state is well typed: timers stay below their caps, no request outlives its
\* timeout, and the WiFi events waiting for the event task are bounded by the faults,
\* however often the client leaves by itself and associates again.
THEOREM TypeCorrect == Spec => []TypeOK
<1>1. IInv => TypeOK
  BY DEF IInv
<1> QED
  BY <1>1, InvCorrect, PTL

\* cleanupStaleClients: a client that is gone is broadcast to for no longer than the
\* timeout and one cleanup.
THEOREM StaleGone == Spec => []StaleEntriesGo
<1>1. IInv => StaleEntriesGo
  <2> SUFFICES ASSUME IInv, active PROVE entry <= HeartbeatTimeout + CleanupInterval
    BY DEF StaleEntriesGo
  <2>1. /\ entry <= HeartbeatTimeout + cleanupAge /\ entry \in Int
        /\ cleanupAge \in 0 .. CleanupInterval
    BY Numbers, SMT DEF IInv, ActiveEntries, TypeOK, Absent
  <2> QED
    BY <2>1, Numbers, SMT
<1> QED
  BY <1>1, InvCorrect, PTL

\* tickClient and WiFiEvent bring a client back: after one heartbeat or one backoff, and
\* two requests, without a fault, it is registered and knows it.
THEOREM ClientsRecover == Spec => []Recovered
<1>1. IInv => Recovered
  <2> SUFFICES ASSUME IInv, quiet = RecoveryTime PROVE active /\ client.known
    BY DEF Recovered
  <2>1. /\ client.beatAge <= HeartbeatInterval /\ client.beatAge \in Nat
        /\ loop.age <= RequestTime /\ loop.age \in Nat
        /\ loop.kind \in {"none", "register", "heartbeat"}
    BY ClientFields, RequestFields DEF IInv, TypeOK
  <2>2. CASE Recovering
    <3>1. \/ quiet <= client.beatAge \/ quiet <= Longer + RequestTime
          \/ quiet <= HeartbeatInterval + loop.age \/ quiet <= Longer + RequestTime + loop.age
      <4>1. loop.kind = "none" => LoopFree
        BY DEF IInv, Requests, LoopFree
      <4> QED
        BY <2>1, <2>2, <4>1 DEF Recovering
    <3> QED
      BY <2>1, <3>1, Numbers, SMT
  <2>3. CASE InTouch
    BY <2>3 DEF InTouch
  <2> QED
    BY <2>2, <2>3 DEF IInv
<1> QED
  BY <1>1, InvCorrect, PTL

\* cleanupStaleClients takes no client for gone that has had its link for a heartbeat or
\* a backoff.
THEOREM LiveClientsStay == Spec => NoLiveClientRemoved
<1>1. ASSUME IInv, Cleanup, active, ~active' PROVE quiet <= Longer + RequestTime
  <2>1. /\ quiet \in Nat /\ entry \in Int /\ ~(entry <= HeartbeatTimeout)
        /\ client.beatAge <= HeartbeatInterval /\ client.beatAge \in Nat
        /\ loop.age <= RequestTime /\ loop.age \in Nat
        /\ loop.kind \in {"none", "register", "heartbeat"}
    <3>1. quiet \in Nat /\ entry \in Int
      BY <1>1, Numbers, SMT DEF IInv, TypeOK, Absent
    <3>2. ~(entry <= HeartbeatTimeout)
      <4>1. Stale
        BY <1>1 DEF Cleanup
      <4> QED
        BY <3>1, <4>1, Numbers, SMT DEF Stale
    <3> QED
      BY <1>1, <3>1, <3>2, ClientFields, RequestFields DEF IInv, TypeOK
  <2>2. loop.kind = "none" => LoopFree
    BY <1>1 DEF IInv, Requests, LoopFree
  <2>3. CASE InTouch
    <3>1. entry <= client.beatAge \/ entry <= HeartbeatInterval + loop.age
      BY <2>3 DEF InTouch
    <3> QED
      BY <2>1, <3>1, Numbers, SMT
  <2>4. CASE Recovering
    <3>1. \/ quiet <= client.beatAge \/ quiet <= Longer
          \/ quiet <= HeartbeatInterval + loop.age \/ quiet <= Longer + loop.age
          \/ quiet <= Longer + RequestTime + loop.age /\ entry <= quiet
          \/ quiet <= Longer + RequestTime /\ entry <= quiet
      BY <1>1, <2>1, <2>2, <2>4 DEF Recovering
    <3> QED
      BY <2>1, <3>1, Numbers, SMT
  <2> QED
    BY <1>1, <2>3, <2>4 DEF IInv
<1>2. IInv /\ [Next]_vars => [Cleanup /\ active /\ ~active' => quiet <= Longer + RequestTime]_vars
  BY <1>1
<1> QED
  BY <1>2, InvCorrect, PTL DEF Spec, NoLiveClientRemoved

\* isConnected, which loop() and the event task write without a lock, is right whenever
\* the event task has nothing left to do.
THEOREM ConnectedSettles == Spec => [](events = <<>> => (client.connected <=> link))
<1>1. IInv => (events = <<>> => (client.connected <=> link))
  BY DEF IInv, ConnectedTracks
<1> QED
  BY <1>1, InvCorrect, PTL
===============================================================================
