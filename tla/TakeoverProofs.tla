----------------------------- MODULE TakeoverProofs -----------------------------
(* What a change of server leaves intact, for any number of nodes, every clock   *)
(* width and all the times that meet the assumptions.                            *)
EXTENDS Takeover, TLAPS

(* The clock arithmetic for every word width. *)

LEMMA Word == M \in Int /\ M > 0 /\ Half \in Int /\ M = 2 * Half /\ Half > 0
BY MAssumption, SMT DEF Half

LEMMA Quotient ==
  ASSUME NEW x \in Int
  PROVE  Wrap(x) \in Clock /\ \E k \in Int : x = k * M + Wrap(x)
<1>1. Wrap(x) \in Clock
  BY Word, SMT DEF Wrap, Clock
<1>2. x = (x \div M) * M + Wrap(x) /\ (x \div M) \in Int
  BY Word, SMT DEF Wrap
<1> QED
  BY <1>1, <1>2

LEMMA Remainder ==
  ASSUME NEW x \in Int, NEW k \in Int, NEW r \in Clock, x = k * M + r
  PROVE  Wrap(x) = r
<1>1. PICK j \in Int : x = j * M + Wrap(x)
  BY Quotient
<1>2. Wrap(x) \in Clock
  BY Quotient
<1>3. (k - j) * M = Wrap(x) - r
  BY Word, <1>1, <1>2, SMT DEF Clock
<1>4. k = j
  BY Word, <1>2, <1>3, SMT DEF Clock
<1> QED
  BY Word, <1>1, <1>2, <1>4, SMT DEF Clock

\* A difference of at most half the range is read back with its sign.
LEMMA SignedDifference ==
  ASSUME NEW x \in Int, NEW k \in Int, NEW d \in Int, x = k * M + d,
         -Half <= d, d < Half
  PROVE  Signed(x) = d
<1>1. CASE d >= 0
  <2>1. Wrap(x) = d
    BY Word, <1>1, Remainder, SMT DEF Clock
  <2> QED
    BY Word, <1>1, <2>1, SMT DEF Signed
<1>2. CASE d < 0
  <2>1. x = (k - 1) * M + (d + M)
    BY Word, SMT
  <2>2. d + M \in Clock
    BY Word, <1>2, SMT DEF Clock
  <2>3. Wrap(x) = d + M
    BY <2>1, <2>2, Remainder, SMT
  <2> QED
    BY Word, <1>2, <2>3, SMT DEF Signed
<1> QED
  BY <1>1, <1>2

\* millis() - since is the time that passed, across the wrap, as long as less than
\* one turn of the clock did (every timer of ws_wifi.cpp but the deadlines).
THEOREM AgeIsElapsed ==
  ASSUME NEW since \in Int, NEW now \in Int, since <= now, now - since < M
  PROVE  Age(Wrap(now), Wrap(since)) = now - since
<1> DEFINE diff == Wrap(now) - Wrap(since)
<1>1. PICK j \in Int : now = j * M + Wrap(now)
  BY Quotient
<1>2. PICK k \in Int : since = k * M + Wrap(since)
  BY Quotient
<1>3. Wrap(now) \in Int /\ Wrap(since) \in Int
  BY Quotient DEF Clock
<1>4. diff = (k - j) * M + (now - since)
  <2> DEFINE jm == j * M
             km == k * M
  <2>1. (k - j) * M = km - jm /\ km \in Int /\ jm \in Int
    BY Word, SMT
  <2> HIDE DEF jm, km
  <2>2. now = jm + Wrap(now) /\ since = km + Wrap(since)
    BY <1>1, <1>2 DEF jm, km
  <2> QED
    BY <1>3, <2>1, <2>2, SMT
<1>5. now - since \in Clock /\ diff \in Int /\ k - j \in Int
  BY Word, <1>3, SMT DEF Clock
<1>6. Wrap(diff) = now - since
  BY <1>4, <1>5, Remainder
<1> QED
  BY <1>6 DEF Age

\* Cristian's bound (syncClock, serverNow): a client that asked at real time r0,
\* was answered by the server at r and heard at r1 shows, ever after, the
\* server's clock with an error of r - (r0 + r1) / 2: at most half of the round
\* trip, rounded up.  a and b are what the two clocks started from.
THEOREM SyncError ==
  ASSUME NEW a \in Int, NEW b \in Int, NEW r0 \in Int, NEW r \in Int, NEW r1 \in Int,
         r0 <= r, r <= r1, r1 - r0 < Half, NEW t \in Int
  PROVE  LET offset == Estimate(Wrap(r + b), Wrap(r0 + a), Wrap(r1 + a))
             error  == Signed(ServerNow(Wrap(t + a), offset) - Wrap(t + b))
         IN  error = (r1 - r0) \div 2 - (r1 - r)
<1> DEFINE trip == r1 - r0
           half == trip \div 2
           e == half - (r1 - r)
           offset == Estimate(Wrap(r + b), Wrap(r0 + a), Wrap(r1 + a))
<1>1. trip \in Nat /\ half \in Nat /\ 2 * half <= trip /\ trip <= 2 * half + 1 /\ e \in Int
  BY SMT
<1>2. Age(Wrap(r1 + a), Wrap(r0 + a)) = trip
  <2>1. /\ r0 + a \in Int /\ r1 + a \in Int /\ r0 + a <= r1 + a
        /\ (r1 + a) - (r0 + a) < M /\ (r1 + a) - (r0 + a) = trip
    BY Word, SMT
  <2> QED
    BY <2>1, AgeIsElapsed
<1>3. offset = Wrap(Wrap(r + b) + half - Wrap(r1 + a))
  BY <1>2 DEF Estimate
<1> HIDE DEF half, offset, e
<1>4. \E k \in Int : offset = k * M + (b - a + half - (r1 - r))
  <2>1. PICK i \in Int : r + b = i * M + Wrap(r + b)
    BY Quotient
  <2>2. PICK j \in Int : r1 + a = j * M + Wrap(r1 + a)
    BY Quotient
  <2>3. Wrap(r + b) \in Int /\ Wrap(r1 + a) \in Int
    BY Quotient DEF Clock
  <2>4. PICK k \in Int : Wrap(r + b) + half - Wrap(r1 + a) = k * M + offset
    BY <1>1, <1>3, <2>3, Quotient, SMT
  <2>5. offset \in Int
    BY <1>1, <1>3, <2>3, Quotient, SMT DEF Clock
  <2>6. offset = (j - i - k) * M + (b - a + half - (r1 - r))
    BY Word, <1>1, <2>1, <2>2, <2>3, <2>4, <2>5, SMT
  <2> QED
    BY <2>6
<1>5. PICK k \in Int : offset = k * M + (b - a + e)
  BY <1>1, <1>4, SMT DEF e
<1> DEFINE ta == t + a
           tb == t + b
           local == Wrap(ta)
           server == Wrap(tb)
           shown == ServerNow(local, offset)
<1>6. /\ ta \in Int /\ tb \in Int /\ tb = ta + (b - a)
      /\ local \in Int /\ server \in Int /\ offset \in Int /\ shown \in Int
  BY Word, <1>1, <1>5, Quotient, SMT DEF Clock, ServerNow
<1>7. PICK i \in Int : ta = i * M + local
  BY <1>6, Quotient
<1>8. PICK j \in Int : tb = j * M + server
  BY <1>6, Quotient
<1>9. PICK l \in Int : local + offset = l * M + shown
  BY <1>6, Quotient DEF ServerNow
<1> HIDE DEF ta, tb, local, server, shown
<1>10. \E q \in Int : shown - server = q * M + e
  <2> DEFINE q == j + k - i - l
             im == i * M
             jm == j * M
             km == k * M
             lm == l * M
             qm == q * M
  <2>1. qm = jm + km - im - lm
    BY Word, SMT
  <2>2. im \in Int /\ jm \in Int /\ km \in Int /\ lm \in Int /\ q \in Int
    BY Word, SMT
  <2>3. /\ offset = km + (b - a + e) /\ ta = im + local /\ tb = jm + server
        /\ local + offset = lm + shown
    BY <1>5, <1>7, <1>8, <1>9
  <2> HIDE DEF im, jm, km, lm, qm, q, trip
  <2>4. shown - server = qm + e
    BY <1>1, <1>6, <2>1, <2>2, <2>3, SMT
  <2> QED
    BY <2>2, <2>4 DEF qm
<1>11. PICK q \in Int : shown - server = q * M + e
  BY <1>10
<1>12. -Half <= e /\ e < Half
  BY Word, <1>1, SMT DEF e
<1>13. shown - server \in Int
  BY <1>6, SMT
<1>14. Signed(shown - server) = e
  BY <1>1, <1>11, <1>12, <1>13, SignedDifference
<1> QED
  BY <1>14 DEF e, half, offset, shown, server, local, ta, tb
-------------------------------------------------------------------------------
(* The servers and their clients. *)

\* What a client c with that offset shows is the time of server s, but for the error
\* of one exchange.
Near(c, s, offset) == Signed(ServerNow(clock[c], offset) - Now(s)) \in -MaxBehind .. MaxAhead

\* At most one node serves, by its own clock, with no exchange under way.
OneServer ==
  /\ \A s, t \in Servers : s = t
  /\ \A s \in Servers : /\ node[s].offset = 0 /\ node[s].sync.left = 0
                        /\ waiting => node[s].seq < MaxSeq

\* The offsets that are said to be to the present server, and the best sample of an
\* exchange with it, are.
OffsetsNear ==
  \A s \in Servers, c \in Node :
    /\ node[c].ours => Near(c, s, node[c].offset)
    /\ node[c].sync.ours => Near(c, s, node[c].sync.offset)

\* A schedule of the present server was planned by it after its grace and its banner.
OwnPlanned ==
  \A s \in Servers : node[s].sched.active /\ node[s].sched.ours =>
    /\ node[s].grace = 0 /\ node[s].busy = 0 /\ node[s].seq > 0
    /\ Elapsed(s) \in -Lead .. Length

IInv == TypeOK /\ OneServer /\ OffsetsNear /\ OwnPlanned
-------------------------------------------------------------------------------
(* Types. *)

LEMMA Numbers ==
  /\ {Lead, Length, Grace, Banner, MaxTrip, Samples, MaxDelay, MaxSeq, MaxFaults} \subseteq Nat
  /\ Length + Banner < Half /\ Lead + MaxTrip < Half
  /\ MaxBehind \in Nat /\ MaxAhead \in Nat
  /\ MaxBehind <= MaxTrip /\ MaxAhead <= MaxTrip
  /\ NoTrip \in Nat /\ NoTrip > 0
<1>1. /\ {Lead, Length, Grace, Banner, MaxTrip, Samples, MaxDelay, MaxSeq, MaxFaults} \subseteq Nat
      /\ Length + Banner < Half /\ Lead + MaxTrip < Half
  BY TakeoverAssumption
<1>2. MaxTrip \in Nat
  BY <1>1
<1> QED
  BY <1>1, <1>2, SMT DEF MaxBehind, MaxAhead, NoTrip

LEMMA Zeroes ==
  /\ 0 \in Clock /\ 0 \in 0 .. MaxSeq /\ 0 \in 0 .. Grace /\ 0 \in 0 .. Banner
  /\ 0 \in 0 .. Samples /\ NoTrip \in 0 .. NoTrip /\ Grace \in 0 .. Grace
  /\ Banner \in 0 .. Banner /\ Samples \in 0 .. Samples
  /\ MaxDelay \in 0 .. MaxDelay /\ 0 \in 0 .. MaxFaults
BY Numbers, Word, SMT DEF Clock

LEMMA Empty == NoSchedule \in Schedule /\ NoSync \in Sync
BY Zeroes DEF NoSchedule, Schedule, NoSync, Sync

LEMMA BootedType ==
  /\ Booted \in NodeState
  /\ \A pi \in BOOLEAN : Unpowered(pi) \in NodeState /\ [Booted EXCEPT !.pi = pi] \in NodeState
<1>1. Booted \in NodeState
  BY Zeroes, Empty DEF Booted, NodeState, Role
<1>2. "off" \in Role
  BY DEF Role
<1> QED
  BY <1>1, <1>2, Zenon DEF NodeState, Unpowered

\* What the nodes carry over to a new reign.
LEMMA StaleType ==
  ASSUME NEW v \in NodeState
  PROVE  /\ StaleNode(v) \in NodeState
         /\ StaleNode(v).role = v.role /\ StaleNode(v).sync.left = v.sync.left
         /\ StaleNode(v).seq = v.seq
         /\ ~StaleNode(v).ours /\ ~StaleNode(v).sched.ours /\ ~StaleNode(v).sync.ours
<1> DEFINE sched == [v.sched EXCEPT !.ours = FALSE]
           sync  == [v.sync EXCEPT !.ours = FALSE]
<1>1. StaleNode(v) = [v EXCEPT !.ours = FALSE, !.sched = sched, !.sync = sync]
  BY DEF StaleNode
<1>2. v.sched \in Schedule /\ v.sync \in Sync
  BY SMT DEF NodeState
<1>3. sched \in Schedule /\ ~sched.ours
  BY <1>2, Zenon DEF Schedule
<1>4. sync \in Sync /\ ~sync.ours /\ sync.left = v.sync.left
  BY <1>2, Zenon DEF Sync
<1> HIDE DEF sched, sync
<1> QED
  BY <1>1, <1>3, <1>4, Zenon DEF NodeState
-------------------------------------------------------------------------------
(* Moments and their differences. *)

LEMMA SignedZero ==
  ASSUME NEW t \in Int
  PROVE  Signed(t - t) = 0
<1>1. t - t = 0 * M + 0 /\ t - t \in Int /\ -Half <= 0 /\ 0 < Half
  BY Word, SMT
<1> HIDE DEF Half
<1> QED
  BY <1>1, SignedDifference

LEMMA SignedQuotient ==
  ASSUME NEW x \in Int
  PROVE  /\ Signed(x) \in Int /\ -Half <= Signed(x) /\ Signed(x) < Half
         /\ \E k \in Int : x = k * M + Signed(x)
<1>1. PICK k \in Int : x = k * M + Wrap(x)
  BY Quotient
<1>2. Wrap(x) \in Clock
  BY Quotient
<1>3. x = (k + 1) * M + (Wrap(x) - M) /\ k + 1 \in Int
  BY <1>1, <1>2, Word, SMT DEF Clock
<1>4. Signed(x) \in Int /\ -Half <= Signed(x) /\ Signed(x) < Half
  BY <1>2, Word, SMT DEF Signed, Clock
<1>5. CASE Wrap(x) < Half
  <2>1. Signed(x) = Wrap(x)
    BY <1>5 DEF Signed
  <2> QED
    BY <1>1, <1>4, <2>1
<1>6. CASE ~(Wrap(x) < Half)
  <2>1. Signed(x) = Wrap(x) - M
    BY <1>6 DEF Signed
  <2>2. x = (k + 1) * M + Signed(x)
    BY <1>3, <2>1
  <2> QED
    BY <1>3, <1>4, <2>2, Zenon
<1> QED
  BY <1>5, <1>6

\* Differences add up as long as their sum can be told from one half a turn away.
LEMMA SignedSum ==
  ASSUME NEW x \in Int, NEW y \in Int,
         -Half <= Signed(x) + Signed(y), Signed(x) + Signed(y) < Half
  PROVE  Signed(x + y) = Signed(x) + Signed(y)
<1>1. PICK i \in Int : x = i * M + Signed(x)
  BY SignedQuotient
<1>2. PICK j \in Int : y = j * M + Signed(y)
  BY SignedQuotient
<1>3. Signed(x) \in Int /\ Signed(y) \in Int
  BY SignedQuotient
<1> DEFINE d == Signed(x) + Signed(y)
<1>4. x + y = (i + j) * M + d /\ i + j \in Int /\ x + y \in Int /\ d \in Int
  BY <1>1, <1>2, <1>3, Word, SMT
<1> HIDE DEF d
<1> QED
  BY <1>4, SignedDifference DEF d

\* What Wrap takes off a moment does not change a difference.
LEMMA SignedOfWrapped ==
  ASSUME NEW x \in Int, NEW y \in Int
  PROVE  Signed(x - Wrap(y)) = Signed(x - y)
<1>1. PICK j \in Int : y = j * M + Wrap(y)
  BY Quotient
<1>2. PICK k \in Int : x - y = k * M + Signed(x - y)
  BY SignedQuotient, SMT
<1>3. /\ Signed(x - y) \in Int /\ -Half <= Signed(x - y) /\ Signed(x - y) < Half
      /\ Wrap(y) \in Int
  BY SignedQuotient, Quotient, SMT DEF Clock
<1> DEFINE d == Signed(x - y)
           r == Wrap(y)
<1>4. x - r = (j + k) * M + d /\ j + k \in Int /\ x - r \in Int /\ d \in Int
  BY <1>1, <1>2, <1>3, Word, SMT
<1> HIDE DEF d, r
<1>5. Signed(x - r) = d
  BY <1>3, <1>4, SignedDifference DEF d
<1> QED
  BY <1>5 DEF d, r

LEMMA SignedNext ==
  ASSUME NEW x \in Int, Signed(x) < Half - 1
  PROVE  Signed(x + 1) = Signed(x) + 1
<1>1. PICK k \in Int : x = k * M + Signed(x)
  BY SignedQuotient
<1>2. Signed(x) \in Int /\ -Half <= Signed(x)
  BY SignedQuotient
<1> DEFINE d == Signed(x) + 1
           km == k * M
<1>3. km \in Int /\ x = km + Signed(x)
  BY <1>1, Word, SMT
<1> HIDE DEF km
<1>4. x + 1 = km + d /\ d \in Int /\ -Half <= d /\ d < Half /\ x + 1 \in Int
  BY <1>2, <1>3, Word, SMT
<1> HIDE DEF d
<1>5. Signed(x + 1) = d
  BY <1>4, SignedDifference DEF km
<1> QED
  BY <1>5 DEF d

\* A moment known exactly, before or after this one.
LEMMA SignedSmall ==
  ASSUME NEW d \in Int, -Half <= d, d < Half
  PROVE  Signed(d) = d
<1>1. d = 0 * M + d
  BY Word, SMT
<1> QED
  BY <1>1, SignedDifference
-------------------------------------------------------------------------------
(* Steps of one node, and changes of reign. *)

\* What the new state x of node n must be for the invariant to survive when all other
\* nodes, the clocks and the servers stay.
Harmless(n, x) ==
  /\ x \in NodeState
  /\ x.role = "server" =>
       /\ node[n].role = "server" /\ x.offset = 0 /\ x.sync.left = 0
       /\ waiting' => x.seq < MaxSeq
       /\ x.sched.active /\ x.sched.ours =>
            /\ x.grace = 0 /\ x.busy = 0 /\ x.seq > 0
            /\ Signed(ServerNow(clock[n], x.offset) - x.sched.at) \in -Lead .. Length
  /\ x.ours => \/ node[n].ours /\ x.offset = node[n].offset
               \/ \A s \in Servers : Near(n, s, x.offset)
  /\ x.sync.ours => \/ node[n].sync.ours /\ x.sync.offset = node[n].sync.offset
                    \/ \A s \in Servers : Near(n, s, x.sync.offset)

\* The parts of the invariant about the nodes.
Nodes == node \in [Node -> NodeState] /\ OneServer /\ OffsetsNear /\ OwnPlanned

LEMMA OneNode ==
  ASSUME IInv, NEW n \in Node, NEW x, Harmless(n, x),
         node' = [node EXCEPT ![n] = x], clock' = clock,
         waiting' => waiting \/ \E s \in Servers : node[s].seq < MaxSeq
  PROVE  Nodes'
<1>1. node \in [Node -> NodeState] /\ x \in NodeState
  BY DEF IInv, TypeOK, Harmless
<1>2. node' \in [Node -> NodeState]
  BY <1>1
<1>3. /\ node'[n] = x
      /\ \A m \in Node : m # n => node'[m] = node[m]
  BY <1>1
<1>4. \A s \in Servers' : s \in Servers /\ node'[s].offset = node[s].offset
  BY <1>3 DEF Servers, Harmless, IInv, OneServer
<1>5. \A s \in Servers' : Now(s)' = Now(s)
  BY <1>4 DEF Now
<1>6. OneServer'
  <2>1. \A s, t \in Servers' : s = t
    BY <1>4 DEF IInv, OneServer
  <2>2. ASSUME NEW s \in Servers'
        PROVE  /\ node'[s].offset = 0 /\ node'[s].sync.left = 0
               /\ waiting' => node'[s].seq < MaxSeq
    <3>1. CASE s = n
      BY <1>3, <3>1 DEF Harmless, Servers
    <3>2. CASE s # n
      BY <1>3, <1>4, <3>2 DEF IInv, OneServer, Servers
    <3> QED
      BY <3>1, <3>2
  <2> QED
    BY <2>1, <2>2 DEF OneServer
<1>7. OffsetsNear'
  <2>1. ASSUME NEW s \in Servers', NEW c \in Node
        PROVE  /\ node'[c].ours => Near(c, s, node'[c].offset)
               /\ node'[c].sync.ours => Near(c, s, node'[c].sync.offset)
    <3>1. CASE c = n
      BY <1>3, <1>4, <3>1 DEF Harmless, IInv, OffsetsNear
    <3>2. CASE c # n
      BY <1>3, <1>4, <3>2 DEF IInv, OffsetsNear
    <3> QED
      BY <3>1, <3>2
  <2>2. ASSUME NEW s \in Servers', NEW c \in Node
        PROVE  (/\ node[c].ours => Near(c, s, node[c].offset)
                /\ node[c].sync.ours => Near(c, s, node[c].sync.offset))'
    BY <1>5, <2>1 DEF Near
  <2> QED
    BY <2>2 DEF OffsetsNear
<1>8. OwnPlanned'
  <2>1. ASSUME NEW s \in Servers', node'[s].sched.active, node'[s].sched.ours
        PROVE  /\ node'[s].grace = 0 /\ node'[s].busy = 0 /\ node'[s].seq > 0
               /\ Elapsed(s)' \in -Lead .. Length
    <3>1. s \in Node /\ s \in Servers /\ node'[s].role = "server"
      BY <1>4 DEF Servers
    <3>2. CASE s = n
      BY <1>3, <2>1, <3>1, <3>2 DEF Harmless, Elapsed, Now
    <3>3. CASE s # n
      BY <1>3, <2>1, <3>1, <3>3 DEF IInv, OwnPlanned, Elapsed, Now
    <3> QED
      BY <3>2, <3>3
  <2> QED
    BY <2>1 DEF OwnPlanned
<1> QED
  BY <1>2, <1>6, <1>7, <1>8 DEF Nodes

\* A new reign: nobody else serves, and nothing the nodes carry over is ours.
LEMMA NewReign ==
  ASSUME IInv, NEW s \in Node, NEW v \in NodeState, Reigns(s, v),
         \A n \in Servers : n = s, v.sync.left = 0, clock' \in [Node -> Clock]
  PROVE  Nodes'
<1> DEFINE x == [StaleNode(v) EXCEPT !.role = "server", !.offset = 0, !.synced = TRUE, !.ours = TRUE]
<1>1. node \in [Node -> NodeState]
  BY DEF IInv, TypeOK
<1>2. /\ x \in NodeState
      /\ x.role = "server" /\ x.offset = 0 /\ x.sync.left = 0
      /\ ~x.sched.ours /\ ~x.sync.ours
  <2>1. "server" \in Role /\ 0 \in Clock
    BY Zeroes DEF Role
  <2> QED
    BY <2>1, StaleType, Zenon DEF NodeState
<1>3. node' = [n \in Node |-> IF n = s THEN x ELSE StaleNode(node[n])]
  BY DEF Reigns
<1> HIDE DEF x
<1>4. node'[s] = x /\ \A n \in Node : n # s => node'[n] = StaleNode(node[n])
  BY <1>3
<1>5. \A n \in Node : node'[n] \in NodeState
  BY <1>1, <1>2, <1>4, StaleType
<1>6. node' \in [Node -> NodeState]
  BY <1>3, <1>5
<1>7. Servers' = {s}
  BY <1>1, <1>2, <1>4, StaleType DEF Servers
<1>8. OneServer'
  BY <1>2, <1>4, <1>7 DEF OneServer, Reigns
<1>9. OffsetsNear'
  <2>1. Now(s)' \in Int
    BY <1>2, <1>4, Quotient, SMT DEF Now, ServerNow, Clock
  <2>2. Signed(Now(s)' - Now(s)') = 0
    BY <2>1, SignedZero
  <2>3. (Near(s, s, node[s].offset))'
    BY <2>2, Numbers, SMT DEF Near, Now
  <2> QED
    BY <1>1, <1>2, <1>4, <1>7, <2>3, StaleType DEF OffsetsNear
<1>10. OwnPlanned'
  BY <1>2, <1>4, <1>7 DEF OwnPlanned
<1> QED
  BY <1>6, <1>8, <1>9, <1>10 DEF Nodes
-------------------------------------------------------------------------------
(* The steps, one action at a time. *)

LEMMA Atoms ==
  ASSUME NEW v \in NodeState
  PROVE  /\ v.offset \in Clock /\ v.sched \in Schedule /\ v.sync \in Sync
         /\ v.seq \in 0 .. MaxSeq /\ v.grace \in 0 .. Grace /\ v.busy \in 0 .. Banner
         /\ v.role \in Role /\ v.synced \in BOOLEAN /\ v.ours \in BOOLEAN /\ v.pi \in BOOLEAN
         /\ v.sched.at \in Clock /\ v.sched.seq \in 0 .. MaxSeq
         /\ v.sched.active \in BOOLEAN /\ v.sched.ours \in BOOLEAN
         /\ v.sync.left \in 0 .. Samples /\ v.sync.trip \in 0 .. NoTrip
         /\ v.sync.offset \in Clock /\ v.sync.ours \in BOOLEAN
<1>1. v.sched \in Schedule /\ v.sync \in Sync
  BY SMT DEF NodeState
<1> QED
  BY <1>1, SMT DEF NodeState, Schedule, Sync

\* A step of a node that keeps its offset, its estimate and, if it serves, its role.
LEMMA KeepsOffset ==
  ASSUME IInv, NEW n \in Node, NEW x \in NodeState,
         x.role = "server" => node[n].role = "server" /\ x.sync.left = node[n].sync.left,
         x.offset = node[n].offset, x.ours = node[n].ours,
         x.sync.offset = node[n].sync.offset, x.sync.ours = node[n].sync.ours,
         x.role = "server" /\ waiting' => x.seq < MaxSeq,
         x.role = "server" /\ x.sched.active /\ x.sched.ours =>
            /\ x.grace = 0 /\ x.busy = 0 /\ x.seq > 0
            /\ Signed(ServerNow(clock[n], x.offset) - x.sched.at) \in -Lead .. Length
  PROVE  Harmless(n, x)
BY DEF IInv, OneServer, Servers, Harmless

LEMMA RetireStep ==
  ASSUME IInv, NEW n \in Node, Retire(n)
  PROVE  Nodes'
<1> DEFINE x == [node[n] EXCEPT !.sched = NoSchedule]
<1>1. node[n] \in NodeState
  BY DEF IInv, TypeOK
<1>2. /\ x \in NodeState /\ x.role = node[n].role /\ x.sync = node[n].sync
      /\ x.offset = node[n].offset /\ x.ours = node[n].ours /\ x.seq = node[n].seq
      /\ x.sched = NoSchedule
  BY <1>1, Empty, Zenon DEF NodeState
<1>3. ~NoSchedule.active
  BY SMT DEF NoSchedule
<1>4. node' = [node EXCEPT ![n] = x] /\ clock' = clock /\ waiting' = waiting
  BY DEF Retire
<1> HIDE DEF x
<1>5. Harmless(n, x)
  BY <1>2, <1>3, <1>4, KeepsOffset DEF IInv, OneServer, Servers
<1> QED
  BY <1>4, <1>5, OneNode

LEMMA PublishStep ==
  ASSUME IInv, NEW s \in Node, Publish(s)
  PROVE  Nodes'
<1> DEFINE seq == node[s].seq + 1
           at  == Wrap(clock[s] + Lead)
           sched == [active |-> TRUE, seq |-> seq, at |-> at, ours |-> TRUE]
           x == [node[s] EXCEPT !.seq = seq, !.sched = sched]
<1>1. node[s] \in NodeState /\ clock[s] \in Clock
  BY DEF IInv, TypeOK
<1>2. /\ node[s].role = "server" /\ node[s].grace = 0 /\ node[s].busy = 0
      /\ s \in Servers /\ node[s].seq < MaxSeq /\ node[s].offset = 0
  BY DEF Publish, Publishable, Servers, IInv, OneServer
<1>3. seq \in 0 .. MaxSeq /\ seq > 0
  BY <1>1, <1>2, Atoms, Numbers, SMT
<1>4. at \in Clock
  BY <1>1, Numbers, Quotient, SMT DEF Clock
<1>5. Signed(ServerNow(clock[s], 0) - at) = -Lead
  <2>1. ServerNow(clock[s], 0) = clock[s]
    BY <1>1, Word, SMT DEF ServerNow, Wrap, Clock
  <2>2. clock[s] \in Int /\ Lead \in Nat /\ clock[s] - (clock[s] + Lead) = -Lead
    BY <1>1, Numbers, SMT DEF Clock
  <2>3. -Lead \in Int /\ -Half <= -Lead /\ -Lead < Half
    BY Numbers, Word, SMT
  <2>4. Signed(-Lead) = -Lead
    BY <2>3, SignedSmall
  <2>5. Signed(clock[s] - Wrap(clock[s] + Lead)) = Signed(clock[s] - (clock[s] + Lead))
    <3>1. clock[s] + Lead \in Int
      BY <2>2, SMT
    <3> QED
      BY <2>2, <3>1, SignedOfWrapped
  <2> QED
    BY <2>1, <2>2, <2>4, <2>5
<1>6. node' = [node EXCEPT ![s] = x] /\ clock' = clock /\ ~waiting'
  BY DEF Publish
<1> HIDE DEF seq, at
<1>7. /\ sched \in Schedule /\ sched.at = at
  BY <1>3, <1>4, SMT DEF Schedule
<1> HIDE DEF sched
<1>8. /\ x \in NodeState /\ x.role = node[s].role /\ x.sync = node[s].sync
      /\ x.offset = node[s].offset /\ x.ours = node[s].ours /\ x.seq = seq
      /\ x.grace = node[s].grace /\ x.busy = node[s].busy /\ x.sched = sched
  BY <1>1, <1>3, <1>7, Zenon DEF NodeState
<1> HIDE DEF x
<1>9. -Lead \in -Lead .. Length
  BY Numbers, SMT
<1>10. Harmless(s, x)
  BY <1>2, <1>3, <1>5, <1>6, <1>7, <1>8, <1>9, KeepsOffset
<1> QED
  BY <1>6, <1>10, OneNode

LEMMA ReceiveStep ==
  ASSUME IInv, NEW p \in air, Receive(p)
  PROVE  Nodes'
<1> DEFINE n == p.to
           sched == [active |-> TRUE, seq |-> p.seq, at |-> p.at, ours |-> p.ours]
           x == [node[n] EXCEPT !.sched = sched]
<1>1. p \in Play
  BY DEF IInv, TypeOK
<1>2. n \in Node /\ sched \in Schedule
  BY <1>1, SMT DEF Play, Schedule
<1>3. node \in [Node -> NodeState] /\ node[n] \in NodeState /\ node[n].role = "client"
  BY <1>2 DEF IInv, TypeOK, Receive
<1>4. \/ node' = node
      \/ node' = [node EXCEPT ![n] = x]
  BY DEF Receive
<1>5. clock' = clock /\ waiting' = waiting
  BY DEF Receive
<1> HIDE DEF n, sched
<1>6. /\ x \in NodeState /\ x.role = node[n].role /\ x.sync = node[n].sync
      /\ x.offset = node[n].offset /\ x.ours = node[n].ours
  BY <1>2, <1>3, Zenon DEF NodeState
<1> HIDE DEF x
<1>7. Harmless(n, x) /\ Harmless(n, node[n])
  BY <1>2, <1>3, <1>6, KeepsOffset
<1>8. node = [node EXCEPT ![n] = node[n]]
  BY <1>2, <1>3
<1> QED
  BY <1>2, <1>4, <1>5, <1>7, <1>8, OneNode
LEMMA SyncStartStep ==
  ASSUME IInv, NEW c \in Node, SyncStart(c)
  PROVE  Nodes'
<1> DEFINE sync == [node[c].sync EXCEPT !.left = Samples]
           x == [node[c] EXCEPT !.sync = sync]
<1>1. node[c] \in NodeState /\ node[c].role = "client"
  BY DEF IInv, TypeOK, SyncStart
<1>2. /\ sync \in Sync /\ sync.offset = node[c].sync.offset
      /\ sync.ours = node[c].sync.ours
  BY <1>1, Atoms, Zeroes, Zenon DEF Sync
<1>3. node' = [node EXCEPT ![c] = x] /\ clock' = clock /\ waiting' = waiting
  BY DEF SyncStart
<1> HIDE DEF sync
<1>4. /\ x \in NodeState /\ x.role = node[c].role /\ x.sync = sync
      /\ x.offset = node[c].offset /\ x.ours = node[c].ours
  BY <1>1, <1>2, Zenon DEF NodeState
<1> HIDE DEF x
<1>5. Harmless(c, x)
  BY <1>1, <1>2, <1>4, KeepsOffset
<1> QED
  BY <1>3, <1>5, OneNode

\* The result of a sample: the state's own estimate, or that of the samples y.
LEMMA SampledType ==
  ASSUME NEW v \in NodeState, NEW y \in Sync, y.left > 0
  PROVE  /\ Sampled(v, y) \in NodeState
         /\ Sampled(v, y).role = v.role
         /\ Sampled(v, y).ours => \/ v.ours /\ Sampled(v, y).offset = v.offset
                                  \/ y.ours /\ Sampled(v, y).offset = y.offset
         /\ Sampled(v, y).sync.ours => y.ours /\ Sampled(v, y).sync.offset = y.offset
<1> DEFINE less == y.left - 1
           next == [y EXCEPT !.left = less]
<1>1. /\ y.left \in 0 .. Samples /\ y.offset \in Clock /\ y.ours \in BOOLEAN
  BY SMT DEF Sync
<1>2. less \in 0 .. Samples
  BY <1>1, Numbers, SMT
<1> HIDE DEF less
<1>3. next \in Sync /\ next.ours = y.ours /\ next.offset = y.offset
  BY <1>2, Zenon DEF Sync
<1>4. ~NoSync.ours
  BY SMT DEF NoSync
<1>5. CASE y.left > 1
  <2>1. Sampled(v, y) = [v EXCEPT !.sync = next]
    BY <1>5 DEF Sampled, less
  <2> HIDE DEF next
  <2> QED
    BY <1>3, <2>1, Zenon DEF NodeState
<1>6. CASE ~(y.left > 1) /\ y.trip = NoTrip
  <2>1. Sampled(v, y) = [v EXCEPT !.sync = NoSync]
    BY <1>6 DEF Sampled
  <2>2. ASSUME NEW x, x = [v EXCEPT !.sync = NoSync]
        PROVE  /\ x \in NodeState /\ x.role = v.role /\ x.ours = v.ours
               /\ x.offset = v.offset /\ x.sync = NoSync
    BY <2>2, Empty, Zenon DEF NodeState
  <2> QED
    BY <1>4, <2>1, <2>2, Zenon
<1>7. CASE ~(y.left > 1) /\ y.trip # NoTrip
  <2>1. Sampled(v, y) = [v EXCEPT !.offset = y.offset, !.synced = TRUE, !.ours = y.ours,
                                  !.sync = NoSync]
    BY <1>7 DEF Sampled
  <2>2. ASSUME NEW x, x = [v EXCEPT !.offset = y.offset, !.synced = TRUE, !.ours = y.ours,
                                    !.sync = NoSync]
        PROVE  /\ x \in NodeState /\ x.role = v.role /\ x.ours = y.ours
               /\ x.offset = y.offset /\ x.sync = NoSync
    BY <1>1, <2>2, Empty, Zenon DEF NodeState
  <2> QED
    BY <1>4, <2>1, <2>2, Zenon
<1> QED
  BY <1>5, <1>6, <1>7

LEMMA SampledSchedule ==
  ASSUME NEW v \in NodeState, NEW y
  PROVE  Sampled(v, y).sched = v.sched
<1>1. \A next : [v EXCEPT !.sync = next].sched = v.sched
  BY Zenon DEF NodeState
<1>2. \A x : x = [v EXCEPT !.offset = y.offset, !.synced = TRUE, !.ours = y.ours, !.sync = NoSync]
               => x.sched = v.sched
  BY Zenon DEF NodeState
<1> QED
  BY <1>1, <1>2, Zenon DEF Sampled

\* A sample of an exchange with the server is near.
LEMMA ExchangeNear ==
  ASSUME IInv, NEW s \in Servers, NEW c \in Node, NEW trip \in 0 .. MaxTrip,
         NEW back \in 0 .. trip
  PROVE  LET offset == Estimate(Wrap(clock[s] - back), Wrap(clock[c] - trip), clock[c])
         IN  offset \in Clock /\ Near(c, s, offset)
<1> DEFINE a == clock[c]
           b == clock[s]
           offset == Estimate(Wrap(b - back), Wrap(a - trip), a)
           error == trip \div 2 - back
<1>1. /\ trip \in Nat /\ back \in Nat /\ back <= trip /\ trip <= MaxTrip /\ trip < Half
      /\ MaxTrip \in Nat
  BY Numbers, Word, SMT
<1>2. a \in Clock /\ b \in Clock /\ node[s].offset = 0
  BY DEF IInv, TypeOK, OneServer, Servers
<1>3. a \in Int /\ b \in Int /\ Wrap(a) = a /\ Wrap(b) = b
  <2>1. \A k \in Clock : k \in Int /\ Wrap(k) = k
    BY Word, SMT DEF Wrap, Clock
  <2> QED
    BY <1>2, <2>1
<1>4. error \in -MaxBehind .. MaxAhead
  BY <1>1, SMT DEF MaxBehind, MaxAhead
<1>5. Now(s) = b
  BY <1>2, <1>3, SMT DEF Now, ServerNow
<1> HIDE DEF a, b
<1>6. Signed(ServerNow(a, offset) - b) = error
  <2> DEFINE heard == 0
             asked == heard - trip
             answered == heard - back
             sample == Estimate(Wrap(answered + b), Wrap(asked + a), Wrap(heard + a))
  <2>1. /\ heard \in Int /\ asked \in Int /\ answered \in Int
        /\ asked <= answered /\ answered <= heard /\ heard - asked < Half
    BY <1>1, SMT
  <2>2. /\ heard - asked = trip /\ heard - answered = back
        /\ asked + a = a - trip /\ answered + b = b - back /\ heard + a = a /\ heard + b = b
    BY <1>1, <1>3, SMT
  <2> HIDE DEF heard, asked, answered
  <2>3. Signed(ServerNow(Wrap(heard + a), sample) - Wrap(heard + b))
          = (heard - asked) \div 2 - (heard - answered)
    BY <1>3, <2>1, SyncError
  <2> QED
    BY <1>3, <2>2, <2>3
<1>7. offset \in Clock
  <2>1. Wrap(b - back) + Age(a, Wrap(a - trip)) \div 2 - a \in Int
    <3>1. /\ Wrap(b - back) \in Int /\ Wrap(a - trip) \in Int
      BY <1>1, <1>3, Quotient, SMT DEF Clock
    <3>2. Age(a, Wrap(a - trip)) \in Int
      BY <1>3, <3>1, Quotient, SMT DEF Age, Clock
    <3> QED
      BY <1>3, <3>1, <3>2, SMT
  <2> QED
    BY <2>1, Quotient DEF Estimate
<1> HIDE DEF offset, error
<1>8. Signed(ServerNow(clock[c], offset) - Now(s)) = error
  BY <1>5, <1>6 DEF a
<1>9. Near(c, s, offset)
  BY <1>4, <1>8 DEF Near
<1> QED
  BY <1>7, <1>9 DEF offset, a, b

LEMMA SampleStep ==
  ASSUME IInv, NEW c \in Node, Sample(c)
  PROVE  Nodes'
<1>1. node[c] \in NodeState /\ node[c].role = "client" /\ node[c].sync.left > 0
  BY DEF IInv, TypeOK, Sample
<1>2. PICK s \in Servers, trip \in 0 .. MaxTrip : \E back \in 0 .. trip :
        node' = [node EXCEPT ![c] = Sampled(@, Keep(@.sync, trip,
                   Estimate(Wrap(clock[s] - back), Wrap(clock[c] - trip), clock[c])))]
  BY DEF Sample
<1>3. PICK back \in 0 .. trip :
        node' = [node EXCEPT ![c] = Sampled(@, Keep(@.sync, trip,
                   Estimate(Wrap(clock[s] - back), Wrap(clock[c] - trip), clock[c])))]
  BY <1>2
<1> DEFINE offset == Estimate(Wrap(clock[s] - back), Wrap(clock[c] - trip), clock[c])
           y == Keep(node[c].sync, trip, offset)
           x == Sampled(node[c], y)
<1>4. offset \in Clock /\ Near(c, s, offset)
  BY ExchangeNear
<1>5. /\ node' = [node EXCEPT ![c] = x] /\ clock' = clock /\ waiting' = waiting
  BY <1>3 DEF Sample
<1> HIDE DEF offset
<1>6. /\ y \in Sync /\ y.left = node[c].sync.left
      /\ y.ours => \/ y.offset = offset
                   \/ node[c].sync.ours /\ y.offset = node[c].sync.offset
  <2>1. node[c].sync \in Sync /\ trip \in 0 .. NoTrip
    BY <1>1, Atoms, Numbers, SMT DEF NoTrip
  <2>2. CASE trip < node[c].sync.trip
    <3>1. y = [node[c].sync EXCEPT !.trip = trip, !.offset = offset, !.ours = TRUE]
      BY <2>2 DEF Keep
    <3> HIDE DEF y
    <3> QED
      BY <1>4, <2>1, <3>1, Zenon DEF Sync
  <2>3. CASE ~(trip < node[c].sync.trip)
    BY <2>1, <2>3 DEF Keep
  <2> QED
    BY <2>2, <2>3
<1> HIDE DEF y
<1>7. /\ x \in NodeState /\ x.role = node[c].role
      /\ x.ours => \/ node[c].ours /\ x.offset = node[c].offset
                   \/ y.ours /\ x.offset = y.offset
      /\ x.sync.ours => y.ours /\ x.sync.offset = y.offset
  BY <1>1, <1>6, SampledType
<1> HIDE DEF x
<1>8. \A t \in Servers : t = s
  BY DEF IInv, OneServer
<1>9. y.ours => \A t \in Servers : Near(c, t, y.offset)
  BY <1>4, <1>6, <1>8 DEF IInv, OffsetsNear
<1>10. Harmless(c, x)
  BY <1>1, <1>7, <1>9 DEF Harmless
<1> QED
  BY <1>5, <1>10, OneNode

LEMMA SampleFailsStep ==
  ASSUME IInv, NEW c \in Node, SampleFails(c)
  PROVE  Nodes'
<1> DEFINE x == Sampled(node[c], node[c].sync)
<1>1. node[c] \in NodeState /\ node[c].sync.left > 0 /\ node[c].sync \in Sync
  BY Atoms DEF IInv, TypeOK, SampleFails
<1>2. node[c].role # "server"
  BY <1>1, SMT DEF IInv, OneServer, Servers
<1>3. /\ node' = [node EXCEPT ![c] = x] /\ clock' = clock /\ waiting' = waiting
  BY DEF SampleFails
<1>4. /\ x \in NodeState /\ x.role = node[c].role
      /\ x.ours => \/ node[c].ours /\ x.offset = node[c].offset
                   \/ node[c].sync.ours /\ x.offset = node[c].sync.offset
      /\ x.sync.ours => node[c].sync.ours /\ x.sync.offset = node[c].sync.offset
  BY <1>1, SampledType
<1> HIDE DEF x
<1>5. Harmless(c, x)
  BY <1>2, <1>4 DEF Harmless, IInv, OffsetsNear
<1> QED
  BY <1>3, <1>5, OneNode

LEMMA JoinStep ==
  ASSUME IInv, NEW c \in Node, Join(c)
  PROVE  Nodes'
<1> DEFINE sync == [node[c].sync EXCEPT !.left = Samples]
           x == [node[c] EXCEPT !.role = "client", !.busy = Banner, !.sync = sync]
<1>1. node[c] \in NodeState /\ "client" \in Role
  BY DEF IInv, TypeOK, Role
<1>2. /\ sync \in Sync /\ sync.offset = node[c].sync.offset
      /\ sync.ours = node[c].sync.ours
  BY <1>1, Atoms, Zeroes, Zenon DEF Sync
<1>3. node' = [node EXCEPT ![c] = x] /\ clock' = clock /\ waiting' = waiting
  BY DEF Join
<1> HIDE DEF sync
<1>4. /\ x \in NodeState /\ x.role = "client" /\ x.sync = sync
      /\ x.offset = node[c].offset /\ x.ours = node[c].ours
  BY <1>1, <1>2, Zeroes, Zenon DEF NodeState
<1> HIDE DEF x
<1>5. Harmless(c, x)
  BY <1>2, <1>4, KeepsOffset
<1> QED
  BY <1>3, <1>5, OneNode

LEMMA LeaveStep ==
  ASSUME IInv, NEW c \in Node, Leave(c)
  PROVE  Nodes'
<1> DEFINE x == [node[c] EXCEPT !.role = "away", !.busy = 0]
<1>1. node[c] \in NodeState /\ "away" \in Role
  BY DEF IInv, TypeOK, Role
<1>2. node' = [node EXCEPT ![c] = x] /\ clock' = clock /\ waiting' = waiting
  BY DEF Leave
<1>3. /\ x \in NodeState /\ x.role = "away" /\ x.sync = node[c].sync
      /\ x.offset = node[c].offset /\ x.ours = node[c].ours
  BY <1>1, Zeroes, Zenon DEF NodeState
<1> HIDE DEF x
<1>4. Harmless(c, x)
  BY <1>3, KeepsOffset
<1> QED
  BY <1>2, <1>4, OneNode

LEMMA AbdicateStep ==
  ASSUME IInv, NEW s \in Node, Abdicate(s)
  PROVE  Nodes'
<1> DEFINE x == [node[s] EXCEPT !.role = "away", !.grace = 0, !.busy = 0]
<1>1. node[s] \in NodeState /\ "away" \in Role
  BY DEF IInv, TypeOK, Role
<1>2. node' = [node EXCEPT ![s] = x] /\ clock' = clock /\ ~waiting'
  BY DEF Abdicate
<1>3. /\ x \in NodeState /\ x.role = "away" /\ x.sync = node[s].sync
      /\ x.offset = node[s].offset /\ x.ours = node[s].ours
  BY <1>1, Zeroes, Zenon DEF NodeState
<1> HIDE DEF x
<1>4. Harmless(s, x)
  BY <1>3, KeepsOffset
<1> QED
  BY <1>2, <1>4, OneNode

\* A node that has just started, or lost power, has nothing of the present server's.
LEMMA FreshFields ==
  ASSUME NEW pi \in BOOLEAN
  PROVE  /\ ~Booted.ours /\ ~Booted.sync.ours /\ Booted.role = "away" /\ Booted.sync.left = 0
         /\ Unpowered(pi).role = "off" /\ ~Unpowered(pi).ours /\ ~Unpowered(pi).sync.ours
         /\ [Booted EXCEPT !.pi = pi].sync.left = 0
<1>1. /\ ~Booted.ours /\ ~Booted.sync.ours /\ Booted.role = "away" /\ Booted.sync.left = 0
  BY SMT DEF Booted, NoSync
<1>2. Booted \in NodeState
  BY BootedType
<1> QED
  BY <1>1, <1>2, Zenon DEF Unpowered, NodeState

LEMMA FailStep ==
  ASSUME IInv, NEW s \in Node, Fail(s)
  PROVE  Nodes'
<1> DEFINE x == Unpowered(node[s].pi)
<1>1. node[s].pi \in BOOLEAN
  BY Atoms DEF IInv, TypeOK
<1>2. node' = [node EXCEPT ![s] = x] /\ clock' = clock /\ ~waiting'
  BY DEF Fail
<1>3. x \in NodeState /\ x.role = "off" /\ ~x.ours /\ ~x.sync.ours
  BY <1>1, BootedType, FreshFields
<1> HIDE DEF x
<1>4. Harmless(s, x)
  BY <1>3 DEF Harmless
<1> QED
  BY <1>2, <1>4, OneNode

LEMMA PromoteStep ==
  ASSUME IInv, NEW n \in Node, Promote(n)
  PROVE  Nodes'
<1> DEFINE v == [node[n] EXCEPT !.grace = Grace, !.busy = Banner]
<1>1. node[n] \in NodeState /\ clock' \in [Node -> Clock] /\ node[n].sync.left = 0
  BY DEF IInv, TypeOK, Promote
<1>2. v \in NodeState /\ v.sync = node[n].sync
  BY <1>1, Zeroes, Zenon DEF NodeState
<1>3. Reigns(n, v) /\ Servers = {}
  BY DEF Promote
<1> HIDE DEF v
<1> QED
  BY <1>1, <1>2, <1>3, NewReign

LEMMA ClockStarts ==
  ASSUME IInv, NEW n \in Node, Starts(n)
  PROVE  clock' \in [Node -> Clock] /\ \A m \in Node : m # n => clock'[m] = clock[m]
BY TakeoverAssumption DEF IInv, TypeOK, Starts

LEMMA StartStep ==
  ASSUME IInv, NEW s \in Node, Start(s)
  PROVE  Nodes'
<1> DEFINE v == [Booted EXCEPT !.pi = TRUE]
<1>1. v \in NodeState /\ v.sync.left = 0
  BY BootedType, FreshFields
<1>2. Reigns(s, v) /\ \A n \in Servers : n = s
  BY DEF Start, Servers, IInv, OneServer
<1>3. clock' \in [Node -> Clock]
  BY ClockStarts DEF Start
<1> HIDE DEF v
<1> QED
  BY <1>1, <1>2, <1>3, NewReign

LEMMA BootStep ==
  ASSUME IInv, NEW n \in Node, Boot(n)
  PROVE  Nodes'
<1>1. /\ node \in [Node -> NodeState] /\ node' = [node EXCEPT ![n] = Booted]
      /\ waiting' = waiting /\ node[n].role = "off"
  BY DEF IInv, TypeOK, Boot
<1>2. \A m \in Node : m # n => node'[m] = node[m] /\ clock'[m] = clock[m]
  BY <1>1, ClockStarts DEF Boot
<1>3. /\ node'[n] = Booted /\ node' \in [Node -> NodeState]
      /\ Booted.role = "away" /\ ~Booted.ours /\ ~Booted.sync.ours
  BY <1>1, BootedType, FreshFields
<1>4. Servers' = Servers /\ n \notin Servers
  BY <1>1, <1>2, <1>3 DEF Servers
<1>5. \A s \in Servers : node'[s] = node[s] /\ clock'[s] = clock[s] /\ s \in Node
  BY <1>2, <1>4 DEF Servers
<1>6. OneServer'
  BY <1>1, <1>4, <1>5 DEF IInv, OneServer
<1>7. ASSUME NEW s \in Servers, NEW c \in Node
      PROVE  (/\ node[c].ours => Near(c, s, node[c].offset)
              /\ node[c].sync.ours => Near(c, s, node[c].sync.offset))'
  <2>1. CASE c = n
    BY <1>3, <2>1
  <2>2. CASE c # n
    BY <1>2, <1>5, <2>2 DEF IInv, OffsetsNear, Near, Now
  <2> QED
    BY <2>1, <2>2
<1>8. OffsetsNear'
  BY <1>4, <1>7 DEF OffsetsNear
<1>9. OwnPlanned'
  BY <1>4, <1>5 DEF IInv, OwnPlanned, Elapsed, Now
<1> QED
  BY <1>3, <1>6, <1>8, <1>9 DEF Nodes

LEMMA TickNode ==
  ASSUME IInv, Tick, NEW n \in Node
  PROVE  /\ node'[n] \in NodeState /\ node'[n].role = node[n].role
         /\ node'[n].offset = node[n].offset /\ node'[n].ours = node[n].ours
         /\ node'[n].sync = node[n].sync /\ node'[n].seq = node[n].seq
         /\ node'[n].grace = Sooner(node[n].grace) /\ node'[n].busy = Sooner(node[n].busy)
         /\ node'[n].sched.active = node[n].sched.active
         /\ node'[n].sched.ours = node[n].sched.ours
         /\ Ages(n) => node'[n].sched.at = Wrap(node[n].sched.at - 1)
<1> DEFINE at == Wrap(node[n].sched.at - 1)
           grace == Sooner(node[n].grace)
           busy == Sooner(node[n].busy)
           closer == [node[n].sched EXCEPT !.at = at]
           sched == IF Ages(n) THEN closer ELSE node[n].sched
           x == [node[n] EXCEPT !.grace = grace, !.busy = busy, !.sched = sched]
<1>1. node[n] \in NodeState /\ node[n].sched \in Schedule
  BY Atoms DEF IInv, TypeOK
<1>2. at \in Clock
  BY <1>1, Atoms, Quotient, SMT DEF Clock
<1>3. grace \in 0 .. Grace /\ busy \in 0 .. Banner
  BY <1>1, Atoms, Numbers, SMT DEF Sooner
<1>4. node'[n] = x
  BY Zenon DEF Tick, Closer
<1> HIDE DEF at, grace, busy
<1>5. /\ closer \in Schedule /\ closer.active = node[n].sched.active
      /\ closer.ours = node[n].sched.ours /\ closer.at = at
  BY <1>1, <1>2, Zenon DEF Schedule
<1> HIDE DEF closer
<1>6. /\ sched \in Schedule /\ sched.active = node[n].sched.active
      /\ sched.ours = node[n].sched.ours /\ (Ages(n) => sched.at = at)
  BY <1>1, <1>5
<1> HIDE DEF sched
<1>7. /\ x \in NodeState /\ x.role = node[n].role /\ x.offset = node[n].offset
      /\ x.ours = node[n].ours /\ x.sync = node[n].sync /\ x.seq = node[n].seq
      /\ x.grace = grace /\ x.busy = busy /\ x.sched = sched
  BY <1>1, <1>3, <1>6, Zenon DEF NodeState
<1> HIDE DEF x
<1> QED
  BY <1>4, <1>6, <1>7 DEF at, grace, busy

\* A server that renders its own schedule has not reached its end before a tick.
LEMMA TickElapsed ==
  ASSUME IInv, Tick, NEW s \in Servers, node[s].sched.active, node[s].sched.ours
  PROVE  Elapsed(s)' \in -Lead .. Length
<1>1. s \in Node /\ node[s].role = "server" /\ node[s] \in NodeState
  BY DEF Servers, IInv, TypeOK
<1>2. node[s].grace = 0 /\ node[s].busy = 0 /\ Elapsed(s) \in -Lead .. Length
  BY DEF IInv, OwnPlanned
<1>3. ~Retirable(s)
  BY <1>1 DEF Tick, Urgent
<1>4. ~(Elapsed(s) >= Length)
  BY <1>1, <1>2, <1>3 DEF Retirable, Renders, Over
<1>5. Elapsed(s) < Half - 1 /\ Elapsed(s) + 1 \in -Lead .. Length
  BY <1>2, <1>4, Numbers, Word, SMT
<1>6. Ages(s)
  BY <1>5 DEF Ages
<1> DEFINE at == node[s].sched.at
           now == Now(s)
<1>7. node'[s].sched.at = Wrap(at - 1) /\ node'[s].offset = node[s].offset /\ clock' = clock
  BY <1>1, <1>6, TickNode DEF Tick
<1>8. Elapsed(s)' = Signed(now - Wrap(at - 1))
  BY <1>7 DEF Elapsed, Now
<1>9. at \in Int /\ now \in Int
  <2>1. clock[s] \in Int /\ node[s].offset \in Int /\ at \in Int
    BY <1>1, Atoms, SMT DEF IInv, TypeOK, Clock
  <2> HIDE DEF at
  <2> QED
    BY <2>1, Quotient, SMT DEF Now, ServerNow, Clock
<1>10. Elapsed(s) = Signed(now - at)
  BY DEF Elapsed
<1> HIDE DEF at, now
<1>11. now - (at - 1) = (now - at) + 1 /\ now - at \in Int /\ at - 1 \in Int
  BY <1>9, SMT
<1>12. Signed(now - Wrap(at - 1)) = Signed((now - at) + 1)
  BY <1>9, <1>11, SignedOfWrapped
<1>13. Signed((now - at) + 1) = Elapsed(s) + 1
  BY <1>5, <1>10, <1>11, SignedNext
<1> QED
  BY <1>5, <1>8, <1>12, <1>13

LEMMA TickStep ==
  ASSUME IInv, Tick
  PROVE  Nodes'
<1>1. node' \in [Node -> NodeState]
  <2>1. \A n \in Node : node'[n] \in NodeState
    BY TickNode
  <2> QED
    BY <2>1, Zenon DEF Tick
<1>2. clock' = clock /\ waiting' = waiting
  BY DEF Tick
<1>3. Servers' = Servers
  BY TickNode DEF Servers
<1>4. \A s \in Servers : s \in Node
  BY DEF Servers
<1>5. OneServer'
  BY <1>2, <1>3, <1>4, TickNode DEF IInv, OneServer
<1>6. ASSUME NEW s \in Servers, NEW c \in Node
      PROVE  (/\ node[c].ours => Near(c, s, node[c].offset)
              /\ node[c].sync.ours => Near(c, s, node[c].sync.offset))'
  <2>1. /\ node'[c].ours = node[c].ours /\ node'[c].offset = node[c].offset
        /\ node'[c].sync = node[c].sync /\ node'[s].offset = node[s].offset
    BY <1>4, TickNode
  <2> QED
    BY <1>2, <2>1 DEF IInv, OffsetsNear, Near, Now
<1>7. OffsetsNear'
  BY <1>3, <1>6 DEF OffsetsNear
<1>8. ASSUME NEW s \in Servers, node'[s].sched.active, node'[s].sched.ours
      PROVE  /\ node'[s].grace = 0 /\ node'[s].busy = 0 /\ node'[s].seq > 0
             /\ Elapsed(s)' \in -Lead .. Length
  <2>1. /\ node[s].sched.active /\ node[s].sched.ours
        /\ node'[s].grace = Sooner(node[s].grace) /\ node'[s].busy = Sooner(node[s].busy)
        /\ node'[s].seq = node[s].seq
    BY <1>4, <1>8, TickNode
  <2>2. node[s].grace = 0 /\ node[s].busy = 0 /\ node[s].seq > 0
    BY <2>1 DEF IInv, OwnPlanned
  <2>3. Sooner(0) = 0
    BY SMT DEF Sooner
  <2> QED
    BY <2>1, <2>2, <2>3, TickElapsed
<1>9. OwnPlanned'
  BY <1>3, <1>8 DEF OwnPlanned
<1> QED
  BY <1>1, <1>5, <1>7, <1>9 DEF Nodes

LEMMA NodesStep ==
  ASSUME IInv, [Next]_vars
  PROVE  Nodes'
<1>1. CASE Tick
  BY <1>1, TickStep
<1>2. CASE node' = node /\ clock' = clock /\ waiting' = waiting
  BY <1>2 DEF Nodes, IInv, TypeOK, OneServer, OffsetsNear, OwnPlanned, Servers, Near, Now, Elapsed
<1>3. CASE Send
  <2>1. PICK s \in Servers : node[s].seq < MaxSeq
    BY <1>3 DEF Send
  <2>2. s \in Node /\ node \in [Node -> NodeState] /\ node' = node /\ clock' = clock
    BY <1>3 DEF Servers, IInv, TypeOK, Send
  <2>3. \A t \in Servers : t = s
    BY DEF IInv, OneServer
  <2>4. OneServer'
    BY <2>1, <2>2, <2>3 DEF IInv, OneServer, Servers
  <2> QED
    BY <2>2, <2>4 DEF Nodes, IInv, OffsetsNear, OwnPlanned, Servers, Near, Now, Elapsed
<1>4. CASE Deliver
  <2>1. PICK p \in air : Receive(p) \/ Lose(p)
    BY <1>4 DEF Deliver
  <2> QED
    BY <1>2, <2>1, ReceiveStep DEF Lose
<1>5. ASSUME NEW n \in Node, NodeStep(n) PROVE Nodes'
  BY <1>5, RetireStep, PublishStep DEF NodeStep
<1>6. ASSUME NEW n \in Node, SyncStart(n) \/ SyncStep(n) PROVE Nodes'
  BY <1>6, SyncStartStep, SampleStep, SampleFailsStep DEF SyncStep
<1>7. ASSUME NEW n \in Node, RoleStep(n) PROVE Nodes'
  BY <1>7, JoinStep, LeaveStep, PromoteStep DEF RoleStep
<1>8. ASSUME NEW n \in Node, Abdicate(n) \/ Fail(n) \/ Boot(n) \/ Start(n) PROVE Nodes'
  BY <1>8, AbdicateStep, FailStep, BootStep, StartStep
<1>9. CASE UNCHANGED vars
  BY <1>2, <1>9 DEF vars
<1> QED
  BY <1>1, <1>3, <1>4, <1>5, <1>6, <1>7, <1>8, <1>9 DEF Next
-------------------------------------------------------------------------------
(* The requests under way and the bounds. *)

LEMMA AirTick ==
  ASSUME IInv, Tick
  PROVE  air' \subseteq Play
<1>1. ASSUME NEW p \in air
      PROVE  [Closer(p) EXCEPT !.left = @ - 1] \in Play
  <2> DEFINE at == Wrap(p.at - 1)
             left == p.left - 1
  <2>1. p \in Play /\ p.at \in Int /\ p.left \in 0 .. MaxDelay
    BY SMT DEF IInv, TypeOK, Play, Clock
  <2>2. p.left # 0
    BY Zenon DEF Tick, Urgent
  <2>3. at \in Clock /\ left \in 0 .. MaxDelay
    BY <2>1, <2>2, Numbers, Quotient, SMT
  <2> HIDE DEF at, left
  <2>4. ASSUME NEW q, q = [p EXCEPT !.at = at]
        PROVE  q \in Play /\ q.left = p.left
    BY <2>1, <2>3, <2>4, Zenon DEF Play
  <2>5. Closer(p) = [p EXCEPT !.at = at]
    BY Zenon DEF Closer, at
  <2>6. Closer(p) \in Play /\ Closer(p).left = p.left
    BY <2>4, <2>5
  <2>7. [Closer(p) EXCEPT !.left = left] \in Play
    BY <2>3, <2>6, Zenon DEF Play
  <2>8. [Closer(p) EXCEPT !.left = @ - 1] = [Closer(p) EXCEPT !.left = left]
    BY <2>6, Zenon DEF left
  <2> QED
    BY <2>7, <2>8
<1> QED
  BY <1>1, Zenon DEF Tick

LEMMA AirReign ==
  ASSUME IInv
  PROVE  {[p EXCEPT !.ours = FALSE] : p \in air} \subseteq Play
<1>1. ASSUME NEW p \in air
      PROVE  [p EXCEPT !.ours = FALSE] \in Play
  <2>1. p \in Play
    BY DEF IInv, TypeOK
  <2> QED
    BY <2>1, Zenon DEF Play
<1> QED
  BY <1>1, Zenon

LEMMA AirStep ==
  ASSUME IInv, [Next]_vars
  PROVE  air' \subseteq Play
<1> USE DEF IInv, TypeOK
<1>1. CASE Tick
  BY <1>1, AirTick
<1>2. CASE Deliver
  BY <1>2, Zenon DEF Deliver, Receive, Lose
<1>3. ASSUME NEW s \in Node, Publish(s) PROVE air' \subseteq Play
  <2>1. node[s].role = "server" /\ waiting /\ node[s] \in NodeState
    BY <1>3 DEF Publish, Publishable
  <2>2. node[s].seq < MaxSeq
    BY <2>1 DEF OneServer, Servers
  <2>3. node[s].seq + 1 \in 0 .. MaxSeq
    BY <2>1, <2>2, Atoms, Numbers, SMT
  <2>4. Wrap(clock[s] + Lead) \in Clock
    BY Numbers, Quotient, SMT DEF Clock
  <2>5. air' = air \cup [to : Clients, seq : {node[s].seq + 1}, at : {Wrap(clock[s] + Lead)},
                         ours : {TRUE}, left : {MaxDelay}]
    BY <1>3, Zenon DEF Publish
  <2>6. Clients \subseteq Node
    BY DEF Clients
  <2>7. [to : Clients, seq : {node[s].seq + 1}, at : {Wrap(clock[s] + Lead)},
         ours : {TRUE}, left : {MaxDelay}] \subseteq Play
    BY <2>3, <2>4, <2>6, Zeroes, Zenon DEF Play
  <2> QED
    BY <2>5, <2>7
<1>4. ASSUME NEW n \in Node, Promote(n) \/ Start(n) PROVE air' \subseteq Play
  BY <1>4, AirReign, Zenon DEF Promote, Start, Reigns
<1>5. ASSUME NEW n \in Node, ~Publish(n), ~Promote(n), ~Start(n),
             NodeStep(n) \/ SyncStart(n) \/ SyncStep(n) \/ RoleStep(n)
               \/ Abdicate(n) \/ Fail(n) \/ Boot(n) \/ Start(n)
      PROVE  air' = air
  BY <1>5 DEF NodeStep, SyncStart, SyncStep, RoleStep, Abdicate, Fail, Boot, Retire,
              Sample, SampleFails, Join, Leave
<1>6. CASE Send
  BY <1>6 DEF Send
<1>7. CASE UNCHANGED vars
  BY <1>7 DEF vars
<1> QED
  BY <1>1, <1>2, <1>3, <1>4, <1>5, <1>6, <1>7 DEF Next

LEMMA RestStep ==
  ASSUME IInv, [Next]_vars
  PROVE  clock' \in [Node -> Clock] /\ waiting' \in BOOLEAN /\ faults' \in 0 .. MaxFaults
<1> USE DEF IInv, TypeOK
<1> DEFINE Typed == clock' \in [Node -> Clock] /\ waiting' \in BOOLEAN /\ faults' \in 0 .. MaxFaults
<1>1. faults < MaxFaults => faults + 1 \in 0 .. MaxFaults
  BY Numbers, SMT
<1>2. CASE Tick \/ Send \/ Deliver
  BY <1>2 DEF Tick, Send, Deliver, Receive, Lose
<1>3. ASSUME NEW n \in Node, NodeStep(n) PROVE Typed
  BY <1>3 DEF NodeStep, Retire, Publish
<1>4. ASSUME NEW n \in Node, SyncStart(n) \/ SyncStep(n) PROVE Typed
  BY <1>4 DEF SyncStart, SyncStep, Sample, SampleFails
<1>5. ASSUME NEW n \in Node, RoleStep(n) PROVE Typed
  BY <1>1, <1>5 DEF RoleStep, Join, Leave, Promote, Reigns
<1>6. ASSUME NEW n \in Node, Abdicate(n) \/ Fail(n) PROVE Typed
  BY <1>1, <1>6 DEF Abdicate, Fail
<1>7. ASSUME NEW n \in Node, Boot(n) \/ Start(n) PROVE Typed
  <2>1. clock' \in [Node -> Clock]
    BY <1>7, ClockStarts DEF Boot, Start
  <2> QED
    BY <1>1, <1>7, <2>1 DEF Boot, Start, Reigns
<1>8. CASE UNCHANGED vars
  BY <1>8 DEF vars
<1> QED
  BY <1>2, <1>3, <1>4, <1>5, <1>6, <1>7, <1>8 DEF Next

LEMMA InvStep == IInv /\ [Next]_vars => IInv'
BY NodesStep, AirStep, RestStep DEF IInv, TypeOK, Nodes

LEMMA InvInit == Init => IInv
<1> SUFFICES ASSUME Init PROVE IInv
  OBVIOUS
<1>1. clock \in [Node -> Clock]
  BY TakeoverAssumption DEF Init
<1>2. PICK pis \in SUBSET Pi :
        node = [n \in Node |-> IF n \in pis THEN Unpowered(TRUE) ELSE Booted]
  BY DEF Init
<1>3. \A n \in Node : /\ node[n] \in NodeState /\ node[n].role # "server"
                      /\ ~node[n].ours /\ ~node[n].sync.ours
  <2>1. \A n \in Node : node[n] = Unpowered(TRUE) \/ node[n] = Booted
    BY <1>2
  <2> QED
    BY <2>1, BootedType, FreshFields
<1>4. node \in [Node -> NodeState]
  BY <1>2, <1>3
<1>5. Servers = {}
  BY <1>3 DEF Servers
<1>6. TypeOK
  BY <1>1, <1>4, Zeroes DEF Init, TypeOK
<1> QED
  BY <1>5, <1>6 DEF IInv, OneServer, OffsetsNear, OwnPlanned
-------------------------------------------------------------------------------
(* The theorems. *)

\* The inductive invariant: one server at most, whose own clock is the reference; the
\* offsets and estimates said to be of the present server err by one exchange at most;
\* and a server's own schedule is within its lead and its scroll.
THEOREM InvCorrect == Spec => []IInv
BY InvInit, InvStep, PTL DEF Spec

\* Every state the nodes and the requests reach is well typed, through any sequence of
\* promotions, abdications, power losses, restarts and synchronisations.
THEOREM TypeCorrect == Spec => []TypeOK
<1>1. IInv => TypeOK
  BY DEF IInv
<1> QED
  BY <1>1, InvCorrect, PTL

\* A client that has synchronised with the present server reads its time, but for half
\* of a round trip, whatever either of them was before.
THEOREM ClientsInStep == Spec => []InStep
<1>1. IInv => InStep
  <2> SUFFICES ASSUME IInv, NEW s \in Servers, NEW c \in Clients, node[c].ours
               PROVE  Signed(Now(c) - Now(s)) \in -MaxBehind .. MaxAhead
    BY DEF InStep
  <2> QED
    BY DEF IInv, OffsetsNear, Near, Now, Clients
<1> QED
  BY <1>1, InvCorrect, PTL

\* The schedule a server waits for is its own last message, within reach, or one it
\* inherited from its time as a client.
THEOREM OwnScheduleInReach == Spec => []OwnInReach
<1>1. IInv => OwnInReach
  BY DEF IInv, OwnPlanned, OwnInReach, Inherited
<1> QED
  BY <1>1, InvCorrect, PTL

\* The error of a reader of the server's clock carries over to the schedule it reads.
LEMMA ReadersAgree ==
  ASSUME IInv, NEW s \in Servers, NEW n \in Node, node[n].ours,
         Signed(clock[s] - node[n].sched.at) \in -Lead .. Length - MaxAhead - 1
  PROVE  Elapsed(n) \in Int /\ Elapsed(n) < Length
<1> DEFINE at == node[n].sched.at
           now == clock[s]
           mine == Now(n)
           lag == Signed(now - at)
           err == Signed(mine - now)
<1>1. node[s].offset = 0 /\ s \in Node /\ node[n] \in NodeState
  BY DEF IInv, TypeOK, OneServer, Servers
<1>2. now \in Clock /\ at \in Int /\ mine \in Int
  <2>1. clock[n] \in Int /\ node[n].offset \in Int /\ node[n].sched.at \in Int /\ now \in Clock
    BY <1>1, Atoms, SMT DEF IInv, TypeOK, Clock
  <2> QED
    BY <2>1, Quotient, SMT DEF Now, ServerNow, Clock
<1>3. Now(s) = now
  <2>1. \A k \in Clock : Wrap(k + 0) = k
    BY Word, SMT DEF Wrap, Clock
  <2> QED
    BY <1>1, <1>2, <2>1 DEF Now, ServerNow
<1>4. err \in -MaxBehind .. MaxAhead
  BY <1>3 DEF IInv, OffsetsNear, Near, Now
<1>5. lag \in -Lead .. Length - MaxAhead - 1
  OBVIOUS
<1>6. Elapsed(n) = Signed(mine - at)
  BY DEF Elapsed
<1> HIDE DEF at, now, mine
<1>7. mine - at = (mine - now) + (now - at) /\ mine - now \in Int /\ now - at \in Int
  BY <1>2, SMT DEF Clock
<1>8. /\ -Half <= Signed(mine - now) + Signed(now - at)
      /\ Signed(mine - now) + Signed(now - at) < Length
      /\ Signed(mine - now) + Signed(now - at) < Half
  <2> HIDE DEF lag, err
  <2>1. -Half <= err + lag /\ err + lag < Length /\ err + lag < Half
    BY <1>4, <1>5, Numbers, Word, SMT
  <2> QED
    BY <2>1 DEF lag, err
<1>9. Signed((mine - now) + (now - at)) = Signed(mine - now) + Signed(now - at)
  BY <1>7, <1>8, SignedSum
<1> QED
  BY <1>6, <1>7, <1>8, <1>9, SignedQuotient

\* A message of the present server stays on a synchronised panel until it has crossed it
\* by the server's clock, but for the error of one exchange.
THEOREM MessagesCross == Spec => NotCutShort
<1> DEFINE Cut(n) == node'[n] = [node[n] EXCEPT !.sched = NoSchedule]
<1>1. ASSUME IInv, [Next]_vars, NEW s \in Servers, NEW n \in Node,
             node[n].sched.active, node[n].sched.ours, node[n].ours, Cut(n)
      PROVE  Signed(clock[s] - node[n].sched.at) \notin -Lead .. Length - MaxAhead - 1
  <2>1. node[n] \in NodeState /\ node \in [Node -> NodeState]
    BY <1>1 DEF IInv, TypeOK
  <2>2. ASSUME NEW x, x = [node[n] EXCEPT !.sched = NoSchedule]
        PROVE  /\ x.sched = NoSchedule /\ x.role = node[n].role /\ x.ours = node[n].ours
               /\ x.seq = node[n].seq /\ x.sync = node[n].sync
    BY <2>1, <2>2, Empty, Zenon DEF NodeState
  <2>3. /\ ~node'[n].sched.active /\ node'[n].role = node[n].role
        /\ node'[n].ours /\ node'[n].seq = node[n].seq
    <3>1. ~NoSchedule.active
      BY SMT DEF NoSchedule
    <3> QED
      BY <1>1, <2>2, <3>1
  <2>4. Retire(n)
    <3>1. ~Tick
      BY <1>1, <2>3, TickNode
    <3>2. node' # node /\ ~Send /\ ~(\E p \in air : Lose(p))
      BY <1>1, <2>3 DEF Send, Lose
    <3>3. ASSUME NEW p \in air, Receive(p) PROVE FALSE
      <4> DEFINE sched == [active |-> TRUE, seq |-> p.seq, at |-> p.at, ours |-> p.ours]
      <4>1. sched.active
        OBVIOUS
      <4>2. p.to \in Node
        <5>1. p \in Play
          BY <1>1 DEF IInv, TypeOK
        <5> QED
          BY <5>1, SMT DEF Play
      <4>3. \/ node' = node
            \/ node' = [node EXCEPT ![p.to].sched = sched]
        BY <3>3, Zenon DEF Receive
      <4> HIDE DEF sched
      <4>4. CASE n # p.to
        BY <1>1, <2>1, <2>3, <4>2, <4>3, <4>4, Zenon
      <4>5. CASE n = p.to
        <5>1. \/ node'[n] = node[n]
              \/ node'[n] = [node[n] EXCEPT !.sched = sched]
          BY <2>1, <4>3, <4>5, Zenon
        <5>2. [node[n] EXCEPT !.sched = sched].sched = sched
          BY <2>1, Zenon DEF NodeState
        <5> QED
          BY <1>1, <2>3, <4>1, <5>1, <5>2, Zenon
      <4> QED
        BY <4>4, <4>5
    <3>4. ASSUME NEW m \in Node, Publish(m) PROVE FALSE
      <4>1. m # n => node'[n] = node[n]
        BY <2>1, <3>4, Zenon DEF Publish
      <4>2. m = n => node'[n].sched.active
        <5> DEFINE sched == [active |-> TRUE, seq |-> node[n].seq + 1,
                             at |-> Wrap(clock[n] + Lead), ours |-> TRUE]
                   seq == node[n].seq + 1
        <5>1. m = n => node'[n] = [node[n] EXCEPT !.seq = seq, !.sched = sched]
          BY <2>1, <3>4, Zenon DEF Publish
        <5>2. sched.active
          OBVIOUS
        <5> HIDE DEF sched, seq
        <5>3. [node[n] EXCEPT !.seq = seq, !.sched = sched].sched = sched
          BY <2>1, Zenon DEF NodeState
        <5> QED
          BY <5>1, <5>2, <5>3, Zenon
      <4> QED
        BY <1>1, <2>3, <4>1, <4>2
    <3>5. ASSUME NEW m \in Node, SyncStart(m) \/ SyncStep(m) PROVE FALSE
      <4>1. m # n => node'[n] = node[n]
        BY <2>1, <3>5, Zenon DEF SyncStart, SyncStep, Sample, SampleFails
      <4>2. m = n => node'[n].sched = node[n].sched
        <5>1. CASE SyncStart(m)
          BY <2>1, <5>1, SMT DEF SyncStart, NodeState
        <5>2. CASE Sample(m)
          <6>1. PICK y : m = n => node'[n] = Sampled(node[n], y)
            BY <2>1, <5>2, Zenon DEF Sample
          <6> QED
            BY <2>1, <6>1, SampledSchedule
        <5>3. CASE SampleFails(m)
          BY <2>1, <5>3, SampledSchedule DEF SampleFails
        <5> QED
          BY <3>5, <5>1, <5>2, <5>3 DEF SyncStep
      <4> QED
        BY <1>1, <2>3, <4>1, <4>2
    <3>6. ASSUME NEW m \in Node,
                 Join(m) \/ Leave(m) \/ Abdicate(m) \/ Fail(m) \/ Boot(m)
          PROVE  FALSE
      <4>1. m # n => node'[n] = node[n]
        BY <2>1, <3>6, Zenon DEF Join, Leave, Abdicate, Fail, Boot
      <4>2. m = n => node'[n].role # node[n].role
        <5>1. CASE Join(m)
          BY <2>1, <5>1, SMT DEF Join, NodeState
        <5>2. CASE Leave(m)
          BY <2>1, <5>2, SMT DEF Leave, NodeState
        <5>3. CASE Abdicate(m)
          BY <2>1, <5>3, SMT DEF Abdicate, NodeState
        <5>4. CASE Fail(m)
          <6>1. node[m].pi \in BOOLEAN
            BY <2>1, Atoms DEF IInv, TypeOK
          <6> QED
            BY <2>1, <5>4, <6>1, FreshFields DEF Fail
        <5>5. CASE Boot(m)
          BY <2>1, <5>5, FreshFields DEF Boot
        <5> QED
          BY <3>6, <5>1, <5>2, <5>3, <5>4, <5>5
      <4> QED
        BY <1>1, <2>3, <4>1, <4>2
    <3>7. ASSUME NEW m \in Node, Promote(m) \/ Start(m) PROVE FALSE
      <4>1. Start(m) /\ m = s /\ node[m].role = "server"
        BY <1>1, <3>7 DEF Promote, Start, Servers, IInv, OneServer
      <4>2. CASE n = m
        <5> DEFINE v == [Booted EXCEPT !.pi = TRUE]
        <5>1. v \in NodeState /\ v.seq = 0
          <6>1. Booted.seq = 0 /\ Booted \in NodeState
            BY BootedType, SMT DEF Booted
          <6> QED
            BY <6>1, BootedType, Zenon DEF NodeState
        <5>2. node'[n].seq = 0
          <6>1. node'[n] = [StaleNode(v) EXCEPT !.role = "server", !.offset = 0,
                                                !.synced = TRUE, !.ours = TRUE]
            BY <4>1, <4>2, Zenon DEF Start, Reigns
          <6>2. StaleNode(v) \in NodeState /\ StaleNode(v).seq = 0
            BY <5>1, StaleType
          <6> HIDE DEF v
          <6> QED
            BY <6>1, <6>2, Zenon DEF NodeState
        <5>3. node[n].seq > 0
          BY <1>1, <4>1, <4>2 DEF IInv, OwnPlanned
        <5> QED
          BY <2>3, <5>2, <5>3, SMT
      <4>3. CASE n # m
        <5>1. node'[n] = StaleNode(node[n])
          BY <4>1, <4>3, Zenon DEF Start, Reigns
        <5> QED
          BY <2>1, <2>3, <5>1, StaleType
      <4> QED
        BY <4>2, <4>3
    <3>8. PICK m \in Node : Retire(m)
      BY <1>1, <3>1, <3>2, <3>3, <3>4, <3>5, <3>6, <3>7
         DEF Next, Deliver, NodeStep, RoleStep, vars
    <3>9. m = n
      BY <2>1, <1>1, <2>3, <3>8, Zenon DEF Retire
    <3> QED
      BY <3>8, <3>9
  <2>5. Elapsed(n) >= Length
    BY <2>4 DEF Retire, Retirable, Over
  <2> QED
    BY <1>1, <2>5, ReadersAgree, Numbers, SMT
<1>2. IInv /\ [Next]_vars =>
        [ \A s \in Servers, n \in Node :
            (/\ node[n].sched.active /\ node[n].sched.ours /\ node[n].ours
             /\ node'[n] = [node[n] EXCEPT !.sched = NoSchedule])
            => Signed(clock[s] - node[n].sched.at) \notin -Lead .. Length - MaxAhead - 1 ]_vars
  BY <1>1
<1> QED
  BY <1>2, InvCorrect, PTL DEF Spec, NotCutShort
===============================================================================
