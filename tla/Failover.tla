------------------------------- MODULE Failover -------------------------------
(***************************************************************************)
(* The role-agnostic failover of the firmware (ws_wifi.cpp, WIFI_Loop and  *)
(* the functions it calls): every node runs the same state machine and     *)
(* decides alone, from what a WiFi scan tells it, whether to be the SoftAP *)
(* server.  Nodes never exchange a message about the election; the only    *)
(* shared medium is the set of access points that are on the air.          *)
(*                                                                         *)
(* A node is a natural number, its SoftAP BSSID: the comparison memcmp     *)
(* makes is "<".  Time is discrete.  A timer of the code that is read as   *)
(* millis() - since is an age here, saturated above every threshold it is  *)
(* compared with; a deadline (promoteAt) is a countdown.  A WiFi scan      *)
(* blocks loop(): it is two actions, the instant the radio hears the other *)
(* access points and the instant the handler acts on what it heard, at     *)
(* most ScanLag ticks later.  At most MaxMissed scans of a behaviour miss  *)
(* some access point that is on the air (a lost beacon, a failed scan).    *)
(***************************************************************************)
EXTENDS Naturals, FiniteSets

CONSTANTS
  Node,                \* the nodes, as SoftAP BSSIDs
  NoAP,                \* "not associated"
  Slot,                \* backoffSlot: macHash() % SPREAD_MS, fixed per chip
  JoinGraceCold,       \* JOIN_GRACE_COLD
  JoinGraceWarm,       \* JOIN_GRACE_WARM
  GraceCold,           \* T_GRACE_COLD
  GraceFail,           \* T_GRACE_FAIL
  Jitter,              \* largest value of random(JITTER_MS)
  ScanInterval,        \* SCAN_INTERVAL
  ServerScanInterval,  \* SERVER_SCAN_INTERVAL
  AbdicationWindow,    \* ABDICATION_WINDOW
  PromotionCooldown,   \* PROMOTION_COOLDOWN
  BlipWindow,          \* the 4000 ms tickClient tolerates without a link
  Announce,            \* how long xdisplayText("SERVER"/"CLIENT") blocks loop()
  ScanLag,             \* longest time from hearing the air to acting on it
  SetupTime,           \* from power-on to the first loop() (delays and banner)
  MaxAge,              \* saturation of the ages; no handler compares beyond it
  MaxFaults,           \* bound on power losses and radio blips
  MaxMissed            \* bound on scans that miss an access point

ASSUME NodeAssumption == Node \subseteq Nat /\ NoAP \notin Node

ASSUME TimingAssumption ==
  /\ Slot \in [Node -> Nat]
  /\ {JoinGraceCold, JoinGraceWarm, GraceCold, GraceFail, Jitter, ScanInterval,
      ServerScanInterval, AbdicationWindow, PromotionCooldown, BlipWindow,
      Announce, ScanLag, SetupTime, MaxAge, MaxFaults, MaxMissed} \subseteq Nat
  /\ \A t \in {JoinGraceCold, JoinGraceWarm, ScanInterval, SetupTime,
               ServerScanInterval + ScanLag + 1, Announce + ScanLag + 1,
               AbdicationWindow, BlipWindow + 1} : t <= MaxAge

\* A scan is over before the next one is due, and the first one falls into the
\* abdication window: what bounds a split brain.
ASSUME ScanAssumption ==
  /\ ScanLag < ServerScanInterval
  /\ ServerScanInterval < AbdicationWindow /\ Announce < AbdicationWindow

VARIABLES
  node,      \* per node: the failover variables of ws_wifi.cpp and its radio
  faults,    \* power losses and blips so far
  missed,    \* scans so far that missed an access point on the air
  orphaned,  \* history: servers about to abdicate in favour of a server whose
             \* power was lost (directly or through a chain) since they heard it
  unheard    \* history: <<n, m>> when server m was on the air and the last scan
             \* of n, or a scan of its present reign as server, missed it

vars == <<node, faults, missed, orphaned, unheard>>
-------------------------------------------------------------------------------
Role == {"OFF", "JOINING", "CLIENT", "CANDIDATE", "SERVER"}
ScanKind == {"none", "poll", "guard"}
Heard == {"nothing", "present", "lower"}

\* The longest countdown tickCandidate can arm.
MaxWait(n) == GraceCold + GraceFail + Slot[n] + Jitter + PromotionCooldown

Fields == {"role", "roleAge", "scanAge", "absent", "promoteIn", "cooling",
           "everSaw", "busy", "scan", "heard", "lag", "link"}

IsNodeState(n, s) ==
  /\ DOMAIN s = Fields
  /\ s.role      \in Role                   \* nodeRole; "OFF" without power
  /\ s.roleAge   \in 0 .. MaxAge            \* millis() - roleSince
  /\ s.scanAge   \in 0 .. MaxAge            \* millis() - lastScan or lastServerScan
  /\ s.absent    \in BOOLEAN                \* absenceSince # 0
  /\ s.promoteIn \in 0 .. MaxWait(n)        \* promoteAt - now, 0 once reached
  /\ s.cooling   \in 0 .. PromotionCooldown \* what is left of the cooldown
                                            \* since lastPromotionEvt
  /\ s.everSaw   \in BOOLEAN                \* everSawServer
  /\ s.busy      \in 0 .. Announce          \* loop() still scrolls the role banner
  /\ s.scan      \in ScanKind               \* a scan call in progress, and which
  /\ s.heard     \in Heard                  \* what it heard
  /\ s.lag       \in 0 .. ScanLag           \* how long ago
  /\ s.link      \in Node \cup {NoAP}       \* where the station is connected

Off == [role |-> "OFF", roleAge |-> 0, scanAge |-> 0, absent |-> FALSE,
        promoteIn |-> 0, cooling |-> 0, everSaw |-> FALSE, busy |-> 0,
        scan |-> "none", heard |-> "nothing", lag |-> 0, link |-> NoAP]

TypeOK ==
  /\ DOMAIN node = Node
  /\ \A n \in Node : IsNodeState(n, node[n])
  /\ faults \in 0 .. MaxFaults
  /\ missed \in 0 .. MaxMissed
  /\ orphaned \subseteq Node
  /\ unheard \subseteq Node \X Node

\* softAP() and softAPdisconnect() go with the role in one function each, so the
\* access points on the air are the nodes whose role is SERVER.
OnAir == {n \in Node : node[n].role = "SERVER"}

\* Mutant: any other access point counts as a lower one.
VerdictAny(n, A) == IF A = {} THEN "nothing" ELSE "lower"

\* What scanForServerNetwork() returns when the radio found the access points A
\* with our SSID: whether there is one, and whether one has a lower BSSID.
Verdict(n, A) == IF A = {} THEN "nothing"
                 ELSE IF \E m \in A : m < n THEN "lower" ELSE "present"

\* loop() is free to run the tick handler of the node's role.
Runs(n) == node[n].scan = "none" /\ node[n].busy = 0
-------------------------------------------------------------------------------
(* The enter functions, as the node state they leave. *)

Idle(s) == [s EXCEPT !.scan = "none", !.heard = "nothing", !.lag = 0]

EnterJoining(s) ==
  [Idle(s) EXCEPT !.role = "JOINING", !.roleAge = 0, !.link = NoAP]

EnterClient(s) ==
  [Idle(s) EXCEPT !.role = "CLIENT", !.roleAge = 0, !.everSaw = TRUE, !.busy = Announce]

\* lastScan = 0 makes the first scan due at once.
EnterCandidate(s) ==
  [Idle(s) EXCEPT !.role = "CANDIDATE", !.roleAge = 0, !.absent = FALSE,
                  !.promoteIn = 0, !.scanAge = ScanInterval, !.link = NoAP]

\* Mutant: lastServerScan is not reset.
EnterServerStaleScan(s) ==
  [Idle(s) EXCEPT !.role = "SERVER", !.roleAge = 0, !.cooling = PromotionCooldown,
                  !.everSaw = TRUE, !.busy = Announce]

EnterServer(s) ==
  [Idle(s) EXCEPT !.role = "SERVER", !.roleAge = 0, !.scanAge = 0,
                  !.cooling = PromotionCooldown,
                  !.everSaw = TRUE, !.busy = Announce]

\* One step of node n that touches only its own state.
Becomes(n, s) ==
  /\ node' = [node EXCEPT ![n] = s]
  /\ UNCHANGED <<faults, missed, orphaned, unheard>>

\* The pairs of unheard that do not concern n.
Without(n) == {r \in unheard : n \notin {r[1], r[2]}}

\* scanForServerNetwork() begins: the radio finds every other access point, or
\* misses some.
StartScan(n, kind, since) ==
  \E A \in SUBSET (OnAir \ {n}) :
    /\ node' = [node EXCEPT ![n] = [@ EXCEPT !.scan = kind, !.heard = Verdict(n, A),
                                             !.lag = 0, !.scanAge = since]]
    /\ IF A = OnAir \ {n} THEN missed' = missed
       ELSE missed < MaxMissed /\ missed' = missed + 1
    /\ unheard' = (IF n \in OnAir THEN unheard ELSE Without(n))
                  \cup ({n} \X ((OnAir \ {n}) \ A))
    /\ UNCHANGED <<faults, orphaned>>
-------------------------------------------------------------------------------
(* tickJoining *)

JoinGrace(n) == IF node[n].everSaw THEN JoinGraceWarm ELSE JoinGraceCold

JoinConnected(n) ==
  /\ node[n].role = "JOINING" /\ Runs(n)
  /\ node[n].link # NoAP
  /\ Becomes(n, EnterClient(node[n]))

JoinScan(n) ==
  /\ node[n].role = "JOINING" /\ Runs(n)
  /\ node[n].link = NoAP /\ node[n].roleAge >= JoinGrace(n)
  /\ StartScan(n, "poll", 0)

\* On the air but slow to join: WiFi.begin() again.
JoinRetry(n) ==
  /\ node[n].role = "JOINING" /\ node[n].scan = "poll"
  /\ node[n].heard # "nothing"
  /\ Becomes(n, [Idle(node[n]) EXCEPT !.roleAge = 0])

JoinContest(n) ==
  /\ node[n].role = "JOINING" /\ node[n].scan = "poll"
  /\ node[n].heard = "nothing"
  /\ Becomes(n, EnterCandidate(node[n]))

(* tickCandidate *)

CandidateScan(n) ==
  /\ node[n].role = "CANDIDATE" /\ Runs(n)
  /\ node[n].scanAge >= ScanInterval
  /\ StartScan(n, "poll", 0)

\* Mutant: the scan says someone serves and the candidate goes on waiting.
CandidateYieldStays(n) ==
  /\ node[n].role = "CANDIDATE" /\ node[n].scan # "none"
  /\ node[n].heard # "nothing"
  /\ Becomes(n, Idle(node[n]))

\* Someone serves: heard by the periodic scan or by the final guard scan.
CandidateYield(n) ==
  /\ node[n].role = "CANDIDATE" /\ node[n].scan # "none"
  /\ node[n].heard # "nothing"
  /\ Becomes(n, EnterJoining(node[n]))

\* First confirmed absence: arm promoteAt.
CandidateArm(n) ==
  /\ node[n].role = "CANDIDATE" /\ node[n].scan = "poll"
  /\ node[n].heard = "nothing" /\ ~node[n].absent
  /\ \E j \in 0 .. Jitter :
       LET grace == IF node[n].everSaw THEN GraceFail ELSE GraceCold
           cool  == IF node[n].cooling > 0 THEN PromotionCooldown ELSE 0
       IN Becomes(n, [Idle(node[n]) EXCEPT !.absent = TRUE,
                                           !.promoteIn = grace + Slot[n] + j + cool])

CandidateWait(n) ==
  /\ node[n].role = "CANDIDATE" /\ node[n].scan = "poll"
  /\ node[n].heard = "nothing" /\ node[n].absent /\ node[n].promoteIn > 0
  /\ Becomes(n, Idle(node[n]))

\* Mutant: no final guard scan before the promotion.
CandidateGuardSkipped(n) ==
  /\ node[n].role = "CANDIDATE" /\ node[n].scan = "poll"
  /\ node[n].heard = "nothing" /\ node[n].absent /\ node[n].promoteIn = 0
  /\ Becomes(n, [node[n] EXCEPT !.scan = "guard", !.lag = 0])

\* The deadline passed: scan once more before claiming the SSID.
CandidateGuard(n) ==
  /\ node[n].role = "CANDIDATE" /\ node[n].scan = "poll"
  /\ node[n].heard = "nothing" /\ node[n].absent /\ node[n].promoteIn = 0
  /\ StartScan(n, "guard", node[n].scanAge)

CandidatePromote(n) ==
  /\ node[n].role = "CANDIDATE" /\ node[n].scan = "guard"
  /\ node[n].heard = "nothing"
  /\ Becomes(n, EnterServer(node[n]))

(* tickServer, the abdication check *)

\* Mutant: > for >= in the cadence test.
ServerScanDueLate(n) ==
  /\ node[n].role = "SERVER" /\ Runs(n)
  /\ node[n].roleAge < AbdicationWindow
  /\ node[n].scanAge > ServerScanInterval

ServerScanDue(n) ==
  /\ node[n].role = "SERVER" /\ Runs(n)
  /\ node[n].roleAge < AbdicationWindow
  /\ node[n].scanAge >= ServerScanInterval

ServerScan(n) ==
  /\ ServerScanDue(n)
  /\ StartScan(n, "poll", 0)

ServerKeep(n) ==
  /\ node[n].role = "SERVER" /\ node[n].scan = "poll"
  /\ node[n].heard # "lower"
  /\ Becomes(n, Idle(node[n]))

\* Servers that have heard a lower BSSID and not yet acted on it.
Leaving == {n \in OnAir : node[n].heard = "lower"}

\* Mutant: a server yields to any other server.
ServerAbdicateToAny(n) ==
  /\ node[n].role = "SERVER" /\ node[n].scan = "poll"
  /\ node[n].heard # "nothing"
  /\ node' = [node EXCEPT ![n] = [EnterJoining(@) EXCEPT !.cooling = PromotionCooldown]]
  /\ orphaned' = (IF n \in orphaned THEN orphaned \cup Leaving ELSE orphaned) \ {n}
  /\ unheard' = Without(n)
  /\ UNCHANGED <<faults, missed>>

ServerAbdicate(n) ==
  /\ node[n].role = "SERVER" /\ node[n].scan = "poll"
  /\ node[n].heard = "lower"
  /\ node' = [node EXCEPT ![n] = [EnterJoining(@) EXCEPT !.cooling = PromotionCooldown]]
  /\ orphaned' = (IF n \in orphaned THEN orphaned \cup Leaving ELSE orphaned) \ {n}
  /\ unheard' = Without(n)
  /\ UNCHANGED <<faults, missed>>

(* tickClient, the link supervision *)

ClientLinked(n) ==
  /\ node[n].role = "CLIENT" /\ Runs(n)
  /\ node[n].link # NoAP /\ node[n].roleAge > 0
  /\ Becomes(n, [node[n] EXCEPT !.roleAge = 0])

ClientLost(n) ==
  /\ node[n].role = "CLIENT" /\ Runs(n)
  /\ node[n].link = NoAP /\ node[n].roleAge > BlipWindow
  /\ Becomes(n, EnterCandidate(node[n]))
-------------------------------------------------------------------------------
(* The radio and the power supply. *)

\* The station (re)connects: after WiFi.begin() in JOINING, by the driver's
\* auto-reconnect in CLIENT.
Associate(n) ==
  /\ node[n].role \in {"JOINING", "CLIENT"} /\ node[n].link = NoAP
  /\ \E a \in OnAir : Becomes(n, [node[n] EXCEPT !.link = a])

\* The access point went away.
LinkGone(n) ==
  /\ node[n].link # NoAP /\ node[n].link \notin OnAir
  /\ Becomes(n, [node[n] EXCEPT !.link = NoAP])

\* The link drops although the access point is on the air.
LinkBlip(n) ==
  /\ node[n].link \in OnAir /\ faults < MaxFaults
  /\ node' = [node EXCEPT ![n].link = NoAP]
  /\ faults' = faults + 1
  /\ UNCHANGED <<missed, orphaned, unheard>>

\* tickClient counts a heartbeat only when the radio events have isConnected down
\* while the link is up again (Session); HEARTBEAT_FAIL_N in a row, one fault
\* here, and the client contests a server it can hear.
ClientGivesUp(n) ==
  /\ node[n].role = "CLIENT" /\ Runs(n)
  /\ node[n].link # NoAP /\ faults < MaxFaults
  /\ node' = [node EXCEPT ![n] = EnterCandidate(@)]
  /\ faults' = faults + 1
  /\ UNCHANGED <<missed, orphaned, unheard>>

PowerLoss(n) ==
  /\ node[n].role # "OFF" /\ faults < MaxFaults
  /\ node' = [node EXCEPT ![n] = Off]
  /\ orphaned' = (IF n \in OnAir THEN orphaned \cup Leaving ELSE orphaned) \ {n}
  /\ unheard' = Without(n)
  /\ faults' = faults + 1
  /\ UNCHANGED missed

\* setup() returns: WIFI_Init called enterJoining() SetupTime ago, and
\* lastPromotionEvt is 0, the boot instant.
Boot(n) ==
  /\ node[n].role = "OFF"
  /\ Becomes(n, [Off EXCEPT !.role = "JOINING", !.roleAge = SetupTime,
                           !.cooling = IF SetupTime < PromotionCooldown
                                       THEN PromotionCooldown - SetupTime ELSE 0])
-------------------------------------------------------------------------------
(* Time. *)

Older(a) == IF a < MaxAge THEN a + 1 ELSE a
Sooner(c) == IF c > 0 THEN c - 1 ELSE c

\* Only the timers the handler of the role reads are advanced.
Aged(s) ==
  [s EXCEPT !.roleAge   = IF s.role \in {"JOINING", "CLIENT", "SERVER"} THEN Older(@) ELSE @,
            !.scanAge   = IF s.role \in {"CANDIDATE", "SERVER"} THEN Older(@) ELSE @,
            !.promoteIn = Sooner(@),
            !.cooling   = Sooner(@),
            !.busy      = Sooner(@),
            !.lag       = IF s.scan # "none" THEN @ + 1 ELSE @]

\* loop() polls far faster than a tick: a scan in progress ends within ScanLag,
\* and a due scan starts before time moves on.  A CLIENT's loop() may sit in
\* HTTP calls, so nothing is assumed of it.
Due(n) ==
  \/ node[n].scan # "none" /\ node[n].lag = ScanLag
  \/ node[n].role = "JOINING" /\ Runs(n)
     /\ (node[n].link # NoAP \/ node[n].roleAge >= JoinGrace(n))
  \/ node[n].role = "CANDIDATE" /\ Runs(n) /\ node[n].scanAge >= ScanInterval
  \/ ServerScanDue(n)

Tick ==
  /\ \A n \in Node : ~Due(n)
  /\ node' = [n \in Node |-> Aged(node[n])]
  /\ UNCHANGED <<faults, missed, orphaned, unheard>>
-------------------------------------------------------------------------------
Init ==
  /\ node = [n \in Node |-> Off]
  /\ faults = 0
  /\ missed = 0
  /\ orphaned = {}
  /\ unheard = {}

\* WIFI_Loop: the tick of the node's role.
LoopStep(n) ==
  \/ JoinConnected(n) \/ JoinScan(n) \/ JoinRetry(n) \/ JoinContest(n)
  \/ CandidateScan(n) \/ CandidateYield(n) \/ CandidateArm(n) \/ CandidateWait(n)
  \/ CandidateGuard(n) \/ CandidatePromote(n)
  \/ ServerScan(n) \/ ServerKeep(n) \/ ServerAbdicate(n)
  \/ ClientLinked(n) \/ ClientLost(n)

RadioStep(n) == Associate(n) \/ LinkGone(n) \/ LinkBlip(n) \/ ClientGivesUp(n)

Next ==
  \/ Tick
  \/ \E n \in Node : LoopStep(n) \/ RadioStep(n) \/ PowerLoss(n) \/ Boot(n)

Spec == Init /\ [][Next]_vars

\* Time passes, loop() keeps running on a powered node, the station finds an
\* access point that stays on the air and notices one that went away.  Nothing
\* is assumed of power or of blips.
FairSpec ==
  /\ Spec
  /\ WF_vars(Tick)
  /\ \A n \in Node : WF_vars(LoopStep(n)) /\ WF_vars(Associate(n)) /\ WF_vars(LinkGone(n))
-------------------------------------------------------------------------------
\* The longest a server can wait before it takes its first abdication scan.
FirstScan == IF ServerScanInterval > Announce THEN ServerScanInterval ELSE Announce

\* One of two servers missed the other in a scan it decided on.
Unaware(p, q) == <<p, q>> \in unheard \/ <<q, p>> \in unheard

\* Two servers can share the SSID only while the higher one is young: it has
\* left the role one interval (or one role banner) and one scan after its
\* promotion, unless a scan of one of these two missed the other one
\* (tickServer; failover-design.md, 11).
SplitBrainBounded ==
  \A p, q \in OnAir : p < q => node[q].roleAge <= FirstScan + ScanLag \/ Unaware(p, q)

\* No reclaim: a node claims the SSID only against servers that came up during
\* its own guard scan or that this very scan missed, never against one that was
\* established and heard, however the nodes rank (tickCandidate;
\* failover-design.md, 8).
EstablishedNotContested ==
  [][ \A n \in Node : n \in OnAir' \ OnAir =>
        \A m \in OnAir : node[m].roleAge <= ScanLag \/ <<n, m>> \in unheard ]_vars

\* A server that heard a lower one leaves the air a while later, on stale news.
\* A lower server is on the air then, unless a power loss took away the one it
\* counted on.
DeferredToLower ==
  \A n \in Leaving \ orphaned : \E m \in OnAir : m < n

\* Abdication alone never darkens the sign: when a server steps down, another
\* one still serves (tickServer).
AbdicationKeepsService ==
  [][ \A n \in OnAir : (n \notin OnAir' /\ node'[n].role = "JOINING" /\ n \notin orphaned)
        => OnAir' # {} ]_vars

\* The abstract specification of who serves, and how long each server has.
Lead == INSTANCE Leadership WITH
  powered <- {n \in Node : node[n].role # "OFF"},
  reign   <- [n \in OnAir |-> node[n].roleAge],
  sure    <- (missed = 0),
  excused <- orphaned,
  Fresh   <- ScanLag,
  Overlap <- FirstScan + ScanLag

\* The role machines, scans and timers together implement Leadership: the only
\* changes of who serves are the ones it allows, at the times it allows
\* (failover-design.md, 8 and 11).
Leads == Lead!Spec

\* Servers on the air and every other powered node the client of one.  It is one
\* server, but for a split brain that nobody is left to notice: tickServer stops
\* scanning at ABDICATION_WINDOW, and if by then the scans of one of two servers
\* missed the other, both stay.
Settled ==
  /\ OnAir # {}
  /\ \A n \in Node \ OnAir :
       node[n].role = "OFF" \/ (node[n].role = "CLIENT" /\ node[n].link \in OnAir)
  /\ \A p, q \in OnAir : p < q => node[q].roleAge >= AbdicationWindow /\ Unaware(p, q)

\* Whatever the power losses, blips and missed scans, once they end the nodes
\* that are up settle for good, or all of them are off: one server, and more
\* than one only when a scan of theirs missed the other and the higher one is
\* past its ABDICATION_WINDOW.
Settles == <>[](Settled \/ \A n \in Node : node[n].role = "OFF")
-------------------------------------------------------------------------------
(* Why the split brain is bounded: the inductive invariant.                *)

\* The role banner ends Announce ticks after the promotion.
BannerFits ==
  \A q \in OnAir : node[q].busy > 0 => node[q].roleAge + node[q].busy <= Announce

\* A server younger than the scan interval has not scanned yet.
NotYetScanned(q) == node[q].scan = "none" /\ node[q].scanAge = node[q].roleAge

YoungNotScanned ==
  \A q \in OnAir : node[q].roleAge < ServerScanInterval => NotYetScanned(q)

\* While a guard scan that heard nothing waits to be acted on, every server has
\* come up since or was missed.
GuardIsFresh ==
  \A n \in Node : (node[n].scan = "guard" /\ node[n].heard = "nothing")
    => \A m \in OnAir : node[m].roleAge <= node[n].lag \/ <<n, m>> \in unheard

\* The higher of two servers awaits its first scan, or that scan heard the lower,
\* or one of them has missed the other.
HigherWillLeave ==
  \A p, q \in OnAir : p < q =>
    \/ NotYetScanned(q) /\ node[q].roleAge <= FirstScan
    \/ /\ node[q].scan = "poll" /\ node[q].heard = "lower"
       /\ node[q].roleAge <= FirstScan + node[q].lag
    \/ Unaware(p, q)

\* Nothing is unheard until a scan misses an access point.
UnheardMissed == missed = 0 => unheard = {}

IInv ==
  /\ TypeOK /\ BannerFits /\ YoungNotScanned
  /\ GuardIsFresh /\ HigherWillLeave /\ UnheardMissed
===============================================================================
