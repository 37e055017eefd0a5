---------------------------- MODULE FailoverProofs ----------------------------
(* The failover's safety, and that it implements Leadership, for every set of *)
(* nodes and every timing.                                                    *)
EXTENDS Failover, TLAPS

\* Every timer, in the arithmetic facts the step proofs need.
LEMMA Constants ==
  /\ JoinGraceCold \in Nat /\ JoinGraceWarm \in Nat /\ GraceCold \in Nat
  /\ GraceFail \in Nat /\ Jitter \in Nat /\ ScanInterval \in Nat
  /\ ServerScanInterval \in Nat /\ AbdicationWindow \in Nat
  /\ PromotionCooldown \in Nat /\ BlipWindow \in Nat /\ Announce \in Nat
  /\ ScanLag \in Nat /\ SetupTime \in Nat /\ MaxAge \in Nat
  /\ MaxFaults \in Nat /\ MaxMissed \in Nat
  /\ ScanInterval <= MaxAge /\ SetupTime <= MaxAge
  /\ ServerScanInterval + ScanLag + 1 <= MaxAge
  /\ Announce + ScanLag + 1 <= MaxAge
  /\ Slot \in [Node -> Nat]
BY TimingAssumption, SMT

-------------------------------------------------------------------------------
(* The states the handlers leave are node states. *)

LEMMA OffType ==
  ASSUME NEW n \in Node
  PROVE  IsNodeState(n, Off)
<1>1. DOMAIN Off = Fields
  BY SMT DEF Off, Fields
<1>2. MaxWait(n) \in Nat
  BY Constants, SMT DEF MaxWait
<1> QED
  BY <1>1, <1>2, Constants, SMT DEF IsNodeState, Off, Role, ScanKind, Heard

LEMMA IdleType ==
  ASSUME NEW n \in Node, NEW s, IsNodeState(n, s)
  PROVE  IsNodeState(n, Idle(s))
<1>1. DOMAIN Idle(s) = Fields
  BY SMT DEF IsNodeState, Idle
<1> QED
  BY <1>1, Constants, SMT DEF IsNodeState, Idle, Fields, ScanKind, Heard

LEMMA EnterType ==
  ASSUME NEW n \in Node, NEW s, IsNodeState(n, s)
  PROVE  /\ IsNodeState(n, EnterJoining(s))
         /\ IsNodeState(n, EnterClient(s))
         /\ IsNodeState(n, EnterCandidate(s))
         /\ IsNodeState(n, EnterServer(s))
<1> DEFINE i == Idle(s)
<1>1. IsNodeState(n, i)
  BY IdleType
<1>2. MaxWait(n) \in Nat
  BY Constants, SMT DEF MaxWait
<1>3. /\ EnterJoining(s) = [i EXCEPT !.role = "JOINING", !.roleAge = 0, !.link = NoAP]
      /\ EnterClient(s) = [i EXCEPT !.role = "CLIENT", !.roleAge = 0, !.everSaw = TRUE,
                                    !.busy = Announce]
      /\ EnterCandidate(s) = [i EXCEPT !.role = "CANDIDATE", !.roleAge = 0, !.absent = FALSE,
                                       !.promoteIn = 0, !.scanAge = ScanInterval, !.link = NoAP]
      /\ EnterServer(s) = [i EXCEPT !.role = "SERVER", !.roleAge = 0, !.scanAge = 0,
                                    !.cooling = PromotionCooldown, !.everSaw = TRUE,
                                    !.busy = Announce]
  BY DEF EnterJoining, EnterClient, EnterCandidate, EnterServer
<1> HIDE DEF i
<1>4. /\ DOMAIN EnterJoining(s) = Fields
      /\ DOMAIN EnterClient(s) = Fields
      /\ DOMAIN EnterCandidate(s) = Fields
      /\ DOMAIN EnterServer(s) = Fields
  BY <1>1, <1>3, SMT DEF IsNodeState
<1>5. IsNodeState(n, EnterJoining(s))
  BY <1>1, <1>3, <1>4, Constants, SMT DEF IsNodeState, Fields, Role
<1>6. IsNodeState(n, EnterClient(s))
  BY <1>1, <1>3, <1>4, Constants, SMT DEF IsNodeState, Fields, Role
<1>7. IsNodeState(n, EnterCandidate(s))
  BY <1>1, <1>2, <1>3, <1>4, Constants, SMT DEF IsNodeState, Fields, Role
<1>8. IsNodeState(n, EnterServer(s))
  BY <1>1, <1>3, <1>4, Constants, SMT DEF IsNodeState, Fields, Role
<1> QED
  BY <1>5, <1>6, <1>7, <1>8

\* Aging keeps the type as long as no scan outlives ScanLag.
LEMMA AgedType ==
  ASSUME NEW n \in Node, NEW s, IsNodeState(n, s),
         s.scan # "none" => s.lag < ScanLag
  PROVE  IsNodeState(n, Aged(s))
<1>1. DOMAIN Aged(s) = Fields
  BY SMT DEF IsNodeState, Aged
<1>2. MaxWait(n) \in Nat
  BY Constants, SMT DEF MaxWait
<1> QED
  BY <1>1, <1>2, Constants, SMT DEF IsNodeState, Aged, Older, Sooner, Fields

-------------------------------------------------------------------------------
(* A step that writes the state of one node keeps the type. *)

LEMMA BecomesType ==
  ASSUME TypeOK, NEW n \in Node, NEW s, IsNodeState(n, s), Becomes(n, s)
  PROVE  TypeOK'
BY SMT DEF TypeOK, Becomes, IsNodeState, MaxWait

LEMMA ScanType ==
  ASSUME TypeOK, NEW n \in Node, NEW kind \in ScanKind, NEW since \in 0 .. MaxAge,
         StartScan(n, kind, since)
  PROVE  TypeOK'
<1> PICK A \in SUBSET (OnAir \ {n}) :
      /\ node' = [node EXCEPT ![n] = [@ EXCEPT !.scan = kind, !.heard = Verdict(n, A),
                                              !.lag = 0, !.scanAge = since]]
      /\ IF A = OnAir \ {n} THEN missed' = missed
         ELSE missed < MaxMissed /\ missed' = missed + 1
      /\ unheard' = (IF n \in OnAir THEN unheard ELSE Without(n))
                    \cup ({n} \X ((OnAir \ {n}) \ A))
      /\ UNCHANGED <<faults, orphaned>>
  BY DEF StartScan
<1> DEFINE s == [node[n] EXCEPT !.scan = kind, !.heard = Verdict(n, A),
                                !.lag = 0, !.scanAge = since]
<1>1. Verdict(n, A) \in Heard
  BY DEF Verdict, Heard
<1>2. IsNodeState(n, s)
  <2>1. DOMAIN s = Fields
    BY SMT DEF TypeOK, IsNodeState
  <2> QED
    BY <1>1, <2>1, Constants, SMT DEF TypeOK, IsNodeState, Fields
<1>3. missed' \in 0 .. MaxMissed
  BY Constants, SMT DEF TypeOK
<1>4. unheard' \subseteq Node \X Node
  <2>1. {n} \X ((OnAir \ {n}) \ A) \subseteq Node \X Node
    BY SMT DEF OnAir
  <2> QED
    BY <2>1 DEF Without, TypeOK
<1> QED
  BY <1>2, <1>3, <1>4, SMT DEF TypeOK, IsNodeState, MaxWait

LEMMA LoopType ==
  ASSUME TypeOK, NEW n \in Node, LoopStep(n)
  PROVE  TypeOK'
<1> DEFINE s == node[n]
<1>1. IsNodeState(n, s)
  BY DEF TypeOK
<1>2. /\ IsNodeState(n, Idle(s))
      /\ IsNodeState(n, EnterJoining(s)) /\ IsNodeState(n, EnterClient(s))
      /\ IsNodeState(n, EnterCandidate(s)) /\ IsNodeState(n, EnterServer(s))
  BY <1>1, IdleType, EnterType
<1>3. 0 \in 0 .. MaxAge /\ s.scanAge \in 0 .. MaxAge
      /\ {"poll", "guard"} \subseteq ScanKind
  BY <1>1, Constants, SMT DEF IsNodeState, ScanKind
<1>4. CASE \/ JoinConnected(n) \/ JoinContest(n) \/ CandidateYield(n)
           \/ CandidateWait(n) \/ CandidatePromote(n) \/ ServerKeep(n) \/ ClientLost(n)
  BY <1>2, <1>4, BecomesType
     DEF JoinConnected, JoinContest, CandidateYield, CandidateWait, CandidatePromote,
         ServerKeep, ClientLost
<1>5. CASE JoinScan(n) \/ CandidateScan(n) \/ CandidateGuard(n) \/ ServerScan(n)
  BY <1>3, <1>5, ScanType DEF JoinScan, CandidateScan, CandidateGuard, ServerScan
<1>6. CASE JoinRetry(n)
  <2> DEFINE t == [Idle(s) EXCEPT !.roleAge = 0]
  <2>1. DOMAIN t = Fields
    BY <1>2, SMT DEF IsNodeState
  <2>2. IsNodeState(n, t)
    BY <1>2, <2>1, Constants, SMT DEF IsNodeState, Fields
  <2> QED
    BY <1>6, <2>2, BecomesType DEF JoinRetry
<1>7. CASE CandidateArm(n)
  <2> PICK j \in 0 .. Jitter :
        LET grace == IF s.everSaw THEN GraceFail ELSE GraceCold
            cool  == IF s.cooling > 0 THEN PromotionCooldown ELSE 0
        IN Becomes(n, [Idle(s) EXCEPT !.absent = TRUE,
                                      !.promoteIn = grace + Slot[n] + j + cool])
    BY <1>7 DEF CandidateArm
  <2> DEFINE wait == (IF s.everSaw THEN GraceFail ELSE GraceCold) + Slot[n] + j
                     + (IF s.cooling > 0 THEN PromotionCooldown ELSE 0)
             t == [Idle(s) EXCEPT !.absent = TRUE, !.promoteIn = wait]
  <2>1. wait \in 0 .. MaxWait(n)
    <3>1. Slot[n] \in Nat
      BY Constants
    <3> QED
      BY <3>1, Constants, SMT DEF MaxWait
  <2>2. Becomes(n, t)
    OBVIOUS
  <2> HIDE DEF wait
  <2>3. DOMAIN t = Fields
    BY <1>2, SMT DEF IsNodeState
  <2>4. IsNodeState(n, t)
    BY <1>2, <2>1, <2>3, SMT DEF IsNodeState, Fields
  <2> QED
    BY <2>2, <2>4, BecomesType
<1>8. CASE ServerAbdicate(n)
  <2> DEFINE t == [EnterJoining(s) EXCEPT !.cooling = PromotionCooldown]
  <2>1. DOMAIN t = Fields
    BY <1>2, SMT DEF IsNodeState
  <2>2. IsNodeState(n, t)
    BY <1>2, <2>1, Constants, SMT DEF IsNodeState, Fields
  <2>3. orphaned' \subseteq Node
    BY <1>8 DEF ServerAbdicate, Leaving, OnAir, TypeOK
  <2>4. /\ node' = [node EXCEPT ![n] = t] /\ UNCHANGED <<faults, missed>>
        /\ unheard' \subseteq Node \X Node
    BY <1>8 DEF ServerAbdicate, Without, TypeOK
  <2> HIDE DEF t
  <2> QED
    BY <2>2, <2>3, <2>4, SMT DEF TypeOK, IsNodeState, MaxWait
<1>9. CASE ClientLinked(n)
  <2> DEFINE t == [s EXCEPT !.roleAge = 0]
  <2>1. DOMAIN t = Fields
    BY <1>1, SMT DEF IsNodeState
  <2>2. IsNodeState(n, t)
    BY <1>1, <2>1, Constants, SMT DEF IsNodeState, Fields
  <2> QED
    BY <1>9, <2>2, BecomesType DEF ClientLinked
<1> QED
  BY <1>4, <1>5, <1>6, <1>7, <1>8, <1>9 DEF LoopStep

LEMMA NextType ==
  ASSUME TypeOK, [Next]_vars
  PROVE  TypeOK'
<1>1. CASE Tick
  <2>1. ASSUME NEW n \in Node
        PROVE  IsNodeState(n, node'[n])
    <3>1. node'[n] = Aged(node[n]) /\ ~Due(n)
      BY <1>1 DEF Tick
    <3>2. IsNodeState(n, node[n])
      BY DEF TypeOK
    <3>3. node[n].scan # "none" => node[n].lag < ScanLag
      BY <3>1, <3>2, Constants, SMT DEF Due, IsNodeState
    <3> QED
      BY <3>1, <3>2, <3>3, AgedType
  <2> QED
    BY <1>1, <2>1, SMT DEF Tick, TypeOK, IsNodeState, MaxWait
<1>2. ASSUME NEW n \in Node, LoopStep(n)
      PROVE  TypeOK'
  BY <1>2, LoopType
<1>3. ASSUME NEW n \in Node, RadioStep(n)
      PROVE  TypeOK'
  <2>1. ASSUME NEW a \in Node \cup {NoAP}
        PROVE  IsNodeState(n, [node[n] EXCEPT !.link = a])
    <3>1. DOMAIN [node[n] EXCEPT !.link = a] = Fields
      BY SMT DEF TypeOK, IsNodeState
    <3> QED
      BY <3>1, SMT DEF TypeOK, IsNodeState, Fields
  <2>2. CASE Associate(n)
    BY <2>1, <2>2, BecomesType DEF Associate, OnAir
  <2>3. CASE LinkGone(n)
    BY <2>1, <2>3, BecomesType DEF LinkGone
  <2>4. CASE LinkBlip(n)
    <3>1. IsNodeState(n, [node[n] EXCEPT !.link = NoAP])
      BY <2>1
    <3>2. node' = [node EXCEPT ![n] = [node[n] EXCEPT !.link = NoAP]]
      BY <2>4 DEF LinkBlip
    <3> QED
      BY <2>4, <3>1, <3>2, Constants, SMT DEF LinkBlip, TypeOK, IsNodeState, MaxWait
  <2>5. CASE ClientGivesUp(n)
    <3>1. IsNodeState(n, EnterCandidate(node[n]))
      BY EnterType DEF TypeOK
    <3>2. node' = [node EXCEPT ![n] = EnterCandidate(node[n])]
      BY <2>5 DEF ClientGivesUp
    <3> QED
      BY <2>5, <3>1, <3>2, Constants, SMT DEF ClientGivesUp, TypeOK, IsNodeState, MaxWait
  <2> QED
    BY <1>3, <2>2, <2>3, <2>4, <2>5 DEF RadioStep
<1>4. ASSUME NEW n \in Node, PowerLoss(n)
      PROVE  TypeOK'
  <2>1. orphaned' \subseteq Node /\ unheard' \subseteq Node \X Node
    BY <1>4 DEF PowerLoss, Leaving, OnAir, Without, TypeOK
  <2>2. IsNodeState(n, Off)
    BY OffType
  <2> QED
    BY <1>4, <2>1, <2>2, Constants, SMT DEF PowerLoss, TypeOK, IsNodeState, MaxWait
<1>5. ASSUME NEW n \in Node, Boot(n)
      PROVE  TypeOK'
  <2> DEFINE cooling == IF SetupTime < PromotionCooldown THEN PromotionCooldown - SetupTime ELSE 0
             t == [Off EXCEPT !.role = "JOINING", !.roleAge = SetupTime, !.cooling = cooling]
  <2>1. cooling \in 0 .. PromotionCooldown
    BY Constants, SMT
  <2>2. Becomes(n, t)
    BY <1>5 DEF Boot
  <2> HIDE DEF cooling
  <2>3. IsNodeState(n, Off)
    BY OffType
  <2>4. DOMAIN t = Fields
    BY <2>3, SMT DEF IsNodeState
  <2>5. IsNodeState(n, t)
    BY <2>1, <2>3, <2>4, Constants, SMT DEF IsNodeState, Fields, Role
  <2> QED
    BY <2>2, <2>5, BecomesType
<1>6. CASE UNCHANGED vars
  BY <1>6, SMT DEF vars, TypeOK, IsNodeState, MaxWait
<1> QED
  BY <1>1, <1>2, <1>3, <1>4, <1>5, <1>6 DEF Next

\* Every variable keeps its type whatever the nodes, the timers and the bounds.
THEOREM TypeCorrect == Spec => []TypeOK
<1>1. Init => TypeOK
  BY OffType, Constants, SMT DEF Init, TypeOK
<1>2. TypeOK /\ [Next]_vars => TypeOK'
  BY NextType
<1> QED
  BY <1>1, <1>2, PTL DEF Spec

-------------------------------------------------------------------------------
(* Steps that leave the servers alone. *)

SameServers ==
  /\ OnAir' = OnAir
  /\ \A m \in OnAir :
       /\ node'[m].roleAge = node[m].roleAge /\ node'[m].scanAge = node[m].scanAge
       /\ node'[m].busy = node[m].busy /\ node'[m].scan = node[m].scan
       /\ node'[m].heard = node[m].heard /\ node'[m].lag = node[m].lag
  /\ \A p, q \in OnAir : <<p, q>> \in unheard => <<p, q>> \in unheard'

\* Every guard scan that has heard nothing was there before, or missed every
\* server.
SameGuards ==
  \A k \in Node :
    (node'[k].scan = "guard" /\ node'[k].heard = "nothing")
      => \/ /\ node[k].scan = "guard" /\ node[k].heard = "nothing"
            /\ node'[k].lag = node[k].lag
            /\ \A m \in OnAir : <<k, m>> \in unheard => <<k, m>> \in unheard'
         \/ \A m \in OnAir : <<k, m>> \in unheard'

\* What a step may add to unheard, it counts as missed.
MissesCounted ==
  /\ missed' \in Nat /\ missed <= missed'
  /\ missed' = 0 => unheard' \subseteq unheard

LEMMA WithoutPair ==
  ASSUME NEW n, NEW k, NEW m, <<k, m>> \in unheard, n # k, n # m
  PROVE  <<k, m>> \in Without(n)
BY SMT DEF Without

\* The loop steps of a node that is not a server, but for the promotion.
WaitStep(n) ==
  \/ JoinConnected(n) \/ JoinScan(n) \/ JoinRetry(n) \/ JoinContest(n)
  \/ CandidateScan(n) \/ CandidateYield(n) \/ CandidateArm(n) \/ CandidateWait(n)
  \/ CandidateGuard(n) \/ ClientLinked(n) \/ ClientLost(n)

\* A step of a node that was no server and is none after it.
LEMMA Bystander ==
  ASSUME TypeOK, NEW n \in Node, NEW t, node' = [node EXCEPT ![n] = t],
         node[n].role # "SERVER", t.role # "SERVER",
         \A p, q \in OnAir : <<p, q>> \in unheard => <<p, q>> \in unheard'
  PROVE  /\ SameServers
         /\ \A k \in Node \ {n} : node'[k] = node[k]
         /\ node'[n] = t
BY SMT DEF TypeOK, SameServers, OnAir

LEMMA WaitQuiet ==
  ASSUME TypeOK, NEW n \in Node, WaitStep(n)
  PROVE  /\ SameServers /\ SameGuards
         /\ MissesCounted
         /\ orphaned' = orphaned
<1> DEFINE s == node[n]
<1>1. IsNodeState(n, s) /\ missed \in Nat
  BY Constants, SMT DEF TypeOK
<1>2. DOMAIN s = Fields
  BY <1>1 DEF IsNodeState
<1>3. ASSUME NEW t, Becomes(n, t), s.role # "SERVER", t.role # "SERVER", t.scan = "none"
      PROVE  /\ SameServers /\ SameGuards
             /\ MissesCounted
             /\ orphaned' = orphaned
  <2>1. node' = [node EXCEPT ![n] = t] /\ unheard' = unheard
    BY <1>3 DEF Becomes
  <2>2. /\ SameServers
        /\ \A k \in Node \ {n} : node'[k] = node[k]
        /\ node'[n] = t
    BY <1>3, <2>1, Bystander
  <2> QED
    BY <1>1, <1>3, <2>1, <2>2, SMT DEF SameGuards, Becomes, MissesCounted
<1>4. ASSUME NEW kind, NEW since, StartScan(n, kind, since), s.role # "SERVER",
             kind = "guard" => s.role = "CANDIDATE"
      PROVE  /\ SameServers /\ SameGuards
             /\ MissesCounted
             /\ orphaned' = orphaned
  <2> PICK A \in SUBSET (OnAir \ {n}) :
        /\ node' = [node EXCEPT ![n] = [@ EXCEPT !.scan = kind, !.heard = Verdict(n, A),
                                                !.lag = 0, !.scanAge = since]]
        /\ IF A = OnAir \ {n} THEN missed' = missed
           ELSE missed < MaxMissed /\ missed' = missed + 1
        /\ unheard' = (IF n \in OnAir THEN unheard ELSE Without(n))
                      \cup ({n} \X ((OnAir \ {n}) \ A))
        /\ UNCHANGED <<faults, orphaned>>
    BY <1>4 DEF StartScan
  <2> DEFINE t == [s EXCEPT !.scan = kind, !.heard = Verdict(n, A), !.lag = 0,
                            !.scanAge = since]
  <2>1. t.role = s.role /\ t.heard = Verdict(n, A)
    BY <1>2, SMT DEF Fields
  <2>2. node' = [node EXCEPT ![n] = t]
    OBVIOUS
  <2> HIDE DEF t
  <2>3. n \notin OnAir /\ unheard' = Without(n) \cup ({n} \X ((OnAir \ {n}) \ A))
    BY <1>4 DEF OnAir
  <2>4. ASSUME NEW k, NEW m \in OnAir, k # n, <<k, m>> \in unheard
        PROVE  <<k, m>> \in unheard'
    BY <2>3, <2>4, WithoutPair
  <2>5. /\ SameServers
        /\ \A k \in Node \ {n} : node'[k] = node[k]
        /\ node'[n] = t
    <3>1. \A p, q \in OnAir : <<p, q>> \in unheard => <<p, q>> \in unheard'
      BY <2>3, <2>4
    <3>2. s.role # "SERVER" /\ t.role # "SERVER"
      BY <1>4, <2>1
    <3> QED
      BY <2>2, <3>1, <3>2, Bystander
  <2>6. MissesCounted
    <3>1. missed' \in Nat /\ missed <= missed' /\ (missed' = 0 => A = OnAir \ {n})
      BY <1>1, SMT
    <3>2. A = OnAir \ {n} => unheard' \subseteq unheard
      BY <2>3, SMT DEF Without
    <3> QED
      BY <3>1, <3>2 DEF MissesCounted
  <2>7. Verdict(n, A) = "nothing" => \A m \in OnAir : <<n, m>> \in unheard'
    <3>1. Verdict(n, A) = "nothing" => A = {}
      BY SMT DEF Verdict
    <3> QED
      BY <2>3, <3>1, SMT
  <2>8. SameGuards
    BY <2>1, <2>4, <2>5, <2>7 DEF SameGuards
  <2> QED
    BY <2>5, <2>6, <2>8
<1>5. /\ EnterClient(s).role = "CLIENT" /\ EnterClient(s).scan = "none"
      /\ EnterJoining(s).role = "JOINING" /\ EnterJoining(s).scan = "none"
      /\ EnterCandidate(s).role = "CANDIDATE" /\ EnterCandidate(s).scan = "none"
      /\ Idle(s).role = s.role /\ Idle(s).scan = "none"
  BY <1>2, SMT DEF EnterClient, EnterJoining, EnterCandidate, Idle, Fields
<1>6. CASE JoinConnected(n) \/ JoinContest(n) \/ CandidateYield(n) \/ CandidateWait(n)
           \/ ClientLost(n)
  BY <1>3, <1>5, <1>6
     DEF JoinConnected, JoinContest, CandidateYield, CandidateWait, ClientLost
<1>7. CASE JoinScan(n) \/ CandidateScan(n) \/ CandidateGuard(n)
  BY <1>4, <1>7 DEF JoinScan, CandidateScan, CandidateGuard
<1>8. CASE JoinRetry(n)
  <2>1. /\ [Idle(s) EXCEPT !.roleAge = 0].role = s.role
        /\ [Idle(s) EXCEPT !.roleAge = 0].scan = "none"
    BY <1>2, SMT DEF Idle, Fields
  <2> QED
    BY <1>3, <1>8, <2>1 DEF JoinRetry
<1>9. CASE CandidateArm(n)
  <2>1. ASSUME NEW w
        PROVE  /\ [Idle(s) EXCEPT !.absent = TRUE, !.promoteIn = w].role = s.role
               /\ [Idle(s) EXCEPT !.absent = TRUE, !.promoteIn = w].scan = "none"
    BY <1>2, SMT DEF Idle, Fields
  <2>2. PICK w : Becomes(n, [Idle(s) EXCEPT !.absent = TRUE, !.promoteIn = w])
    BY <1>9 DEF CandidateArm
  <2> QED
    BY <1>3, <1>9, <2>1, <2>2 DEF CandidateArm
<1>10. CASE ClientLinked(n)
  <2>1. /\ [s EXCEPT !.roleAge = 0].role = s.role
        /\ [s EXCEPT !.roleAge = 0].scan = s.scan
    BY <1>2, SMT DEF Fields
  <2> QED
    BY <1>3, <1>10, <2>1 DEF ClientLinked, Runs
<1> QED
  BY <1>6, <1>7, <1>8, <1>9, <1>10 DEF WaitStep

LEMMA RadioQuiet ==
  ASSUME TypeOK, NEW n \in Node, RadioStep(n)
  PROVE  /\ SameServers /\ SameGuards /\ missed' = missed /\ orphaned' = orphaned
         /\ unheard' = unheard
<1>1. DOMAIN node[n] = Fields
  BY DEF TypeOK, IsNodeState
<1>2. missed' = missed /\ orphaned' = orphaned /\ unheard' = unheard
  BY DEF RadioStep, Associate, LinkGone, LinkBlip, ClientGivesUp, Becomes
<1>3. CASE Associate(n) \/ LinkGone(n) \/ LinkBlip(n)
  <2>1. PICK a : node' = [node EXCEPT ![n] = [node[n] EXCEPT !.link = a]]
    <3>1. CASE Associate(n)
      BY <3>1 DEF Associate, Becomes
    <3>2. CASE LinkGone(n)
      BY <3>2 DEF LinkGone, Becomes
    <3>3. CASE LinkBlip(n)
      BY <3>3 DEF LinkBlip
    <3> QED
      BY <1>3, <3>1, <3>2, <3>3
  <2>2. ASSUME NEW m \in Node
        PROVE  /\ node'[m].role = node[m].role
               /\ node'[m].roleAge = node[m].roleAge /\ node'[m].scanAge = node[m].scanAge
               /\ node'[m].busy = node[m].busy /\ node'[m].scan = node[m].scan
               /\ node'[m].heard = node[m].heard /\ node'[m].lag = node[m].lag
    BY <1>1, <2>1, SMT DEF TypeOK, Fields
  <2> QED
    BY <1>2, <2>2 DEF SameServers, SameGuards, OnAir
<1>4. CASE ClientGivesUp(n)
  <2> DEFINE t == EnterCandidate(node[n])
  <2>1. t.role = "CANDIDATE" /\ t.scan = "none"
    BY <1>1, SMT DEF EnterCandidate, Idle, Fields
  <2>2. node' = [node EXCEPT ![n] = t] /\ node[n].role # "SERVER"
    BY <1>4 DEF ClientGivesUp
  <2> HIDE DEF t
  <2>3. /\ SameServers
        /\ \A k \in Node \ {n} : node'[k] = node[k]
        /\ node'[n] = t
    BY <1>2, <2>1, <2>2, Bystander
  <2> QED
    BY <1>2, <2>1, <2>3 DEF SameGuards
<1> QED
  BY <1>3, <1>4 DEF RadioStep

LEMMA BootQuiet ==
  ASSUME TypeOK, NEW n \in Node, Boot(n)
  PROVE  /\ SameServers /\ SameGuards /\ missed' = missed /\ orphaned' = orphaned
         /\ unheard' = unheard
<1> DEFINE cooling == IF SetupTime < PromotionCooldown THEN PromotionCooldown - SetupTime ELSE 0
           t == [Off EXCEPT !.role = "JOINING", !.roleAge = SetupTime, !.cooling = cooling]
<1>1. t.role = "JOINING" /\ t.scan = "none"
  BY SMT DEF Off
<1>2. Becomes(n, t)
  BY DEF Boot
<1> HIDE DEF t
<1>3. /\ SameServers
      /\ \A k \in Node \ {n} : node'[k] = node[k]
      /\ node'[n] = t
  BY <1>1, <1>2, Bystander DEF Becomes, Boot
<1> QED
  BY <1>1, <1>2, <1>3 DEF SameGuards, Becomes

-------------------------------------------------------------------------------
(* The steps of the servers, and time. *)

\* CandidatePromote: n joins the servers, fresh.
LEMMA PromoteEffect ==
  ASSUME TypeOK, NEW n \in Node, CandidatePromote(n)
  PROVE  /\ n \notin OnAir /\ OnAir' = OnAir \cup {n}
         /\ \A k \in Node \ {n} : node'[k] = node[k]
         /\ node'[n].roleAge = 0 /\ node'[n].scanAge = 0 /\ node'[n].busy = Announce
         /\ node'[n].scan = "none" /\ node'[n].heard = "nothing"
         /\ missed' = missed /\ orphaned' = orphaned /\ unheard' = unheard
<1> DEFINE t == EnterServer(node[n])
<1>1. DOMAIN node[n] = Fields
  BY DEF TypeOK, IsNodeState
<1>2. /\ t.role = "SERVER" /\ t.roleAge = 0 /\ t.scanAge = 0 /\ t.busy = Announce
      /\ t.scan = "none" /\ t.heard = "nothing"
  BY <1>1, SMT DEF EnterServer, Idle, Fields
<1>3. Becomes(n, t) /\ node[n].role = "CANDIDATE"
  BY DEF CandidatePromote
<1> HIDE DEF t
<1> QED
  BY <1>2, <1>3, SMT DEF TypeOK, Becomes, OnAir

\* ServerScan: n's verdict is on the other servers, or the scan missed one.
LEMMA ScanEffect ==
  ASSUME TypeOK, NEW n \in Node, ServerScan(n)
  PROVE  /\ n \in OnAir /\ OnAir' = OnAir
         /\ \A k \in Node \ {n} : node'[k] = node[k]
         /\ node'[n].roleAge = node[n].roleAge /\ node'[n].busy = node[n].busy
         /\ node'[n].scan = "poll" /\ node'[n].lag = 0
         /\ node'[n].heard = "lower" => \E m \in OnAir : m < n
         /\ node'[n].heard = "lower" \/ \A m \in OnAir : m < n => <<n, m>> \in unheard'
         /\ unheard \subseteq unheard'
         /\ \A k, m : <<k, m>> \in unheard' => k = n \/ <<k, m>> \in unheard
         /\ MissesCounted
         /\ orphaned' = orphaned
<1>1. DOMAIN node[n] = Fields /\ missed \in Nat
  BY Constants, SMT DEF TypeOK, IsNodeState
<1>2. StartScan(n, "poll", 0) /\ n \in OnAir
  BY DEF ServerScan, ServerScanDue, OnAir
<1> PICK A \in SUBSET (OnAir \ {n}) :
      /\ node' = [node EXCEPT ![n] = [@ EXCEPT !.scan = "poll", !.heard = Verdict(n, A),
                                              !.lag = 0, !.scanAge = 0]]
      /\ IF A = OnAir \ {n} THEN missed' = missed
         ELSE missed < MaxMissed /\ missed' = missed + 1
      /\ unheard' = (IF n \in OnAir THEN unheard ELSE Without(n))
                    \cup ({n} \X ((OnAir \ {n}) \ A))
      /\ UNCHANGED <<faults, orphaned>>
  BY <1>2 DEF StartScan
<1> DEFINE t == [node[n] EXCEPT !.scan = "poll", !.heard = Verdict(n, A), !.lag = 0,
                                !.scanAge = 0]
<1>3. /\ t.role = node[n].role /\ t.roleAge = node[n].roleAge /\ t.busy = node[n].busy
      /\ t.scan = "poll" /\ t.lag = 0 /\ t.heard = Verdict(n, A)
  BY <1>1, SMT DEF Fields
<1>4. node' = [node EXCEPT ![n] = t]
  OBVIOUS
<1> HIDE DEF t
<1>5. node'[n] = t /\ \A k \in Node \ {n} : node'[k] = node[k]
  BY <1>4, SMT DEF TypeOK
<1>6. OnAir' = OnAir
  BY <1>3, <1>5 DEF OnAir
<1>7. Verdict(n, A) = "lower" => \E m \in OnAir : m < n
  BY SMT DEF Verdict
<1>8. unheard' = unheard \cup ({n} \X ((OnAir \ {n}) \ A))
  BY <1>2
<1>9. MissesCounted
  <2>1. missed' \in Nat /\ missed <= missed' /\ (missed' = 0 => A = OnAir \ {n})
    BY <1>1, SMT
  <2>2. A = OnAir \ {n} => unheard' \subseteq unheard
    BY <1>8, SMT
  <2> QED
    BY <2>1, <2>2 DEF MissesCounted
<1>10. Verdict(n, A) = "lower" \/ \A m \in OnAir : m < n => <<n, m>> \in unheard'
  <2> SUFFICES ASSUME Verdict(n, A) # "lower", NEW m \in OnAir, m < n
               PROVE  <<n, m>> \in unheard'
    OBVIOUS
  <2>1. m \notin A
    BY SMT DEF Verdict
  <2>2. m # n
    BY NodeAssumption, SMT DEF OnAir
  <2> QED
    BY <1>8, <2>1, <2>2, SMT
<1>11. \A k, m : <<k, m>> \in unheard' => k = n \/ <<k, m>> \in unheard
  BY <1>8, SMT
<1> QED
  BY <1>2, <1>3, <1>5, <1>6, <1>7, <1>8, <1>9, <1>10, <1>11

\* ServerKeep: n forgets a verdict that named no lower server.
LEMMA KeepEffect ==
  ASSUME TypeOK, NEW n \in Node, ServerKeep(n)
  PROVE  /\ n \in OnAir /\ OnAir' = OnAir
         /\ node[n].scan = "poll" /\ node[n].heard # "lower"
         /\ \A k \in Node \ {n} : node'[k] = node[k]
         /\ node'[n].roleAge = node[n].roleAge /\ node'[n].busy = node[n].busy
         /\ node'[n].scan = "none" /\ node'[n].heard = "nothing"
         /\ missed' = missed /\ orphaned' = orphaned /\ unheard' = unheard
<1> DEFINE t == Idle(node[n])
<1>1. DOMAIN node[n] = Fields
  BY DEF TypeOK, IsNodeState
<1>2. /\ t.role = node[n].role /\ t.roleAge = node[n].roleAge /\ t.busy = node[n].busy
      /\ t.scan = "none" /\ t.heard = "nothing"
  BY <1>1, SMT DEF Idle, Fields
<1>3. Becomes(n, t) /\ n \in OnAir /\ node[n].scan = "poll" /\ node[n].heard # "lower"
  BY DEF ServerKeep, OnAir
<1> HIDE DEF t
<1> QED
  BY <1>2, <1>3, SMT DEF TypeOK, Becomes, OnAir

\* ServerAbdicate: n leaves the air.
LEMMA AbdicateEffect ==
  ASSUME TypeOK, NEW n \in Node, ServerAbdicate(n)
  PROVE  /\ n \in Leaving /\ OnAir' = OnAir \ {n}
         /\ \A k \in Node \ {n} : node'[k] = node[k]
         /\ node'[n].scan = "none" /\ missed' = missed /\ unheard' = Without(n)
         /\ orphaned' = (IF n \in orphaned THEN orphaned \cup Leaving ELSE orphaned) \ {n}
<1> DEFINE t == [EnterJoining(node[n]) EXCEPT !.cooling = PromotionCooldown]
<1>1. DOMAIN node[n] = Fields
  BY DEF TypeOK, IsNodeState
<1>2. t.role = "JOINING" /\ t.scan = "none"
  BY <1>1, SMT DEF EnterJoining, Idle, Fields
<1>3. /\ node' = [node EXCEPT ![n] = t]
      /\ node[n].role = "SERVER" /\ node[n].heard = "lower"
      /\ missed' = missed /\ unheard' = Without(n)
      /\ orphaned' = (IF n \in orphaned THEN orphaned \cup Leaving ELSE orphaned) \ {n}
  BY DEF ServerAbdicate
<1> HIDE DEF t
<1>4. node'[n] = t /\ \A k \in Node \ {n} : node'[k] = node[k]
  BY <1>3, SMT DEF TypeOK
<1> QED
  BY <1>2, <1>3, <1>4 DEF OnAir, Leaving

\* PowerLoss: n is off.
LEMMA PowerEffect ==
  ASSUME TypeOK, NEW n \in Node, PowerLoss(n)
  PROVE  /\ OnAir' = OnAir \ {n} /\ node'[n].role = "OFF" /\ node'[n].scan = "none"
         /\ \A k \in Node \ {n} : node'[k] = node[k]
         /\ missed' = missed /\ unheard' = Without(n)
         /\ orphaned' = (IF n \in OnAir THEN orphaned \cup Leaving ELSE orphaned) \ {n}
<1>1. Off.role = "OFF" /\ Off.scan = "none"
  BY SMT DEF Off
<1>2. node'[n] = Off /\ \A k \in Node \ {n} : node'[k] = node[k]
  BY SMT DEF PowerLoss, TypeOK
<1> QED
  BY <1>1, <1>2 DEF PowerLoss, OnAir

\* Tick: a server's ages grow by one, or stay at MaxAge.
LEMMA TickEffect ==
  ASSUME TypeOK, Tick, NEW k \in Node
  PROVE  /\ ~Due(k) /\ missed' = missed /\ orphaned' = orphaned
         /\ node'[k].role = node[k].role
         /\ node'[k].scan = node[k].scan /\ node'[k].heard = node[k].heard
         /\ node'[k].busy = Sooner(node[k].busy)
         /\ node'[k].lag = IF node[k].scan # "none" THEN node[k].lag + 1 ELSE node[k].lag
         /\ node[k].role = "SERVER" => /\ node'[k].roleAge = Older(node[k].roleAge)
                                      /\ node'[k].scanAge = Older(node[k].scanAge)
<1>1. DOMAIN node[k] = Fields
  BY DEF TypeOK, IsNodeState
<1>2. node'[k] = Aged(node[k])
  BY DEF Tick
<1>3. ~Due(k) /\ missed' = missed /\ orphaned' = orphaned
  BY DEF Tick
<1> QED
  BY <1>1, <1>2, <1>3, SMT DEF Aged, Fields

-------------------------------------------------------------------------------
(* Nobody leaves the air for a server that is not there. *)

LEMMA DeferredStep ==
  ASSUME TypeOK, DeferredToLower, [Next]_vars
  PROVE  DeferredToLower'
<1>1. ASSUME SameServers, orphaned' = orphaned
      PROVE  DeferredToLower'
  BY <1>1 DEF SameServers, DeferredToLower, Leaving, OnAir
<1>2. ASSUME NEW n \in Node, CandidatePromote(n)
      PROVE  DeferredToLower'
  BY <1>2, PromoteEffect DEF DeferredToLower, Leaving, OnAir
<1>3. ASSUME NEW n \in Node, ServerScan(n)
      PROVE  DeferredToLower'
  BY <1>3, ScanEffect DEF DeferredToLower, Leaving, OnAir
<1>4. ASSUME NEW n \in Node, ServerKeep(n)
      PROVE  DeferredToLower'
  BY <1>4, KeepEffect DEF DeferredToLower, Leaving, OnAir
<1>5. ASSUME NEW n \in Node, ServerAbdicate(n)
      PROVE  DeferredToLower'
  <2>1. /\ n \in Leaving /\ OnAir' = OnAir \ {n}
        /\ \A k \in Node \ {n} : node'[k] = node[k]
        /\ orphaned' = (IF n \in orphaned THEN orphaned \cup Leaving ELSE orphaned) \ {n}
    BY <1>5, AbdicateEffect
  <2>2. Leaving' = Leaving \ {n}
    BY <2>1 DEF Leaving, OnAir
  <2>3. CASE n \in orphaned
    BY <2>1, <2>2, <2>3 DEF DeferredToLower
  <2>4. CASE n \notin orphaned
    <3> SUFFICES ASSUME NEW k \in Leaving' \ orphaned'
                 PROVE  \E m \in OnAir' : m < k
      BY DEF DeferredToLower
    <3>1. k \in Leaving \ orphaned /\ k # n
      BY <2>1, <2>2, <2>4
    <3>2. PICK w \in OnAir : w < k
      BY <3>1 DEF DeferredToLower
    <3>3. PICK v \in OnAir : v < n
      BY <2>1, <2>4 DEF DeferredToLower
    <3>4. {v, w, n, k} \subseteq Nat
      BY <3>1, NodeAssumption DEF Leaving, OnAir
    <3>5. CASE w = n
      <4>1. v < k /\ v # n
        BY <3>2, <3>3, <3>4, <3>5, SMT
      <4> QED
        BY <2>1, <4>1
    <3>6. CASE w # n
      BY <2>1, <3>2, <3>6
    <3> QED
      BY <3>5, <3>6
  <2> QED
    BY <2>3, <2>4
<1>6. ASSUME NEW n \in Node, PowerLoss(n)
      PROVE  DeferredToLower'
  BY <1>6, PowerEffect DEF DeferredToLower, Leaving, OnAir
<1>7. CASE Tick
  <2>1. OnAir' = OnAir /\ Leaving' = Leaving
    BY <1>7, TickEffect DEF OnAir, Leaving
  <2>2. orphaned' = orphaned
    BY <1>7 DEF Tick
  <2> QED
    BY <2>1, <2>2 DEF DeferredToLower
<1>8. CASE UNCHANGED vars
  BY <1>8 DEF vars, DeferredToLower, Leaving, OnAir
<1>9. ASSUME NEW n \in Node, WaitStep(n) \/ RadioStep(n) \/ Boot(n)
      PROVE  DeferredToLower'
  BY <1>1, <1>9, WaitQuiet, RadioQuiet, BootQuiet
<1> QED
  BY <1>2, <1>3, <1>4, <1>5, <1>6, <1>7, <1>8, <1>9 DEF Next, LoopStep, WaitStep

\* A server that heard a lower one can count on a lower one until it leaves,
\* unless a power loss intervenes (ServerAbdicate acts on news up to ScanLag old).
THEOREM Deferred == Spec => []DeferredToLower
<1>1. Init => DeferredToLower
  BY SMT DEF Init, DeferredToLower, Leaving, OnAir, Off
<1>2. TypeOK /\ DeferredToLower /\ [Next]_vars => DeferredToLower'
  BY DeferredStep
<1> QED
  BY <1>1, <1>2, TypeCorrect, PTL DEF Spec

\* However many servers contend and however late they act, abdication alone
\* never leaves the network without a server (tickServer).
THEOREM ServiceKept == Spec => AbdicationKeepsService
<1> DEFINE Kept == \A n \in OnAir :
             (n \notin OnAir' /\ node'[n].role = "JOINING" /\ n \notin orphaned) => OnAir' # {}
<1>1. ASSUME TypeOK, DeferredToLower, [Next]_vars
      PROVE  [Kept]_vars
  <2> SUFFICES ASSUME NEW n \in OnAir, n \notin OnAir', node'[n].role = "JOINING",
                      n \notin orphaned
               PROVE  OnAir' # {}
    BY DEF vars
  <2>1. n \in Node
    BY DEF OnAir
  <2>2. ServerAbdicate(n)
    <3>1. ~SameServers
      BY DEF SameServers
    <3>2. ASSUME NEW k \in Node
          PROVE  ~(WaitStep(k) \/ RadioStep(k) \/ Boot(k) \/ CandidatePromote(k)
                   \/ ServerScan(k) \/ ServerKeep(k))
      BY <1>1, <3>1, <3>2, WaitQuiet, RadioQuiet, BootQuiet, PromoteEffect, ScanEffect,
         KeepEffect
    <3>3. ASSUME NEW k \in Node, PowerLoss(k)
          PROVE  FALSE
      BY <1>1, <2>1, <3>3, PowerEffect
    <3>4. ~Tick /\ ~UNCHANGED vars
      BY <1>1, <2>1, TickEffect DEF OnAir, vars
    <3>5. ASSUME NEW k \in Node, ServerAbdicate(k)
          PROVE  k = n
      BY <1>1, <3>5, AbdicateEffect
    <3> QED
      BY <1>1, <3>2, <3>3, <3>4, <3>5 DEF Next, LoopStep, WaitStep
  <2>3. n \in Leaving /\ OnAir' = OnAir \ {n}
    BY <1>1, <2>1, <2>2, AbdicateEffect
  <2>4. PICK m \in OnAir : m < n
    BY <1>1, <2>3 DEF DeferredToLower
  <2>5. m # n
    BY <2>1, <2>4, NodeAssumption, SMT
  <2> QED
    BY <2>3, <2>4, <2>5
<1> QED
  BY <1>1, TypeCorrect, Deferred, PTL DEF Spec, AbdicationKeepsService

-------------------------------------------------------------------------------
(* The split brain is bounded, and no established server is contested. *)

SplitInv ==
  BannerFits /\ YoungNotScanned /\ GuardIsFresh /\ HigherWillLeave /\ UnheardMissed

\* The arithmetic facts about one node's state.
LEMMA Numbers ==
  ASSUME TypeOK, NEW k \in Node
  PROVE  /\ node[k].roleAge \in Nat /\ node[k].scanAge \in Nat /\ node[k].busy \in Nat
         /\ node[k].lag \in Nat /\ node[k].lag <= ScanLag
         /\ node[k].roleAge <= MaxAge /\ node[k].scanAge <= MaxAge
         /\ missed \in Nat /\ k \in Nat
BY Constants, NodeAssumption, SMT DEF TypeOK, IsNodeState

LEMMA First ==
  /\ FirstScan \in Nat /\ ServerScanInterval <= FirstScan /\ Announce <= FirstScan
  /\ FirstScan < AbdicationWindow /\ ScanLag < ServerScanInterval
  /\ FirstScan + ScanLag + 1 <= MaxAge
BY Constants, ScanAssumption, SMT DEF FirstScan

LEMMA QuietSplit ==
  ASSUME TypeOK, SplitInv, SameServers, SameGuards, MissesCounted
  PROVE  SplitInv'
<1>1. UnheardMissed'
  <2>1. missed' = 0 => missed = 0
    BY Constants, SMT DEF TypeOK, MissesCounted
  <2> QED
    BY <2>1 DEF SplitInv, UnheardMissed, MissesCounted
<1>2. BannerFits' /\ YoungNotScanned'
  BY DEF SplitInv, SameServers, BannerFits, YoungNotScanned, NotYetScanned, OnAir
<1>3. GuardIsFresh'
  BY DEF SplitInv, SameServers, SameGuards, GuardIsFresh
<1>4. HigherWillLeave'
  BY DEF SplitInv, SameServers, HigherWillLeave, NotYetScanned, Unaware
<1> QED
  BY <1>1, <1>2, <1>3, <1>4 DEF SplitInv

LEMMA PromoteSplit ==
  ASSUME TypeOK, SplitInv, NEW n \in Node, CandidatePromote(n)
  PROVE  SplitInv'
<1>1. /\ n \notin OnAir /\ OnAir' = OnAir \cup {n}
      /\ \A k \in Node \ {n} : node'[k] = node[k]
      /\ node'[n].roleAge = 0 /\ node'[n].scanAge = 0 /\ node'[n].busy = Announce
      /\ node'[n].scan = "none" /\ node'[n].heard = "nothing"
      /\ missed' = missed /\ unheard' = unheard
  BY PromoteEffect
<1>2. OnAir \subseteq Node \ {n}
  BY <1>1 DEF OnAir
<1>3. BannerFits'
  BY <1>1, <1>2, Constants, SMT DEF SplitInv, BannerFits
<1>4. YoungNotScanned'
  BY <1>1, <1>2 DEF SplitInv, YoungNotScanned, NotYetScanned
<1>5. GuardIsFresh'
  <2> SUFFICES ASSUME NEW k \in Node, node'[k].scan = "guard",
                      node'[k].heard = "nothing", NEW m \in OnAir'
               PROVE  node'[m].roleAge <= node'[k].lag \/ <<k, m>> \in unheard'
    BY <1>1 DEF GuardIsFresh
  <2>1. k # n /\ node'[k] = node[k]
    BY <1>1
  <2>2. node[k].lag \in Nat
    BY Numbers
  <2>3. CASE m = n
    BY <1>1, <2>1, <2>2, <2>3, SMT
  <2>4. CASE m # n
    BY <1>1, <1>2, <2>1, <2>4 DEF SplitInv, GuardIsFresh
  <2> QED
    BY <2>3, <2>4
<1>6. HigherWillLeave'
  <2> SUFFICES ASSUME NEW p \in OnAir', NEW q \in OnAir', p < q
               PROVE  \/ NotYetScanned(q)' /\ node'[q].roleAge <= FirstScan
                      \/ /\ node'[q].scan = "poll" /\ node'[q].heard = "lower"
                         /\ node'[q].roleAge <= FirstScan + node'[q].lag
                      \/ Unaware(p, q)'
    BY <1>1 DEF HigherWillLeave
  <2>1. CASE q = n
    BY <1>1, <2>1, First, SMT DEF NotYetScanned
  <2>2. CASE q # n /\ p # n
    BY <1>1, <1>2, <2>2 DEF SplitInv, HigherWillLeave, NotYetScanned, Unaware
  <2>3. CASE q # n /\ p = n
    <3>1. q \in OnAir /\ q \in Node /\ node'[q] = node[q]
      BY <1>1, <1>2, <2>3
    <3>2. node[q].roleAge <= node[n].lag \/ <<n, q>> \in unheard
      BY <3>1 DEF SplitInv, GuardIsFresh, CandidatePromote
    <3>3. CASE node[q].roleAge <= node[n].lag
      <4>1. node[q].roleAge < ServerScanInterval
        BY <3>1, <3>3, Numbers, First, Constants, SMT
      <4>2. NotYetScanned(q)
        BY <3>1, <4>1 DEF SplitInv, YoungNotScanned
      <4> QED
        BY <3>1, <4>1, <4>2, Numbers, First, Constants, SMT DEF NotYetScanned
    <3>4. CASE <<n, q>> \in unheard
      BY <1>1, <2>3, <3>4 DEF Unaware
    <3> QED
      BY <3>2, <3>3, <3>4
  <2> QED
    BY <2>1, <2>2, <2>3
<1>7. UnheardMissed'
  BY <1>1 DEF SplitInv, UnheardMissed
<1> QED
  BY <1>3, <1>4, <1>5, <1>6, <1>7 DEF SplitInv

LEMMA ScanSplit ==
  ASSUME TypeOK, SplitInv, NEW n \in Node, ServerScan(n)
  PROVE  SplitInv'
<1>1. /\ n \in OnAir /\ OnAir' = OnAir
      /\ \A k \in Node \ {n} : node'[k] = node[k]
      /\ node'[n].roleAge = node[n].roleAge /\ node'[n].busy = node[n].busy
      /\ node'[n].scan = "poll" /\ node'[n].lag = 0
      /\ node'[n].heard = "lower" \/ \A m \in OnAir : m < n => <<n, m>> \in unheard'
      /\ unheard \subseteq unheard' /\ MissesCounted
  BY ScanEffect
<1>2. OnAir \subseteq Node
  BY DEF OnAir
<1>3. node[n].scan = "none" /\ ServerScanInterval <= node[n].scanAge
  BY DEF ServerScan, ServerScanDue, Runs
<1>4. BannerFits'
  BY <1>1, <1>2 DEF SplitInv, BannerFits
<1>5. YoungNotScanned'
  <2>1. ~(node[n].roleAge < ServerScanInterval)
    BY <1>1, <1>3, Numbers, Constants, SMT DEF SplitInv, YoungNotScanned, NotYetScanned
  <2> QED
    BY <1>1, <1>2, <2>1 DEF SplitInv, YoungNotScanned, NotYetScanned
<1>6. GuardIsFresh'
  BY <1>1, <1>2 DEF SplitInv, GuardIsFresh
<1>7. HigherWillLeave'
  <2> SUFFICES ASSUME NEW p \in OnAir, NEW q \in OnAir, p < q
               PROVE  \/ NotYetScanned(q)' /\ node'[q].roleAge <= FirstScan
                      \/ /\ node'[q].scan = "poll" /\ node'[q].heard = "lower"
                         /\ node'[q].roleAge <= FirstScan + node'[q].lag
                      \/ Unaware(p, q)'
    BY <1>1 DEF HigherWillLeave
  <2>1. \/ NotYetScanned(q) /\ node[q].roleAge <= FirstScan
        \/ /\ node[q].scan = "poll" /\ node[q].heard = "lower"
           /\ node[q].roleAge <= FirstScan + node[q].lag
        \/ Unaware(p, q)
    BY <1>1 DEF SplitInv, HigherWillLeave
  <2>2. CASE q = n
    <3>1. CASE Unaware(p, q)
      BY <1>1, <3>1 DEF Unaware
    <3>2. CASE node'[n].heard = "lower" /\ ~Unaware(p, q)
      <4>1. node[n].roleAge <= FirstScan
        BY <1>3, <2>1, <2>2, <3>2
      <4> QED
        BY <1>1, <2>2, <3>2, <4>1, Numbers, First, SMT
    <3>3. CASE node'[n].heard # "lower"
      BY <1>1, <2>2, <3>3 DEF Unaware
    <3> QED
      BY <3>1, <3>2, <3>3
  <2>3. CASE q # n
    BY <1>1, <1>2, <2>1, <2>3 DEF NotYetScanned, Unaware
  <2> QED
    BY <2>2, <2>3
<1>8. UnheardMissed'
  <2>1. missed' = 0 => missed = 0
    BY <1>1, Constants, SMT DEF TypeOK, MissesCounted
  <2> QED
    BY <1>1, <2>1 DEF SplitInv, UnheardMissed, MissesCounted
<1> QED
  BY <1>4, <1>5, <1>6, <1>7, <1>8 DEF SplitInv

LEMMA KeepSplit ==
  ASSUME TypeOK, SplitInv, NEW n \in Node, ServerKeep(n)
  PROVE  SplitInv'
<1>1. /\ n \in OnAir /\ OnAir' = OnAir
      /\ node[n].scan = "poll" /\ node[n].heard # "lower"
      /\ \A k \in Node \ {n} : node'[k] = node[k]
      /\ node'[n].roleAge = node[n].roleAge /\ node'[n].busy = node[n].busy
      /\ node'[n].scan = "none"
      /\ missed' = missed /\ unheard' = unheard
  BY KeepEffect
<1>2. OnAir \subseteq Node
  BY DEF OnAir
<1>3. BannerFits'
  BY <1>1, <1>2 DEF SplitInv, BannerFits
<1>4. YoungNotScanned'
  <2>1. ~(node[n].roleAge < ServerScanInterval)
    BY <1>1 DEF SplitInv, YoungNotScanned, NotYetScanned
  <2> QED
    BY <1>1, <1>2, <2>1 DEF SplitInv, YoungNotScanned, NotYetScanned
<1>5. GuardIsFresh'
  BY <1>1, <1>2 DEF SplitInv, GuardIsFresh
<1>6. HigherWillLeave'
  <2>1. \A p \in OnAir : p < n => Unaware(p, n)
    BY <1>1 DEF SplitInv, HigherWillLeave, NotYetScanned
  <2> QED
    BY <1>1, <1>2, <2>1 DEF SplitInv, HigherWillLeave, NotYetScanned, Unaware
<1>7. UnheardMissed'
  BY <1>1 DEF SplitInv, UnheardMissed
<1> QED
  BY <1>3, <1>4, <1>5, <1>6, <1>7 DEF SplitInv

\* A server that leaves the air, by abdication or power loss.
LEMMA LeaveSplit ==
  ASSUME TypeOK, SplitInv, NEW n \in Node, OnAir' = OnAir \ {n},
         \A k \in Node \ {n} : node'[k] = node[k],
         node'[n].scan = "none", missed' = missed, unheard' = Without(n)
  PROVE  SplitInv'
<1>1. OnAir' \subseteq Node \ {n}
  BY DEF OnAir
<1>2. BannerFits' /\ YoungNotScanned'
  BY <1>1 DEF SplitInv, BannerFits, YoungNotScanned, NotYetScanned
<1>3. \A k \in Node \ {n}, m \in OnAir' : <<k, m>> \in unheard => <<k, m>> \in unheard'
  BY <1>1, WithoutPair
<1>4. GuardIsFresh'
  BY <1>1, <1>3 DEF SplitInv, GuardIsFresh
<1>5. HigherWillLeave'
  BY <1>1, <1>3 DEF SplitInv, HigherWillLeave, NotYetScanned, Unaware
<1>6. UnheardMissed'
  BY DEF SplitInv, UnheardMissed, Without
<1> QED
  BY <1>2, <1>4, <1>5, <1>6 DEF SplitInv

LEMMA TickSplit ==
  ASSUME TypeOK, SplitInv, Tick
  PROVE  SplitInv'
<1>1. ASSUME NEW k \in Node
      PROVE  /\ ~Due(k) /\ missed' = missed
             /\ node'[k].role = node[k].role
             /\ node'[k].scan = node[k].scan /\ node'[k].heard = node[k].heard
             /\ node'[k].busy = Sooner(node[k].busy)
             /\ node'[k].lag = IF node[k].scan # "none" THEN node[k].lag + 1 ELSE node[k].lag
             /\ node[k].role = "SERVER" => /\ node'[k].roleAge = Older(node[k].roleAge)
                                          /\ node'[k].scanAge = Older(node[k].scanAge)
  BY TickEffect
<1>2. OnAir' = OnAir /\ OnAir \subseteq Node
  BY <1>1 DEF OnAir
<1>3. missed' = missed /\ unheard' = unheard
  BY DEF Tick
<1>4. ASSUME NEW q \in OnAir
      PROVE  /\ node'[q].roleAge = Older(node[q].roleAge)
             /\ node'[q].scanAge = Older(node[q].scanAge)
             /\ node'[q].roleAge <= node[q].roleAge + 1
             /\ node[q].roleAge <= node'[q].roleAge
             /\ q \in Node
  <2>1. q \in Node /\ node[q].role = "SERVER"
    BY DEF OnAir
  <2> QED
    BY <1>1, <2>1, Numbers, Constants, SMT DEF Older
<1>5. BannerFits'
  <2> SUFFICES ASSUME NEW q \in OnAir, node'[q].busy > 0
               PROVE  node'[q].roleAge + node'[q].busy <= Announce
    BY <1>2 DEF BannerFits
  <2>1. node[q].busy > 0 /\ node'[q].busy = node[q].busy - 1
    BY <1>1, <1>4, Numbers, SMT DEF Sooner
  <2>2. node[q].roleAge + node[q].busy <= Announce
    BY <2>1 DEF SplitInv, BannerFits
  <2> QED
    BY <1>4, <2>1, <2>2, Numbers, Constants, SMT DEF Older
<1>6. YoungNotScanned'
  <2> SUFFICES ASSUME NEW q \in OnAir, node'[q].roleAge < ServerScanInterval
               PROVE  NotYetScanned(q)'
    BY <1>2 DEF YoungNotScanned
  <2>1. node[q].roleAge < ServerScanInterval
    BY <1>4, Numbers, Constants, SMT DEF Older
  <2>2. NotYetScanned(q)
    BY <2>1 DEF SplitInv, YoungNotScanned
  <2> QED
    BY <1>1, <1>4, <2>2 DEF NotYetScanned
<1>7. GuardIsFresh'
  <2> SUFFICES ASSUME NEW k \in Node, node'[k].scan = "guard",
                      node'[k].heard = "nothing", NEW m \in OnAir
               PROVE  node'[m].roleAge <= node'[k].lag \/ <<k, m>> \in unheard'
    BY <1>2, <1>3 DEF GuardIsFresh
  <2>1. node[k].scan = "guard" /\ node[k].heard = "nothing" /\ node'[k].lag = node[k].lag + 1
    BY <1>1
  <2>2. node[m].roleAge <= node[k].lag \/ <<k, m>> \in unheard
    BY <2>1 DEF SplitInv, GuardIsFresh
  <2>3. CASE node[m].roleAge <= node[k].lag
    BY <1>4, <2>1, <2>3, Numbers, Constants, SMT DEF Older
  <2> QED
    BY <1>3, <2>2, <2>3
<1>8. HigherWillLeave'
  <2> SUFFICES ASSUME NEW p \in OnAir, NEW q \in OnAir, p < q
               PROVE  \/ NotYetScanned(q)' /\ node'[q].roleAge <= FirstScan
                      \/ /\ node'[q].scan = "poll" /\ node'[q].heard = "lower"
                         /\ node'[q].roleAge <= FirstScan + node'[q].lag
                      \/ Unaware(p, q)'
    BY <1>2, <1>3 DEF HigherWillLeave
  <2>1. \/ NotYetScanned(q) /\ node[q].roleAge <= FirstScan
        \/ /\ node[q].scan = "poll" /\ node[q].heard = "lower"
           /\ node[q].roleAge <= FirstScan + node[q].lag
        \/ Unaware(p, q)
    BY DEF SplitInv, HigherWillLeave
  <2>2. CASE NotYetScanned(q) /\ node[q].roleAge <= FirstScan
    <3>1. NotYetScanned(q)'
      BY <1>1, <1>4, <2>2 DEF NotYetScanned
    <3>2. node[q].roleAge # FirstScan
      <4> SUFFICES ASSUME node[q].roleAge = FirstScan PROVE ServerScanDue(q)
        BY <1>1, <1>4 DEF Due
      <4>1. node[q].busy = 0
        BY <1>4, Numbers, First, Constants, SMT DEF SplitInv, BannerFits
      <4> QED
        BY <1>4, <2>2, <4>1, First, Constants, Numbers, SMT
           DEF ServerScanDue, Runs, NotYetScanned, OnAir
    <3>3. node'[q].roleAge <= FirstScan
      BY <1>4, <2>2, <3>2, Numbers, First, Constants, SMT DEF Older
    <3> QED
      BY <3>1, <3>3
  <2>3. CASE node[q].scan = "poll" /\ node[q].heard = "lower"
             /\ node[q].roleAge <= FirstScan + node[q].lag
    <3>1. node'[q].scan = "poll" /\ node'[q].heard = "lower" /\ node'[q].lag = node[q].lag + 1
      BY <1>1, <1>4, <2>3
    <3> QED
      BY <1>4, <2>3, <3>1, Numbers, First, Constants, SMT DEF Older
  <2> QED
    BY <1>3, <2>1, <2>2, <2>3 DEF Unaware
<1>9. UnheardMissed'
  BY <1>3 DEF SplitInv, UnheardMissed
<1> QED
  BY <1>5, <1>6, <1>7, <1>8, <1>9 DEF SplitInv

LEMMA SplitStep ==
  ASSUME TypeOK, SplitInv, [Next]_vars
  PROVE  SplitInv'
<1>1. ASSUME NEW n \in Node, WaitStep(n) \/ RadioStep(n) \/ Boot(n)
      PROVE  SplitInv'
  <2>1. missed \in Nat
    BY Constants, SMT DEF TypeOK
  <2>2. SameServers /\ SameGuards /\ MissesCounted
    BY <1>1, <2>1, WaitQuiet, RadioQuiet, BootQuiet, SMT DEF MissesCounted
  <2> QED
    BY <2>2, QuietSplit
<1>2. ASSUME NEW n \in Node, CandidatePromote(n) \/ ServerScan(n) \/ ServerKeep(n)
      PROVE  SplitInv'
  BY <1>2, PromoteSplit, ScanSplit, KeepSplit
<1>3. ASSUME NEW n \in Node, ServerAbdicate(n) \/ PowerLoss(n)
      PROVE  SplitInv'
  <2>1. /\ OnAir' = OnAir \ {n} /\ \A k \in Node \ {n} : node'[k] = node[k]
        /\ node'[n].scan = "none" /\ missed' = missed /\ unheard' = Without(n)
    BY <1>3, AbdicateEffect, PowerEffect
  <2> QED
    BY <2>1, LeaveSplit
<1>4. CASE Tick
  BY <1>4, TickSplit
<1>5. CASE UNCHANGED vars
  BY <1>5 DEF vars, SplitInv, BannerFits, YoungNotScanned, NotYetScanned, GuardIsFresh,
              HigherWillLeave, UnheardMissed, Unaware, OnAir
<1> QED
  BY <1>1, <1>2, <1>3, <1>4, <1>5 DEF Next, LoopStep, WaitStep

\* The inductive invariant holds: a server younger than the scan interval has not
\* scanned, a silent guard scan dates from before every server on the air that it
\* did not miss, and the higher of two servers awaits its first scan or has heard
\* the lower, unless one of the two has missed the other.
THEOREM Inductive == Spec => []IInv
<1>1. Init => SplitInv
  BY SMT DEF Init, SplitInv, BannerFits, YoungNotScanned, GuardIsFresh, HigherWillLeave,
             UnheardMissed, OnAir, Off
<1>2. TypeOK /\ SplitInv /\ [Next]_vars => SplitInv'
  BY SplitStep
<1>3. Spec => []SplitInv
  BY <1>1, <1>2, TypeCorrect, PTL DEF Spec
<1>4. TypeOK /\ SplitInv => IInv
  BY DEF IInv, SplitInv
<1> QED
  BY <1>3, <1>4, TypeCorrect, PTL

\* Of two servers the higher is gone one scan interval (or one role banner) and
\* one scan after its promotion, unless one of these two missed the other
\* (tickServer).
THEOREM SplitBrain == Spec => []SplitBrainBounded
<1>1. ASSUME IInv PROVE SplitBrainBounded
  <2> SUFFICES ASSUME NEW p \in OnAir, NEW q \in OnAir, p < q, ~Unaware(p, q)
               PROVE  node[q].roleAge <= FirstScan + ScanLag
    BY DEF SplitBrainBounded
  <2>1. TypeOK /\ q \in Node
    BY <1>1 DEF IInv, OnAir
  <2>2. \/ node[q].roleAge <= FirstScan
        \/ node[q].roleAge <= FirstScan + node[q].lag
    BY <1>1 DEF IInv, HigherWillLeave
  <2> QED
    BY <2>1, <2>2, Numbers, First, Constants, SMT
<1> QED
  BY <1>1, Inductive, PTL

\* Nobody claims the SSID against a server that came up before its guard scan and
\* that this scan did not miss: there is no reclaim, whatever the ranks
\* (tickCandidate).
THEOREM NoReclaim == Spec => EstablishedNotContested
<1> DEFINE Fresh == \A n \in Node : n \in OnAir' \ OnAir =>
             \A m \in OnAir : node[m].roleAge <= ScanLag \/ <<n, m>> \in unheard
<1>1. ASSUME IInv, [Next]_vars PROVE [Fresh]_vars
  <2> SUFFICES ASSUME NEW n \in Node, n \in OnAir', n \notin OnAir, NEW m \in OnAir,
                      <<n, m>> \notin unheard
               PROVE  node[m].roleAge <= ScanLag
    OBVIOUS
  <2>1. TypeOK /\ m \in Node
    BY <1>1 DEF IInv, OnAir
  <2>2. CandidatePromote(n)
    <3>1. ~SameServers
      BY DEF SameServers
    <3>2. ASSUME NEW k \in Node
          PROVE  ~(WaitStep(k) \/ RadioStep(k) \/ Boot(k) \/ ServerScan(k) \/ ServerKeep(k)
                   \/ ServerAbdicate(k) \/ PowerLoss(k))
      BY <2>1, <3>1, WaitQuiet, RadioQuiet, BootQuiet, ScanEffect, KeepEffect,
         AbdicateEffect, PowerEffect
    <3>3. ~Tick /\ ~UNCHANGED vars
      BY <2>1, TickEffect DEF OnAir, vars
    <3>4. ASSUME NEW k \in Node, CandidatePromote(k)
          PROVE  k = n
      BY <2>1, <3>4, PromoteEffect
    <3> QED
      BY <1>1, <3>2, <3>3, <3>4 DEF Next, LoopStep, WaitStep
  <2>3. node[m].roleAge <= node[n].lag
    BY <1>1, <2>2 DEF IInv, GuardIsFresh, CandidatePromote
  <2> QED
    BY <2>1, <2>3, Numbers, Constants, SMT
<1> QED
  BY <1>1, Inductive, PTL DEF Spec, EstablishedNotContested
-------------------------------------------------------------------------------
(* The refinement. *)

Powered == {n \in Node : node[n].role # "OFF"}
Reign == [n \in OnAir |-> node[n].roleAge]

\* Only a server can have lost the server it counts on.
OrphansServe == orphaned \subseteq OnAir

LEMMA OrphansStep ==
  ASSUME TypeOK, OrphansServe, [Next]_vars
  PROVE  OrphansServe'
<1>1. ASSUME NEW n \in Node, WaitStep(n) \/ RadioStep(n) \/ Boot(n)
      PROVE  OrphansServe'
  BY <1>1, WaitQuiet, RadioQuiet, BootQuiet DEF OrphansServe, SameServers
<1>2. ASSUME NEW n \in Node, CandidatePromote(n) \/ ServerScan(n) \/ ServerKeep(n)
      PROVE  OrphansServe'
  BY <1>2, PromoteEffect, ScanEffect, KeepEffect DEF OrphansServe
<1>3. ASSUME NEW n \in Node, ServerAbdicate(n) \/ PowerLoss(n)
      PROVE  OrphansServe'
  BY <1>3, AbdicateEffect, PowerEffect DEF OrphansServe, Leaving
<1>4. CASE Tick
  BY <1>4, TickEffect DEF OrphansServe, OnAir, Tick
<1>5. CASE UNCHANGED vars
  BY <1>5 DEF vars, OrphansServe, OnAir
<1> QED
  BY <1>1, <1>2, <1>3, <1>4, <1>5 DEF Next, LoopStep, WaitStep

LEMMA Orphans == Spec => []OrphansServe
<1>1. Init => OrphansServe
  BY DEF Init, OrphansServe
<1> QED
  BY <1>1, OrphansStep, TypeCorrect, PTL DEF Spec

-------------------------------------------------------------------------------
(* Who has power. *)

LEMMA BecomesPowered ==
  ASSUME TypeOK, NEW n \in Node, NEW t, node' = [node EXCEPT ![n] = t],
         node[n].role # "OFF", t.role # "OFF"
  PROVE  Powered' = Powered
BY SMT DEF TypeOK, Powered

LEMMA LoopPowered ==
  ASSUME TypeOK, NEW n \in Node, LoopStep(n) \/ RadioStep(n)
  PROVE  Powered' = Powered
<1> DEFINE s == node[n]
<1>1. DOMAIN s = Fields
  BY DEF TypeOK, IsNodeState
<1>2. /\ EnterClient(s).role = "CLIENT" /\ EnterJoining(s).role = "JOINING"
      /\ EnterCandidate(s).role = "CANDIDATE" /\ EnterServer(s).role = "SERVER"
      /\ Idle(s).role = s.role
      /\ \A a : [s EXCEPT !.link = a].role = s.role
      /\ [s EXCEPT !.roleAge = 0].role = s.role
      /\ [Idle(s) EXCEPT !.roleAge = 0].role = s.role
      /\ [EnterJoining(s) EXCEPT !.cooling = PromotionCooldown].role = "JOINING"
      /\ \A w : [Idle(s) EXCEPT !.absent = TRUE, !.promoteIn = w].role = s.role
  BY <1>1, SMT DEF EnterClient, EnterJoining, EnterCandidate, EnterServer, Idle, Fields
<1>3. ASSUME NEW t, Becomes(n, t), s.role # "OFF", t.role # "OFF"
      PROVE  Powered' = Powered
  BY <1>3, BecomesPowered DEF Becomes
<1>4. ASSUME NEW kind, NEW since, StartScan(n, kind, since), s.role # "OFF"
      PROVE  Powered' = Powered
  <2> PICK A \in SUBSET (OnAir \ {n}) :
        node' = [node EXCEPT ![n] = [@ EXCEPT !.scan = kind, !.heard = Verdict(n, A),
                                              !.lag = 0, !.scanAge = since]]
    BY <1>4 DEF StartScan
  <2> DEFINE t == [s EXCEPT !.scan = kind, !.heard = Verdict(n, A), !.lag = 0,
                            !.scanAge = since]
  <2>1. t.role = s.role
    BY <1>1, SMT DEF Fields
  <2>2. node' = [node EXCEPT ![n] = t]
    OBVIOUS
  <2> HIDE DEF t
  <2> QED
    BY <1>4, <2>1, <2>2, BecomesPowered
<1>5. CASE \/ JoinConnected(n) \/ JoinContest(n) \/ JoinRetry(n) \/ CandidateYield(n)
           \/ CandidateWait(n) \/ CandidatePromote(n) \/ ServerKeep(n) \/ ClientLost(n)
           \/ ClientLinked(n)
  BY <1>2, <1>3, <1>5
     DEF JoinConnected, JoinContest, JoinRetry, CandidateYield, CandidateWait,
         CandidatePromote, ServerKeep, ClientLost, ClientLinked
<1>6. CASE CandidateArm(n)
  <2> PICK w : Becomes(n, [Idle(s) EXCEPT !.absent = TRUE, !.promoteIn = w])
    BY <1>6 DEF CandidateArm
  <2> QED
    BY <1>2, <1>3, <1>6 DEF CandidateArm
<1>7. CASE JoinScan(n) \/ CandidateScan(n) \/ CandidateGuard(n) \/ ServerScan(n)
  BY <1>4, <1>7 DEF JoinScan, CandidateScan, CandidateGuard, ServerScan, ServerScanDue
<1>8. CASE ServerAbdicate(n)
  BY <1>2, <1>8, BecomesPowered DEF ServerAbdicate
<1>9. CASE ClientGivesUp(n)
  BY <1>2, <1>9, BecomesPowered DEF ClientGivesUp
<1>10. CASE Associate(n) \/ LinkGone(n) \/ LinkBlip(n)
  <2>1. PICK a : node' = [node EXCEPT ![n] = [s EXCEPT !.link = a]]
    <3>1. CASE Associate(n)
      BY <3>1 DEF Associate, Becomes
    <3>2. CASE LinkGone(n)
      BY <3>2 DEF LinkGone, Becomes
    <3>3. CASE LinkBlip(n)
      BY <3>3 DEF LinkBlip
    <3> QED
      BY <1>10, <3>1, <3>2, <3>3
  <2>2. [s EXCEPT !.link = a].role = s.role
    BY <1>2
  <2>3. ASSUME NEW k \in Node PROVE node'[k].role = node[k].role
    BY <2>1, <2>2, SMT DEF TypeOK
  <2> QED
    BY <2>3 DEF Powered
<1> QED
  BY <1>5, <1>6, <1>7, <1>8, <1>9, <1>10 DEF LoopStep, RadioStep

-------------------------------------------------------------------------------
(* Every step of Failover is a step of Leadership, or none. *)

LEMMA ReignSame ==
  ASSUME SameServers
  PROVE  Reign' = Reign
BY DEF SameServers, Reign

LEMMA LeadVars ==
  ASSUME Powered' = Powered, Reign' = Reign, (missed = 0)' = (missed = 0), orphaned' = orphaned
  PROVE  UNCHANGED Lead!vars
BY DEF Lead!vars, Powered, Reign

LEMMA LeadQuiet ==
  ASSUME TypeOK, NEW n \in Node, WaitStep(n) \/ RadioStep(n)
  PROVE  [Lead!Next]_(Lead!vars)
<1>1. SameServers /\ orphaned' = orphaned /\ missed' \in Nat /\ missed <= missed'
  <2>1. missed \in Nat
    BY Constants, SMT DEF TypeOK
  <2> QED
    BY <2>1, WaitQuiet, RadioQuiet, SMT DEF MissesCounted
<1>2. Powered' = Powered
  BY LoopPowered DEF WaitStep, LoopStep
<1>3. Reign' = Reign
  BY <1>1, ReignSame
<1>4. CASE (missed = 0)' = (missed = 0)
  BY <1>1, <1>2, <1>3, <1>4, LeadVars
<1>5. CASE (missed = 0)' # (missed = 0)
  <2>1. missed = 0 /\ ~(missed' = 0)
    BY <1>1, <1>5, Constants, SMT DEF TypeOK
  <2>2. Lead!Degrade
    BY <1>1, <1>2, <1>3, <2>1 DEF Lead!Degrade, Powered, Reign
  <2> QED
    BY <2>2 DEF Lead!Next
<1> QED
  BY <1>4, <1>5

LEMMA LeadScan ==
  ASSUME TypeOK, NEW n \in Node, ServerScan(n) \/ ServerKeep(n)
  PROVE  [Lead!Next]_(Lead!vars)
<1>1. missed' \in Nat /\ missed \in Nat /\ (missed' = 0 => missed = 0)
  <2>1. missed' = missed \/ MissesCounted
    BY ScanEffect, KeepEffect
  <2>2. TypeOK'
    BY LoopType DEF LoopStep
  <2> QED
    BY <2>1, <2>2, Constants, SMT DEF TypeOK, MissesCounted
<1>2. Powered' = Powered
  BY LoopPowered DEF LoopStep
<1>3. Reign' = Reign /\ orphaned' = orphaned
  <2>1. OnAir' = OnAir /\ orphaned' = orphaned /\ OnAir \subseteq Node
    BY ScanEffect, KeepEffect DEF OnAir
  <2>2. \A k \in OnAir : node'[k].roleAge = node[k].roleAge
    BY <2>1, ScanEffect, KeepEffect
  <2> QED
    BY <2>1, <2>2 DEF Reign
<1>4. CASE (missed = 0)' = (missed = 0)
  BY <1>2, <1>3, <1>4, LeadVars
<1>5. CASE (missed = 0)' # (missed = 0)
  BY <1>1, <1>2, <1>3, <1>5 DEF Lead!Next, Lead!Degrade, Powered, Reign
<1> QED
  BY <1>4, <1>5

LEMMA LeadBoot ==
  ASSUME TypeOK, NEW n \in Node, Boot(n)
  PROVE  Lead!PowerOn(n)
<1> DEFINE cooling == IF SetupTime < PromotionCooldown THEN PromotionCooldown - SetupTime ELSE 0
           t == [Off EXCEPT !.role = "JOINING", !.roleAge = SetupTime, !.cooling = cooling]
<1>1. t.role = "JOINING"
  BY SMT DEF Off
<1>2. node' = [node EXCEPT ![n] = t]
  BY DEF Boot, Becomes
<1> HIDE DEF t
<1>3. Powered' = Powered \cup {n}
  BY <1>1, <1>2, SMT DEF TypeOK, Powered
<1>4. Reign' = Reign /\ missed' = missed /\ orphaned' = orphaned
  BY BootQuiet, ReignSame
<1> QED
  BY <1>3, <1>4 DEF Lead!PowerOn, Powered, Reign

\* A promotion claims the SSID against fresh servers only.
LEMMA LeadPromote ==
  ASSUME TypeOK, GuardIsFresh, UnheardMissed, NEW n \in Node, CandidatePromote(n)
  PROVE  Lead!Claim(n)
<1>1. /\ n \notin OnAir /\ OnAir' = OnAir \cup {n} /\ OnAir \subseteq Node
      /\ \A k \in Node \ {n} : node'[k] = node[k]
      /\ node'[n].roleAge = 0 /\ missed' = missed /\ orphaned' = orphaned
  BY PromoteEffect DEF OnAir
<1>2. node[n].role = "CANDIDATE" /\ node[n].scan = "guard" /\ node[n].heard = "nothing"
  BY DEF CandidatePromote
<1>3. missed = 0 => \A m \in OnAir : node[m].roleAge <= ScanLag
  <2> SUFFICES ASSUME missed = 0, NEW m \in OnAir PROVE node[m].roleAge <= ScanLag
    OBVIOUS
  <2>1. node[m].roleAge <= node[n].lag \/ <<n, m>> \in unheard
    BY <1>2 DEF GuardIsFresh
  <2>2. node[m].roleAge <= node[n].lag
    BY <2>1 DEF UnheardMissed
  <2> QED
    BY <1>1, <2>2, Numbers, Constants, SMT
<1>4. Powered' = Powered
  BY LoopPowered DEF LoopStep
<1>5. DOMAIN Reign = OnAir /\ \A m \in OnAir : Reign[m] = node[m].roleAge
  BY DEF Reign
<1>6. Reign' = [m \in OnAir \cup {n} |-> IF m = n THEN 0 ELSE Reign[m]]
  BY <1>1, <1>5 DEF Reign
<1>7. n \in Powered \ OnAir
  BY <1>1, <1>2 DEF Powered
<1> QED
  BY <1>1, <1>3, <1>4, <1>5, <1>6, <1>7 DEF Lead!Claim, Lead!Serving, Powered, Reign

\* A server that abdicates leaves another one, or is excused.
LEMMA LeadAbdicate ==
  ASSUME TypeOK, DeferredToLower, OrphansServe, NEW n \in Node, ServerAbdicate(n)
  PROVE  Lead!StepDown(n)
<1>1. /\ n \in Leaving /\ OnAir' = OnAir \ {n} /\ Leaving \subseteq OnAir /\ OnAir \subseteq Node
      /\ \A k \in Node \ {n} : node'[k] = node[k]
      /\ missed' = missed
      /\ orphaned' = (IF n \in orphaned THEN orphaned \cup Leaving ELSE orphaned) \ {n}
  BY AbdicateEffect DEF Leaving, OnAir
<1>2. DOMAIN Reign = OnAir /\ Reign' = [m \in OnAir \ {n} |-> Reign[m]]
  BY <1>1 DEF Reign
<1>3. Powered' = Powered
  BY LoopPowered DEF LoopStep
<1>4. IF n \in orphaned THEN orphaned' \subseteq OnAir \ {n}
      ELSE OnAir \ {n} # {} /\ orphaned' = orphaned
  <2>1. CASE n \in orphaned
    BY <1>1, <2>1 DEF OrphansServe
  <2>2. CASE n \notin orphaned
    <3>1. PICK m \in OnAir : m < n
      BY <1>1, <2>2 DEF DeferredToLower
    <3>2. m # n
      BY <1>1, <3>1, NodeAssumption, SMT
    <3> QED
      BY <1>1, <2>2, <3>1, <3>2
  <2> QED
    BY <2>1, <2>2
<1> QED
  BY <1>1, <1>2, <1>3, <1>4 DEF Lead!StepDown, Lead!Leave, Lead!Serving, Powered, Reign

LEMMA LeadPower ==
  ASSUME TypeOK, OrphansServe, NEW n \in Node, PowerLoss(n)
  PROVE  Lead!PowerOff(n)
<1>1. /\ OnAir' = OnAir \ {n} /\ node'[n].role = "OFF" /\ OnAir \subseteq Node
      /\ Leaving \subseteq OnAir
      /\ \A k \in Node \ {n} : node'[k] = node[k]
      /\ missed' = missed
      /\ orphaned' = (IF n \in OnAir THEN orphaned \cup Leaving ELSE orphaned) \ {n}
  BY PowerEffect DEF Leaving, OnAir
<1>2. DOMAIN Reign = OnAir /\ Reign' = [m \in OnAir \ {n} |-> Reign[m]]
  BY <1>1 DEF Reign
<1>3. n \in Powered /\ Powered' = Powered \ {n}
  BY <1>1 DEF Powered, PowerLoss
<1>4. IF n \in OnAir THEN orphaned' \subseteq OnAir \ {n} ELSE orphaned' = orphaned
  BY <1>1 DEF OrphansServe
<1> QED
  BY <1>1, <1>2, <1>3, <1>4 DEF Lead!PowerOff, Lead!Leave, Lead!Serving, Powered, Reign

LEMMA LeadTick ==
  ASSUME TypeOK, UnheardMissed', SplitBrainBounded', Tick
  PROVE  Lead!Tick
<1>1. OnAir' = OnAir /\ Powered' = Powered /\ OnAir \subseteq Node
  BY TickEffect DEF OnAir, Powered
<1>2. missed' = missed /\ orphaned' = orphaned
  BY DEF Tick
<1>3. DOMAIN Reign = OnAir /\ \A m \in OnAir : Reign[m] = node[m].roleAge
  BY DEF Reign
<1>4. DOMAIN Reign' = OnAir /\ \A m \in OnAir : Reign'[m] = node'[m].roleAge
  BY <1>1 DEF Reign
<1>5. \A m \in OnAir : node'[m].roleAge = Older(node[m].roleAge)
  BY <1>1, TickEffect DEF OnAir
<1>6. Reign' = [m \in OnAir |-> IF Reign[m] < MaxAge THEN Reign[m] + 1 ELSE Reign[m]]
  BY <1>1, <1>3, <1>4, <1>5 DEF Older, Reign
<1>7. missed = 0 => \A p, q \in OnAir : p < q => Reign'[q] <= FirstScan + ScanLag
  BY <1>1, <1>2, <1>4 DEF SplitBrainBounded, UnheardMissed, Unaware
<1> QED
  BY <1>1, <1>2, <1>3, <1>6, <1>7 DEF Lead!Tick, Lead!Serving, Powered, Reign

\* The detailed election implements the abstract one: who serves changes only as
\* Leadership allows (WIFI_Loop and every handler it calls).
THEOREM Implements == Spec => Leads
<1>1. Init => Lead!Init
  BY SMT DEF Init, Lead!Init, OnAir, Off
<1>2. ASSUME TypeOK, GuardIsFresh, UnheardMissed, UnheardMissed', DeferredToLower,
             OrphansServe, SplitBrainBounded', [Next]_vars
      PROVE  [Lead!Next]_(Lead!vars)
  <2>1. ASSUME NEW n \in Node, WaitStep(n) \/ RadioStep(n) \/ ServerScan(n) \/ ServerKeep(n)
        PROVE  [Lead!Next]_(Lead!vars)
    BY <1>2, <2>1, LeadQuiet, LeadScan
  <2>2. ASSUME NEW n \in Node, Boot(n) \/ CandidatePromote(n) \/ ServerAbdicate(n) \/ PowerLoss(n)
        PROVE  Lead!Next
    BY <1>2, <2>2, LeadBoot, LeadPromote, LeadAbdicate, LeadPower DEF Lead!Next
  <2>3. CASE Tick
    BY <1>2, <2>3, LeadTick DEF Lead!Next
  <2>4. CASE UNCHANGED vars
    BY <2>4 DEF vars, Lead!vars, OnAir
  <2> QED
    BY <1>2, <2>1, <2>2, <2>3, <2>4 DEF Next, LoopStep, WaitStep
<1>3. IInv => GuardIsFresh /\ UnheardMissed
  BY DEF IInv
<1> QED
  BY <1>1, <1>2, <1>3, TypeCorrect, Inductive, Deferred, SplitBrain, Orphans, PTL
     DEF Spec, Leads, Lead!Spec
===============================================================================
