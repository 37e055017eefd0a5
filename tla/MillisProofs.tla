----------------------------- MODULE MillisProofs -----------------------------
(* The grace period of a promoted server and the wall-clock anchor, for every *)
(* width of millis() and any uptime.                                          *)
EXTENDS Millis, TLAPS

(* The arithmetic of SharedClock, as in TakeoverProofs. *)

LEMMA Word == M \in Int /\ M > 0 /\ Half \in Int /\ M = 2 * Half /\ Half > 0
BY MAssumption, SMT DEF Half

LEMMA Quotient ==
  ASSUME NEW x \in Int
  PROVE  Wrap(x) \in Clock /\ \E k \in Int : x = k * M + Wrap(x)
<1>1. Wrap(x) \in Clock
  BY Word, SMT DEF Wrap, Clock
<1>2. x = (x \div M) * M + Wrap(x) /\ (x \div M) \in Int
  BY Word, SMT DEF Wrap
<1> QED
  BY <1>1, <1>2

LEMMA Remainder ==
  ASSUME NEW x \in Int, NEW k \in Int, NEW r \in Clock, x = k * M + r
  PROVE  Wrap(x) = r
<1>1. PICK j \in Int : x = j * M + Wrap(x)
  BY Quotient
<1>2. Wrap(x) \in Clock
  BY Quotient
<1>3. (k - j) * M = Wrap(x) - r
  BY Word, <1>1, <1>2, SMT DEF Clock
<1>4. k = j
  BY Word, <1>2, <1>3, SMT DEF Clock
<1> QED
  BY Word, <1>1, <1>2, <1>4, SMT DEF Clock

\* A difference of at most half the range is read back with its sign.
LEMMA SignedDifference ==
  ASSUME NEW x \in Int, NEW k \in Int, NEW d \in Int, x = k * M + d,
         -Half <= d, d < Half
  PROVE  Signed(x) = d
<1>1. CASE d >= 0
  <2>1. Wrap(x) = d
    BY Word, <1>1, Remainder, SMT DEF Clock
  <2> QED
    BY Word, <1>1, <2>1, SMT DEF Signed
<1>2. CASE d < 0
  <2>1. x = (k - 1) * M + (d + M)
    BY Word, SMT
  <2>2. d + M \in Clock
    BY Word, <1>2, SMT DEF Clock
  <2>3. Wrap(x) = d + M
    BY <2>1, <2>2, Remainder, SMT
  <2> QED
    BY Word, <1>2, <2>3, SMT DEF Signed
<1> QED
  BY <1>1, <1>2

-------------------------------------------------------------------------------
LEMMA Constants ==
  /\ M \in Int /\ M > 0 /\ Grace \in Nat
  /\ \A wait \in Waits : wait \in Nat
BY MAssumption, MillisAssumption

LEMMA Residue ==
  ASSUME NEW x \in Nat
  PROVE  Wrap(x) \in Nat /\ Wrap(x) <= x /\ Wrap(x) < M /\ x = (x \div M) * M + Wrap(x)
BY Constants, SMT DEF Wrap

\* A server's deadline was computed at since, which is past.
IInv ==
  /\ up \in Nat /\ since \in Nat /\ since <= up
  /\ role = "server" => at = Wrap(Wrap(since) + Grace)

LEMMA GraceInductive == Spec => []IInv
<1>1. Init => IInv
  BY DEF Init, IInv
<1>2. IInv /\ [Next]_vars => IInv'
  <2> SUFFICES ASSUME IInv, [Next]_vars PROVE IInv'
    OBVIOUS
  <2> USE DEF IInv
  <2>1. ASSUME NEW wait \in Waits, Arm(wait) PROVE IInv'
    BY <2>1 DEF Arm
  <2>2. CASE Promote
    BY <2>2 DEF Promote, millis
  <2>3. CASE Rejoin \/ Abdicate
    BY <2>3 DEF Rejoin, Abdicate
  <2>4. ASSUME NEW incoming \in Browser, SetBrowserTime(incoming) PROVE IInv'
    BY <2>4 DEF SetBrowserTime
  <2>5. CASE Tick
    BY <2>5, SMT DEF Tick
  <2>6. CASE UNCHANGED vars
    BY <2>6 DEF vars, wall
  <2> QED
    BY <2>1, <2>2, <2>3, <2>4, <2>5, <2>6 DEF Next
<1> QED
  BY <1>1, <1>2, PTL DEF Spec

LEMMA GraceFollows == IInv => SilentOnlyAfterWrap
<1> SUFFICES ASSUME IInv, Silent, up >= since + Grace PROVE up \div M > since \div M
  BY DEF SilentOnlyAfterWrap
<1> DEFINE turn == up \div M
           then == since \div M
           turnM == turn * M
           thenM == then * M
<1>1. /\ up \in Nat /\ since \in Nat /\ since <= up
      /\ at = Wrap(Wrap(since) + Grace) /\ Wrap(up) < at
  BY DEF IInv, Silent, millis
<1>2. /\ up = turnM + Wrap(up) /\ Wrap(up) \in Nat /\ Wrap(up) < M
      /\ since = thenM + Wrap(since) /\ Wrap(since) \in Nat /\ Wrap(since) < M
  BY <1>1, Residue
<1>3. Wrap(since) + Grace \in Nat /\ at <= Wrap(since) + Grace /\ at \in Nat
  <2>1. Wrap(since) + Grace \in Nat
    BY Constants, <1>2, SMT
  <2> QED
    BY <1>1, <2>1, Residue
<1>4. turn \in Int /\ then \in Int /\ turnM \in Int /\ thenM \in Int
  BY Constants, <1>1, SMT
\* Within one turn the deadline has passed, since it lies at most Grace after since.
<1>5. turnM # thenM
  <2> HIDE DEF turnM, thenM
  <2> QED
    BY Constants, <1>1, <1>2, <1>3, <1>4, SMT
<1>6. turn # then
  BY <1>5
\* The quotient does not decrease while time passes.
<1>7. turn >= then
  BY Constants, <1>1, SMT
<1> QED
  BY <1>4, <1>6, <1>7, SMT

\* A promoted node is silent for its grace period; once the period is over it is
\* silent again only if millis() has wrapped around since the promotion, the only
\* way in which comparing serverReadyAt without modular arithmetic can go wrong
\* (enterServer, serverSequencerLoop).
THEOREM GraceEnds == Spec => []SilentOnlyAfterWrap
BY GraceInductive, GraceFollows, PTL
-------------------------------------------------------------------------------
(* The wall clock. *)

\* The anchor is what a browser told at some moment of the past; what it has told in
\* this tick agrees with the estimate.
AnchorInv ==
  /\ up \in Nat /\ anchored \in Nat /\ anchored <= up
  /\ millisBase = Wrap(anchored)
  /\ epochBase # 0 => \E s \in -Skew .. Skew : epochBase = Epoch(anchored) + s
  /\ AnchorHeals

LEMMA Seconds ==
  /\ Second \in Nat /\ Second > 0 /\ Birth \in Nat /\ Skew \in Nat /\ Skew < Birth
  /\ Tolerance \in Nat
  /\ \A u \in Nat : u \div Second \in Nat /\ Epoch(u) \in Nat /\ Epoch(u) > Skew
<1>1. /\ Second \in Nat /\ Second > 0 /\ Birth \in Nat /\ Skew \in Nat /\ Skew < Birth
      /\ Tolerance \in Nat
  BY MillisAssumption
<1>2. \A u \in Nat : u \div Second \in Nat
  BY <1>1, SMT
<1> QED
  BY <1>1, <1>2, SMT DEF Epoch

\* What has passed since the anchor, or had until it.
LEMMA DeltaIsElapsed ==
  ASSUME AnchorInv, NEW u \in Nat, Near(u)
  PROVE  Delta(Wrap(u)) = u - anchored
<1> DEFINE x == Wrap(u) - millisBase
<1>1. PICK i \in Int : u = i * M + Wrap(u)
  BY Quotient
<1>2. PICK j \in Int : anchored = j * M + Wrap(anchored)
  BY Quotient DEF AnchorInv
<1>3. /\ anchored \in Int /\ millisBase = Wrap(anchored)
      /\ Wrap(u) \in Int /\ Wrap(anchored) \in Int
  BY Quotient, SMT DEF AnchorInv, Clock
<1> DEFINE im == i * M
           jm == j * M
           d == u - anchored
<1>4. im \in Int /\ jm \in Int /\ (j - i) * M = jm - im /\ j - i \in Int
  BY Word, SMT
<1>5. u = im + Wrap(u) /\ anchored = jm + Wrap(anchored)
  BY <1>1, <1>2
<1> HIDE DEF im, jm
<1>6. x = (jm - im) + d /\ d \in Int /\ x \in Int
  BY <1>3, <1>4, <1>5, SMT
<1>7. -Half <= d /\ d < Half
  BY <1>3, Word, SMT DEF Near, Abs
<1> HIDE DEF x, d
<1>8. Signed(x) = d
  BY <1>4, <1>6, <1>7, SignedDifference
<1> QED
  BY <1>8 DEF Delta, x, d

\* Cutting off to whole seconds before or after the difference is taken.
LEMMA CutOff ==
  ASSUME NEW u \in Nat, NEW a \in Nat
  PROVE  /\ Truncated(u - a, Second) \in Int
         /\ Abs((a \div Second + Truncated(u - a, Second)) - u \div Second) <= 1
<1> DEFINE n == IF u < a THEN a - u ELSE u - a
<1>1. /\ n \in Nat
      /\ u < a => u - a < 0 /\ -(u - a) = n /\ a = u + n
      /\ ~(u < a) => ~(u - a < 0) /\ u - a = n /\ u = a + n
  BY SMT
<1> HIDE DEF n
<1>2. ASSUME NEW k \in Nat, NEW m \in Nat
      PROVE  /\ k \div Second + m \div Second <= (k + m) \div Second
             /\ (k + m) \div Second <= k \div Second + m \div Second + 1
  <2> DEFINE p == k \div Second
             q == m \div Second
             r == (k + m) \div Second
             pS == p * Second
             qS == q * Second
             rS == r * Second
  <2>1. /\ p \in Nat /\ q \in Nat /\ r \in Nat
        /\ pS <= k /\ k < pS + Second /\ qS <= m /\ m < qS + Second
        /\ rS <= k + m /\ k + m < rS + Second
        /\ pS \in Nat /\ qS \in Nat /\ rS \in Nat
    BY Seconds, SMT
  <2>2. (p + q) * Second = pS + qS /\ (r + 1) * Second = rS + Second
        /\ (p + q + 2) * Second = pS + qS + 2 * Second
    BY <2>1, Seconds, SMT
  <2> HIDE DEF p, q, r, pS, qS, rS
  <2>3. (p + q) * Second < (r + 1) * Second /\ r * Second < (p + q + 2) * Second
    <3>1. pS + qS < rS + Second /\ rS < pS + qS + 2 * Second
      BY <2>1, Seconds, SMT
    <3> QED
      BY <2>2, <3>1, Seconds, <2>1 DEF rS
  <2>4. \A x, y \in Nat : x * Second < y * Second => x < y
    BY Seconds, SMT
  <2>5. p + q < r + 1 /\ r < p + q + 2
    BY <2>1, <2>3, <2>4, SMT
  <2> QED
    BY <2>1, <2>5, SMT DEF p, q, r
<1>3. n \div Second \in Nat /\ u \div Second \in Nat /\ a \div Second \in Nat
  BY <1>1, Seconds
<1>4. CASE u < a
  <2>1. Truncated(u - a, Second) = -(n \div Second)
    BY <1>1, <1>4 DEF Truncated
  <2>2. /\ u \div Second + n \div Second <= a \div Second
        /\ a \div Second <= u \div Second + n \div Second + 1
    BY <1>1, <1>2, <1>4
  <2> QED
    BY <1>3, <2>1, <2>2, SMT DEF Abs
<1>5. CASE ~(u < a)
  <2>1. Truncated(u - a, Second) = n \div Second
    BY <1>1, <1>5 DEF Truncated
  <2>2. /\ a \div Second + n \div Second <= u \div Second
        /\ u \div Second <= a \div Second + n \div Second + 1
    BY <1>1, <1>2, <1>5
  <2> QED
    BY <1>3, <2>1, <2>2, SMT DEF Abs
<1> QED
  BY <1>4, <1>5

LEMMA AnchorTracks ==
  ASSUME AnchorInv, epochBase # 0, NEW u \in Nat, Near(u)
  PROVE  toEpoch(Wrap(u)) \in Nat /\ Abs(toEpoch(Wrap(u)) - Epoch(u)) <= Skew + 1
<1> DEFINE cut == Truncated(u - anchored, Second)
           then == anchored \div Second
           result == epochBase + cut
<1>1. PICK s \in -Skew .. Skew : epochBase = Epoch(anchored) + s
  BY DEF AnchorInv
<1>2. /\ cut \in Int /\ Abs((then + cut) - u \div Second) <= 1
      /\ then \in Nat /\ u \div Second \in Nat
  BY CutOff, Seconds DEF AnchorInv
<1>3. toEpoch(Wrap(u)) = IF result > 0 THEN result ELSE 0
  BY DeltaIsElapsed DEF toEpoch
<1>4. epochBase = Birth + then + s /\ Epoch(u) = Birth + u \div Second
  BY <1>1 DEF Epoch
<1>5. Epoch(u) \in Nat /\ Epoch(u) > Skew
  BY Seconds
<1> HIDE DEF cut, then
<1>6. result \in Int /\ Abs(result - Epoch(u)) <= Skew + 1
  BY <1>1, <1>2, <1>4, Seconds, SMT DEF Abs
<1> HIDE DEF result
<1> QED
  BY <1>3, <1>5, <1>6, Seconds, SMT DEF Abs

\* What a browser tells is a positive number.
LEMMA Told ==
  ASSUME up \in Nat, NEW incoming \in Browser
  PROVE  /\ incoming \in Nat /\ incoming > 0
         /\ \E s \in -Skew .. Skew : incoming = Epoch(up) + s
<1>1. PICK s \in -Skew .. Skew : incoming = Epoch(up) + s
  BY DEF Browser
<1>2. Epoch(up) \in Nat /\ Epoch(up) > Skew
  BY Seconds
<1> QED
  BY <1>1, <1>2, Seconds, SMT

LEMMA AnchorSets ==
  ASSUME AnchorInv, NEW incoming \in Browser, SetBrowserTime(incoming)
  PROVE  AnchorInv'
<1>1. /\ incoming \in Nat /\ incoming > 0
      /\ \E s \in -Skew .. Skew : incoming = Epoch(up) + s
  BY Told DEF AnchorInv
<1>2. up' = up /\ up \in Nat /\ told' = incoming
  BY DEF SetBrowserTime, AnchorInv
<1>3. CASE /\ epochBase' = incoming /\ millisBase' = millis /\ anchored' = up
  <2>1. /\ anchored' \in Nat /\ anchored' <= up' /\ millisBase' = Wrap(anchored')
        /\ \E s \in -Skew .. Skew : epochBase' = Epoch(anchored') + s
    BY <1>1, <1>2, <1>3, SMT DEF millis
  <2>2. Signed(Wrap(up) - Wrap(up)) = 0
    <3>1. Wrap(up) \in Int
      BY <1>2, Quotient, SMT DEF Clock
    <3>2. Wrap(up) - Wrap(up) = 0 * M + 0 /\ Wrap(up) - Wrap(up) \in Int
      BY <3>1, Word, SMT
    <3>3. -Half <= 0 /\ 0 < Half
      BY Word, SMT
    <3> QED
      BY <3>2, <3>3, SignedDifference
  <2>3. (Delta(millis))' = 0
    BY <1>2, <1>3, <2>2 DEF Delta, millis
  <2>4. Truncated(0, Second) = 0
    BY Seconds, SMT DEF Truncated
  <2>5. (toEpoch(millis))' = incoming
    BY <1>1, <1>3, <2>3, <2>4, SMT DEF toEpoch
  <2>6. AnchorHeals'
    BY <1>1, <1>2, <2>5, Seconds, SMT DEF AnchorHeals, Abs
  <2> QED
    BY <1>2, <2>1, <2>6 DEF AnchorInv
<1>4. CASE /\ epochBase # 0 /\ ~(Abs(incoming - toEpoch(millis)) > Tolerance)
           /\ UNCHANGED <<epochBase, millisBase, anchored>>
  <2>1. (toEpoch(millis))' = toEpoch(millis)
    BY <1>2, <1>4 DEF toEpoch, millis, Delta
  <2>2. toEpoch(millis) \in Int
    <3>1. Wrap(up) \in Int /\ Wrap(anchored) \in Int /\ millisBase = Wrap(anchored)
      BY Quotient, SMT DEF AnchorInv, Clock
    <3>2. Wrap(up) - millisBase \in Int
      BY <3>1, SMT
    <3>3. Delta(millis) \in Int
      <4>1. Wrap(Wrap(up) - millisBase) \in Int
        BY <3>2, Quotient, SMT DEF Clock
      <4> QED
        BY <4>1, Word, SMT DEF Delta, millis, Signed
    <3>4. Truncated(Delta(millis), Second) \in Int
      BY <3>3, Seconds, SMT DEF Truncated
    <3>5. epochBase \in Int
      BY <1>4, Seconds, SMT DEF AnchorInv
    <3> QED
      BY <3>4, <3>5, SMT DEF toEpoch
  <2>3. AnchorHeals'
    BY <1>1, <1>2, <1>4, <2>1, <2>2, Seconds, SMT DEF AnchorHeals, Abs
  <2>4. (\E s \in -Skew .. Skew : epochBase = Epoch(anchored) + s)'
    BY <1>4 DEF AnchorInv, Epoch
  <2> QED
    BY <1>2, <1>4, <2>3, <2>4 DEF AnchorInv
<1> QED
  BY <1>3, <1>4 DEF SetBrowserTime

LEMMA AnchorInductive == Spec => []AnchorInv
<1>1. Init => AnchorInv
  <2>1. Wrap(0) = 0
    BY Word, SMT DEF Wrap
  <2> QED
    BY <2>1, SMT DEF Init, AnchorInv, AnchorHeals
<1>2. AnchorInv /\ [Next]_vars => AnchorInv'
  <2> SUFFICES ASSUME AnchorInv, [Next]_vars PROVE AnchorInv'
    OBVIOUS
  <2>1. CASE UNCHANGED <<up, epochBase, millisBase, anchored, told>>
    BY <2>1 DEF AnchorInv, AnchorHeals, toEpoch, millis, Delta
  <2>2. ASSUME NEW wait \in Waits, Arm(wait) PROVE AnchorInv'
    BY <2>1, <2>2 DEF Arm, wall
  <2>3. CASE Promote \/ Rejoin \/ Abdicate
    BY <2>1, <2>3 DEF Promote, Rejoin, Abdicate, wall
  <2>4. ASSUME NEW incoming \in Browser, SetBrowserTime(incoming) PROVE AnchorInv'
    BY <2>4, AnchorSets
  <2>5. CASE Tick
    <3>1. up' = up + 1 /\ told' = 0 /\ UNCHANGED <<epochBase, millisBase, anchored>>
      BY <2>5 DEF Tick
    <3>2. up' \in Nat /\ anchored' <= up'
      BY <3>1, SMT DEF AnchorInv
    <3> QED
      BY <3>1, <3>2 DEF AnchorInv, AnchorHeals, Epoch
  <2>6. CASE UNCHANGED vars
    BY <2>1, <2>6 DEF vars, wall
  <2> QED
    BY <2>2, <2>3, <2>4, <2>5, <2>6 DEF Next
<1> QED
  BY <1>1, <1>2, PTL DEF Spec

\* Every moment a node may report, within half a turn of the clock from the anchor, is
\* right to the skew of a browser and the second that is cut off (toEpoch), whatever the
\* width of the clock, the uptime and the browsers.
THEOREM EpochsTrack == Spec => []EpochTracks
<1>1. AnchorInv => EpochTracks
  <2> SUFFICES ASSUME AnchorInv, epochBase # 0, NEW u \in 0 .. up, Near(u)
               PROVE  Abs(toEpoch(Wrap(u)) - Epoch(u)) <= Skew + 1
    BY DEF EpochTracks
  <2>1. u \in Nat
    BY SMT DEF AnchorInv
  <2> QED
    BY <2>1, AnchorTracks
<1> QED
  BY <1>1, AnchorInductive, PTL

\* A visit of a browser leaves an estimate that agrees with it to the tolerance, wherever
\* millis() stands against the anchor (handleSetBrowserTime).
THEOREM AnchorsHeal == Spec => []AnchorHeals
<1>1. AnchorInv => AnchorHeals
  BY DEF AnchorInv
<1> QED
  BY <1>1, AnchorInductive, PTL
===============================================================================
