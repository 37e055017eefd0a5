-------------------------------- MODULE Millis --------------------------------
(***************************************************************************)
(* What the firmware makes of millis() over a long uptime: the absolute    *)
(* deadlines promoteAt and serverReadyAt, which are compared without       *)
(* modular arithmetic, and the wall-clock anchor that /setBrowserTime sets *)
(* and toEpoch reads.  millis() wraps around at M.                         *)
(*                                                                         *)
(* Time is counted from power-on in "up", which the program does not have. *)
(* Epochs are seconds in the range where int32_t holds them, until 2038.   *)
(***************************************************************************)
EXTENDS SharedClock

CONSTANTS
  Second,     \* ticks of millis() in a second: 1000
  Birth,      \* the epoch at power-on
  Waits,      \* COOLDOWN_MS + tiebreak backoff: the values a candidate may draw
  Grace,      \* PROMOTION_GRACE_MS
  Tolerance,  \* the 60 s of handleSetBrowserTime
  Skew,       \* how far the clock of a browser is off, in seconds
  MaxUp       \* bound on up

ASSUME MillisAssumption ==
  /\ {Second, Birth} \cup Waits \subseteq Nat \ {0}
  /\ {Grace, Tolerance, Skew, MaxUp} \subseteq Nat
  /\ Skew < Birth /\ Birth + Skew + MaxUp \div Second < Half

VARIABLES
  up,         \* time since power-on
  role,       \* candidate, armed once promoteAt is set, or server
  at,         \* promoteAt, then serverReadyAt
  since,      \* history: the up at which "at" was set
  epochBase, millisBase,
  anchored,   \* history: the up of the anchor
  told        \* history: the epoch the last browser has told in this tick, or 0

wall == <<epochBase, millisBase, anchored, told>>
vars == <<up, role, at, since, wall>>

millis == Wrap(up)
-------------------------------------------------------------------------------
(* tickCandidate, enterServer, serverSequencerLoop *)

Arm(wait) ==
  /\ role = "candidate" /\ role' = "armed"
  /\ at' = Wrap(millis + wait) /\ since' = up
  /\ UNCHANGED <<up, wall>>

\* now >= promoteAt: it promotes, and the clients get the grace period.
Promote ==
  /\ role = "armed" /\ millis >= at
  /\ role' = "server"
  /\ at' = Wrap(millis + Grace) /\ since' = up
  /\ UNCHANGED <<up, wall>>

\* It finds a server and joins it; it is a candidate again later.
Rejoin ==
  /\ role = "armed" /\ role' = "candidate"
  /\ UNCHANGED <<up, at, since, wall>>

\* It yields to a lower server (tickServer), likewise.
Abdicate ==
  /\ role = "server" /\ role' = "candidate"
  /\ UNCHANGED <<up, at, since, wall>>

\* millis() < serverReadyAt: it plans nothing.
Silent == role = "server" /\ millis < at
-------------------------------------------------------------------------------
(* The wall clock. *)

Abs(x) == IF x < 0 THEN -x ELSE x

\* int32_t / 1000 truncates towards zero.
Truncated(x, n) == IF x < 0 THEN -((-x) \div n) ELSE x \div n

\* Mutant: a moment before the anchor is far in the future.
DeltaUnsigned(ms) == Wrap(ms - millisBase)

Delta(ms) == Signed(ms - millisBase)

toEpoch(ms) ==
  IF epochBase = 0 THEN 0
  ELSE LET result == epochBase + Truncated(Delta(ms), Second)
       IN IF result > 0 THEN result ELSE 0

\* The true epoch at a moment of up, and what a browser takes it for.
Epoch(u) == Birth + u \div Second
Browser == {Epoch(up) + s : s \in -Skew .. Skew}

\* Mutant: an anchor is for ever.
SetBrowserTimeOnce(incoming) ==
  /\ IF epochBase = 0
     THEN epochBase' = incoming /\ millisBase' = millis /\ anchored' = up
     ELSE UNCHANGED <<epochBase, millisBase, anchored>>
  /\ told' = incoming
  /\ UNCHANGED <<up, role, at, since>>

\* handleSetBrowserTime
SetBrowserTime(incoming) ==
  /\ IF epochBase = 0 \/ Abs(incoming - toEpoch(millis)) > Tolerance
     THEN epochBase' = incoming /\ millisBase' = millis /\ anchored' = up
     ELSE UNCHANGED <<epochBase, millisBase, anchored>>
  /\ told' = incoming
  /\ UNCHANGED <<up, role, at, since>>
-------------------------------------------------------------------------------
Tick ==
  /\ up < MaxUp /\ up' = up + 1 /\ told' = 0
  /\ UNCHANGED <<role, at, since, epochBase, millisBase, anchored>>

Init ==
  /\ up = 0 /\ role = "candidate" /\ at = 0 /\ since = 0
  /\ epochBase = 0 /\ millisBase = 0 /\ anchored = 0 /\ told = 0

Next ==
  \/ (\E wait \in Waits : Arm(wait)) \/ Promote \/ Rejoin \/ Abdicate
  \/ (\E incoming \in Browser : SetBrowserTime(incoming))
  \/ Tick

Spec == Init /\ [][Next]_vars
-------------------------------------------------------------------------------
\* The moments a node may still hold: within half of M of the anchor, either way.
Near(u) == Abs(u - anchored) < Half

\* A moment that /clients reports is right to the skew of the browser and the second
\* that is cut off, before the anchor and after it, however often millis() has
\* wrapped around since power-on and whichever browsers came by (toEpoch).
EpochTracks ==
  epochBase # 0 =>
    \A u \in 0 .. up : Near(u) => Abs(toEpoch(Wrap(u)) - Epoch(u)) <= Skew + 1

\* Every visit of a browser leaves an estimate that agrees with it to a minute, the
\* first one after the estimate has jumped, half of M after the anchor, included.
AnchorHeals == told # 0 => Abs(toEpoch(millis) - told) <= Tolerance

\* A promoted node is silent in its grace period; if ever after, then because millis()
\* has wrapped around since (serverSequencerLoop).
SilentOnlyAfterWrap ==
  Silent /\ up >= since + Grace => up \div M > since \div M

\* ws_wifi.cpp, 672: serverReadyAt is "millis() when the post-promotion grace period
\* ends"; http_controller.ino, 184: it holds off "until clients have had time to
\* reconnect after promotion".  Once it has begun to broadcast it goes on.
GraceOnce == [][ role = "server" /\ ~Silent => ~Silent' ]_vars
===============================================================================
