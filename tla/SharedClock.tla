----------------------------- MODULE SharedClock -----------------------------
(***************************************************************************)
(* The arithmetic of the clocks: millis() is a uint32_t that wraps around, *)
(* the offset to the server's clock is estimated from one exchange and is  *)
(* added modulo 2^32, and a moment is before or after another by the sign  *)
(* of their difference as an int32_t.  M stands for 2^32.                  *)
(***************************************************************************)
EXTENDS Integers

CONSTANT M   \* the number of values of a uint32_t

ASSUME MAssumption == M \in Nat /\ M > 0 /\ M % 2 = 0

Clock == 0 .. M - 1
Half == M \div 2

\* Mutant: sums wider than 32 bits.
WrapWide(x) == x

Wrap(x) == x % M

\* Mutant: the difference is not read as a signed number.
SignedAsUnsigned(x) == Wrap(x)

\* (int32_t)x
Signed(x) == IF Wrap(x) < Half THEN Wrap(x) ELSE Wrap(x) - M

\* millis() - since, as a uint32_t.
Age(now, since) == Wrap(now - since)

\* Mutant: the round trip is added whole.
EstimateWholeTrip(serverMs, t0, t1) == Wrap(serverMs + Age(t1, t0) - t1)

\* syncClock, one sample: the server said serverMs between the local times t0
\* and t1; half of the round trip is taken to have passed since.
Estimate(serverMs, t0, t1) == Wrap(serverMs + Age(t1, t0) \div 2 - t1)

\* serverNow()
ServerNow(local, offset) == Wrap(local + offset)
===============================================================================
