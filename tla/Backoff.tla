------------------------------ MODULE Backoff ------------------------------
(***************************************************************************)
(* The lengths of the waits that the other modules leave open, in          *)
(* nanoseconds and in the 64 bits of a time.Duration.  These are functions *)
(* without state, and the theorems hold for every argument; the numbers    *)
(* are beyond TLC's integers.                                              *)
(***************************************************************************)
EXTENDS Integers, TLAPS

Second == 1000000000
HalfMinute == 30000000000
Hour == 3600000000000
TwoTo63 == 9223372036854775808
TwoTo64 == 18446744073709551616

\* What is left of an integer in an int64.
Int64(x) == ((x + TwoTo63) % TwoTo64) - TwoTo63

\* 2^n for the n that occur.
Doublings ==
  <<1, 2, 4, 8, 16, 32, 64, 128, 256, 512, 1024, 2048, 4096, 8192, 16384, 32768,
    65536, 131072, 262144, 524288, 1048576>>

\* How often the base is doubled after so many failures.
Shift(failures) == IF failures - 1 < 20 THEN failures - 1 ELSE 20

\* The clamp that defaultBackoff and storeReadBackoff have in common.
Clamp(d, max) == IF d <= 0 \/ d > max THEN max ELSE d

defaultBackoff(failures) ==
  IF failures <= 0 THEN 0
  ELSE Clamp(Int64(HalfMinute * Doublings[Shift(failures) + 1]), Hour)

storeReadBackoff(failures) ==
  IF failures <= 0 THEN 0
  ELSE Clamp(Int64(Second * Doublings[Shift(failures) + 1]), HalfMinute)

\* calcDelay for an answer 429 with a Retry-After of so many seconds.
retryAfter(secs, maxDelay) ==
  LET d == Int64(Second * secs) IN IF d < maxDelay THEN d ELSE maxDelay
-----------------------------------------------------------------------------
LEMMA NoOverflow == ASSUME NEW x \in Int, 0 <= x, x < TwoTo63 PROVE Int64(x) = x
  BY SMT DEF Int64, TwoTo63, TwoTo64

LEMMA ShiftRange == ASSUME NEW f \in Nat, f > 0 PROVE Shift(f) \in 0..20
  BY SMT DEF Shift

LEMMA DoublingsRange ==
  ASSUME NEW n \in 0..20
  PROVE  /\ Doublings[n + 1] \in Int
         /\ 1 <= Doublings[n + 1] /\ Doublings[n + 1] <= 1048576
  BY SMT DEF Doublings

LEMMA DoublingsGrow ==
  ASSUME NEW n \in 0..20, NEW m \in 0..20, n <= m
  PROVE  Doublings[n + 1] <= Doublings[m + 1]
  BY SMT DEF Doublings

\* What defaultBackoff computes, without the machine's arithmetic: the shift is capped
\* before it could overflow.
LEMMA DefaultBackoff ==
  ASSUME NEW f \in Nat, f > 0
  PROVE  defaultBackoff(f) = LET d == HalfMinute * Doublings[Shift(f) + 1]
                             IN  IF d > Hour THEN Hour ELSE d
<1>1. /\ Doublings[Shift(f) + 1] \in Int
      /\ 1 <= Doublings[Shift(f) + 1] /\ Doublings[Shift(f) + 1] <= 1048576
  BY SMT, ShiftRange, DoublingsRange
<1>2. PICK d \in Int : d = Doublings[Shift(f) + 1]
  BY SMT, <1>1
<1>3. HalfMinute * d \in Int /\ 0 < HalfMinute * d /\ HalfMinute * d < TwoTo63
  BY SMT, <1>1, <1>2 DEF HalfMinute, TwoTo63
<1>4. Int64(HalfMinute * d) = HalfMinute * d
  BY SMT, <1>3, NoOverflow
<1>. QED
  BY SMT, <1>2, <1>3, <1>4 DEF defaultBackoff, Clamp

\* The wait before a failed record is tried again is at least 30 s and at most an
\* hour, and does not shrink as the failures add up, for any number of them.
THEOREM RetryWaits ==
  ASSUME NEW f \in Nat, NEW g \in Nat, 0 < f, f <= g
  PROVE  /\ HalfMinute <= defaultBackoff(f) /\ defaultBackoff(g) <= Hour
         /\ defaultBackoff(f) <= defaultBackoff(g)
<1>1. /\ Shift(f) \in 0..20 /\ Shift(g) \in 0..20 /\ Shift(f) <= Shift(g)
  BY SMT DEF Shift
<1>2. PICK a \in Int : a = Doublings[Shift(f) + 1] /\ 1 <= a
  BY SMT, <1>1, DoublingsRange
<1>3. PICK b \in Int : b = Doublings[Shift(g) + 1]
  BY SMT, <1>1, DoublingsRange
<1>4. a <= b
  BY SMT, <1>1, <1>2, <1>3, DoublingsGrow
<1>5. /\ defaultBackoff(f) = IF HalfMinute * a > Hour THEN Hour ELSE HalfMinute * a
      /\ defaultBackoff(g) = IF HalfMinute * b > Hour THEN Hour ELSE HalfMinute * b
  BY SMT, <1>2, <1>3, DefaultBackoff
<1>. QED
  BY SMT, <1>2, <1>3, <1>4, <1>5 DEF HalfMinute, Hour

\* The wait after a failed read of the store is between one second and half a minute.
THEOREM StoreReadWaits ==
  ASSUME NEW f \in Nat, 0 < f
  PROVE  Second <= storeReadBackoff(f) /\ storeReadBackoff(f) <= HalfMinute
<1>1. PICK d \in Int : d = Doublings[Shift(f) + 1] /\ 1 <= d /\ d <= 1048576
  BY SMT, ShiftRange, DoublingsRange
<1>2. Second * d \in Int /\ 0 < Second * d /\ Second * d < TwoTo63 /\ Second <= Second * d
  BY SMT, <1>1 DEF Second, TwoTo63
<1>3. Int64(Second * d) = Second * d
  BY SMT, <1>2, NoOverflow
<1>. QED
  BY SMT, <1>1, <1>2, <1>3 DEF storeReadBackoff, Clamp, Second, HalfMinute

\* Retry-After is honoured up to MaxDelay, and the wait is never longer, if it is at
\* most 9223372036 s.
THEOREM RetryAfterHonoured ==
  ASSUME NEW secs \in Int, 1 <= secs, secs <= 9223372036, NEW maxDelay \in Nat
  PROVE  retryAfter(secs, maxDelay)
           = IF Second * secs < maxDelay THEN Second * secs ELSE maxDelay
<1>1. Second * secs \in Int /\ 0 <= Second * secs /\ Second * secs < TwoTo63
  BY SMT DEF Second, TwoTo63
<1>2. Int64(Second * secs) = Second * secs
  BY SMT, <1>1, NoOverflow
<1>. QED
  BY SMT, <1>2 DEF retryAfter

LEMMA Overflow ==
  ASSUME NEW x \in Int, TwoTo63 <= x, x < TwoTo64 PROVE Int64(x) = x - TwoTo64
  BY SMT DEF Int64, TwoTo63, TwoTo64

\* Beyond that the product wraps around: the delay is negative, there is no wait at
\* all, and MaxDelay does not apply.
THEOREM RetryAfterWraps ==
  ASSUME NEW secs \in Int, 9223372037 <= secs, secs <= 18446744073, NEW maxDelay \in Nat
  PROVE  retryAfter(secs, maxDelay) < 0
<1>1. Second * secs \in Int /\ TwoTo63 <= Second * secs /\ Second * secs < TwoTo64
  BY SMT DEF Second, TwoTo63, TwoTo64
<1>2. Int64(Second * secs) = Second * secs - TwoTo64
  BY SMT, <1>1, Overflow
<1>3. Int64(Second * secs) \in Int /\ Int64(Second * secs) < 0
  BY SMT, <1>1, <1>2 DEF TwoTo64
<1>. QED
  BY SMT, <1>3 DEF retryAfter
=============================================================================
