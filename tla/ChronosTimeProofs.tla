------------------------- MODULE ChronosTimeProofs -------------------------
(***************************************************************************)
(* What the macros of chronos.h compute, for all times.                    *)
(***************************************************************************)
EXTENDS ChronosTime, TLAPS

(* A second has nanoseconds.                                               *)
LEMMA SecondIsPositive == NSEC_TO_SEC \in Nat /\ NSEC_TO_SEC > 0
  BY TimeAssumption DEF NSEC_TO_SEC

(* The offset of two normal times is exactly their difference, also when   *)
(* the clock has been set back between them.                               *)
THEOREM OffsetIsDifference ==
    ASSUME NEW begin \in Times, NEW end \in Times
    PROVE  /\ Offset(begin, end) \in Times
           /\ Nanos(Offset(begin, end)) = Nanos(end) - Nanos(begin)
  BY SecondIsPositive DEF Times, Time, Offset, Borrow, Nanos

(* From an earlier to a later normal time it is a normal time.             *)
THEOREM OffsetIsNormal ==
    ASSUME NEW begin \in Times, NEW end \in Times,
           Normal(begin), Normal(end), Before(begin, end)
    PROVE  Normal(Offset(begin, end)) /\ Offset(begin, end).sec >= 0
  BY SecondIsPositive DEF Times, Time, Offset, Borrow, Normal, Before

(* When the clock has been set back, neither part is positive: a duration  *)
(* is never a mixture of seconds ahead and nanoseconds behind.             *)
THEOREM OffsetBackwards ==
    ASSUME NEW begin \in Times, NEW end \in Times,
           Normal(begin), Normal(end), Before(end, begin)
    PROVE  Offset(begin, end).sec <= 0 /\ Offset(begin, end).nsec <= 0
  BY SecondIsPositive DEF Times, Time, Offset, Borrow, Normal, Before

(* Division, as arithmetic sees it.                                        *)
LEMMA Division ==
    ASSUME NEW n \in Nat, NEW d \in Nat \ {0}
    PROVE  /\ n \div d \in Nat
           /\ n % d \in 0 .. d - 1
           /\ n = d * (n \div d) + (n % d)
  OBVIOUS

(* The sum of two times is their sum; it is normal unless their            *)
(* nanoseconds make exactly a second.                                      *)
THEOREM PlusIsSum ==
    ASSUME NEW t \in Times, NEW u \in Times, Normal(t), Normal(u)
    PROVE  /\ Nanos(Plus(t, u)) = Nanos(t) + Nanos(u)
           /\ Normal(Plus(t, u)) <=> t.nsec + u.nsec # NSEC_TO_SEC
<1> DEFINE n == t.nsec + u.nsec
<1>1. n \in Nat /\ n <= 2 * NSEC_TO_SEC - 2
  BY SecondIsPositive DEF Times, Normal
<1>2. CASE ~Carries(t, u)
  BY <1>2, <1>1, SecondIsPositive DEF Plus, Carries, Nanos, Normal, Time, Times
<1>3. CASE Carries(t, u)
  <2>1. n > NSEC_TO_SEC
    BY <1>3 DEF Carries
  <2>2. /\ n = NSEC_TO_SEC * (n \div NSEC_TO_SEC) + (n % NSEC_TO_SEC)
        /\ n % NSEC_TO_SEC \in 0 .. NSEC_TO_SEC - 1
        /\ n \div NSEC_TO_SEC \in Nat
    <3> HIDE DEF n
    <3> NSEC_TO_SEC \in Nat \ {0}
      BY SecondIsPositive
    <3> QED
      BY <1>1, Division
  <2>3. Plus(t, u) = [sec |-> t.sec + u.sec + n \div NSEC_TO_SEC,
                      nsec |-> n % NSEC_TO_SEC]
    BY <1>3 DEF Plus, Time
  <2> HIDE DEF n
  <2>4. Normal(Plus(t, u))
    BY <2>2, <2>3 DEF Normal
  <2>5. Nanos(Plus(t, u)) = NSEC_TO_SEC * (t.sec + u.sec) + n
    <3> DEFINE q == n \div NSEC_TO_SEC
               r == n % NSEC_TO_SEC
               s == t.sec + u.sec
    <3>1. q \in Nat /\ r \in Nat /\ n = NSEC_TO_SEC * q + r
      BY <2>2, SecondIsPositive
    <3>2. s \in Int
      BY DEF Times
    <3>3. Nanos(Plus(t, u)) = NSEC_TO_SEC * (s + q) + r
      BY <2>3 DEF Nanos
    <3> HIDE DEF q, r, s
    <3>4. NSEC_TO_SEC * (s + q) + r = NSEC_TO_SEC * s + n
      BY <3>1, <3>2, SecondIsPositive
    <3>5. QED
      BY <3>3, <3>4 DEF s
  <2>6. QED
    BY <2>1, <2>4, <2>5, SecondIsPositive DEF n, Nanos, Times
<1>4. QED
  BY <1>2, <1>3

(* A time that is not negative, in milliseconds, is the true time without  *)
(* the fraction: never too long, and too short by less than one.           *)
LEMMA MsOfTime ==
    ASSUME NEW t \in Times, Normal(t), t.sec >= 0
    PROVE  /\ ToMs(t) \in Nat
           /\ NSEC_TO_MSEC * ToMs(t) <= Nanos(t)
           /\ Nanos(t) < NSEC_TO_MSEC * (ToMs(t) + 1)
<1> DEFINE q == t.nsec \div NSEC_TO_MSEC
           r == t.nsec % NSEC_TO_MSEC
           M == NSEC_TO_MSEC
           s == t.sec * SEC_TO_MSEC
<1>1. M \in Nat \ {0} /\ SEC_TO_MSEC \in Nat
  BY TimeAssumption
<1>2. t.nsec \in Nat /\ t.sec \in Nat /\ s \in Nat
  BY <1>1, SecondIsPositive DEF Times, Normal
<1>3. q \in Nat /\ r \in 0 .. M - 1 /\ t.nsec = M * q + r
  BY <1>1, <1>2, Division
<1>4. Nanos(t) = M * s + t.nsec
  BY <1>1, <1>2 DEF Nanos, NSEC_TO_SEC
<1>5. ToMs(t) = s + q
  BY DEF ToMs
<1> HIDE DEF q, r, M, s
<1>6. Nanos(t) = M * (s + q) + r
  BY <1>1, <1>2, <1>3, <1>4
<1>7. /\ s + q \in Nat
      /\ M * (s + q) <= Nanos(t)
      /\ Nanos(t) < M * (s + q + 1)
  BY <1>1, <1>2, <1>3, <1>6
<1>8. QED
  BY <1>5, <1>7 DEF M

(* A measured duration in milliseconds is the true one without the         *)
(* fraction, so a transaction that took longer than the bound by less than *)
(* a millisecond counts as timely, and no other late one does.             *)
THEOREM MsOfOffset ==
    ASSUME NEW begin \in Times, NEW end \in Times,
           Normal(begin), Normal(end), Before(begin, end)
    PROVE  LET ms == ToMs(Offset(begin, end))
               elapsed == Nanos(end) - Nanos(begin)
           IN  /\ ms \in Nat
               /\ NSEC_TO_MSEC * ms <= elapsed
               /\ elapsed < NSEC_TO_MSEC * (ms + 1)
<1>1. /\ Offset(begin, end) \in Times
      /\ Nanos(Offset(begin, end)) = Nanos(end) - Nanos(begin)
  BY OffsetIsDifference
<1>2. Normal(Offset(begin, end)) /\ Offset(begin, end).sec >= 0
  BY OffsetIsNormal
<1>3. QED
  BY <1>1, <1>2, MsOfTime

(* Milliseconds that are made a time and back are the same.                *)
THEOREM MsRoundTrip ==
    ASSUME NEW ms \in Nat
    PROVE  Normal(OfMs(ms)) /\ ToMs(OfMs(ms)) = ms
<1> DEFINE q == ms \div SEC_TO_MSEC
           r == ms % SEC_TO_MSEC
           M == NSEC_TO_MSEC
<1>1. M \in Nat \ {0} /\ SEC_TO_MSEC \in Nat \ {0}
  BY TimeAssumption
<1>2. q \in Nat /\ r \in 0 .. SEC_TO_MSEC - 1 /\ ms = SEC_TO_MSEC * q + r
  BY <1>1, Division
<1>3. OfMs(ms).sec = q /\ OfMs(ms).nsec = r * M
  BY DEF OfMs, Time
<1> HIDE DEF q, r, M
<1>4. r * M \in Nat /\ r * M <= (SEC_TO_MSEC - 1) * M
  BY <1>1, <1>2
<1>5. r * M < SEC_TO_MSEC * M
  BY <1>1, <1>4
<1>6. Normal(OfMs(ms))
  BY <1>1, <1>3, <1>4, <1>5 DEF Normal, NSEC_TO_SEC, M
<1>7. (r * M) \div M = r
  <2> DEFINE x == (r * M) \div M
             y == (r * M) % M
  <2>1. x \in Nat /\ y \in 0 .. M - 1 /\ r * M = M * x + y
    BY <1>1, <1>4, Division
  <2> HIDE DEF x, y
  <2>2. r \in Nat
    BY <1>2
  <2>3. ~(x < r)
    <3> SUFFICES ASSUME x < r PROVE FALSE
      OBVIOUS
    <3>1. x + 1 <= r
      BY <2>1, <2>2
    <3>2. M * (x + 1) <= M * r
      BY <3>1, <2>1, <2>2, <1>1
    <3>3. QED
      BY <3>2, <2>1, <2>2, <1>1
  <2>4. ~(x > r)
    <3> SUFFICES ASSUME x > r PROVE FALSE
      OBVIOUS
    <3>1. r + 1 <= x
      BY <2>1, <2>2
    <3>2. M * (r + 1) <= M * x
      BY <3>1, <2>1, <2>2, <1>1
    <3>3. QED
      BY <3>2, <2>1, <2>2, <1>1
  <2>5. QED
    BY <2>1, <2>2, <2>3, <2>4 DEF x
<1>8. ToMs(OfMs(ms)) = q * SEC_TO_MSEC + r
  BY <1>3, <1>7 DEF ToMs, M
<1>9. QED
  BY <1>1, <1>2, <1>6, <1>8

(* The average of num durations is their sum over num without the          *)
(* fraction of a nanosecond, and a normal time, although the division is   *)
(* done for seconds and nanoseconds apart: what the seconds leave over     *)
(* goes to the nanoseconds.                                                *)
THEOREM AverageIsFloor ==
    ASSUME NEW sum \in Times, sum.sec >= 0, sum.nsec >= 0,
           NEW num \in Nat \ {0}
    PROVE  /\ Normal(Average(sum, num))
           /\ num * Nanos(Average(sum, num)) <= Nanos(sum)
           /\ Nanos(sum) < num * (Nanos(Average(sum, num)) + 1)
<1> DEFINE S == NSEC_TO_SEC
           q == sum.sec \div num
           m == sum.sec % num
           n0 == S * m + sum.nsec
           n == n0 \div num
           r == n0 % num
           a == n \div S
           b == n % S
<1>1. S \in Nat \ {0} /\ sum.sec \in Nat /\ sum.nsec \in Nat
  BY SecondIsPositive DEF Times
<1>2. q \in Nat /\ m \in 0 .. num - 1 /\ sum.sec = num * q + m
  BY <1>1, Division
<1>3. Average(sum, num).sec = q + a /\ Average(sum, num).nsec = b
  BY DEF Average, Time
<1>4. Nanos(Average(sum, num)) = S * (q + a) + b
  BY <1>3 DEF Nanos
<1>5. Nanos(sum) = S * sum.sec + sum.nsec
  BY DEF Nanos
<1>6. n0 \in Nat
  <2> HIDE DEF S, q, m
  <2>1. S * m \in Nat
    BY <1>1, <1>2
  <2>2. QED
    BY <2>1, <1>1
<1>7. n \in Nat /\ r \in 0 .. num - 1 /\ n0 = num * n + r
  <2> HIDE DEF n0
  <2>1. QED
    BY <1>6, Division
<1>8. a \in Nat /\ b \in 0 .. S - 1 /\ n = S * a + b
  <2> HIDE DEF n, S
  <2>1. QED
    BY <1>1, <1>7, Division
<1>9. S * m + sum.nsec = num * n + r
  BY <1>7
<1>10. Normal(Average(sum, num))
  BY <1>3, <1>8 DEF Normal
<1> HIDE DEF S, q, m, n0, n, r, a, b
<1>11. Nanos(Average(sum, num)) = S * q + n
  BY <1>1, <1>2, <1>4, <1>8
<1>12. Nanos(sum) = num * (S * q + n) + r
  <2>1. Nanos(sum) = S * (num * q + m) + sum.nsec
    BY <1>2, <1>5 DEF S
  <2>2. S * (num * q + m) = num * (S * q) + S * m
    BY <1>1, <1>2
  <2>3. num * (S * q + n) = num * (S * q) + num * n
    BY <1>1, <1>2, <1>7
  <2>4. num * (S * q) \in Nat /\ S * m \in Nat /\ num * n \in Nat
    BY <1>1, <1>2, <1>7
  <2>5. QED
    BY <2>1, <2>2, <2>3, <2>4, <1>1, <1>7, <1>9
<1>13. S * q + n \in Nat
  <2>1. S * q \in Nat
    BY <1>1, <1>2
  <2>2. QED
    BY <2>1, <1>7
<1>14. \A v \in Nat : num * v <= num * v + r /\ num * v + r < num * (v + 1)
  BY <1>7
<1>15. QED
  BY <1>10, <1>11, <1>12, <1>13, <1>14
=============================================================================
