---------------------------- MODULE ChronosTime ----------------------------
(***************************************************************************)
(* The macros of chronos.h on times.  A time is a pair of seconds and      *)
(* nanoseconds; it is normal when the nanoseconds are less than a second,  *)
(* as those of a clock are.                                                *)
(***************************************************************************)
EXTENDS Integers

CONSTANTS SEC_TO_MSEC,    (* milliseconds of a second, 1000               *)
          NSEC_TO_MSEC    (* nanoseconds of a millisecond, 1000000        *)

ASSUME TimeAssumption == /\ SEC_TO_MSEC \in Nat \ {0}
                         /\ NSEC_TO_MSEC \in Nat \ {0}

NSEC_TO_SEC == SEC_TO_MSEC * NSEC_TO_MSEC

Times == [sec : Int, nsec : Int]
Time(s, n) == [sec |-> s, nsec |-> n]
Normal(t) == t.nsec \in 0 .. NSEC_TO_SEC - 1

(* What a time stands for, and how two of them compare.                    *)
Nanos(t) == NSEC_TO_SEC * t.sec + t.nsec
Before(t, u) == \/ t.sec < u.sec
                \/ t.sec = u.sec /\ t.nsec <= u.nsec
-----------------------------------------------------------------------------
(* CHRONOS_TIME_NANO_OFFSET_GET: from begin to end.  The side that is      *)
(* ahead in seconds and behind in nanoseconds has a second changed.        *)
Borrow(begin, end) ==
    IF end.sec > begin.sec /\ end.nsec < begin.nsec THEN 1
    ELSE IF end.sec < begin.sec /\ end.nsec > begin.nsec THEN -1 ELSE 0

Offset(begin, end) ==
    Time(end.sec - begin.sec - Borrow(begin, end),
         end.nsec - begin.nsec + NSEC_TO_SEC * Borrow(begin, end))

(* CHRONOS_TIME_SEC_OFFSET_GET                                             *)
SecOffset(begin, end) == Time(Offset(begin, end).sec, 0)

(* CHRONOS_TIME_ADD: carries when there is more than a second of           *)
(* nanoseconds, not when there is exactly one.                             *)
Carries(t, u) == t.nsec + u.nsec > NSEC_TO_SEC
Plus(t, u) ==
    LET n == t.nsec + u.nsec
    IN  Time(t.sec + u.sec
               + (IF Carries(t, u) THEN n \div NSEC_TO_SEC ELSE 0),
             IF Carries(t, u) THEN n % NSEC_TO_SEC ELSE n)

(* CHRONOS_TIME_AVERAGE, for a number other than zero.                     *)
Average(sum, num) ==
    LET n == (NSEC_TO_SEC * (sum.sec % num) + sum.nsec) \div num
    IN  Time(sum.sec \div num + n \div NSEC_TO_SEC, n % NSEC_TO_SEC)

(* CHRONOS_TIME_POSITIVE, CHRONOS_TIME_NEGATIVE and CHRONOS_TIME_ZERO      *)
Positive(t) == t.sec > 0 /\ t.nsec > 0
Negative(t) == t.sec < 0 /\ t.nsec < 0
Zero(t) == t.sec = 0 /\ t.nsec = 0

(* CHRONOS_TIME_TO_MS of a time that is not negative, and back.            *)
ToMs(t) == t.sec * SEC_TO_MSEC + t.nsec \div NSEC_TO_MSEC
OfMs(ms) == Time(ms \div SEC_TO_MSEC, (ms % SEC_TO_MSEC) * NSEC_TO_MSEC)
=============================================================================
