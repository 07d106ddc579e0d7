------------------------------ MODULE NTPEstimator ------------------------------
(***************************************************************************)
(* The absolute time of a unit, from its presentation timestamp and the    *)
(* clock of the server (ntpestimator).                                     *)
(***************************************************************************)
EXTENDS Integers

CONSTANTS
    ClockRate, Second,    \* ticks of a timestamp, and of the clock, in a second
    MaxTimeDifference,    \* in ticks of the clock
    MaxPTS, LastClock     \* bounds

EstimatorAssumption ==
    /\ ClockRate \in Nat \ {0} /\ Second \in Nat /\ MaxTimeDifference \in Nat
    /\ MaxPTS \in Nat /\ LastClock \in Nat

VARIABLES
    refNTP, refPTS,       \* Estimator; the zero time is -1
    clock,
    previous, last        \* the last two estimates

Zero == -1
NoEstimate == [pts |-> 0, ntp |-> Zero]

EstimatorInit ==
    /\ refNTP = Zero /\ refPTS = 0 /\ clock = 0
    /\ previous = NoEstimate /\ last = NoEstimate

(* Division of Go, which rounds towards zero.                              *)
Div(a, b) == IF a < 0 THEN -((-a) \div b) ELSE a \div b
MultiplyAndDivide(v, m, d) ==
    LET secs == Div(v, d)
    IN  secs * m + Div((v - secs * d) * m, d)

Computed(pts) == refNTP + MultiplyAndDivide(pts - refPTS, Second, ClockRate)
Reliable(ntp, now) == refNTP # Zero /\ ntp <= now /\ ntp >= now - MaxTimeDifference

(* Mutant: the next estimates start from an old time.                      *)
Estimate_KeepsNTP(pts, now) ==
    LET keeps == Reliable(Computed(pts), now)
    IN  /\ refNTP' = IF refNTP = Zero THEN now ELSE refNTP
        /\ refPTS' = IF keeps THEN refPTS ELSE pts
        /\ clock' = now
        /\ previous' = last
        /\ last' = [pts |-> pts, ntp |-> IF keeps THEN Computed(pts) ELSE now]

Estimate(pts, now) ==
    LET keeps == Reliable(Computed(pts), now)
    IN  /\ refNTP' = IF keeps THEN refNTP ELSE now
        /\ refPTS' = IF keeps THEN refPTS ELSE pts
        /\ clock' = now
        /\ previous' = last
        /\ last' = [pts |-> pts, ntp |-> IF keeps THEN Computed(pts) ELSE now]

(* Timestamps go back and forth, the clock does not.                       *)
EstimatorNext == \E pts \in 0 .. MaxPTS, now \in clock .. LastClock : Estimate(pts, now)

EstimatorTypeOK ==
    /\ refNTP \in Zero .. LastClock /\ refPTS \in 0 .. MaxPTS /\ clock \in 0 .. LastClock
    /\ last \in [pts : 0 .. MaxPTS, ntp : Zero - MaxTimeDifference .. LastClock]

(* A unit that is not older than the one before does not get an earlier    *)
(* time, whatever jumps the timestamps make; none comes from the future.   *)
NeverBack ==
    /\ previous.pts <= last.pts => previous.ntp <= last.ntp
    /\ last.ntp <= clock
=============================================================================
