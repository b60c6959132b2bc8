-------------------------------- MODULE CanTiming -------------------------------
(***************************************************************************)
(* common/hal/can_timing.c: the bit timing of a CAN port.  A request gives   *)
(* clock, bitrate and sample point (per mille); limits are those of the      *)
(* controller's registers.                                                  *)
(***************************************************************************)
EXTENDS Integers, FiniteSetsExt

Exact(q, presc) == q.clock % (presc * q.bitrate) = 0
Total(q, presc) == q.clock \div (presc * q.bitrate)    \* quanta per bit

\* Phase segment 2 from the sample point, rounded to the nearest quantum; the
\* mutant rounds down.
Tseg2Down(q, total) ==
    LET t == (total * (1000 - q.sample)) \div 1000 IN IF t < 1 THEN 1 ELSE t
Tseg2(q, total) ==
    LET t == (total * (1000 - q.sample) + 500) \div 1000 IN IF t < 1 THEN 1 ELSE t
Tseg1(q, total) == total - 1 - Tseg2(q, total)

Fits(q, total, limits) ==
    /\ Tseg1(q, total) >= 1 /\ Tseg1(q, total) <= limits.tseg1
    /\ Tseg2(q, total) <= limits.tseg2

NoTiming == [ok |-> FALSE]
Timing(q, presc, limits) ==
    LET total == Total(q, presc)
        t2 == Tseg2(q, total)
    IN  [ok |-> TRUE, presc |-> presc, tseg1 |-> Tseg1(q, total), tseg2 |-> t2,
         sjw |-> IF t2 < limits.sjw THEN t2 ELSE limits.sjw]

ValidRequest(q) == q.bitrate # 0 /\ q.clock >= q.bitrate /\ q.sample \in 500 .. 950

\* rjs_can_calc_timing: the loop goes on over prescalers whose bitrate is not exact or
\* whose segments do not fit, and ends at the first other one: with a result, or
\* without when a bit has become too short.
EndsAt(q, limits) ==
    {p \in 1 .. limits.presc :
        Exact(q, p) /\ (Total(q, p) < 4 \/ Fits(q, Total(q, p), limits))}
rjs_can_calc_timing(q, limits) ==
    IF ~ValidRequest(q) \/ EndsAt(q, limits) = {} THEN NoTiming
    ELSE LET p == Min(EndsAt(q, limits))
         IN  IF Total(q, p) < 4 THEN NoTiming ELSE Timing(q, p, limits)

--------------------------------------------------------------------------------
(* Reference definition, from what can_timing.h promises *)

\* The timings with the exact bitrate, of at least 4 quanta, within the limits, whose
\* sample point is the nearest to the request that a bit of so many quanta has.
Nearest(q, total, t2) ==
    LET error == 1000 * t2 - total * (1000 - q.sample)
    IN  (-500 < error /\ error <= 500) \/ (t2 = 1 /\ error > 0)
ExactTimings(q, limits) ==
    {t \in [presc : 1 .. limits.presc, tseg1 : 1 .. limits.tseg1, tseg2 : 1 .. limits.tseg2] :
        LET total == 1 + t.tseg1 + t.tseg2
        IN  /\ total >= 4
            /\ t.presc * total * q.bitrate = q.clock
            /\ Nearest(q, total, t.tseg2)}
================================================================================
