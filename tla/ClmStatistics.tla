---------------------------- MODULE ClmStatistics ---------------------------
(***************************************************************************)
(* The response time statistics of one slave device, kept by the master    *)
(* for the application to read.  All fields are 32 bits wide.              *)
(*                                                                         *)
(* total is not in the code: the sum, without a limit, of the times that   *)
(* were counted since the statistics were cleared.                         *)
(***************************************************************************)
EXTENDS Integers, TLAPS

CONSTANTS UINT32_MAX,
          max_statistics_samples,   \* of the configuration
          ResponseTimes             \* the times that are measured

VARIABLES measured_time, total

vars == <<measured_time, total>>

clm_iefb_statistics_clear ==
    [number_of_samples |-> 0, sum |-> 0, min |-> UINT32_MAX, average |-> 0,
     max |-> 0]

(* No more samples are taken once there are enough or the sum is large.    *)
IsCounted(stat) ==
    /\ stat.number_of_samples < max_statistics_samples
    /\ stat.sum < UINT32_MAX \div 2

Smaller(a, b) == IF a < b THEN a ELSE b
Larger(a, b) == IF a > b THEN a ELSE b

clm_iefb_statistics_update_response_time(stat, response_time) ==
    LET samples == stat.number_of_samples + 1
        sum == (stat.sum + response_time) % (UINT32_MAX + 1)
    IN  IF ~IsCounted(stat) THEN stat
        ELSE [number_of_samples |-> samples, sum |-> sum,
              min |-> Smaller(response_time, stat.min),
              average |-> sum \div samples,
              max |-> Larger(response_time, stat.max)]

Init == measured_time = clm_iefb_statistics_clear /\ total = 0

(* An accepted response.                                                   *)
HandleResponse(response_time) ==
    /\ measured_time' =
        clm_iefb_statistics_update_response_time(measured_time, response_time)
    /\ total' = IF IsCounted(measured_time) THEN total + response_time
                                            ELSE total

(* clm_clear_statistics(), and the (re)start of the master.                *)
Clear == measured_time' = clm_iefb_statistics_clear /\ total' = 0

Next == Clear \/ \E response_time \in ResponseTimes : HandleResponse(response_time)

Spec == Init /\ [][Next]_vars

-----------------------------------------------------------------------------
(***************************************************************************)
(* The sum is the sum of the times that were counted, and the average lies *)
(* between the shortest and the longest of them, although the addition is  *)
(* done before the sum is compared with its limit again.                   *)
(***************************************************************************)
StatisticsExact ==
    measured_time.number_of_samples > 0 =>
        /\ measured_time.sum = total
        /\ measured_time.min <= measured_time.average
        /\ measured_time.average <= measured_time.max

(* The inductive form: n times the smallest bounds the sum from below, and *)
(* n times the largest from above.                                         *)
StatisticsInv ==
    /\ measured_time \in [number_of_samples : Nat, sum : Nat, min : Nat,
                          average : Nat, max : Nat]
    /\ measured_time.sum = total
    /\ measured_time.number_of_samples * measured_time.min <= total
    /\ total <= measured_time.number_of_samples * measured_time.max
    /\ measured_time.number_of_samples > 0 =>
            measured_time.average = total \div measured_time.number_of_samples

(* A time is at most half the range of the type.                           *)
TimesFit ==
    /\ UINT32_MAX \in Nat
    /\ max_statistics_samples \in Nat
    /\ \A t \in ResponseTimes : t \in Nat /\ t <= UINT32_MAX \div 2

(* The arithmetic of sums and averages the statistics rest on.             *)
LEMMA ProductMonotone ==
    ASSUME NEW n \in Nat, NEW a \in Nat, NEW b \in Nat, a <= b
    PROVE  n * a <= n * b
  OBVIOUS

(* An average lies between bounds of all its samples.                      *)
LEMMA AverageBounds ==
    ASSUME NEW n \in Nat, n > 0, NEW s \in Nat, NEW a \in Nat, NEW b \in Nat,
           n * a <= s, s <= n * b
    PROVE  a <= s \div n /\ s \div n <= b /\ s \div n \in Nat
  OBVIOUS

(* The sum cannot wrap in the addition that passes its limit.              *)
LEMMA NoWrap ==
    ASSUME NEW m \in Nat, NEW s \in Nat, NEW t \in Nat,
           s < m \div 2, t <= m \div 2
    PROVE  (s + t) % (m + 1) = s + t
  OBVIOUS

(* One more time keeps the bounds on the sum, with the new extremes.       *)
LEMMA UpdateBounds ==
    ASSUME NEW n \in Nat, NEW s \in Nat, NEW t \in Nat,
           NEW low \in Nat, NEW high \in Nat, n * low <= s, s <= n * high
    PROVE  /\ (n + 1) * Smaller(t, low) <= s + t
           /\ s + t <= (n + 1) * Larger(t, high)
<1> DEFINE l == Smaller(t, low)
           h == Larger(t, high)
<1>1. /\ l \in Nat /\ l <= low /\ l <= t
      /\ h \in Nat /\ high <= h /\ t <= h
  BY DEF Smaller, Larger
<1>2. n * l <= n * low /\ n * high <= n * h
  BY <1>1, ProductMonotone
<1>3. (n + 1) * l = n * l + l /\ (n + 1) * h = n * h + h
  BY <1>1
<1>4. n * l \in Nat /\ n * h \in Nat /\ n * low \in Nat /\ n * high \in Nat
  BY <1>1
<1> HIDE DEF l, h
<1>5. (n + 1) * l <= s + t /\ s + t <= (n + 1) * h
  BY <1>1, <1>2, <1>3, <1>4
<1> QED BY <1>5 DEF l, h

(* Every step of the statistics preserves the invariant.                   *)
LEMMA StatisticsStep ==
    ASSUME TimesFit, StatisticsInv, [Next]_vars
    PROVE  StatisticsInv'
<1>0. clm_iefb_statistics_clear \in [number_of_samples : Nat, sum : Nat,
                                     min : Nat, average : Nat, max : Nat]
  BY DEF clm_iefb_statistics_clear, TimesFit
<1>1. CASE Clear
  BY <1>0, <1>1 DEF Clear, StatisticsInv, clm_iefb_statistics_clear, TimesFit
<1>2. ASSUME NEW t \in ResponseTimes, HandleResponse(t)
      PROVE  StatisticsInv'
  <2> DEFINE n == measured_time.number_of_samples
             low == measured_time.min
             high == measured_time.max
  <2>1. /\ n \in Nat /\ low \in Nat /\ high \in Nat /\ total \in Nat
        /\ n * low <= total /\ total <= n * high
        /\ measured_time.sum = total
    BY DEF StatisticsInv
  <2>2. t \in Nat /\ t <= UINT32_MAX \div 2 /\ UINT32_MAX \in Nat
    BY DEF TimesFit
  <2>3. CASE ~IsCounted(measured_time)
    <3>1. measured_time' = measured_time /\ total' = total
      BY <1>2, <2>3, Zenon
      DEF HandleResponse, clm_iefb_statistics_update_response_time
    <3> QED BY <3>1, Zenon DEF StatisticsInv
  <2>4. CASE IsCounted(measured_time)
    <3>1. (total + t) % (UINT32_MAX + 1) = total + t
      <4>1. total < UINT32_MAX \div 2
        BY <2>1, <2>4, Zenon DEF IsCounted
      <4>2. total \in Nat
        BY <2>1, Zenon
      <4> QED BY <2>2, <4>1, <4>2, NoWrap
    <3>2. /\ measured_time' =
                [number_of_samples |-> n + 1, sum |-> total + t,
                 min |-> Smaller(t, low), average |-> (total + t) \div (n + 1),
                 max |-> Larger(t, high)]
          /\ total' = total + t
      BY <1>2, <2>1, <2>4, <3>1 DEF HandleResponse,
         clm_iefb_statistics_update_response_time
    <3>3. /\ (n + 1) * Smaller(t, low) <= total + t
          /\ total + t <= (n + 1) * Larger(t, high)
      BY <2>1, <2>2, UpdateBounds
    <3>4. Smaller(t, low) \in Nat /\ Larger(t, high) \in Nat
      BY <2>1, <2>2 DEF Smaller, Larger
    <3>5. (total + t) \div (n + 1) \in Nat
      BY <2>1, <2>2, <3>3, <3>4, AverageBounds
    <3> HIDE DEF n, low, high
    <3> QED BY <2>1, <2>2, <3>2, <3>3, <3>4, <3>5 DEF StatisticsInv
  <2> QED BY <2>3, <2>4
<1>3. CASE UNCHANGED vars
  BY <1>3 DEF vars, StatisticsInv
<1> QED BY <1>1, <1>2, <1>3 DEF Next

(***************************************************************************)
(* The statistics are exact as long as no single time exceeds half the     *)
(* range of the 32 bits, for every number of samples.  The condition is    *)
(* needed: a response that is accepted before the first link scan is       *)
(* measured from the timestamp 0, so its time may be any value, and the    *)
(* sum wraps.                                                              *)
(***************************************************************************)
THEOREM ResponseTimesExact ==
    ASSUME TimesFit
    PROVE  Spec => []StatisticsExact
<1>1. Init => StatisticsInv
  BY DEF Init, StatisticsInv, clm_iefb_statistics_clear, TimesFit
<1>2. StatisticsInv /\ [Next]_vars => StatisticsInv'
  BY StatisticsStep
<1>3. StatisticsInv => StatisticsExact
  <2> SUFFICES ASSUME StatisticsInv, measured_time.number_of_samples > 0
               PROVE  /\ measured_time.sum = total
                      /\ measured_time.min <= measured_time.average
                      /\ measured_time.average <= measured_time.max
    BY DEF StatisticsExact
  <2>1. /\ measured_time.number_of_samples \in Nat
        /\ measured_time.min \in Nat /\ measured_time.max \in Nat
        /\ total \in Nat
    BY DEF StatisticsInv
  <2> QED BY <2>1, AverageBounds DEF StatisticsInv
<1> QED BY <1>1, <1>2, <1>3, PTL DEF Spec
=============================================================================
