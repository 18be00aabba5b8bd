-------------------------------- MODULE Battery --------------------------------
(***************************************************************************)
(* The battery (yt_src/vbat/vbat.cpp): every half a minute ten readings,   *)
(* one every two seconds, whose mean without the largest and the smallest  *)
(* is compared with one limit.  After the sixth low mean - in all, not in  *)
(* a row - the toy says that it is off, plays nothing any more and has no  *)
(* keys.                                                                   *)
(***************************************************************************)
EXTENDS Integers

CONSTANTS
    Readings,           \* how often a mean is read (10)
    Levels,             \* what the converter gives
    Low,                \* the limit (610)
    low_power_max_cnt,  \* 5
    AlertTimes, Delay   \* vbat_low_power_alert_times and the wait, both in ms

VARIABLES
    _vbat_status,  \* "FULL", "LOW_POWER" or "SHUTDOWN"
    lowPowerCnt,
    alert_times,
    started,       \* vbat_check_startup was called
    warned,        \* history: the child was told that the battery is low
    lowReadings,   \* history: means of which two readings at least were low
    reads, sum, ival_max, ival_min,  \* of the mean that is being made
    lows           \* history: its readings that were low

mean == <<reads, sum, ival_max, ival_min, lows>>
vbatVars == <<_vbat_status, lowPowerCnt, alert_times, started, warned, lowReadings, mean>>

NoReading == reads = 0 /\ sum = 0 /\ ival_max = 0 /\ ival_min = 0 /\ lows = 0

VbatInit ==
    /\ _vbat_status = "FULL" /\ lowPowerCnt = 0 /\ alert_times = AlertTimes
    /\ started = FALSE /\ warned = FALSE /\ lowReadings = 0 /\ NoReading
-----------------------------------------------------------------------------
\* vbat_check_startup: one reading.
CheckStartup ==
    /\ ~started /\ started' = TRUE
    /\ \E _ival \in Levels : _vbat_status' = IF _ival < Low THEN "SHUTDOWN" ELSE "FULL"
    /\ UNCHANGED <<lowPowerCnt, alert_times, warned, lowReadings, mean>>

\* get_vbat_avg, a reading at a time.
Read ==
    /\ started /\ reads < Readings /\ reads' = reads + 1
    /\ \E _ival \in Levels :
         /\ sum' = sum + _ival
         /\ ival_max' = IF reads = 0 \/ _ival > ival_max THEN _ival ELSE ival_max
         /\ ival_min' = IF reads = 0 \/ _ival < ival_min THEN _ival ELSE ival_min
         /\ lows' = IF _ival < Low THEN lows + 1 ELSE lows
    /\ UNCHANGED <<_vbat_status, lowPowerCnt, alert_times, started, warned, lowReadings>>

\* The smallest reading counts too.
MeanWithSmallest == (sum - ival_max) \div (Readings - 1)
\* get_vbat_avg, what it returns.
Mean == (sum - ival_max - ival_min) \div (Readings - 2)

\* vbat_check, once
Check ==
    /\ reads = Readings
    /\ lowReadings' = lowReadings + (IF lows >= 2 THEN 1 ELSE 0)
    /\ lowReadings' <= low_power_max_cnt + 2
    /\ IF Mean >= Low THEN UNCHANGED <<_vbat_status, lowPowerCnt, alert_times, warned>>
       ELSE /\ lowPowerCnt <= low_power_max_cnt /\ lowPowerCnt' = lowPowerCnt + 1
            /\ IF lowPowerCnt' > low_power_max_cnt
                 THEN _vbat_status' = "SHUTDOWN" /\ UNCHANGED <<alert_times, warned>>
                 ELSE /\ _vbat_status' = IF _vbat_status = "FULL" THEN "LOW_POWER" ELSE _vbat_status
                      /\ IF alert_times > AlertTimes
                           THEN alert_times' = 0 /\ warned' = TRUE
                           ELSE alert_times' = alert_times + Delay /\ UNCHANGED warned
    /\ reads' = 0 /\ sum' = 0 /\ ival_max' = 0 /\ ival_min' = 0 /\ lows' = 0 /\ UNCHANGED started

VbatNext == CheckStartup \/ Read \/ Check
VbatSpec == VbatInit /\ [][VbatNext]_vbatVars
-----------------------------------------------------------------------------
\* The toy goes off only after the child was told, and one reading that is out
\* of order does not count; only at the start one reading decides.
ShutdownIsEarned ==
    lowPowerCnt > low_power_max_cnt => warned /\ lowReadings > low_power_max_cnt

\* What every step keeps: the readings of the mean that is being made, of which
\* at most one was low, are not low without the largest and the smallest; and
\* the second low mean has warned the child.
Counted ==
    /\ reads \in 0 .. Readings /\ lows \in Nat
    /\ {sum, ival_max, ival_min} \subseteq Nat
    /\ reads = 0 => NoReading
    /\ reads > 0 => ival_min <= ival_max
NotLow ==
    /\ reads > 0 /\ lows = 0 => ival_min >= Low /\ sum - ival_max >= Low * (reads - 1)
    /\ reads > 0 /\ lows = 1 => ival_min < Low /\ sum - ival_min >= Low * (reads - 1)
    /\ lows <= 1 /\ (reads > 1 \/ lows = 1) => sum - ival_max - ival_min >= Low * (reads - 2)
Warned ==
    /\ lowPowerCnt = 0 => alert_times = AlertTimes
    /\ lowPowerCnt = 1 => alert_times = AlertTimes + Delay
    /\ lowPowerCnt > 1 => warned
VbatInv ==
    /\ lowPowerCnt \in Nat /\ alert_times \in Nat /\ lowReadings \in Nat
    /\ lowPowerCnt <= lowReadings
    /\ Counted /\ NotLow /\ Warned
================================================================================
