------------------------------ MODULE ReportTimes ------------------------------
(***************************************************************************)
(* How the load-test report writes times: the title of an axis names the   *)
(* granularity of the data as a duration, and the format of the axis,      *)
(* which the tooltips of the points use too, is chosen by it.              *)
(*                                                                         *)
(* External: flot's formatting of a point's time.                          *)
(***************************************************************************)
LOCAL INSTANCE Naturals

DayMs == 86400000
HourMs == 3600000
MinuteMs == 60000
SecondMs == 1000

\* What is left after the days is taken modulo a tenth of a day.
Fold == 8640000

\* Fault: the seconds are taken of the hours' rest.
CountSecondsOfHour(duration) ==
    LET rest == duration % Fold
    IN  [day |-> duration \div DayMs,
         hour |-> rest \div HourMs,
         min |-> (rest % HourMs) \div MinuteMs,
         sec |-> (rest % HourMs) \div SecondMs,
         ms |-> rest % SecondMs]

\* How many of each unit formatDuration finds.
Count(duration) ==
    LET rest == duration % Fold
    IN  [day |-> duration \div DayMs,
         hour |-> rest \div HourMs,
         min |-> (rest % HourMs) \div MinuteMs,
         sec |-> (rest % MinuteMs) \div SecondMs,
         ms |-> rest % SecondMs]

\* The text has the parts that are not zero.
formatDuration(duration) ==
    LET count == Count(duration)
    IN  {<<count[u], u>> : u \in {u \in DOMAIN count : count[u] > 0}}

\* What a text says, in ms.  It has at most one part for a unit.
Said(parts, unit) ==
    IF \E p \in parts : p[2] = unit THEN (CHOOSE p \in parts : p[2] = unit)[1] ELSE 0

Meaning(parts) ==
    Said(parts, "day") * DayMs + Said(parts, "hour") * HourMs + Said(parts, "min") * MinuteMs
        + Said(parts, "sec") * SecondMs + Said(parts, "ms")

\* The fields that a time is written with.
getTimeFormat(granularity) ==
    CASE granularity >= DayMs                              -> {"date"}
      [] granularity < DayMs /\ granularity >= HourMs      -> {"date", "hour"}
      [] granularity < HourMs /\ granularity >= MinuteMs   -> {"date", "hour", "minute"}
      [] granularity < MinuteMs                            -> {"hour", "minute", "second"}

Written(time, granularity) ==
    LET field == [date   |-> time \div DayMs,
                  hour   |-> (time \div HourMs) % 24,
                  minute |-> (time \div MinuteMs) % 60,
                  second |-> (time \div SecondMs) % 60]
    IN  [f \in getTimeFormat(granularity) |-> field[f]]
=============================================================================
