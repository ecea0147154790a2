---------------------------- MODULE MCReportGraph ----------------------------
(***************************************************************************)
(* ReportGraph for TLC: all graphs of the report with two series, every    *)
(* setting, a range to zoom to and another, granularities around every     *)
(* threshold of the format and of the units, and points just before a      *)
(* minute, an hour or a day ends.                                          *)
(***************************************************************************)
EXTENDS ReportGraph

CONSTANTS l1, l2, r1, r2

MCLabels == {l1, l2}
MCChoices == {{}, {l1}, MCLabels}
MCRanges == {r1, r2}

MCGranularities ==
    {500, 999, SecondMs, MinuteMs - 1, MinuteMs, 61001, HourMs - 1, HourMs, 3661001,
     Fold - 1, Fold, DayMs - 1, DayMs, DayMs + 3661001, DayMs + Fold}

MCStarts ==
    {0, MinuteMs - 1, HourMs - SecondMs, HourMs - 1, DayMs - 1, DayMs - MinuteMs + 1}
=============================================================================
