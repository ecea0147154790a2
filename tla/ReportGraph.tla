----------------------------- MODULE ReportGraph -----------------------------
(***************************************************************************)
(* One graph of the load-test report's pages: a panel that opens and       *)
(* closes, the chart with its overview, and a legend whose entries switch  *)
(* the series on and off.  The graphs share no state, so the module has    *)
(* one of them; which is chosen in Init, as the set of what its refresh    *)
(* function does.                                                          *)
(*                                                                         *)
(* External: flot, which draws a chart and reports selections on it, and   *)
(* bootstrap, which opens and closes the panels.                           *)
(***************************************************************************)
EXTENDS Naturals, ReportFilter, ReportTimes

CONSTANTS Labels,    \* the series of the graph
          Choices,   \* the sets of them that seriesFilter may match, or that
                     \* may be series of controllers
          Ranges,    \* the proper ranges that can be selected
          Granularities, Starts   \* ms between two points, ms of the first

Full == "full"       \* the axes as they are drawn, nothing selected

ASSUME GraphAssumption ==
    /\ Choices \subseteq SUBSET Labels /\ Full \notin Ranges
    /\ Granularities \subseteq Nat \ {0} /\ Starts \subseteq Nat

(***************************************************************************)
(* What a refresh function does:                                           *)
(*   "ready"    it is called once at document.ready, its panel being open  *)
(*   "time"     it shifts the times when it is asked to fix them           *)
(*   "empty"    it gives up when the filter leaves no series               *)
(*   "zoom"     it makes the chart and its overview zoomable               *)
(*   "samples"  its data supports the discrimination of controllers        *)
(*   "all"      it ignores the filter nevertheless                         *)
(***************************************************************************)
ResponseTimePercentiles           == {"ready", "empty", "zoom", "samples"}
ResponseTimeDistribution          == {"empty", "samples"}
SyntheticResponseTimeDistribution == {}
ActiveThreadsOverTime             == {"time", "zoom"}
TimeVsThreads                     == {"empty", "zoom", "samples"}
BytesThroughputOverTime           == {"time", "zoom"}
ResponseTimesOverTime             == {"ready", "time", "empty", "zoom", "samples"}
LatenciesOverTime                 == {"time", "empty", "zoom", "samples"}
ConnectTimeOverTime               == {"time", "empty", "zoom", "samples"}
ResponseTimePercentilesOverTime   == {"time", "zoom"}
ResponseTimeVsRequest             == {"zoom"}
LatenciesVsRequest                == {"zoom"}
HitsPerSecond                     == {"ready", "time", "zoom"}
CodesPerSecond                    == {"time", "zoom"}
TransactionsPerSecond             == {"time", "empty", "zoom", "samples"}
TotalTPS                          == {"time", "zoom", "samples", "all"}

GraphsOfReport ==
    {ResponseTimePercentiles, ResponseTimeDistribution,
     SyntheticResponseTimeDistribution, ActiveThreadsOverTime, TimeVsThreads,
     BytesThroughputOverTime, ResponseTimesOverTime, LatenciesOverTime,
     ConnectTimeOverTime, ResponseTimePercentilesOverTime,
     ResponseTimeVsRequest, LatenciesVsRequest, HitsPerSecond, CodesPerSecond,
     TransactionsPerSecond, TotalTPS}

VARIABLES graph, settings,   \* which graph, and the settings of the report
          granularity,       \* of the data, 1 without a time axis
          loaded,            \* document.ready has run
          shown, arrow,      \* the panel, and the classes of its arrow
          series,            \* labels of data.result.series
          shifts,            \* how often their times were shifted, 2: several
          legends,           \* how often the legend was made, 2: several
          checked,           \* the legend's boxes that are checked
          grey, dimmed,      \* its labels in grey, its swatches dimmed
          plotted,           \* the placeholder holds a plot
          chart,             \* the series drawn on it and on the overview
          zoom, selection    \* the chart's axes, the overview's selection

page == <<graph, settings, granularity>>
panel == <<shown, arrow>>
data == <<series, shifts>>
legend == <<legends, checked, grey, dimmed>>
drawing == <<plotted, chart, zoom, selection>>
vars == <<page, loaded, panel, data, legend, drawing>>

Has(feature) == feature \in graph
AtMost2(n) == IF n < 2 THEN n + 1 ELSE 2

-----------------------------------------------------------------------------
(***************************************************************************)
(* The refresh functions                                                   *)
(***************************************************************************)
PrepareSeries == series' = Prepared(settings, Has("samples"), Has("all"), series)

FixTimeStamps(fix) ==
    shifts' = IF fix /\ Has("time") THEN AtMost2(shifts) ELSE shifts

\* createLegend: every box is checked, the swatches are copied from the chart.
CreateLegend ==
    /\ legends' = AtMost2(legends)
    /\ checked' = series' /\ dimmed' = {}

\* Both charts are made anew, without a zoom and without a selection.
CreateGraph(boxes) ==
    /\ chart' = boxes \cap series'
    /\ plotted' = TRUE /\ zoom' = Full /\ selection' = Full

\* Boxes and swatches are as the caller has left them, or as a legend that is
\* made now has them.  The labels' colour is left to the caller: it is black
\* when the legend is made, and there is none before.
Refresh(fix, boxes, dims) ==
    /\ PrepareSeries
    /\ IF Has("empty") /\ series' = {}
       THEN checked' = boxes /\ dimmed' = dims
            /\ UNCHANGED <<shifts, legends, drawing>>
       ELSE /\ FixTimeStamps(fix)
            /\ IF plotted
               THEN checked' = boxes /\ dimmed' = dims /\ UNCHANGED legends
               ELSE CreateLegend
            /\ CreateGraph(checked')

-----------------------------------------------------------------------------
(***************************************************************************)
(* The page and its panels                                                 *)
(***************************************************************************)
Ready ==
    /\ ~loaded /\ loaded' = TRUE
    /\ IF Has("ready") THEN Refresh(TRUE, checked, dimmed) /\ UNCHANGED grey
                       ELSE UNCHANGED <<data, legend, drawing>>
    /\ UNCHANGED <<page, panel>>

\* Fault: opened again, the panel refreshes its graph again.
OpenAlways ==
    /\ loaded /\ ~shown /\ shown' = TRUE
    /\ arrow' = IF "down" \in arrow THEN (arrow \ {"down"}) \cup {"up"} ELSE arrow
    /\ Refresh(TRUE, checked, dimmed)
    /\ UNCHANGED <<page, loaded, grey>>

\* collapse(elem, false); the graphs that are ready have no case there.
Open ==
    /\ loaded /\ ~shown /\ shown' = TRUE
    /\ arrow' = IF "down" \in arrow THEN (arrow \ {"down"}) \cup {"up"} ELSE arrow
    /\ IF plotted \/ Has("ready") THEN UNCHANGED <<data, legend, drawing>>
                                  ELSE Refresh(TRUE, checked, dimmed) /\ UNCHANGED grey
    /\ UNCHANGED <<page, loaded>>

\* collapse(elem, true)
Close ==
    /\ loaded /\ shown /\ shown' = FALSE
    /\ arrow' = IF "up" \in arrow THEN (arrow \ {"up"}) \cup {"down"} ELSE arrow
    /\ UNCHANGED <<page, loaded, data, legend, drawing>>

\* Fault: the class that is added is the one that is there.
CloseAllUnmarked ==
    /\ loaded /\ shown /\ shown' = FALSE
    /\ UNCHANGED <<page, loaded, arrow, data, legend, drawing>>

\* A press on a resize icon closes all panels, without bootstrap's event; the
\* arrow keeps the class it had.
CloseAll ==
    /\ loaded /\ shown /\ shown' = FALSE
    /\ arrow' = IF "up" \in arrow THEN arrow \cup {"down"} ELSE arrow
    /\ UNCHANGED <<page, loaded, data, legend, drawing>>

-----------------------------------------------------------------------------
(***************************************************************************)
(* The legend                                                              *)
(***************************************************************************)
Toggle(s, l) == IF l \in s THEN s \ {l} ELSE s \cup {l}

\* Fault: the handler draws before the box has changed.
ClickLabelEarly(l) ==
    /\ shown /\ legends > 0 /\ l \in series
    /\ grey' = Toggle(grey, l) /\ dimmed' = Toggle(dimmed, l)
    /\ checked' = Toggle(checked, l)
    /\ series' = series
    /\ CreateGraph(checked)
    /\ UNCHANGED <<page, loaded, panel, shifts, legends>>

\* A click on a label: its colour and its swatch change, then the click goes
\* on to the hidden box, and the graph is drawn again.
ClickLabel(l) ==
    /\ shown /\ legends > 0 /\ l \in series
    /\ grey' = Toggle(grey, l) /\ dimmed' = Toggle(dimmed, l)
    /\ checked' = Toggle(checked, l)
    /\ series' = series
    /\ CreateGraph(checked')
    /\ UNCHANGED <<page, loaded, panel, shifts, legends>>

\* What the legend has an entry for.
Entries == IF legends > 0 THEN series ELSE {}

\* Fault: toggleClass without its second argument.
ToggleAllFlips(on) ==
    /\ loaded
    /\ Refresh(FALSE, IF on THEN Entries ELSE {}, Entries \ dimmed)
    /\ grey' = IF on THEN {} ELSE Entries'
    /\ UNCHANGED <<page, loaded, panel>>

\* toggleAll, from the panel's menu, which is there while the panel is closed
\* too.  The labels are coloured last, those the refresh has just made as well.
ToggleAll(on) ==
    /\ loaded
    /\ Refresh(FALSE, IF on THEN Entries ELSE {}, IF on THEN {} ELSE Entries)
    /\ grey' = IF on THEN {} ELSE Entries'
    /\ UNCHANGED <<page, loaded, panel>>

-----------------------------------------------------------------------------
(***************************************************************************)
(* Zoom: the handlers of setGraphZoomable                                  *)
(***************************************************************************)
\* Fault: the overview does not follow.
SelectedAlone(range) == zoom' = range /\ UNCHANGED selection

\* The chart's "plotselected": zoom, then show the range on the overview,
\* without an event of its own.
Selected(range) == zoom' = range /\ selection' = range

Zoomable == shown /\ plotted /\ Has("zoom")

SelectGraph(range) ==
    /\ Zoomable /\ Selected(range)
    /\ UNCHANGED <<page, loaded, panel, data, legend, plotted, chart>>

\* The overview's "plotselected" selects the range on the chart, whose
\* handler does the rest.
SelectOverview(range) ==
    /\ Zoomable /\ Selected(range)
    /\ UNCHANGED <<page, loaded, panel, data, legend, plotted, chart>>

\* A click that selects nothing: the chart gets the overview's axes.
ClearOverview ==
    /\ Zoomable /\ zoom' = Full /\ selection' = Full
    /\ UNCHANGED <<page, loaded, panel, data, legend, plotted, chart>>

-----------------------------------------------------------------------------
Settings == [filtering : BOOLEAN, onlySamples : BOOLEAN, controllers : BOOLEAN,
             matching : Choices, isController : Choices]

Init ==
    /\ graph \in GraphsOfReport /\ settings \in Settings
    /\ granularity \in IF Has("time") THEN Granularities ELSE {1}
    /\ loaded = FALSE
    /\ shown = Has("ready") /\ arrow = IF shown THEN {"up"} ELSE {"down"}
    /\ series = Labels /\ shifts = 0
    /\ legends = 0 /\ checked = {} /\ grey = {} /\ dimmed = {}
    /\ plotted = FALSE /\ chart = {} /\ zoom = Full /\ selection = Full

Next ==
    \/ Ready \/ Open \/ Close \/ CloseAll
    \/ \E l \in Labels : ClickLabel(l)
    \/ \E on \in BOOLEAN : ToggleAll(on)
    \/ \E range \in Ranges : SelectGraph(range) \/ SelectOverview(range)
    \/ ClearOverview

Spec == Init /\ [][Next]_vars

-----------------------------------------------------------------------------
(***************************************************************************)
(* The variables have their types; boxes, labels and swatches exist only   *)
(* for entries of the legend, which is made with the first chart.          *)
(***************************************************************************)
TypeOK ==
    /\ graph \in GraphsOfReport /\ settings \in Settings
    /\ granularity \in Granularities \cup {1} /\ loaded \in BOOLEAN
    /\ shown \in BOOLEAN /\ arrow \in SUBSET {"up", "down"}
    /\ series \subseteq Labels /\ shifts \in 0 .. 2 /\ legends \in 0 .. 2
    /\ checked \subseteq Entries /\ grey \subseteq Entries /\ dimmed \subseteq Entries
    /\ plotted = (legends > 0) /\ chart \subseteq series
    /\ {zoom, selection} \subseteq Ranges \cup {Full}

(***************************************************************************)
(* Whatever is clicked, opened and toggled in whatever order, the chart    *)
(* and its overview show the series whose boxes are checked: the chart is  *)
(* always drawn after the boxes have changed (prepareData).                *)
(***************************************************************************)
ChartShowsChecked == chart = checked

(***************************************************************************)
(* A swatch of the legend is dimmed just when its series is off, although  *)
(* a click flips it, toggleAll sets it and neither looks at the boxes.     *)
(***************************************************************************)
SwatchesTruthful == dimmed = Entries \ checked

(***************************************************************************)
(* The labels flip with the boxes on a click, and toggleAll paints them    *)
(* without looking at the boxes: either all of them tell the truth (grey   *)
(* for off) or all tell the opposite, never some of each.                  *)
(***************************************************************************)
LabelsAgree == grey \in {Entries \ checked, checked}

(***************************************************************************)
(* The range marked on the overview is the one the chart is zoomed to,     *)
(* after a selection on either, a reset, and a chart drawn anew.           *)
(***************************************************************************)
ZoomSynced == zoom = selection

(***************************************************************************)
(* The arrow of a panel points down, which the class "down" makes it even  *)
(* beside "up", just when the panel is closed, also by the resize icons,   *)
(* which do not go through bootstrap.                                      *)
(***************************************************************************)
ArrowTellsState == shown = ("down" \notin arrow)

(***************************************************************************)
(* What a page shows of a graph agrees, in whatever order its handlers     *)
(* run: chart, boxes, swatches, labels, overview and arrow.                *)
(***************************************************************************)
ShowsOneState ==
    /\ TypeOK
    /\ ChartShowsChecked /\ SwatchesTruthful /\ LabelsAgree /\ ZoomSynced /\ ArrowTellsState

(***************************************************************************)
(* The data is prepared once, however often a panel is opened and its menu *)
(* used: the legend is made once; fixTimeStamps, which changes the data in *)
(* place, moves the times at most once; and prepareSeries, which does too, *)
(* leaves what a table of the same samples shows by createTable's          *)
(* condition, also after many calls (TotalTPS ignores the filter).         *)
(***************************************************************************)
PreparedOnce ==
    /\ legends <= 1 /\ shifts <= 1
    /\ legends > 0 /\ ~Has("all") =>
         series = {l \in Labels : RowShown(settings, Has("samples"), l)}

(***************************************************************************)
(* Two neighbouring points at least a second apart are written differently *)
(* in the format that getTimeFormat chooses for their distance, across the *)
(* end of a minute, an hour and a day; and the axis' title means the       *)
(* granularity exactly when what is left of it after whole days is below   *)
(* the 8640000 ms that formatDuration folds at.                            *)
(***************************************************************************)
TimesReadable ==
    /\ granularity >= SecondMs => \A t \in Starts :
         Written(t, granularity) # Written(t + granularity, granularity)
    /\ Meaning(formatDuration(granularity)) = granularity <=> granularity % DayMs < Fold
=============================================================================
