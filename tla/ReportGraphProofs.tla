--------------------------- MODULE ReportGraphProofs ---------------------------
(***************************************************************************)
(* Theorems about the load-test report, for any series, settings, ranges,  *)
(* granularities and times: what a page shows of a graph agrees, its data  *)
(* is prepared once, and its times can be read.                            *)
(***************************************************************************)
EXTENDS ReportGraph, TLAPS

\* What prepareSeries leaves of all series.
Left == Prepared(settings, Has("samples"), Has("all"), Labels)

(***************************************************************************)
(* The series are all of them or what prepareSeries leaves, and this once  *)
(* there is a legend, which a graph that gives up without series has only  *)
(* if some are left.  Times are shifted with the first chart or never; and *)
(* nothing happens before document.ready.                                  *)
(***************************************************************************)
Filtered ==
    /\ series \in {Labels, Left}
    /\ legends > 0 => series = Left
    /\ legends > 0 /\ Has("empty") => series # {}

FirstTime ==
    /\ legends <= 1 /\ shifts <= 1
    /\ shifts > 0 => plotted
    /\ ~loaded => ~plotted

\* An arrow without a class would not be turned.
Marked == arrow # {}

GraphInv == ShowsOneState /\ Filtered /\ FirstTime /\ Marked

-----------------------------------------------------------------------------
(***************************************************************************)
(* The filter                                                              *)
(***************************************************************************)
\* prepareSeries works in place, and a second call finds nothing to remove.
LEMMA PreparedTwice ==
    ASSUME NEW s, NEW supports, NEW ignore, NEW all
    PROVE  /\ Prepared(s, supports, ignore, all) \subseteq all
           /\ Prepared(s, supports, ignore, Prepared(s, supports, ignore, all))
                = Prepared(s, supports, ignore, all)
<1> DEFINE filters == ~ignore /\ s.filtering /\ (~s.onlySamples \/ supports)
           matched == IF filters THEN all \cap s.matching ELSE all
<1>1. Prepared(s, supports, ignore, all)
        = IF supports /\ s.controllers THEN matched \cap s.isController ELSE matched
    BY Zenon DEF Prepared
<1>2. CASE supports /\ s.controllers
    BY <1>1, <1>2, Zenon DEF Prepared
<1>3. CASE ~(supports /\ s.controllers)
    BY <1>1, <1>3, Zenon DEF Prepared
<1>4. QED
    BY <1>2, <1>3

\* The two conditions of the report agree on a graph that does not ignore them.
LEMMA LeftIsShown ==
    ASSUME ~Has("all"), settings \in Settings
    PROVE  Left = {l \in Labels : RowShown(settings, Has("samples"), l)}
BY Zenon DEF Left, Prepared, RowShown, Settings

LEMMA PreparedLeaves ==
    ASSUME Filtered, PrepareSeries
    PROVE  series' = Left
<1>1. Prepared(settings, Has("samples"), Has("all"), Left) = Left
    BY PreparedTwice, Zenon DEF Left
<1>2. Prepared(settings, Has("samples"), Has("all"), Labels) = Left
    BY Zenon DEF Left
<1>3. series = Labels \/ series = Left
    BY DEF Filtered
<1>4. QED
    BY <1>1, <1>2, <1>3, Zenon DEF PrepareSeries

-----------------------------------------------------------------------------
(***************************************************************************)
(* What the handlers do to data, legend and drawing                        *)
(***************************************************************************)
\* What of GraphInv does not depend on the labels' colour nor on the panel.
Drawn ==
    /\ series \subseteq Labels /\ series \in {Labels, Left}
    /\ legends \in 0 .. 1 /\ shifts \in 0 .. 1
    /\ plotted = (legends > 0)
    /\ shifts > 0 => plotted
    /\ legends > 0 => series = Left
    /\ legends > 0 /\ Has("empty") => series # {}
    /\ checked \subseteq Entries /\ dimmed = Entries \ checked
    /\ chart = checked
    /\ zoom = selection /\ zoom \in Ranges \cup {Full}

\* The rest.
Around ==
    /\ graph \in GraphsOfReport /\ settings \in Settings
    /\ granularity \in Granularities \cup {1} /\ loaded \in BOOLEAN
    /\ shown \in BOOLEAN /\ arrow \in SUBSET {"up", "down"}
    /\ shown = ("down" \notin arrow) /\ arrow # {}
    /\ grey \in {Entries \ checked, checked}
    /\ ~loaded => ~plotted

LEMMA InvParts == GraphInv <=> Drawn /\ Around
<1>1. ASSUME GraphInv PROVE Drawn
    BY <1>1 DEF GraphInv, ShowsOneState, TypeOK, ChartShowsChecked, SwatchesTruthful,
        ZoomSynced, Filtered, FirstTime, Drawn
<1>2. ASSUME GraphInv PROVE Around
    BY <1>2 DEF GraphInv, ShowsOneState, TypeOK, LabelsAgree, ArrowTellsState, FirstTime, Marked, Around
<1>3. ASSUME Drawn, Around PROVE TypeOK
  <2>1. checked \subseteq Entries /\ grey \subseteq Entries /\ dimmed \subseteq Entries
      BY <1>3 DEF Drawn, Around
  <2>2. chart \subseteq series
      BY <1>3 DEF Drawn, Entries
  <2>3. QED
      BY <1>3, <2>1, <2>2 DEF Drawn, Around, TypeOK
<1>4. ASSUME Drawn, Around
      PROVE  ChartShowsChecked /\ SwatchesTruthful /\ LabelsAgree /\ ZoomSynced /\ ArrowTellsState
    BY <1>4 DEF Drawn, Around, ChartShowsChecked, SwatchesTruthful, LabelsAgree, ZoomSynced,
        ArrowTellsState
<1>5. ASSUME Drawn, Around PROVE Filtered /\ FirstTime /\ Marked
    BY <1>5 DEF Drawn, Around, Filtered, FirstTime, Marked
<1>6. QED
    BY <1>1, <1>2, <1>3, <1>4, <1>5 DEF GraphInv, ShowsOneState

\* InvParts, of the next state.
LEMMA InvPartsNext == GraphInv' <=> Drawn' /\ Around'
BY InvParts, PTL

LEMMA LeftStays == ASSUME UNCHANGED page PROVE Left' = Left
BY DEF page, Left, Has

(***************************************************************************)
(* A refresh that is asked to fix times comes before the first chart; the  *)
(* boxes are on or off as a whole, or as they were, and the swatches agree *)
(* with them.                                                              *)
(***************************************************************************)
LEMMA RefreshKeeps ==
    ASSUME Drawn, UNCHANGED page, NEW fix \in BOOLEAN, fix => ~plotted,
           NEW boxes \in {Entries, {}}, Refresh(fix, boxes, Entries \ boxes)
    PROVE  /\ Drawn'
           /\ plotted => plotted'
           /\ plotted => checked' = boxes
           /\ checked' \in {Entries', {}}
           /\ ~plotted => checked' = Entries'
<1>1. series' = Left /\ Left' = Left /\ (Has("empty")' <=> Has("empty"))
    BY PreparedLeaves, LeftStays DEF Drawn, Filtered, Refresh, page, Has
<1>2. Left \subseteq Labels
    BY PreparedTwice DEF Left
<1>3. CASE Has("empty") /\ series' = {}
  <2>1. legends = 0 /\ ~plotted /\ Entries = {}
      BY <1>1, <1>3 DEF Drawn, Entries
  <2>2. /\ UNCHANGED <<shifts, legends, plotted, chart, zoom, selection>>
        /\ checked' = {} /\ dimmed' = {}
      BY <1>3, <2>1 DEF Refresh, drawing
  <2>3. Entries' = {}
      BY <2>1, <2>2 DEF Entries
  <2>4. chart = {}
      BY <2>1 DEF Drawn
  <2>5. QED
      BY <1>1, <1>2, <2>1, <2>2, <2>3, <2>4 DEF Drawn
<1>4. CASE ~(Has("empty") /\ series' = {}) /\ plotted
  <2>1. /\ UNCHANGED <<shifts, legends>> /\ checked' = boxes /\ dimmed' = Entries \ boxes
        /\ chart' = boxes \cap series' /\ plotted' = TRUE /\ zoom' = Full /\ selection' = Full
      BY <1>4 DEF Refresh, FixTimeStamps, CreateGraph
  <2>2. series = Left /\ legends > 0
      BY <1>4 DEF Drawn
  <2>3. Entries' = Entries /\ Entries = series'
      BY <1>1, <2>1, <2>2 DEF Entries
  <2>4. legends' \in 0 .. 1 /\ shifts' \in 0 .. 1 /\ legends' > 0
      BY <2>1, <2>2 DEF Drawn
  <2>5. QED
      BY <1>1, <1>2, <1>4, <2>1, <2>3, <2>4 DEF Drawn
<1>5. CASE ~(Has("empty") /\ series' = {}) /\ ~plotted
  <2>0. legends \in 0 .. 1 /\ shifts \in 0 .. 1 /\ ~(legends > 0) /\ ~(shifts > 0)
      BY <1>5, Zenon DEF Drawn
  <2>1. legends = 0 /\ shifts = 0
      BY <2>0
  <2>2. /\ legends' = 1 /\ checked' = series' /\ dimmed' = {}
        /\ chart' = checked' \cap series' /\ plotted' = TRUE /\ zoom' = Full /\ selection' = Full
        /\ shifts' \in 0 .. 1
      BY <1>5, <2>1 DEF Refresh, FixTimeStamps, CreateGraph, CreateLegend, AtMost2
  <2>3. Entries' = series'
      BY <2>2 DEF Entries
  <2>4. legends' \in 0 .. 1 /\ (legends' > 0) = TRUE
      BY <2>2
  <2>5. chart' = checked' /\ dimmed' = Entries' \ checked' /\ zoom' = selection'
      BY <2>2, <2>3
  <2>6. QED
      BY <1>1, <1>2, <1>5, <2>2, <2>3, <2>4, <2>5 DEF Drawn
<1>6. QED
    BY <1>3, <1>4, <1>5

LEMMA ClickKeeps ==
    ASSUME Drawn, NEW l \in Labels, ClickLabel(l)
    PROVE  Drawn'
<1>1. /\ UNCHANGED <<graph, settings, series, shifts, legends>> /\ l \in series /\ legends > 0
      /\ checked' = Toggle(checked, l) /\ dimmed' = Toggle(dimmed, l)
      /\ chart' = checked' \cap series /\ plotted' = TRUE /\ zoom' = Full /\ selection' = Full
    BY DEF ClickLabel, CreateGraph, page
<1>2. Entries = series /\ Entries' = series
    BY <1>1 DEF Entries
<1>3. checked' \subseteq series /\ dimmed' = series \ checked'
    BY <1>1, <1>2 DEF Drawn, Toggle
<1>4. Left' = Left /\ (Has("empty")' <=> Has("empty"))
    BY <1>1 DEF Left, Has
<1>5. QED
    BY <1>1, <1>2, <1>3, <1>4 DEF Drawn

\* A selection changes the axes and the overview alone, and both alike.
LEMMA ZoomKeeps ==
    ASSUME Drawn, NEW range \in Ranges \cup {Full}, zoom' = range, selection' = range,
           UNCHANGED <<page, data, legend, plotted, chart>>
    PROVE  Drawn'
BY DEF Drawn, page, data, legend, Left, Has, Entries

LEMMA DrawnUnchanged ==
    ASSUME Drawn, UNCHANGED <<page, data, legend, drawing>>
    PROVE  Drawn'
BY DEF Drawn, page, data, legend, drawing, Left, Has, Entries

-----------------------------------------------------------------------------
LEMMA InitGraphInv == Init => GraphInv
<1> SUFFICES ASSUME Init PROVE GraphInv
    OBVIOUS
<1>1. Entries = {} /\ plotted = (legends > 0)
  <2>1. legends = 0 /\ plotted = FALSE
      BY DEF Init
  <2>2. (legends > 0) = FALSE
      BY <2>1
  <2>3. QED
      BY <2>1, <2>2, Zenon DEF Entries
<1>2. Drawn
    BY <1>1 DEF Init, Drawn
<1>3. granularity \in Granularities \cup {1}
    BY DEF Init
<1>4. shown \in BOOLEAN /\ arrow \in SUBSET {"up", "down"} /\ shown = ("down" \notin arrow) /\ arrow # {}
  <2>1. CASE shown
    <3>1. arrow = {"up"}
        BY <2>1, Zenon DEF Init
    <3>2. shown \in BOOLEAN
        BY DEF Init, Has
    <3>3. QED
        BY <2>1, <3>1, <3>2
  <2>2. CASE ~shown
    <3>1. arrow = {"down"}
        BY <2>2, Zenon DEF Init
    <3>2. shown \in BOOLEAN
        BY DEF Init, Has
    <3>3. QED
        BY <2>2, <3>1, <3>2
  <2>3. QED
      BY <2>1, <2>2
<1>5. Around
    BY <1>1, <1>3, <1>4 DEF Init, Around
<1>6. QED
    BY <1>2, <1>5, InvParts

LEMMA ReadyStep == ASSUME Drawn, Around, Ready PROVE Drawn' /\ Around'
<1>1. UNCHANGED <<page, panel>> /\ loaded' = TRUE /\ UNCHANGED grey /\ ~plotted
    BY DEF Ready, Around, legend
<1>2. Entries = {} /\ checked = {} /\ dimmed = {} /\ grey = {}
    BY <1>1 DEF Drawn, Around, Entries
<1>3. CASE Has("ready")
  <2>1. Refresh(TRUE, checked, dimmed)
      BY <1>3 DEF Ready
  <2>2. Drawn' /\ checked' = Entries'
      BY <1>1, <1>2, <2>1, RefreshKeeps
  <2>3. QED
      BY <1>1, <1>2, <2>2 DEF Around, page, panel
<1>4. CASE ~Has("ready")
  <2>1. UNCHANGED <<data, legend, drawing>>
      BY <1>4 DEF Ready
  <2>2. QED
      BY <1>1, <2>1, DrawnUnchanged DEF Around, page, panel, data, legend, Entries
<1>5. QED
    BY <1>3, <1>4

LEMMA OpenStep == ASSUME Drawn, Around, Open PROVE Drawn' /\ Around'
<1>1. UNCHANGED <<page, loaded, grey>> /\ loaded = TRUE /\ shown' = TRUE
    BY DEF Open, Around, legend
<1>2. arrow' \in SUBSET {"up", "down"} /\ "down" \notin arrow' /\ arrow' # {}
    BY DEF Open, Around
<1>3. CASE plotted \/ Has("ready")
  <2>1. UNCHANGED <<data, legend, drawing>>
      BY <1>3 DEF Open
  <2>2. QED
      BY <1>1, <1>2, <2>1, DrawnUnchanged DEF Around, page, data, legend, Entries
<1>4. CASE ~plotted /\ ~Has("ready")
  <2>1. Entries = {} /\ checked = {} /\ dimmed = {} /\ grey = {}
      BY <1>4 DEF Drawn, Around, Entries
  <2>2. Refresh(TRUE, checked, dimmed)
      BY <1>4 DEF Open
  <2>3. Drawn' /\ checked' = Entries'
      BY <1>1, <1>4, <2>1, <2>2, RefreshKeeps
  <2>4. QED
      BY <1>1, <1>2, <2>1, <2>3 DEF Around, page
<1>5. QED
    BY <1>3, <1>4

LEMMA CloseStep == ASSUME Drawn, Around, Close \/ CloseAll PROVE Drawn' /\ Around'
<1>1. UNCHANGED <<page, loaded, data, legend, drawing>> /\ shown = TRUE /\ shown' = FALSE
    BY DEF Close, CloseAll, Around
<1>2. "down" \notin arrow
    BY <1>1 DEF Around
<1>3. arrow' \in SUBSET {"up", "down"}
    BY DEF Close, CloseAll, Around
<1>4. "down" \in arrow'
    BY <1>2, <1>1 DEF Close, CloseAll, Around
<1>5. Drawn'
    BY <1>1, DrawnUnchanged
<1>6. QED
    BY <1>1, <1>3, <1>4, <1>5 DEF Around, page, data, legend, drawing, Entries

LEMMA ClickStep ==
    ASSUME Drawn, Around, NEW l \in Labels, ClickLabel(l)
    PROVE  Drawn' /\ Around'
<1>1. /\ UNCHANGED <<page, loaded, panel, series, legends>> /\ l \in series /\ legends > 0
      /\ checked' = Toggle(checked, l) /\ grey' = Toggle(grey, l)
    BY DEF ClickLabel
<1>2. Entries = series /\ Entries' = series
    BY <1>1 DEF Entries
<1>3. grey \in {series \ checked, checked} /\ checked \subseteq series
    BY <1>2 DEF Drawn, Around
<1>4. grey' \in {series \ checked', checked'}
    BY <1>1, <1>3 DEF Toggle
<1>5. loaded
    BY <1>1, Zenon DEF Drawn, Around
<1>6. QED
    BY <1>1, <1>2, <1>4, <1>5, ClickKeeps DEF Around, page, panel

\* All boxes are on or off after it, so either colour of all labels agrees.
LEMMA ToggleAllStep ==
    ASSUME Drawn, Around, NEW on \in BOOLEAN, ToggleAll(on)
    PROVE  Drawn' /\ Around'
<1> DEFINE boxes == IF on THEN Entries ELSE {}
<1>1. /\ UNCHANGED <<page, loaded, panel>> /\ loaded
      /\ boxes \in {Entries, {}} /\ Refresh(FALSE, boxes, Entries \ boxes)
      /\ grey' = {} \/ grey' = Entries'
    BY DEF ToggleAll
<1>2. Drawn' /\ checked' \in {Entries', {}}
    BY <1>1, RefreshKeeps
<1>3. grey' \in {Entries' \ checked', checked'}
    BY <1>1, <1>2
<1>4. QED
    BY <1>1, <1>2, <1>3 DEF Around, page, panel

LEMMA ZoomStep ==
    ASSUME Drawn, Around,
           (\E range \in Ranges : SelectGraph(range) \/ SelectOverview(range)) \/ ClearOverview
    PROVE  Drawn' /\ Around'
<1>1. PICK range \in Ranges \cup {Full} :
        /\ zoom' = range /\ selection' = range
        /\ UNCHANGED <<page, loaded, panel, data, legend, plotted, chart>>
    BY DEF SelectGraph, SelectOverview, Selected, ClearOverview
<1>2. Drawn'
    BY <1>1, ZoomKeeps
<1>3. QED
    BY <1>1, <1>2 DEF Around, page, panel, data, legend, Entries

LEMMA StepKeepsGraphInv == GraphInv /\ [Next]_vars => GraphInv'
<1> SUFFICES ASSUME Drawn, Around, [Next]_vars PROVE Drawn' /\ Around'
    BY InvParts, InvPartsNext
<1>1. CASE Ready
    BY <1>1, ReadyStep
<1>2. CASE Open
    BY <1>2, OpenStep
<1>3. CASE Close \/ CloseAll
    BY <1>3, CloseStep
<1>4. ASSUME NEW l \in Labels, ClickLabel(l) PROVE Drawn' /\ Around'
    BY <1>4, ClickStep
<1>5. ASSUME NEW on \in BOOLEAN, ToggleAll(on) PROVE Drawn' /\ Around'
    BY <1>5, ToggleAllStep
<1>6. CASE (\E range \in Ranges : SelectGraph(range) \/ SelectOverview(range)) \/ ClearOverview
    BY <1>6, ZoomStep
<1>7. CASE UNCHANGED vars
  <2>1. UNCHANGED <<page, loaded, panel, data, legend, drawing>>
      BY <1>7 DEF vars
  <2>2. QED
      BY <2>1, DrawnUnchanged DEF Around, page, panel, data, legend, drawing, Entries
<1>8. QED
    BY <1>1, <1>2, <1>3, <1>4, <1>5, <1>6, <1>7, Zenon DEF Next

\* GraphInv is inductive.
LEMMA GraphInvariant == Spec => []GraphInv
BY InitGraphInv, StepKeepsGraphInv, PTL DEF Spec

(***************************************************************************)
(* What a page shows of a graph agrees in whatever order document.ready,   *)
(* the panel, the legend, the menu and the selections come.                *)
(***************************************************************************)
THEOREM OneStateShown == Spec => []ShowsOneState
<1>1. GraphInv => ShowsOneState
    BY DEF GraphInv
<1>2. QED
    BY <1>1, GraphInvariant, PTL

(***************************************************************************)
(* Legend and times are made once, and a graph that heeds the filter shows *)
(* the series of the samples a table of the same settings shows.           *)
(***************************************************************************)
THEOREM DataPreparedOnce == Spec => []PreparedOnce
<1>1. GraphInv => PreparedOnce
  <2> SUFFICES ASSUME GraphInv PROVE PreparedOnce
      OBVIOUS
  <2>1. settings \in Settings
      BY DEF GraphInv, ShowsOneState, TypeOK
  <2>2. legends <= 1 /\ shifts <= 1
      BY DEF GraphInv, FirstTime
  <2>3. ASSUME legends > 0, ~Has("all")
        PROVE  series = {l \in Labels : RowShown(settings, Has("samples"), l)}
      BY <2>1, <2>3, LeftIsShown DEF GraphInv, Filtered
  <2>4. QED
      BY <2>2, <2>3 DEF PreparedOnce
<1>2. QED
    BY <1>1, GraphInvariant, PTL

-----------------------------------------------------------------------------
(***************************************************************************)
(* The times: the fields of a time that are written, and what two times    *)
(* have in common that are not told apart by a smaller unit.               *)
(***************************************************************************)
LEMMA FieldsWritten ==
    ASSUME NEW t \in Nat, NEW g \in Nat
    PROVE  /\ "date" \in getTimeFormat(g) => Written(t, g)["date"] = t \div DayMs
           /\ "hour" \in getTimeFormat(g) => Written(t, g)["hour"] = (t \div HourMs) % 24
           /\ "minute" \in getTimeFormat(g) => Written(t, g)["minute"] = (t \div MinuteMs) % 60
           /\ "second" \in getTimeFormat(g) => Written(t, g)["second"] = (t \div SecondMs) % 60
BY DEF Written

LEMMA FieldsChosen ==
    ASSUME NEW g \in Nat
    PROVE  /\ g >= DayMs => "date" \in getTimeFormat(g)
           /\ g >= HourMs /\ g < DayMs => {"date", "hour"} \subseteq getTimeFormat(g)
           /\ g >= MinuteMs /\ g < HourMs => {"hour", "minute"} \subseteq getTimeFormat(g)
           /\ g < MinuteMs => {"minute", "second"} \subseteq getTimeFormat(g)
BY SMTT(30) DEF getTimeFormat, DayMs, HourMs, MinuteMs

LEMMA DaysApart ==
    ASSUME NEW t \in Nat, NEW g \in Nat, g >= DayMs
    PROVE  t \div DayMs # (t + g) \div DayMs
BY SMTT(30) DEF DayMs

LEMMA HoursApart ==
    ASSUME NEW t \in Nat, NEW g \in Nat, g >= HourMs, t \div DayMs = (t + g) \div DayMs
    PROVE  (t \div HourMs) % 24 # ((t + g) \div HourMs) % 24
BY SMTT(30) DEF HourMs, DayMs

LEMMA MinutesApart ==
    ASSUME NEW t \in Nat, NEW g \in Nat, g >= MinuteMs, g < HourMs,
           (t \div HourMs) % 24 = ((t + g) \div HourMs) % 24
    PROVE  (t \div MinuteMs) % 60 # ((t + g) \div MinuteMs) % 60
BY SMTT(30) DEF MinuteMs, HourMs

LEMMA SecondsApart ==
    ASSUME NEW t \in Nat, NEW g \in Nat, g >= SecondMs, g < MinuteMs,
           (t \div MinuteMs) % 60 = ((t + g) \div MinuteMs) % 60
    PROVE  (t \div SecondMs) % 60 # ((t + g) \div SecondMs) % 60
BY SMTT(30) DEF SecondMs, MinuteMs

LEMMA PointsApart ==
    ASSUME NEW t \in Nat, NEW g \in Nat, g >= SecondMs
    PROVE  Written(t, g) # Written(t + g, g)
<1> SUFFICES ASSUME Written(t, g) = Written(t + g, g) PROVE FALSE
    OBVIOUS
<1>0. t + g \in Nat
    OBVIOUS
<1>1. CASE g >= DayMs
    BY <1>0, <1>1, FieldsWritten, FieldsChosen, DaysApart
<1>2. CASE g >= HourMs /\ g < DayMs
    BY <1>0, <1>2, FieldsWritten, FieldsChosen, HoursApart
<1>3. CASE g >= MinuteMs /\ g < HourMs
    BY <1>0, <1>3, FieldsWritten, FieldsChosen, MinutesApart
<1>4. CASE g < MinuteMs
    BY <1>0, <1>4, FieldsWritten, FieldsChosen, SecondsApart
<1>5. QED
    BY <1>1, <1>2, <1>3, <1>4, SMTT(30) DEF DayMs, HourMs, MinuteMs

-----------------------------------------------------------------------------
(***************************************************************************)
(* The durations.  The counts of the units add up to whole days and the    *)
(* folded rest, which is the rest itself just when it is below the fold; a *)
(* text says the counts it was made of, the parts it leaves out being zero.*)
(***************************************************************************)
Units == {"day", "hour", "min", "sec", "ms"}

LEMMA CountAddsUp ==
    ASSUME NEW d \in Nat
    PROVE  /\ \A u \in Units : Count(d)[u] \in Nat
           /\ Count(d)["day"] * DayMs + Count(d)["hour"] * HourMs + Count(d)["min"] * MinuteMs
                + Count(d)["sec"] * SecondMs + Count(d)["ms"]
                = (d \div DayMs) * DayMs + (d % Fold)
BY SMTT(30) DEF Units, Count, DayMs, HourMs, MinuteMs, SecondMs, Fold

LEMMA FoldedRest ==
    ASSUME NEW d \in Nat
    PROVE  (d \div DayMs) * DayMs + (d % Fold) = d <=> d % DayMs < Fold
<1>1. d = (d \div DayMs) * DayMs + (d % DayMs) /\ d % DayMs \in Nat
    BY SMTT(30) DEF DayMs
<1>2. d % Fold = (d % DayMs) % Fold
    BY SMTT(30) DEF DayMs, Fold
<1>3. (d % DayMs) % Fold = d % DayMs <=> d % DayMs < Fold
    BY <1>1, SMTT(30) DEF Fold
<1>4. QED
    BY <1>1, <1>2, <1>3, SMTT(30) DEF DayMs, Fold

LEMMA SaysTheCount ==
    ASSUME NEW d \in Nat, NEW unit \in Units, Count(d)[unit] \in Nat
    PROVE  Said(formatDuration(d), unit) = Count(d)[unit]
<1> DEFINE parts == formatDuration(d)
<1>1. DOMAIN Count(d) = Units
    BY DEF Count, Units
<1>2. parts = {<<Count(d)[v], v>> : v \in {v \in Units : Count(d)[v] > 0}}
    BY <1>1 DEF formatDuration
<1>3. \A p \in parts : p[2] = unit => p[1] = Count(d)[unit]
    BY <1>2
<1>4. Count(d)[unit] > 0 => <<Count(d)[unit], unit>> \in parts
    BY <1>2
<1>5. CASE \E p \in parts : p[2] = unit
    BY <1>3, <1>5, Zenon DEF Said
<1>6. CASE ~\E p \in parts : p[2] = unit
  <2>1. Said(parts, unit) = 0
      BY <1>6, Zenon DEF Said
  <2>2. <<Count(d)[unit], unit>>[2] = unit
      OBVIOUS
  <2>3. ~(Count(d)[unit] > 0)
      BY <1>4, <1>6, <2>2, Zenon
  <2>4. QED
      BY <2>1, <2>3
<1>7. QED
    BY <1>5, <1>6

LEMMA MeansTheDuration ==
    ASSUME NEW d \in Nat
    PROVE  Meaning(formatDuration(d)) = d <=> d % DayMs < Fold
<1> DEFINE parts == formatDuration(d)
<1>1. \A u \in Units : Said(parts, u) = Count(d)[u]
    BY CountAddsUp, SaysTheCount
<1>2. /\ Said(parts, "day") = Count(d)["day"] /\ Said(parts, "hour") = Count(d)["hour"]
      /\ Said(parts, "min") = Count(d)["min"] /\ Said(parts, "sec") = Count(d)["sec"]
      /\ Said(parts, "ms") = Count(d)["ms"]
    BY <1>1 DEF Units
<1>3. Meaning(parts) = (d \div DayMs) * DayMs + (d % Fold)
    BY <1>2, CountAddsUp, Zenon DEF Meaning
<1>4. QED
    BY <1>3, FoldedRest

(***************************************************************************)
(* Any two neighbouring points a second or more apart are written          *)
(* differently, wherever the axis starts, and a title means its            *)
(* granularity just when the rest after whole days is below the fold.      *)
(***************************************************************************)
THEOREM TimesAreReadable == Spec => []TimesReadable
<1>1. GraphInv => TimesReadable
  <2> SUFFICES ASSUME GraphInv PROVE TimesReadable
      OBVIOUS
  <2>1. granularity \in Nat
      BY GraphAssumption DEF GraphInv, ShowsOneState, TypeOK
  <2>2. \A t \in Starts : t \in Nat
      BY GraphAssumption
  <2>3. QED
      BY <2>1, <2>2, PointsApart, MeansTheDuration DEF TimesReadable
<1>2. QED
    BY <1>1, GraphInvariant, PTL
=============================================================================
