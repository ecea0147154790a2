----------------------------- MODULE ReportFilter -----------------------------
(***************************************************************************)
(* Which samples the load-test report shows.  createTable of dashboard.js  *)
(* decides for each row, prepareSeries of dashboard-commons.js filters the *)
(* series of a graph in place; both read the same three settings, in       *)
(* conditions written differently.                                         *)
(*                                                                         *)
(* s is the report's settings: filtering (seriesFilter is not empty),      *)
(* onlySamples (filtersOnlySampleSeries), controllers (showControllersOnly)*)
(* and, of the samples, matching and isController as sets; supports is     *)
(* supportsControllersDiscrimination of a table or a graph.                *)
(***************************************************************************)
\* Fault: the filter is kept from the tables it should apply to.
RowShownInverted(s, supports, l) ==
    /\ ~s.filtering \/ (s.onlySamples /\ supports) \/ l \in s.matching
    /\ ~s.controllers \/ ~supports \/ l \in s.isController

\* createTable inserts a row.
RowShown(s, supports, l) ==
    /\ ~s.filtering \/ (s.onlySamples /\ ~supports) \/ l \in s.matching
    /\ ~s.controllers \/ ~supports \/ l \in s.isController

\* prepareSeries: what is left of the series.
Prepared(s, supports, ignoreFilter, series) ==
    LET matched == IF ~ignoreFilter /\ s.filtering /\ (~s.onlySamples \/ supports)
                   THEN series \cap s.matching ELSE series
    IN  IF supports /\ s.controllers THEN matched \cap s.isController ELSE matched
=============================================================================
