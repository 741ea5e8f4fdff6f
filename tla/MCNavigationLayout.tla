------------------------- MODULE MCNavigationLayout -------------------------
(* TLC instance of NavigationLayout: a page with a chart, a page of tables,  *)
(* and the protected page of the layout editor, in two sections.             *)
EXTENDS NavigationLayout

CONSTANTS overview, metrics, layouts, chartPages, bottom, gpu, sectionsPanel

MCNavigation ==
  <<[id |-> overview, section |-> chartPages, placement |-> "main"],
    [id |-> metrics, section |-> chartPages, placement |-> "main"],
    [id |-> layouts, section |-> bottom, placement |-> "bottom"]>>

MCBuiltIn ==
  <<[id |-> gpu, page |-> overview, type |-> "timeseries"],
    [id |-> sectionsPanel, page |-> layouts, type |-> "sections"]>>

MCMetricLimit ==
  [type \in {"timeseries", "stats", "metric-table"} |->
     IF type = "metric-table" THEN 2 ELSE 1]

Symmetry == Permutations(NewPages) \cup Permutations(NewSections)

=============================================================================
