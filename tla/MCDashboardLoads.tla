-------------------------- MODULE MCDashboardLoads --------------------------
(* TLC instance of DashboardLoads: a page with a chart, the page of the      *)
(* explorer, which has none until the user puts one there, and a page to     *)
(* add.  Another tab may have selected the other window and put the second   *)
(* chart on the explorer's page, or hidden the first one, removed that page  *)
(* and added the other.                                                      *)
EXTENDS DashboardLoads

CONSTANTS home, metricsPage, added, m1, m2

MCDefaultPanels == [p \in Pages |-> IF p = home THEN {m1} ELSE {}]

MCDocuments ==
  {[window |-> 2, hidden |-> {}, gone |-> {added},
    panels |-> [p \in Pages |-> CASE p = home -> {m1} [] p = metricsPage -> {m2}
                                  [] p = added -> {}]],
   [window |-> 1, hidden |-> {m1}, gone |-> {metricsPage},
    panels |-> MCDefaultPanels]}

=============================================================================
