----------------------- MODULE DashboardLoadsProofs -----------------------
(***************************************************************************)
(* What a tab shows, for any pages, charts, windows and answers, and any   *)
(* number of loads and selections.                                         *)
(*                                                                         *)
(* None of the three properties is inductive.  That the charts match the   *)
(* selection once nothing is to come needs to know of the load that will   *)
(* be applied: it is the one of the controller, asks for what the page     *)
(* shows unless a reload is scheduled or the page was given other charts   *)
(* without one, and every other one is aborted (OneLoadCounts).  That a    *)
(* snapshot leaves no hole in a chart of the page needs the series kept to *)
(* be tracked (KeptAreTracked).  That an explorer at rest shows the        *)
(* selected window needs the catalog it asked for, or has, to be of the    *)
(* window it remembers (ExplorerIsOfOneWindow).                            *)
(***************************************************************************)
EXTENDS DashboardLoads, SequenceTheorems, TLAPS

\* The load r has been sent and has not gone on yet.
UnderWay(r) == requests[r] # Idle

\* The load r asks for what the page shows, unless the page is behind.
AsksForPage(r) ==
  /\ requests[r].window = storeWindow
  /\ behind \/ ActiveCharts \subseteq requests[r].metrics

\* Every series kept, and every chart asked for, is of a tracked metric.
KeptAreTracked ==
  /\ DOMAIN series \subseteq tracked
  /\ \A r \in Requests : UnderWay(r) => requests[r].metrics \subseteq tracked

\* The load of the controller is the only one that may still be applied; it
\* is aborted only if a reload is scheduled, and asks for what the page shows
\* unless one is, or the page is behind.
OneLoadCounts ==
  /\ \A r \in Requests : UnderWay(r) /\ r # controller => requests[r].aborted
  /\ controller # 0 =>
       /\ UnderWay(controller)
       /\ ~reloadTimer => ~requests[controller].aborted /\ AsksForPage(controller)

\* What an explorer e asks for and has loaded are of one window, unless the
\* window was merged under it.
ExplorerIsOfOneWindow ==
  explorer # NoPanel =>
    /\ prefWindow # storeWindow => merged
    /\ explorer.loading =>
         /\ explorer.window # 0 /\ explorer.asked # 0
         /\ merged \/ explorer.asked = Cap(explorer.window)
    /\ ~merged /\ ~explorer.loading /\ ~explorer.failed =>
         explorer.loaded # 0 /\ explorer.seconds = Cap(explorer.loaded)

\* What a load under way remembers.
Ask ==
  [window : Windows, metrics : SUBSET Metrics, aborted : BOOLEAN, caller : Callers]

\* The parts of the type invariant that concern the charts and the explorer.
ChartTypes ==
  /\ storeWindow \in Windows
  /\ page \in Pages
  /\ panels \in [Pages -> SUBSET Metrics]
  /\ hidden \subseteq Metrics
  /\ reloadTimer \in BOOLEAN /\ started \in BOOLEAN
  /\ failed \in BOOLEAN /\ behind \in BOOLEAN
  /\ controller \in {0} \cup Requests
  /\ requests \in [Requests -> {Idle} \cup Ask]
  /\ tracked \subseteq Metrics
  /\ points \in 0 .. MaxPoints
  /\ DOMAIN series \subseteq Metrics
  /\ \A m \in DOMAIN series : series[m] \in Seq(BOOLEAN)
  /\ shown \in [window : {0} \cup Windows, metrics : SUBSET Metrics]

ExplorerTypes ==
  /\ prefWindow \in Windows
  /\ storeWindow \in Windows
  /\ updateQueued \in BOOLEAN /\ merged \in BOOLEAN
  /\ catalogCache \in {0} \cup Seconds
  /\ explorer \in Explorer \cup {NoPanel}
  /\ orphans \subseteq Seconds

TabTypes ==
  /\ gone \subseteq Pages
  /\ page \in Pages \ gone
  /\ paused \in BOOLEAN
  /\ route \in Pages
  /\ dock \in [panels : [Pages -> SUBSET Metrics], hidden : SUBSET Metrics]
  /\ selections \in 0 .. MaxSelections

\* Timestamps and series have one length.
Aligned == \A m \in DOMAIN series : Len(series[m]) = points

\* The inductive invariant of the charts, of the explorer and of both.
ChartsInv ==
  /\ ChartTypes
  /\ Aligned
  /\ KeptAreTracked
  /\ OneLoadCounts
  /\ ChartsMatchSelection

ExplorerInv ==
  /\ ExplorerTypes
  /\ ExplorerIsOfOneWindow
  /\ ExplorerMatchesWindow

LoadsInv ==
  /\ ChartsInv
  /\ ExplorerInv
  /\ TabTypes

USE LoadsAssumption

\* The type invariant of the model is that of its parts.
LEMMA TypesSplit ==
  TypeOK <=> ChartTypes /\ ExplorerTypes /\ TabTypes
BY DEF TypeOK, ChartTypes, ExplorerTypes, TabTypes, Ask

-----------------------------------------------------------------------------
(* The charts *)

\* The fields of a load under way.
LEMMA UnderWayParts ==
  ASSUME ChartTypes, NEW r \in Requests, UnderWay(r)
  PROVE  /\ requests[r] \in Ask
         /\ requests[r].window \in Windows
         /\ requests[r].metrics \subseteq Metrics
         /\ requests[r].aborted \in BOOLEAN
         /\ requests[r].caller \in Callers
BY DEF ChartTypes, UnderWay, Ask

\* Aborting marks the load of the controller, if there is one, and no other.
LEMMA AbortedParts ==
  ASSUME ChartTypes, NEW r \in Requests
  PROVE  /\ Aborted[r] \in {Idle} \cup Ask
         /\ \/ requests[r] = Idle /\ Aborted[r] = Idle
            \/ /\ UnderWay(r) /\ r # controller
               /\ Aborted[r] = requests[r]
            \/ /\ UnderWay(r) /\ r = controller
               /\ Aborted[r] # Idle /\ Aborted[r].aborted
               /\ Aborted[r].metrics = requests[r].metrics
<1>1. ASSUME UnderWay(r)
      PROVE  LET u == [requests[r] EXCEPT !.aborted = TRUE]
             IN  /\ u \in Ask /\ u.metrics = requests[r].metrics
                 /\ u.aborted /\ u # Idle
  BY <1>1, UnderWayParts DEF Ask, Idle
<1>2. requests[r] \in {Idle} \cup Ask
  BY DEF ChartTypes
<1> QED
  BY <1>1, <1>2 DEF Aborted, UnderWay

\* The loads after an abort.
LEMMA AbortedType ==
  ASSUME ChartTypes
  PROVE  Aborted \in [Requests -> {Idle} \cup Ask]
<1>1. \A r \in Requests : Aborted[r] \in {Idle} \cup Ask
  BY AbortedParts
<1> QED
  BY <1>1 DEF Aborted

\* Tracking more metrics keeps what is there and fills up what is new.
LEMMA TrackKeeps ==
  ASSUME ChartTypes, Aligned, DOMAIN series \subseteq tracked,
         NEW metrics \in SUBSET Metrics, Track(metrics), points' = points
  PROVE  /\ tracked' \subseteq Metrics
         /\ tracked \subseteq tracked'
         /\ metrics \subseteq tracked'
         /\ DOMAIN series' \subseteq tracked'
         /\ DOMAIN series' \subseteq Metrics
         /\ \A m \in DOMAIN series' : series'[m] \in Seq(BOOLEAN)
         /\ Aligned'
<1> USE DEF Track
<1>1. points \in Nat /\ tracked \subseteq Metrics /\ DOMAIN series \subseteq Metrics
  BY DEF ChartTypes
<1>2. [i \in 1 .. points |-> FALSE] \in Seq(BOOLEAN) /\ Len([i \in 1 .. points |-> FALSE]) = points
  <2> DEFINE nulls == [i \in 1 .. points |-> FALSE]
  <2>1. nulls \in [1 .. points -> BOOLEAN]
    OBVIOUS
  <2> HIDE DEF nulls
  <2>2. nulls \in Seq(BOOLEAN) /\ Len(nulls) = points
    BY <1>1, <2>1
  <2> QED
    BY <2>2 DEF nulls
<1>3. ASSUME NEW m \in DOMAIN series'
      PROVE  series'[m] \in Seq(BOOLEAN) /\ Len(series'[m]) = points
  BY <1>1, <1>2 DEF ChartTypes, Aligned
<1>4. DOMAIN series' \subseteq tracked' /\ DOMAIN series' \subseteq Metrics
  BY <1>1
<1> QED
  BY <1>1, <1>3, <1>4 DEF Aligned

\* A reload of what the page will show becomes the one load that counts.
LEMMA ReloadKeepsCharts ==
  ASSUME ChartsInv, NEW metrics \in SUBSET Metrics, NEW extra \in SUBSET Metrics,
         NEW window \in Windows, ReloadData(window, metrics, extra),
         storeWindow' = window, ActiveCharts' \subseteq metrics,
         page' \in Pages, panels' \in [Pages -> SUBSET Metrics], hidden' \subseteq Metrics
  PROVE  ChartsInv'
<1> USE DEF ReloadData
<1>1. PICK r \in Requests :
        /\ requests[r] = Idle
        /\ controller' = r
        /\ requests' = [Aborted EXCEPT
             ![r] = [window |-> window, metrics |-> metrics, aborted |-> FALSE,
                    caller |-> IF extra = {} THEN "other" ELSE "savePanel"]]
  <2> DEFINE r == CHOOSE q \in Free : TRUE
  <2>1. r \in Free
    OBVIOUS
  <2> QED
    BY <2>1 DEF Free
<1>2. /\ reloadTimer' = FALSE /\ failed' = FALSE /\ behind' = FALSE /\ started' = started
      /\ Track(metrics \cup extra) /\ points' = points /\ shown' = shown
  OBVIOUS
<1> HIDE DEF ReloadData
<1>3. ChartTypes /\ Aligned /\ KeptAreTracked /\ OneLoadCounts
  BY DEF ChartsInv
<1> DEFINE new == [window |-> window, metrics |-> metrics, aborted |-> FALSE,
                   caller |-> IF extra = {} THEN "other" ELSE "savePanel"]
<1>4. /\ new \in Ask /\ new # Idle /\ new.metrics = metrics /\ new.window = window
      /\ ~new.aborted
  BY <1>3 DEF ChartTypes, Ask, Callers, Idle
<1>5. /\ requests' \in [Requests -> {Idle} \cup Ask]
      /\ requests'[r] = new
      /\ \A q \in Requests : q # r => requests'[q] = Aborted[q]
  BY <1>1, <1>3, <1>4, AbortedType
<1> HIDE DEF new
<1>6. /\ tracked' \subseteq Metrics
      /\ tracked \subseteq tracked'
      /\ metrics \cup extra \subseteq tracked'
      /\ DOMAIN series' \subseteq tracked'
      /\ DOMAIN series' \subseteq Metrics
      /\ \A m \in DOMAIN series' : series'[m] \in Seq(BOOLEAN)
      /\ Aligned'
  BY <1>2, <1>3, TrackKeeps DEF KeptAreTracked
<1>7. ChartTypes'
  BY <1>1, <1>2, <1>3, <1>5, <1>6 DEF ChartTypes
<1>8. KeptAreTracked'
  <2> SUFFICES ASSUME NEW q \in Requests, requests'[q] # Idle
               PROVE  requests'[q].metrics \subseteq tracked'
    BY <1>6 DEF KeptAreTracked, UnderWay
  <2>1. CASE q = r
    BY <1>4, <1>5, <1>6, <2>1
  <2>2. CASE q # r
    <3>1. UnderWay(q) /\ requests'[q].metrics = requests[q].metrics
      BY <1>3, <1>5, <2>2, AbortedParts DEF UnderWay
    <3> QED
      BY <1>3, <1>6, <3>1 DEF KeptAreTracked
  <2> QED
    BY <2>1, <2>2
<1>9. OneLoadCounts'
  <2>1. ASSUME NEW q \in Requests, requests'[q] # Idle, q # r
        PROVE  requests'[q].aborted
    <3>1. UnderWay(q) /\ requests'[q] = Aborted[q]
      BY <1>3, <1>5, <2>1, AbortedParts DEF UnderWay
    <3>2. CASE q = controller
      BY <1>3, <3>1, <3>2, AbortedParts DEF UnderWay
    <3>3. CASE q # controller
      <4>1. Aborted[q] = requests[q]
        BY <1>3, <3>1, <3>3, AbortedParts DEF UnderWay
      <4> QED
        BY <1>3, <3>1, <3>3, <4>1 DEF OneLoadCounts
    <3> QED
      BY <3>2, <3>3
  <2>2. requests'[r] # Idle /\ ~requests'[r].aborted /\ AsksForPage(r)'
    BY <1>4, <1>5 DEF AsksForPage
  <2> QED
    BY <1>1, <2>1, <2>2 DEF OneLoadCounts, UnderWay, AsksForPage
<1>10. ChartsMatchSelection'
  BY <1>1 DEF ChartsMatchSelection, Unsettled
<1> QED
  BY <1>6, <1>7, <1>8, <1>9, <1>10 DEF ChartsInv

\* Scheduling a reload aborts the load under way: nothing settles before it.
LEMMA ScheduleKeepsCharts ==
  ASSUME ChartsInv, ScheduleReload, storeWindow' \in Windows,
         page' \in Pages, panels' \in [Pages -> SUBSET Metrics], hidden' \subseteq Metrics
  PROVE  ChartsInv'
<1> USE DEF ScheduleReload
<1>1. ChartTypes /\ Aligned /\ KeptAreTracked /\ OneLoadCounts
  BY DEF ChartsInv
<1>2. ChartTypes'
  BY <1>1, AbortedType DEF ChartTypes
<1>3. Aligned'
  BY <1>1 DEF Aligned
<1>4. KeptAreTracked'
  <2> SUFFICES ASSUME NEW q \in Requests, requests'[q] # Idle
               PROVE  requests'[q].metrics \subseteq tracked
    BY <1>1 DEF KeptAreTracked, UnderWay
  <2>1. UnderWay(q) /\ requests'[q].metrics = requests[q].metrics
    BY <1>1, AbortedParts DEF UnderWay
  <2> QED
    BY <1>1, <2>1 DEF KeptAreTracked
<1>5. OneLoadCounts'
  <2>1. controller # 0 => controller \in Requests
    BY <1>1 DEF ChartTypes
  <2>2. ASSUME NEW q \in Requests, UnderWay(q)', q # controller
        PROVE  requests'[q].aborted
    <3>1. UnderWay(q) /\ requests'[q] = requests[q]
      BY <1>1, <2>2, AbortedParts DEF UnderWay
    <3> QED
      BY <1>1, <2>2, <3>1 DEF OneLoadCounts
  <2>3. controller # 0 => UnderWay(controller)'
    BY <1>1, <2>1, AbortedParts DEF OneLoadCounts, UnderWay
  <2> QED
    BY <2>2, <2>3 DEF OneLoadCounts
<1>6. ChartsMatchSelection'
  BY DEF ChartsMatchSelection, Unsettled
<1> QED
  BY <1>2, <1>3, <1>4, <1>5, <1>6 DEF ChartsInv

\* Steps that load nothing: they leave the charts alone, or put the page behind.
LEMMA UnmovedKeepsCharts ==
  ASSUME ChartsInv, UNCHANGED <<reloadTimer, controller, requests, started, failed, store>>,
         behind' \in BOOLEAN, behind => behind', behind' \/ ActiveCharts' \subseteq ActiveCharts,
         page' \in Pages, panels' \in [Pages -> SUBSET Metrics], hidden' \subseteq Metrics
  PROVE  ChartsInv'
<1> USE DEF store
<1>1. ChartTypes'
  BY DEF ChartsInv, ChartTypes
<1>2. Aligned' /\ KeptAreTracked'
  BY DEF ChartsInv, Aligned, KeptAreTracked, UnderWay
<1>3. OneLoadCounts'
  BY DEF ChartsInv, OneLoadCounts, UnderWay, AsksForPage
<1>4. ChartsMatchSelection'
  BY DEF ChartsInv, ChartsMatchSelection, Unsettled
<1> QED
  BY <1>1, <1>2, <1>3, <1>4 DEF ChartsInv

\* What a load that ends leaves of the loads.
LEMMA FinishLeaves ==
  ASSUME ChartsInv, NEW r \in Requests, UnderWay(r),
         requests' = [requests EXCEPT ![r] = Idle], controller' = Released(r),
         UNCHANGED <<reloadTimer, storeWindow, tracked, behind>>, ActiveCharts' = ActiveCharts
  PROVE  /\ requests' \in [Requests -> {Idle} \cup Ask]
         /\ controller' \in {0} \cup Requests
         /\ \A q \in Requests : UnderWay(q)' => requests[q].metrics \subseteq tracked'
                                           /\ requests'[q] = requests[q]
         /\ OneLoadCounts'
         /\ requests[r].aborted /\ failed' = failed /\ ~Unsettled' => ~Unsettled
         /\ ~requests[r].aborted =>
              /\ controller = r
              /\ reloadTimer \/ AsksForPage(r)
<1>1. ChartTypes /\ KeptAreTracked /\ OneLoadCounts
  BY DEF ChartsInv
<1>2. /\ requests' \in [Requests -> {Idle} \cup Ask]
      /\ requests'[r] = Idle
      /\ \A q \in Requests : q # r => requests'[q] = requests[q]
  BY <1>1 DEF ChartTypes
<1>3. controller' = IF controller = r THEN 0 ELSE controller
  BY DEF Released
<1>4. controller \in {0} \cup Requests /\ controller' \in {0} \cup Requests /\ r # 0
  BY <1>1, <1>3 DEF ChartTypes
<1>5. \A q \in Requests : UnderWay(q)' => requests[q].metrics \subseteq tracked'
                                      /\ requests'[q] = requests[q]
  BY <1>1, <1>2 DEF KeptAreTracked, UnderWay
<1>6. OneLoadCounts'
  <2>1. ASSUME NEW q \in Requests, UnderWay(q)', q # controller'
        PROVE  requests'[q].aborted
    <3>1. q # r /\ requests'[q] = requests[q] /\ UnderWay(q)
      BY <1>2, <2>1 DEF UnderWay
    <3>2. q # controller
      BY <1>3, <2>1, <3>1
    <3> QED
      BY <1>1, <3>1, <3>2 DEF OneLoadCounts
  <2>2. ASSUME controller' # 0
        PROVE  /\ UnderWay(controller)'
               /\ ~reloadTimer' => ~requests'[controller'].aborted /\ AsksForPage(controller)'
    <3>1. controller' = controller /\ controller # r /\ controller # 0 /\ controller \in Requests
      BY <1>3, <1>4, <2>2
    <3>2. requests'[controller] = requests[controller]
      BY <1>2, <3>1
    <3>3. AsksForPage(controller) => AsksForPage(controller)'
      BY <3>1, <3>2 DEF AsksForPage
    <3> QED
      BY <1>1, <3>1, <3>2, <3>3 DEF OneLoadCounts, UnderWay
  <2> QED
    BY <2>1, <2>2 DEF OneLoadCounts
<1>7. ~requests[r].aborted =>
        /\ controller = r
        /\ reloadTimer \/ AsksForPage(r)
  <2>1. ~requests[r].aborted => controller = r
    BY <1>1 DEF OneLoadCounts
  <2>2. controller = r /\ ~reloadTimer => AsksForPage(r)
    BY <1>1, <1>4 DEF OneLoadCounts
  <2>3. reloadTimer \in BOOLEAN
    BY <1>1 DEF ChartTypes
  <2> QED
    BY <2>1, <2>2, <2>3
<1>8. requests[r].aborted /\ failed' = failed /\ ~Unsettled' => ~Unsettled
  <2>1. requests[r].aborted /\ controller = r => reloadTimer
    BY <1>1, <1>4 DEF OneLoadCounts
  <2> QED
    BY <1>3, <2>1 DEF Unsettled
<1> QED
  BY <1>2, <1>4, <1>5, <1>6, <1>7, <1>8 DEF Unsettled

\* A load that fails says so, unless it was aborted.
LEMMA ReloadFailsKeepsCharts ==
  ASSUME ChartsInv, NEW r \in Requests, ReloadFails(r)
  PROVE  ChartsInv'
<1> USE DEF ReloadFails, Finish, layout, store
<1>1. /\ UnderWay(r) /\ ActiveCharts' = ActiveCharts
      /\ requests' = [requests EXCEPT ![r] = Idle] /\ controller' = Released(r)
      /\ UNCHANGED <<reloadTimer, behind, storeWindow, tracked, points, series, shown, page, panels, hidden>>
      /\ started' = (started \/ requests[r].caller = "start")
      /\ failed' = (failed \/ ~requests[r].aborted)
  BY DEF UnderWay, ActiveCharts
<1> HIDE DEF ReloadFails
<1>2. /\ requests' \in [Requests -> {Idle} \cup Ask]
      /\ controller' \in {0} \cup Requests
      /\ \A q \in Requests : UnderWay(q)' => requests[q].metrics \subseteq tracked'
                                        /\ requests'[q] = requests[q]
      /\ OneLoadCounts'
      /\ requests[r].aborted /\ failed' = failed /\ ~Unsettled' => ~Unsettled
  BY <1>1, FinishLeaves
<1>3. ChartTypes'
  BY <1>1, <1>2 DEF ChartsInv, ChartTypes
<1>4. Aligned' /\ KeptAreTracked'
  BY <1>1, <1>2 DEF ChartsInv, Aligned, KeptAreTracked
<1>5. ChartsMatchSelection'
  <2>1. CASE ~requests[r].aborted
    BY <1>1, <2>1 DEF ChartsMatchSelection, Unsettled
  <2>2. CASE requests[r].aborted
    <3>1. failed \in BOOLEAN
      BY DEF ChartsInv, ChartTypes
    <3>2. failed' = failed
      BY <1>1, <2>2, <3>1
    <3> QED
      BY <1>1, <1>2, <2>2, <3>2 DEF ChartsInv, ChartsMatchSelection
  <2> QED
    BY <2>1, <2>2
<1> QED
  BY <1>2, <1>3, <1>4, <1>5 DEF ChartsInv

\* The history applied is of the charts of the page, in the window selected,
\* or a reload is scheduled.
LEMMA ReloadAnsweredKeepsCharts ==
  ASSUME ChartsInv, NEW r \in Requests, NEW n \in Answers, ReloadAnswered(r, n)
  PROVE  ChartsInv'
<1> USE DEF ReloadAnswered, Finish, layout, store
<1>1. /\ UnderWay(r) /\ ActiveCharts' = ActiveCharts
      /\ requests' = [requests EXCEPT ![r] = Idle] /\ controller' = Released(r)
      /\ UNCHANGED <<reloadTimer, failed, behind, storeWindow, tracked, page, panels, hidden>>
      /\ started' = (started \/ requests[r].caller = "start")
      /\ IF requests[r].aborted THEN UNCHANGED <<points, series, shown>> ELSE Apply(r, n)
  BY DEF UnderWay, ActiveCharts
<1> HIDE DEF ReloadAnswered
<1>2. /\ requests' \in [Requests -> {Idle} \cup Ask]
      /\ controller' \in {0} \cup Requests
      /\ \A q \in Requests : UnderWay(q)' => requests[q].metrics \subseteq tracked'
                                        /\ requests'[q] = requests[q]
      /\ OneLoadCounts'
      /\ requests[r].aborted /\ failed' = failed /\ ~Unsettled' => ~Unsettled
      /\ ~requests[r].aborted =>
           reloadTimer \/ AsksForPage(r)
  BY <1>1, FinishLeaves
<1>3. ASSUME UNCHANGED <<points, series, shown>>,
             ~Unsettled' => ~Unsettled \/ behind \/ ActiveCharts = {}
      PROVE  ChartsInv'
  <2>1. ChartTypes'
    BY <1>1, <1>2, <1>3 DEF ChartsInv, ChartTypes
  <2>2. Aligned' /\ KeptAreTracked'
    BY <1>1, <1>2, <1>3 DEF ChartsInv, Aligned, KeptAreTracked
  <2>3. ChartsMatchSelection'
    BY <1>1, <1>3 DEF ChartsInv, ChartsMatchSelection
  <2> QED
    BY <1>2, <2>1, <2>2, <2>3 DEF ChartsInv
<1>4. CASE requests[r].aborted
  BY <1>1, <1>2, <1>3, <1>4
<1>5. CASE ~requests[r].aborted /\ requests[r].metrics = {}
  <2>1. UNCHANGED <<points, series, shown>>
    BY <1>1, <1>5 DEF Apply
  <2>2. reloadTimer \/ behind \/ ActiveCharts = {}
    BY <1>2, <1>5 DEF AsksForPage
  <2> QED
    BY <1>1, <1>3, <2>1, <2>2 DEF Unsettled
<1>6. CASE ~requests[r].aborted /\ requests[r].metrics # {}
  <2> DEFINE metrics == requests[r].metrics
  <2>1. /\ points' = n
        /\ series' = [m \in metrics |-> [i \in 1 .. n |-> TRUE]]
        /\ shown' = [window |-> requests[r].window, metrics |-> metrics]
    BY <1>1, <1>6 DEF Apply
  <2>2. /\ metrics \subseteq tracked /\ metrics \subseteq Metrics
        /\ requests[r].window \in Windows
        /\ tracked \subseteq Metrics
    BY <1>1, UnderWayParts DEF ChartsInv, KeptAreTracked, ChartTypes
  <2>3. n \in 0 .. MaxPoints /\ n \in Nat
    OBVIOUS
  <2> HIDE DEF metrics
  <2>4. ASSUME NEW m \in metrics
        PROVE  /\ series'[m] \in Seq(BOOLEAN) /\ Len(series'[m]) = n
               /\ \A i \in 1 .. n : series'[m][i]
    <3> DEFINE ones == [i \in 1 .. n |-> TRUE]
    <3>1. ones \in [1 .. n -> BOOLEAN] /\ \A i \in 1 .. n : ones[i]
      OBVIOUS
    <3>2. series'[m] = ones
      BY <2>1
    <3> HIDE DEF ones
    <3>3. ones \in Seq(BOOLEAN) /\ Len(ones) = n
      BY <2>3, <3>1
    <3> QED
      BY <3>1, <3>2, <3>3
  <2>5. DOMAIN series' = metrics
    BY <2>1
  <2>6. ChartTypes'
    <3>1. shown' \in [window : {0} \cup Windows, metrics : SUBSET Metrics]
      BY <2>1, <2>2
    <3>2. started' \in BOOLEAN
      BY <1>1 DEF ChartsInv, ChartTypes
    <3> QED
      BY <1>1, <1>2, <2>1, <2>2, <2>3, <2>4, <2>5, <3>1, <3>2 DEF ChartsInv, ChartTypes
  <2>7. Aligned' /\ KeptAreTracked'
    BY <1>1, <1>2, <2>1, <2>2, <2>4, <2>5 DEF Aligned, KeptAreTracked
  <2>8. ChartsMatchSelection'
    <3> SUFFICES ASSUME ~Unsettled', ~behind
                 PROVE  /\ shown'.window = storeWindow'
                        /\ ActiveCharts \subseteq shown'.metrics
                        /\ \A m \in ActiveCharts :
                             m \in DOMAIN series' /\ \A i \in 1 .. points' : series'[m][i]
      BY <1>1 DEF ChartsMatchSelection
    <3>1. requests[r].window = storeWindow /\ ActiveCharts \subseteq metrics
      BY <1>1, <1>2, <1>6 DEF Unsettled, metrics, AsksForPage
    <3> QED
      BY <1>1, <2>1, <2>4, <2>5, <3>1
  <2> QED
    BY <1>2, <2>6, <2>7, <2>8 DEF ChartsInv
<1> QED
  BY <1>4, <1>5, <1>6

\* One more value, and at most MaxPoints.
LEMMA Append1Parts ==
  ASSUME NEW values \in Seq(BOOLEAN), Len(values) <= MaxPoints
  PROVE  LET longer == Append1(values)
         IN  /\ longer \in Seq(BOOLEAN)
             /\ Len(longer) = IF Len(values) < MaxPoints THEN Len(values) + 1 ELSE MaxPoints
             /\ (\A i \in 1 .. Len(values) : values[i]) => \A i \in 1 .. Len(longer) : longer[i]
<1> DEFINE all == Append(values, TRUE)
           n == Len(values)
<1>1. /\ n \in Nat /\ n <= MaxPoints /\ MaxPoints \in Nat \ {0}
      /\ all \in Seq(BOOLEAN) /\ Len(all) = n + 1
      /\ \A i \in 1 .. n : all[i] = values[i]
      /\ all[n + 1] = TRUE
  BY AppendProperties
<1>0. Append1(values) = Newest(all)
  BY DEF Append1
<1> HIDE DEF all
<1>2. (\A i \in 1 .. n : values[i]) => \A i \in 1 .. n + 1 : all[i]
  <2> SUFFICES ASSUME \A i \in 1 .. n : values[i], NEW i \in 1 .. n + 1
               PROVE  all[i]
    OBVIOUS
  <2>1. i \in 1 .. n \/ i = n + 1
    BY <1>1
  <2> QED
    BY <1>1, <2>1
<1>3. CASE n < MaxPoints
  <2>1. Append1(values) = all
    BY <1>0, <1>1, <1>3 DEF Newest
  <2> QED
    BY <1>1, <1>2, <1>3, <2>1
<1>4. CASE n = MaxPoints
  <2> DEFINE tail == SubSeq(all, 2, n + 1)
             from == Len(all) - MaxPoints + 1
  <2>1. Len(all) = n + 1 /\ ~(Len(all) <= MaxPoints) /\ from = 2
    BY <1>1, <1>4
  <2>2. Newest(all) = SubSeq(all, from, Len(all))
    BY <2>1 DEF Newest
  <2>3. Append1(values) = tail
    <3> HIDE DEF from, n
    <3> QED
      BY <1>0, <2>1, <2>2, Zenon
  <2>4. \A i \in 2 .. n + 1 : all[i] \in BOOLEAN
    BY <1>1
  <2>5. /\ tail \in Seq(BOOLEAN)
        /\ Len(tail) = IF 2 <= n + 1 THEN n + 1 - 2 + 1 ELSE 0
        /\ \A i \in 1 .. n + 1 - 2 + 1 : tail[i] = all[2 + i - 1]
    <3> HIDE DEF n
    <3> QED
      BY <1>1, <2>4, SubSeqProperties
  <2> HIDE DEF tail
  <2>6. Len(tail) = n
    BY <1>1, <1>4, <2>5
  <2>7. ASSUME \A i \in 1 .. n + 1 : all[i], NEW i \in 1 .. n
        PROVE  tail[i]
    <3>1. 2 + i - 1 \in 1 .. n + 1 /\ i \in 1 .. n + 1 - 2 + 1
      BY <1>1
    <3> QED
      BY <2>5, <2>7, <3>1
  <2> QED
    BY <1>1, <1>2, <1>4, <2>3, <2>5, <2>6, <2>7
<1> QED
  BY <1>1, <1>3, <1>4

\* A snapshot adds a value to every series, whatever page it came for.
LEMMA SnapshotKeepsCharts ==
  ASSUME ChartsInv, AppendSnapshot, UNCHANGED <<reload, storeWindow, tracked, shown, page, panels, hidden>>
  PROVE  ChartsInv'
<1> USE DEF AppendSnapshot, reload
<1>1. /\ points \in 0 .. MaxPoints /\ points' \in 0 .. MaxPoints /\ points \in Nat
      /\ points' = IF points < MaxPoints THEN points + 1 ELSE MaxPoints
      /\ DOMAIN series \subseteq tracked /\ tracked \subseteq Metrics
      /\ DOMAIN series' = tracked
      /\ ActiveCharts' = ActiveCharts
  BY DEF ChartsInv, ChartTypes, KeptAreTracked, ActiveCharts
<1>2. ASSUME NEW m \in DOMAIN series
      PROVE  /\ series'[m] \in Seq(BOOLEAN)
             /\ Len(series'[m]) = points'
             /\ (\A i \in 1 .. points : series[m][i]) => \A i \in 1 .. points' : series'[m][i]
  <2>1. series'[m] = Append1(series[m])
    BY <1>1
  <2>2. series[m] \in Seq(BOOLEAN) /\ Len(series[m]) = points
    BY DEF ChartsInv, ChartTypes, Aligned
  <2>3. Len(series[m]) <= MaxPoints
    BY <1>1, <2>2
  <2> HIDE DEF AppendSnapshot
  <2>4. /\ series'[m] \in Seq(BOOLEAN)
        /\ Len(series'[m]) = IF points < MaxPoints THEN points + 1 ELSE MaxPoints
        /\ (\A i \in 1 .. points : series[m][i]) =>
             \A i \in 1 .. Len(series'[m]) : series'[m][i]
    BY <2>1, <2>2, <2>3, Append1Parts
  <2> QED
    BY <1>1, <2>4
<1>3. ASSUME NEW m \in tracked, m \notin DOMAIN series
      PROVE  series'[m] \in Seq(BOOLEAN) /\ Len(series'[m]) = points'
  <2> DEFINE nulls == [i \in 1 .. points |-> FALSE]
  <2>1. nulls \in [1 .. points -> BOOLEAN]
    OBVIOUS
  <2>2. series'[m] = Append1(nulls)
    BY <1>1, <1>3
  <2> HIDE DEF nulls, AppendSnapshot
  <2>3. nulls \in Seq(BOOLEAN) /\ Len(nulls) = points
    BY <1>1, <2>1
  <2> QED
    BY <1>1, <2>2, <2>3, Append1Parts
<1> HIDE DEF AppendSnapshot
<1>4. ChartTypes'
  BY <1>1, <1>2, <1>3 DEF ChartsInv, ChartTypes
<1>5. Aligned' /\ KeptAreTracked'
  BY <1>1, <1>2, <1>3 DEF ChartsInv, Aligned, KeptAreTracked, UnderWay
<1>6. OneLoadCounts'
  BY <1>1 DEF ChartsInv, OneLoadCounts, UnderWay, AsksForPage
<1>7. ChartsMatchSelection'
  BY <1>1, <1>2 DEF ChartsInv, ChartsMatchSelection, Unsettled
<1> QED
  BY <1>4, <1>5, <1>6, <1>7 DEF ChartsInv

-----------------------------------------------------------------------------
(* The explorer *)

\* The seconds the catalog of a window covers.
LEMMA CapParts ==
  ASSUME NEW w \in Windows
  PROVE  Cap(w) \in Seconds /\ Cap(w) # 0 /\ w # 0
BY DEF Cap, Seconds

\* The fields of an explorer.
LEMMA ExplorerParts ==
  ASSUME NEW e \in Explorer
  PROVE  /\ e.loading \in BOOLEAN /\ e.queued \in BOOLEAN /\ e.failed \in BOOLEAN
         /\ e.window \in {0} \cup Windows /\ e.loaded \in {0} \cup Windows
         /\ e.asked \in {0} \cup Seconds /\ e.seconds \in {0} \cup Seconds
BY DEF Explorer

\* A call of load() while a load is under way leaves it alone; else there is a
\* new one, or the catalog that was asked for is in the cache.
LEMMA LoadGives ==
  ASSUME NEW e \in Explorer, NEW force \in BOOLEAN, NEW window \in Windows,
         NEW seconds \in Seconds, NEW cache
  PROVE  LET l == Load(e, force, window, seconds, cache)
         IN  /\ l \in Explorer
             /\ \/ /\ e.loading /\ l.loading
                   /\ l.window = e.window /\ l.asked = e.asked
                \/ /\ ~e.loading /\ l.loading
                   /\ l.window = window /\ l.asked = seconds
                \/ /\ ~e.loading /\ ~l.loading /\ cache = seconds
                   /\ l.loaded = window /\ l.seconds = seconds
<1> DEFINE l == Load(e, force, window, seconds, cache)
<1>1. CASE e.loading
  <2>1. l = [e EXCEPT !.queued = @ \/ force \/ window # e.window]
    BY <1>1 DEF Load
  <2>2. (e.queued \/ force \/ window # e.window) \in BOOLEAN
    OBVIOUS
  <2>3. /\ l \in Explorer /\ l.loading = e.loading
        /\ l.window = e.window /\ l.asked = e.asked
    BY <2>1, <2>2 DEF Explorer
  <2> QED
    BY <1>1, <2>3
<1>2. CASE ~e.loading /\ cache = seconds
  <2>1. l = [e EXCEPT !.loaded = window, !.seconds = seconds, !.failed = FALSE]
    BY <1>2 DEF Load
  <2>2. /\ l \in Explorer /\ l.loading = e.loading
        /\ l.loaded = window /\ l.seconds = seconds
    BY <2>1 DEF Explorer
  <2> QED
    BY <1>2, <2>2
<1>3. CASE ~e.loading /\ cache # seconds
  <2>1. l = [e EXCEPT !.loading = TRUE, !.window = window, !.asked = seconds]
    BY <1>3 DEF Load
  <2>2. /\ l \in Explorer /\ l.loading
        /\ l.window = window /\ l.asked = seconds
    BY <2>1 DEF Explorer
  <2> QED
    BY <1>3, <2>2
<1> QED
  BY <1>1, <1>2, <1>3

\* What ExplorerInv asks of a panel e for the windows of the preferences and
\* of the store, if the window is merged or not.
Trusty(e, isMerged, window, stored) ==
  /\ e \in Explorer
  /\ \/ /\ e.loading
        /\ e.window # 0 /\ e.asked # 0
        /\ isMerged \/ e.asked = Cap(e.window)
     \/ ~e.loading /\ (e.failed \/ isMerged)
     \/ ~e.loading /\ e.loaded = window /\ e.seconds = Cap(stored)

\* If the panel is trusty, and the window is merged when it must be, the
\* invariant holds.
LEMMA TrustyHolds ==
  ASSUME ExplorerTypes',
         explorer' # NoPanel => Trusty(explorer', merged', prefWindow', storeWindow'),
         explorer' # NoPanel /\ prefWindow' # storeWindow' => merged'
  PROVE  ExplorerInv'
<1>1. ASSUME explorer' # NoPanel
      PROVE  /\ prefWindow' # storeWindow' => merged'
             /\ explorer'.loading =>
                  /\ explorer'.window # 0 /\ explorer'.asked # 0
                  /\ merged' \/ explorer'.asked = Cap(explorer'.window)
             /\ ~merged' /\ ~explorer'.loading /\ ~explorer'.failed =>
                  explorer'.loaded # 0 /\ explorer'.seconds = Cap(explorer'.loaded)
             /\ \/ explorer'.loading \/ explorer'.failed \/ updateQueued' \/ merged'
                \/ explorer'.loaded = prefWindow' /\ explorer'.seconds = Cap(storeWindow')
  <2>1. prefWindow' # 0
    BY CapParts DEF ExplorerTypes
  <2> QED
    BY <1>1, <2>1 DEF Trusty
<1> QED
  BY <1>1 DEF ExplorerInv, ExplorerIsOfOneWindow, ExplorerMatchesWindow

\* load() for the selected window makes a panel trusty, if a load under way is
\* of one window or the window counts as merged.
LEMMA LoadIsTrusty ==
  ASSUME prefWindow' \in Windows, storeWindow' \in Windows,
         NEW e \in Explorer, NEW force \in BOOLEAN, NEW cache,
         NEW isMerged \in BOOLEAN,
         prefWindow' # storeWindow' => isMerged,
         e.loading => /\ e.window # 0 /\ e.asked # 0
                      /\ isMerged \/ e.asked = Cap(e.window)
  PROVE  Trusty(Load(e, force, prefWindow', Cap(storeWindow'), cache), isMerged, prefWindow', storeWindow')
<1> DEFINE l == Load(e, force, prefWindow', Cap(storeWindow'), cache)
<1>1. /\ prefWindow' \in Windows /\ storeWindow' \in Windows
      /\ Cap(storeWindow') \in Seconds /\ Cap(storeWindow') # 0 /\ prefWindow' # 0
  BY CapParts
<1>2. /\ l \in Explorer
      /\ \/ /\ e.loading /\ l.loading
            /\ l.window = e.window /\ l.asked = e.asked
         \/ /\ ~e.loading /\ l.loading
            /\ l.window = prefWindow' /\ l.asked = Cap(storeWindow')
         \/ /\ ~e.loading /\ ~l.loading /\ cache = Cap(storeWindow')
            /\ l.loaded = prefWindow' /\ l.seconds = Cap(storeWindow')
  BY <1>1, LoadGives
<1> HIDE DEF l
<1>3. isMerged \/ prefWindow' = storeWindow'
  OBVIOUS
<1>4. Trusty(l, isMerged, prefWindow', storeWindow')
  <2>1. CASE /\ e.loading /\ l.loading
             /\ l.window = e.window /\ l.asked = e.asked
    <3>1. l.window # 0 /\ l.asked # 0 /\ (isMerged \/ l.asked = Cap(l.window))
      BY <2>1
    <3> QED
      BY <1>2, <2>1, <3>1 DEF Trusty
  <2>2. CASE /\ ~e.loading /\ l.loading
             /\ l.window = prefWindow' /\ l.asked = Cap(storeWindow')
    <3>1. l.window # 0 /\ l.asked # 0 /\ (isMerged \/ l.asked = Cap(l.window))
      BY <1>1, <1>3, <2>2
    <3> QED
      BY <1>2, <2>2, <3>1 DEF Trusty
  <2>3. CASE /\ ~e.loading /\ ~l.loading /\ cache = Cap(storeWindow')
             /\ l.loaded = prefWindow' /\ l.seconds = Cap(storeWindow')
    BY <1>2, <2>3 DEF Trusty
  <2> QED
    BY <1>2, <2>1, <2>2, <2>3
<1> QED
  BY <1>4 DEF l

\* Panels made anew.
LEMMA RenderKeepsExplorer ==
  ASSUME ExplorerInv, NEW p \in Pages, RenderPanelsFor(p, prefWindow', storeWindow'),
         prefWindow' \in Windows, storeWindow' \in Windows, catalogCache' = catalogCache,
         updateQueued' \in BOOLEAN
  PROVE  ExplorerInv'
<1> USE DEF RenderPanelsFor
<1>1. ExplorerTypes
  BY DEF ExplorerInv
<1>2. NewExplorer \in Explorer /\ ~NewExplorer.loading
  BY DEF NewExplorer, Explorer
<1>3. merged' \in BOOLEAN /\ (explorer' # NoPanel /\ prefWindow' # storeWindow' => merged')
  OBVIOUS
<1>4. explorer' # NoPanel => Trusty(explorer', merged', prefWindow', storeWindow')
  <2> SUFFICES ASSUME explorer' # NoPanel
               PROVE  Trusty(explorer', merged', prefWindow', storeWindow')
    OBVIOUS
  <2>1. explorer' = Load(NewExplorer, FALSE, prefWindow', Cap(storeWindow'), catalogCache)
    OBVIOUS
  <2>2. prefWindow' # storeWindow' => merged'
    OBVIOUS
  <2> HIDE DEF RenderPanelsFor
  <2>3. Trusty(Load(NewExplorer, FALSE, prefWindow', Cap(storeWindow'), catalogCache),
               merged', prefWindow', storeWindow')
    BY <1>2, <1>3, <2>2, LoadIsTrusty
  <2> QED
    BY <2>1, <2>3
<1>5. orphans' \subseteq Seconds
  <2>1. explorer # NoPanel /\ explorer.loading => explorer.asked \in Seconds
    BY <1>1, ExplorerParts DEF ExplorerInv, ExplorerIsOfOneWindow, ExplorerTypes
  <2> QED
    BY <1>1, <2>1 DEF ExplorerTypes
<1>6. explorer' \in Explorer \cup {NoPanel}
  BY <1>4 DEF Trusty
<1> HIDE DEF RenderPanelsFor
<1>7. ExplorerTypes'
  BY <1>1, <1>3, <1>5, <1>6 DEF ExplorerTypes
<1> QED
  BY <1>3, <1>4, <1>7, TrustyHolds

\* Steps that leave the explorer alone.
LEMMA UnmovedKeepsExplorer ==
  ASSUME ExplorerInv, UNCHANGED <<prefWindow, storeWindow, explorer, merged>>,
         catalogCache' \in {0} \cup Seconds, orphans' \subseteq Seconds,
         updateQueued' \in BOOLEAN, updateQueued => updateQueued'
  PROVE  ExplorerInv'
BY DEF ExplorerInv, ExplorerTypes, ExplorerIsOfOneWindow, ExplorerMatchesWindow

\* After a selection a frame is due, which loads the explorer.
LEMMA SetWindowKeepsExplorer ==
  ASSUME ExplorerInv, NEW w \in Windows, SetWindow(w)
  PROVE  ExplorerInv'
<1>1. /\ prefWindow' = w /\ storeWindow' = w /\ updateQueued' = TRUE /\ catalogCache' = 0
      /\ UNCHANGED <<explorer, orphans, merged>>
  BY DEF SetWindow
<1> QED
  BY <1>1 DEF ExplorerInv, ExplorerTypes, ExplorerIsOfOneWindow, ExplorerMatchesWindow

\* A merge changes the window under the explorer, and is remembered as such.
LEMMA MergeKeepsExplorer ==
  ASSUME ExplorerInv, NEW doc \in Documents, NEW pending \in SUBSET Fields, Merge(doc, pending)
  PROVE  ExplorerInv'
<1>1. /\ prefWindow' \in {prefWindow, doc.window}
      /\ merged' = (merged \/ prefWindow' # prefWindow)
      /\ UNCHANGED <<storeWindow, updateQueued, catalogCache, explorer, orphans>>
  BY DEF Merge
<1>2. ExplorerTypes /\ doc.window \in Windows
  BY DEF ExplorerInv
<1>3. ExplorerTypes'
  BY <1>1, <1>2 DEF ExplorerTypes
<1>4. CASE prefWindow' = prefWindow
  <2>1. merged' = merged
    BY <1>1, <1>2, <1>4 DEF ExplorerTypes
  <2> QED
    BY <1>1, <1>3, <1>4, <2>1 DEF ExplorerInv, ExplorerIsOfOneWindow, ExplorerMatchesWindow
<1>5. CASE prefWindow' # prefWindow
  <2>1. merged' = TRUE
    BY <1>1, <1>5
  <2> QED
    BY <1>1, <1>3, <2>1 DEF ExplorerInv, ExplorerIsOfOneWindow, ExplorerMatchesWindow
<1> QED
  BY <1>4, <1>5

\* Refresh and update() call load().
LEMMA LoadKeepsExplorer ==
  ASSUME ExplorerInv, NEW force \in BOOLEAN, NEW cache,
         explorer' = IF explorer = NoPanel THEN NoPanel
                     ELSE Load(explorer, force, prefWindow, Cap(storeWindow), cache),
         merged' = MergedAfterLoad,
         UNCHANGED <<prefWindow, storeWindow, orphans>>,
         catalogCache' \in {0} \cup Seconds, updateQueued' \in BOOLEAN
  PROVE  ExplorerInv'
<1>1. ExplorerTypes
  BY DEF ExplorerInv
<1>2. /\ merged' \in BOOLEAN
      /\ prefWindow # storeWindow => merged'
      /\ explorer # NoPanel /\ explorer.loading /\ merged => merged'
  BY DEF MergedAfterLoad
<1>3. explorer # NoPanel => explorer \in Explorer
  BY <1>1 DEF ExplorerTypes
<1>4. explorer # NoPanel /\ explorer.loading =>
        /\ explorer.window # 0 /\ explorer.asked # 0
        /\ merged' \/ explorer.asked = Cap(explorer.window)
  BY <1>1, <1>2 DEF ExplorerInv, ExplorerIsOfOneWindow, ExplorerTypes
<1>5. explorer # NoPanel => Trusty(explorer', merged', prefWindow', storeWindow')
  BY <1>1, <1>2, <1>3, <1>4, LoadIsTrusty DEF ExplorerTypes
<1>6. explorer' \in Explorer \cup {NoPanel}
  BY <1>5 DEF Trusty
<1>7. ExplorerTypes'
  BY <1>1, <1>2, <1>6 DEF ExplorerTypes
<1> QED
  BY <1>2, <1>5, <1>7, TrustyHolds

\* A frame leaves an explorer alone only if it is of the selected window.
LEMMA FrameKeepsExplorer ==
  ASSUME ExplorerInv, NEW due \in BOOLEAN, Frame(due)
  PROVE  ExplorerInv'
<1>1. /\ updateQueued' = FALSE
      /\ UNCHANGED <<prefWindow, storeWindow, catalogCache, orphans>>
      /\ IF explorer # NoPanel /\ Outdated(explorer, due)
         THEN /\ explorer' = Load(explorer, FALSE, prefWindow, Cap(storeWindow),
                                  catalogCache)
              /\ merged' = MergedAfterLoad
         ELSE UNCHANGED <<explorer, merged>>
  BY DEF Frame, selection, store
<1>2. ExplorerTypes
  BY DEF ExplorerInv
<1>3. CASE explorer # NoPanel /\ Outdated(explorer, due)
  BY <1>1, <1>2, <1>3, LoadKeepsExplorer DEF ExplorerTypes
<1>4. CASE explorer = NoPanel
  BY <1>1, <1>2, <1>4 DEF ExplorerInv, ExplorerTypes, ExplorerIsOfOneWindow,
                          ExplorerMatchesWindow
<1>5. CASE explorer # NoPanel /\ ~Outdated(explorer, due)
  <2>1. explorer.loaded = prefWindow
    BY <1>5 DEF Outdated
  <2>2. explorer' = explorer /\ merged' = merged
    BY <1>1, <1>5
  <2>3. ExplorerTypes'
    BY <1>1, <1>2, <2>2 DEF ExplorerTypes
  <2>4. prefWindow # storeWindow => merged
    BY <1>5 DEF ExplorerInv, ExplorerIsOfOneWindow
  <2>5. Trusty(explorer, merged, prefWindow, storeWindow)
    <3>0. explorer \in Explorer /\ merged \in BOOLEAN /\ explorer.loading \in BOOLEAN
          /\ explorer.failed \in BOOLEAN
      BY <1>2, <1>5, ExplorerParts DEF ExplorerTypes
    <3>1. CASE explorer.loading
      BY <1>5, <3>0, <3>1 DEF Trusty, ExplorerInv, ExplorerIsOfOneWindow
    <3>2. CASE ~explorer.loading /\ (explorer.failed \/ merged)
      BY <3>0, <3>2 DEF Trusty
    <3>3. CASE ~explorer.loading /\ ~explorer.failed /\ ~merged
      <4>1. explorer.seconds = Cap(explorer.loaded)
        BY <1>5, <3>3 DEF ExplorerInv, ExplorerIsOfOneWindow
      <4>2. prefWindow = storeWindow
        BY <2>4, <3>3
      <4>3. explorer.seconds = Cap(storeWindow)
        BY <2>1, <4>1, <4>2
      <4> QED
        BY <2>1, <3>0, <3>3, <4>3 DEF Trusty
    <3> QED
      BY <3>0, <3>1, <3>2, <3>3
  <2> QED
    BY <1>1, <2>2, <2>3, <2>4, <2>5, TrustyHolds
<1> QED
  BY <1>3, <1>4, <1>5

\* An answer for the window that is selected is shown, any other one is
\* followed by a load for the window that is.
LEMMA CatalogAnsweredKeepsExplorer ==
  ASSUME ExplorerInv, NEW ok \in BOOLEAN, CatalogAnswered(ok)
  PROVE  ExplorerInv'
<1> DEFINE e == explorer
           current == prefWindow = e.window
           ended == [e EXCEPT !.loading = FALSE, !.window = 0, !.asked = 0, !.queued = FALSE]
           result == IF ok /\ current
                     THEN [ended EXCEPT !.loaded = e.window, !.seconds = e.asked,
                                        !.failed = FALSE]
                     ELSE [ended EXCEPT !.failed = @ \/ current]
<1>1. /\ e # NoPanel /\ e.loading
      /\ catalogCache' = (IF ok THEN e.asked ELSE catalogCache)
      /\ explorer' = (IF e.queued \/ ~current
                      THEN Load(result, FALSE, prefWindow, Cap(storeWindow), catalogCache')
                      ELSE result)
      /\ merged' = (merged \/ prefWindow # storeWindow)
      /\ UNCHANGED <<prefWindow, storeWindow, updateQueued, orphans>>
  BY DEF CatalogAnswered, Continue, selection, store
<1>2. ExplorerTypes /\ e \in Explorer /\ e.window # 0 /\ e.asked # 0
      /\ (~merged => e.asked = Cap(e.window))
  BY <1>1 DEF ExplorerInv, ExplorerTypes, ExplorerIsOfOneWindow
<1>3. /\ ended \in Explorer /\ ~ended.loading /\ ended.failed = e.failed
  BY <1>2 DEF Explorer
<1>4. /\ e.window \in {0} \cup Windows /\ e.asked \in {0} \cup Seconds
      /\ e.failed \in BOOLEAN /\ e.queued \in BOOLEAN
  BY <1>2, ExplorerParts
<1> HIDE DEF ended
<1>5. /\ result \in Explorer /\ ~result.loading
      /\ ok /\ current => result.loaded = e.window /\ result.seconds = e.asked
      /\ ~ok /\ current => result.failed
  <2>1. CASE ok /\ current
    <3>1. result = [ended EXCEPT !.loaded = e.window, !.seconds = e.asked, !.failed = FALSE]
      BY <2>1
    <3>2. /\ result \in Explorer /\ result.loading = ended.loading
          /\ result.loaded = e.window /\ result.seconds = e.asked
      BY <1>3, <1>4, <3>1 DEF Explorer
    <3> QED
      BY <1>3, <2>1, <3>2
  <2>2. CASE ~(ok /\ current)
    <3>1. result = [ended EXCEPT !.failed = @ \/ current]
      BY <2>2
    <3>2. (ended.failed \/ current) \in BOOLEAN
      OBVIOUS
    <3>3. /\ result \in Explorer /\ result.loading = ended.loading
          /\ result.failed = (ended.failed \/ current)
      BY <1>3, <3>1, <3>2 DEF Explorer
    <3> QED
      BY <1>3, <2>2, <3>3
  <2> QED
    BY <2>1, <2>2
<1> HIDE DEF result
<1>6. merged' \in BOOLEAN /\ (prefWindow # storeWindow => merged') /\ (merged => merged')
  BY <1>1
<1>7. Trusty(explorer', merged', prefWindow, storeWindow)
  <2>1. CASE e.queued \/ ~current
    <3>1. explorer' = Load(result, FALSE, prefWindow, Cap(storeWindow), catalogCache')
      BY <1>1, <2>1
    <3>2. Trusty(Load(result, FALSE, prefWindow, Cap(storeWindow), catalogCache'), merged',
                 prefWindow, storeWindow)
      BY <1>1, <1>2, <1>5, <1>6, LoadIsTrusty DEF ExplorerTypes
    <3> QED
      BY <3>1, <3>2
  <2>2. CASE ~(e.queued \/ ~current)
    <3>1. explorer' = result /\ current
      BY <1>1, <2>2
    <3>2. CASE ~ok
      BY <1>5, <3>1, <3>2 DEF Trusty
    <3>3. CASE ok /\ merged'
      BY <1>5, <3>1, <3>3 DEF Trusty
    <3>4. CASE ok /\ ~merged'
      <4>1. prefWindow = storeWindow /\ e.asked = Cap(e.window) /\ e.window = prefWindow
        BY <1>2, <1>6, <3>1, <3>4
      <4>2. result.loaded = prefWindow /\ result.seconds = Cap(storeWindow)
        BY <1>5, <3>1, <3>4, <4>1
      <4> QED
        BY <1>5, <3>1, <4>2 DEF Trusty
    <3> QED
      BY <3>2, <3>3, <3>4
  <2> QED
    BY <2>1, <2>2
<1>8. ExplorerTypes'
  <2>1. explorer' \in Explorer /\ catalogCache' \in {0} \cup Seconds
    BY <1>1, <1>2, <1>4, <1>7 DEF Trusty, ExplorerTypes
  <2> QED
    BY <1>1, <1>2, <1>6, <2>1 DEF ExplorerTypes
<1> QED
  BY <1>1, <1>6, <1>7, <1>8, TrustyHolds

-----------------------------------------------------------------------------
(* The steps *)

\* The types of what the user chooses, as the charts and the explorer need
\* them.
LEMMA SelectionTypes ==
  ASSUME LoadsInv
  PROVE  /\ page \in Pages \ gone /\ panels \in [Pages -> SUBSET Metrics]
         /\ hidden \subseteq Metrics /\ updateQueued \in BOOLEAN
         /\ prefWindow \in Windows /\ storeWindow \in Windows
         /\ catalogCache \in {0} \cup Seconds /\ orphans \subseteq Seconds
         /\ TabTypes /\ behind \in BOOLEAN
         /\ \A p \in Pages : panels[p] \subseteq Metrics
         /\ ActiveCharts \subseteq Metrics
BY DEF LoadsInv, ChartsInv, ChartTypes, ExplorerInv, ExplorerTypes, TabTypes, ActiveCharts, ChartsOf

\* What the dock lists are charts.
LEMMA ListedType ==
  ASSUME NEW charts \in [Pages -> SUBSET Metrics], NEW away, NEW invisible \in SUBSET Metrics
  PROVE  Listed(charts, away, invisible) \in [panels : [Pages -> SUBSET Metrics],
                                             hidden : SUBSET Metrics]
BY DEF Listed

\* Without the custom charts of some pages there are charts on each page still.
LEMMA OnPagesType ==
  ASSUME NEW charts \in [Pages -> SUBSET Metrics], NEW away \in SUBSET Pages
  PROVE  OnPages(charts, away) \in [Pages -> SUBSET Metrics]
<1> DEFINE lost == UNION {charts[p] \ DefaultPanels[p] : p \in away}
<1>1. lost \subseteq Metrics
  OBVIOUS
<1>2. OnPages(charts, away) = [p \in Pages |-> (charts[p] \ lost) \cup (DefaultPanels[p] \cap lost)]
  BY DEF OnPages
<1> HIDE DEF lost
<1> QED
  BY <1>1, <1>2

\* navigate() shows a page there is, with its panels made anew.
LEMMA GoParts ==
  ASSUME TabTypes, NEW p \in Pages, Go(p)
  PROVE  /\ page' \in Pages \ gone
         /\ p = page => page' = page
         /\ RenderPanelsFor(page', prefWindow', storeWindow')
         /\ UNCHANGED <<prefWindow, paused, storeWindow, updateQueued, catalogCache>>
BY DEF Go, GoTo, TabTypes, RenderPanels

\* Initially the load of start is under way and nothing is shown.
LEMMA InitHolds == Init => LoadsInv
<1> SUFFICES ASSUME Init PROVE LoadsInv
  OBVIOUS
<1>1. PICK r \in Requests :
        /\ controller = r
        /\ requests = [q \in Requests |->
             IF q # r THEN Idle
             ELSE [window |-> storeWindow, metrics |-> ActiveCharts,
                   aborted |-> FALSE, caller |-> "start"]]
  <2> DEFINE r == CHOOSE q \in Requests : TRUE
  <2>1. r \in Requests
    OBVIOUS
  <2> QED
    BY <2>1 DEF Init
<1>2. PICK doc \in Documents :
        /\ prefWindow = doc.window /\ gone = doc.gone
        /\ panels = OnPages(doc.panels, doc.gone) /\ hidden = doc.hidden
  BY DEF Init
<1>3. /\ storeWindow = prefWindow /\ page \in Pages \ gone /\ paused = FALSE
      /\ route = page /\ dock = Listed(panels, gone, hidden)
      /\ reloadTimer = FALSE /\ started = FALSE /\ failed = FALSE /\ behind = FALSE
      /\ tracked = UNION {panels[p] : p \in Pages \ gone}
      /\ points = 0 /\ series = [m \in tracked |-> <<>>]
      /\ shown = [window |-> 0, metrics |-> {}]
      /\ updateQueued = FALSE /\ catalogCache = 0 /\ explorer = NoPanel
      /\ orphans = {} /\ merged = FALSE /\ selections = 0
  BY DEF Init
<1>4. /\ prefWindow \in Windows /\ storeWindow \in Windows /\ gone \subseteq Pages
      /\ panels \in [Pages -> SUBSET Metrics] /\ hidden \subseteq Metrics
  BY <1>2, <1>3, OnPagesType
<1>5. /\ ActiveCharts \subseteq tracked /\ tracked \subseteq Metrics
  BY <1>3, <1>4 DEF ActiveCharts, ChartsOf
<1> DEFINE first == [window |-> storeWindow, metrics |-> ActiveCharts,
                     aborted |-> FALSE, caller |-> "start"]
<1>6. first \in Ask /\ first # Idle /\ first.metrics = ActiveCharts
      /\ first.window = storeWindow /\ ~first.aborted
  BY <1>4, <1>5 DEF Ask, Callers, Idle
<1>7. requests[r] = first /\ \A q \in Requests : q # r => requests[q] = Idle
  BY <1>1
<1>8. requests \in [Requests -> {Idle} \cup Ask]
  BY <1>1, <1>6
<1> HIDE DEF first
<1>9. ChartTypes
  <2>1. \A m \in DOMAIN series : series[m] \in Seq(BOOLEAN)
    <3>1. <<>> \in Seq(BOOLEAN)
      OBVIOUS
    <3>2. \A m \in DOMAIN series : series[m] = <<>>
      BY <1>3
    <3> QED
      BY <3>1, <3>2
  <2>2. DOMAIN series = tracked
    BY <1>3
  <2>3. points \in 0 .. MaxPoints
    BY <1>3
  <2>4. shown \in [window : {0} \cup Windows, metrics : SUBSET Metrics]
    BY <1>3
  <2> QED
    BY <1>1, <1>3, <1>4, <1>5, <1>8, <2>1, <2>2, <2>3, <2>4 DEF ChartTypes
<1>10. Aligned /\ KeptAreTracked
  <2>1. Aligned
    BY <1>3 DEF Aligned
  <2> QED
    BY <1>3, <1>5, <1>6, <1>7, <2>1 DEF KeptAreTracked, UnderWay
<1>11. OneLoadCounts
  BY <1>1, <1>3, <1>6, <1>7 DEF OneLoadCounts, UnderWay, AsksForPage
<1>12. ChartsMatchSelection
  BY <1>1 DEF ChartsMatchSelection, Unsettled
<1>13. ExplorerInv
  BY <1>3, <1>4 DEF ExplorerInv, ExplorerTypes, ExplorerIsOfOneWindow, ExplorerMatchesWindow
<1>14. TabTypes
  <2>1. 0 \in 0 .. MaxSelections
    OBVIOUS
  <2> QED
    BY <1>3, <1>4, <2>1, ListedType DEF TabTypes
<1> QED
  BY <1>9, <1>10, <1>11, <1>12, <1>13, <1>14 DEF LoadsInv, ChartsInv

\* Every act that gives the page other charts, or another window, loads them
\* again or will, or leaves the page behind.
LEMMA UserKeepsCharts ==
  ASSUME LoadsInv, UserStep
  PROVE  ChartsInv'
<1>0. ChartsInv
  BY DEF LoadsInv
<1>t. /\ page \in Pages /\ panels \in [Pages -> SUBSET Metrics]
      /\ hidden \subseteq Metrics /\ storeWindow \in Windows
      /\ TabTypes /\ behind \in BOOLEAN
      /\ \A p \in Pages : panels[p] \subseteq Metrics
      /\ ActiveCharts \subseteq Metrics
  BY SelectionTypes
<1>l. ASSUME LoadsNothing, storeWindow' = storeWindow,
             page' \in Pages, panels' \in [Pages -> SUBSET Metrics], hidden' \subseteq Metrics
      PROVE  ChartsInv'
  <2>1. /\ UNCHANGED <<reloadTimer, controller, requests, started, failed, store>>
        /\ behind' = (behind \/ ~(ActiveCharts' \subseteq ActiveCharts))
    BY <1>l DEF LoadsNothing, store
  <2>2. /\ behind' \in BOOLEAN /\ (behind => behind')
        /\ behind' \/ ActiveCharts' \subseteq ActiveCharts
    BY <1>t, <2>1
  <2> QED
    BY <1>0, <1>l, <2>1, <2>2, UnmovedKeepsCharts
<1>u. ASSUME UNCHANGED <<reload, store, page, panels, hidden>>
      PROVE  ChartsInv'
  BY <1>0, <1>t, <1>u, UnmovedKeepsCharts DEF reload, ActiveCharts
<1>r. ASSUME ReloadData(storeWindow, ActiveCharts, {}),
             UNCHANGED <<page, panels, hidden, storeWindow>>
      PROVE  ChartsInv'
  <2>1. ActiveCharts' = ActiveCharts
    BY <1>r DEF ActiveCharts
  <2> QED
    BY <1>0, <1>t, <1>r, <2>1, ReloadKeepsCharts
<1>1. ASSUME NEW w \in Windows, SetWindow(w) PROVE ChartsInv'
  BY <1>0, <1>t, <1>1, ScheduleKeepsCharts DEF SetWindow, layout
<1>2. ASSUME NEW p \in Pages, Go(p), Reload(p), UNCHANGED <<panels, gone, hidden>>
      PROVE  ChartsInv'
  <2>1. page' \in Pages /\ storeWindow' = storeWindow /\ (p = page => page' = page)
    BY <1>t, <1>2, GoParts
  <2>2. CASE p # page
    BY <1>0, <1>t, <1>2, <2>1, <2>2, ScheduleKeepsCharts DEF Reload
  <2>3. CASE p = page
    BY <1>2, <1>u, <2>1, <2>3 DEF Reload, store
  <2> QED
    BY <2>2, <2>3
<1>3. ASSUME NEW p \in Pages, Navigate(p) \/ Back(p) PROVE ChartsInv'
  <2>1. \E q \in Pages : Go(q) /\ Reload(q) /\ UNCHANGED <<panels, gone, hidden>>
    BY <1>3 DEF Navigate, Back
  <2> QED
    BY <1>2, <2>1
<1>4. ASSUME Refresh \/ Resume PROVE ChartsInv'
  BY <1>4, <1>r DEF Refresh, Resume, selection, layout
<1>5. ASSUME Pause PROVE ChartsInv'
  BY <1>5, <1>u DEF Pause, layout
<1>6. ASSUME NEW p \in Pages, NEW m \in Metrics, ToggleVisible(p, m) PROVE ChartsInv'
  <2>1. /\ hidden' = hidden \ {m} \/ hidden' = hidden \cup {m}
        /\ UNCHANGED <<page, panels, storeWindow>>
        /\ IF p = page THEN ReloadData(storeWindow, ActiveCharts', {}) ELSE LoadsNothing
    BY <1>6 DEF ToggleVisible
  <2>2. hidden' \subseteq Metrics /\ ActiveCharts' \in SUBSET Metrics
    BY <1>t, <2>1 DEF ActiveCharts, ChartsOf
  <2>3. CASE p = page
    BY <1>0, <1>t, <2>1, <2>2, <2>3, ReloadKeepsCharts
  <2>4. CASE p # page
    BY <1>t, <1>l, <2>1, <2>2, <2>4
  <2> QED
    BY <2>3, <2>4
<1>7. ASSUME NEW m \in Metrics, RemovePanel(m) PROVE ChartsInv'
  <2>1. /\ panels' = [q \in Pages |-> panels[q] \ {m}]
        /\ hidden' = hidden \ {m}
        /\ ReloadData(storeWindow, ChartsOf(page, panels', hidden'), {})
        /\ UNCHANGED <<page, storeWindow>>
    BY <1>7 DEF RemovePanel
  <2>2. panels' \in [Pages -> SUBSET Metrics] /\ hidden' \subseteq Metrics
    BY <1>t, <2>1
  <2>3. ActiveCharts' = ChartsOf(page, panels', hidden')
    BY <2>1 DEF ActiveCharts
  <2>4. ActiveCharts' \in SUBSET Metrics
    BY <1>t, <2>1, <2>2, <2>3 DEF ChartsOf
  <2>5. ReloadData(storeWindow, ActiveCharts', {})
    BY <2>1, <2>3
  <2> QED
    BY <1>0, <1>t, <2>1, <2>2, <2>4, <2>5, ReloadKeepsCharts
<1>8. ASSUME NEW p \in Pages, NEW m \in Metrics, RevealChart(p, m) PROVE ChartsInv'
  <2>1. /\ hidden' = hidden \ {m} /\ Go(p) /\ panels' = panels /\ ScheduleReload
    BY <1>8 DEF RevealChart
  <2>2. page' \in Pages /\ storeWindow' = storeWindow
    BY <1>t, <2>1, GoParts
  <2> QED
    BY <1>0, <1>t, <2>1, <2>2, ScheduleKeepsCharts
<1>9. ASSUME NEW p \in Pages, NEW m \in Metrics, SavePanel(p, m) PROVE ChartsInv'
  <2>1. /\ panels' = [q \in Pages |-> IF q = p THEN panels[q] \cup {m} ELSE panels[q] \ {m}]
        /\ Go(p) /\ hidden' = hidden
        /\ ReloadData(storeWindow, ChartsOf(page', panels', hidden), {m})
    BY <1>9 DEF SavePanel
  <2>2. page' \in Pages /\ storeWindow' = storeWindow
    BY <1>t, <2>1, GoParts
  <2>3. panels' \in [Pages -> SUBSET Metrics] /\ hidden' \subseteq Metrics
    BY <1>t, <2>1
  <2>4. ActiveCharts' = ChartsOf(page', panels', hidden)
    BY <2>1 DEF ActiveCharts
  <2>5. ChartsOf(page', panels', hidden) \subseteq Metrics
    BY <2>2, <2>3 DEF ChartsOf
  <2> QED
    BY <1>0, <1>t, <2>1, <2>2, <2>3, <2>4, <2>5, ReloadKeepsCharts
<1>10. ASSUME NEW p \in Pages, NEW q \in Pages, NEW moved \in SUBSET panels[p],
              RemovePage(p, q, moved)
       PROVE  ChartsInv'
  <2>1. /\ panels' = [panels EXCEPT ![p] = @ \ moved, ![q] = @ \cup moved]
        /\ page' \in {page, q}
        /\ LoadsNothing /\ hidden' = hidden /\ storeWindow' = storeWindow
    BY <1>10 DEF RemovePage, RefreshNavigation
  <2>2. panels' \in [Pages -> SUBSET Metrics]
    BY <1>t, <2>1
  <2> QED
    BY <1>t, <1>l, <2>1, <2>2
<1>11. ASSUME NEW p \in Pages, AddPage(p) \/ EditNavigation PROVE ChartsInv'
  <2>1. /\ panels' = panels /\ page' \in {page, p}
        /\ LoadsNothing /\ hidden' = hidden /\ storeWindow' = storeWindow
    BY <1>11 DEF AddPage, EditNavigation, RefreshNavigation
  <2> QED
    BY <1>t, <1>l, <2>1
<1>12. ASSUME Reset PROVE ChartsInv'
  <2>1. /\ page' = HomePage /\ panels' = DefaultPanels /\ hidden' = {}
        /\ storeWindow' = DefaultWindow
        /\ ReloadData(DefaultWindow, DefaultPanels[HomePage], {})
    BY <1>12 DEF Reset
  <2>2. ActiveCharts' = DefaultPanels[HomePage]
    BY <2>1 DEF ActiveCharts, ChartsOf
  <2>3. DefaultPanels[HomePage] \in SUBSET Metrics
    OBVIOUS
  <2> QED
    BY <1>0, <2>1, <2>2, <2>3, ReloadKeepsCharts
<1>13. EditNavigation => ChartsInv'
  BY <1>t, <1>11
<1> QED
  BY <1>1, <1>3, <1>4, <1>5, <1>6, <1>7, <1>8, <1>9, <1>10, <1>11, <1>12, <1>13 DEF UserStep

\* Every step keeps the invariant of the charts.
LEMMA NextKeepsCharts ==
  ASSUME LoadsInv, [Next]_vars
  PROVE  ChartsInv'
<1>0. ChartsInv
  BY DEF LoadsInv
<1>t. /\ page \in Pages /\ panels \in [Pages -> SUBSET Metrics]
      /\ hidden \subseteq Metrics /\ storeWindow \in Windows
      /\ gone \subseteq Pages /\ route \in Pages /\ behind \in BOOLEAN
      /\ ActiveCharts \subseteq Metrics
  BY SelectionTypes DEF TabTypes
<1>1. CASE UserStep
  BY <1>1, UserKeepsCharts
<1>2. ASSUME UNCHANGED <<reload, store, page, panels, hidden>> PROVE ChartsInv'
  BY <1>0, <1>t, <1>2, UnmovedKeepsCharts DEF reload, ActiveCharts
<1>3. ASSUME NEW doc \in Documents, NEW pending \in SUBSET Fields, Merge(doc, pending)
      PROVE  ChartsInv'
  <2>1. /\ hidden' \in {hidden, doc.hidden} /\ gone' \in {gone, doc.gone}
        /\ \E charts \in {panels, doc.panels} : panels' = OnPages(charts, gone')
        /\ page' \in IF route \in gone' THEN Pages \ gone' ELSE {route}
        /\ UNCHANGED <<reloadTimer, controller, requests, started, failed, store>>
        /\ behind' = (behind \/ ~(ActiveCharts' \subseteq ActiveCharts))
    BY <1>3 DEF Merge, LoadsNothing, store
  <2>2. /\ behind' \in BOOLEAN /\ (behind => behind')
        /\ behind' \/ ActiveCharts' \subseteq ActiveCharts
    BY <1>t, <2>1
  <2>3. hidden' \subseteq Metrics /\ gone' \in SUBSET Pages /\ page' \in Pages
    BY <1>t, <2>1
  <2>4. panels' \in [Pages -> SUBSET Metrics]
    BY <1>t, <2>1, <2>3, OnPagesType
  <2> QED
    BY <1>0, <2>1, <2>2, <2>3, <2>4, UnmovedKeepsCharts
<1>4. ASSUME ReloadTimerFires PROVE ChartsInv'
  <2>1. /\ ReloadData(storeWindow, ActiveCharts, {})
        /\ UNCHANGED <<page, panels, hidden, storeWindow>>
    BY <1>4 DEF ReloadTimerFires, selection, layout
  <2>2. ActiveCharts' = ActiveCharts
    BY <2>1 DEF ActiveCharts
  <2> QED
    BY <1>0, <1>t, <2>1, <2>2, ReloadKeepsCharts
<1>5. ASSUME NEW r \in Requests, ReloadFails(r) PROVE ChartsInv'
  BY <1>0, <1>5, ReloadFailsKeepsCharts
<1>6. ASSUME NEW r \in Requests, NEW n \in Answers, ReloadAnswered(r, n) PROVE ChartsInv'
  BY <1>0, <1>6, ReloadAnsweredKeepsCharts
<1>7. ASSUME NEW ok \in BOOLEAN, CatalogAnswered(ok) PROVE ChartsInv'
  BY <1>2, <1>7 DEF CatalogAnswered, selection, layout
<1>8. ASSUME NEW ok \in BOOLEAN, NEW seconds \in orphans, OrphanAnswered(seconds, ok)
      PROVE  ChartsInv'
  BY <1>2, <1>8 DEF OrphanAnswered, selection, layout
<1>9. ASSUME NEW newer \in BOOLEAN, OnSnapshot(newer) PROVE ChartsInv'
  <2>1. /\ UNCHANGED <<reload, storeWindow, tracked, shown, page, panels, hidden>>
        /\ IF newer THEN AppendSnapshot ELSE UNCHANGED <<points, series>>
    BY <1>9 DEF OnSnapshot, selection, layout
  <2>2. CASE newer
    BY <1>0, <2>1, <2>2, SnapshotKeepsCharts
  <2>3. CASE ~newer
    <3>1. UNCHANGED <<reload, store, page, panels, hidden>>
      BY <2>1, <2>3 DEF store
    <3> QED
      BY <1>2, <3>1
  <2> QED
    BY <2>2, <2>3
<1>10. ASSUME NEW due \in BOOLEAN, Frame(due) PROVE ChartsInv'
  BY <1>2, <1>10 DEF Frame, selection, layout
<1>11. ASSUME CacheExpires PROVE ChartsInv'
  BY <1>2, <1>11 DEF CacheExpires, selection, layout
<1>12. ASSUME UNCHANGED vars PROVE ChartsInv'
  BY <1>2, <1>12 DEF vars, selection, layout
<1>13. CASE Answer
  BY <1>5, <1>6, <1>7, <1>8, <1>13 DEF Answer
<1> QED
  BY <1>1, <1>3, <1>4, <1>9, <1>10, <1>11, <1>12, <1>13 DEF Next

\* Every act that makes the panels anew loads the explorer for the window.
LEMMA UserKeepsExplorer ==
  ASSUME LoadsInv, UserStep
  PROVE  ExplorerInv'
<1>0. ExplorerInv
  BY DEF LoadsInv
<1>t. /\ page \in Pages \ gone /\ updateQueued \in BOOLEAN
      /\ prefWindow \in Windows /\ storeWindow \in Windows /\ TabTypes
      /\ catalogCache \in {0} \cup Seconds /\ orphans \subseteq Seconds
  BY SelectionTypes
<1>1. ASSUME NEW w \in Windows, SetWindow(w) PROVE ExplorerInv'
  BY <1>0, <1>1, SetWindowKeepsExplorer
<1>2. ASSUME NEW p \in Pages, RenderPanels(p),
             UNCHANGED <<prefWindow, storeWindow, updateQueued, catalogCache>>
      PROVE  ExplorerInv'
  BY <1>0, <1>t, <1>2, RenderKeepsExplorer DEF RenderPanels
<1>3. ASSUME UNCHANGED <<prefWindow, storeWindow, updateQueued, catalog>>
      PROVE  ExplorerInv'
  BY <1>0, <1>t, <1>3, UnmovedKeepsExplorer DEF catalog
<1>g. ASSUME NEW p \in Pages, Go(p) PROVE ExplorerInv'
  <2>1. page' \in Pages
    BY <1>t, <1>g, GoParts
  <2> QED
    BY <1>2, <1>g, <2>1 DEF Go
<1>n. ASSUME RefreshNavigation, page' \in Pages PROVE ExplorerInv'
  BY <1>2, <1>n DEF RefreshNavigation
<1>4. ASSUME NEW p \in Pages, Navigate(p) \/ Back(p) PROVE ExplorerInv'
  BY <1>4, <1>g DEF Navigate, Back
<1>5. ASSUME Refresh PROVE ExplorerInv'
  <2>1. /\ catalogCache' = 0
        /\ explorer' = IF explorer = NoPanel THEN NoPanel
                       ELSE Load(explorer, TRUE, prefWindow, Cap(storeWindow), 0)
        /\ merged' = MergedAfterLoad
        /\ UNCHANGED <<prefWindow, storeWindow, updateQueued, orphans>>
    BY <1>5 DEF Refresh, selection
  <2> QED
    BY <1>0, <1>t, <2>1, LoadKeepsExplorer
<1>6. ASSUME Pause \/ Resume PROVE ExplorerInv'
  BY <1>3, <1>6 DEF Pause, Resume, store
<1>7. ASSUME NEW m \in Metrics, RemovePanel(m) PROVE ExplorerInv'
  BY <1>t, <1>2, <1>7 DEF RemovePanel
<1>8. ASSUME NEW p \in Pages, NEW m \in Metrics, ToggleVisible(p, m) PROVE ExplorerInv'
  BY <1>t, <1>2, <1>8 DEF ToggleVisible
<1>9. ASSUME NEW p \in Pages, NEW m \in Metrics, RevealChart(p, m) \/ SavePanel(p, m)
      PROVE  ExplorerInv'
  BY <1>g, <1>9 DEF RevealChart, SavePanel
<1>10. ASSUME NEW p \in Pages, NEW q \in Pages, NEW moved \in SUBSET panels[p],
              RemovePage(p, q, moved)
       PROVE  ExplorerInv'
  BY <1>t, <1>n, <1>10 DEF RemovePage
<1>11. ASSUME NEW p \in Pages, AddPage(p) PROVE ExplorerInv'
  BY <1>n, <1>11 DEF AddPage
<1>12. ASSUME EditNavigation PROVE ExplorerInv'
  BY <1>t, <1>n, <1>12 DEF EditNavigation
<1>13. ASSUME Reset PROVE ExplorerInv'
  <2>1. /\ prefWindow' = DefaultWindow /\ storeWindow' = DefaultWindow
        /\ updateQueued' = TRUE /\ catalogCache' = catalogCache
        /\ RenderPanelsFor(HomePage, DefaultWindow, DefaultWindow)
    BY <1>13 DEF Reset
  <2>2. RenderPanelsFor(HomePage, prefWindow', storeWindow')
    BY <2>1
  <2> QED
    BY <1>0, <2>1, <2>2, RenderKeepsExplorer
<1> QED
  BY <1>1, <1>4, <1>5, <1>6, <1>7, <1>8, <1>9, <1>10, <1>11, <1>12, <1>13 DEF UserStep

\* Every step keeps the invariant of the explorer.
LEMMA NextKeepsExplorer ==
  ASSUME LoadsInv, [Next]_vars
  PROVE  ExplorerInv'
<1>0. ExplorerInv
  BY DEF LoadsInv
<1>t. /\ page \in Pages /\ updateQueued \in BOOLEAN
      /\ prefWindow \in Windows /\ storeWindow \in Windows
      /\ catalogCache \in {0} \cup Seconds /\ orphans \subseteq Seconds
  BY SelectionTypes
<1>1. CASE UserStep
  BY <1>1, UserKeepsExplorer
<1>2. ASSUME UNCHANGED <<prefWindow, storeWindow, explorer, merged>>,
             catalogCache' \in {0} \cup Seconds, orphans' \subseteq Seconds,
             updateQueued' = updateQueued \/ updateQueued' = TRUE
      PROVE  ExplorerInv'
  <2>1. updateQueued' \in BOOLEAN /\ (updateQueued => updateQueued')
    <3>1. CASE updateQueued' = updateQueued
      BY <1>t, <3>1
    <3>2. CASE updateQueued' = TRUE
      BY <3>2
    <3> QED
      BY <1>2, <3>1, <3>2
  <2> QED
    BY <1>0, <1>2, <2>1, UnmovedKeepsExplorer
<1>3. ASSUME NEW doc \in Documents, NEW pending \in SUBSET Fields, Merge(doc, pending)
      PROVE  ExplorerInv'
  BY <1>0, <1>3, MergeKeepsExplorer
<1>4. ASSUME ReloadTimerFires PROVE ExplorerInv'
  BY <1>t, <1>2, <1>4 DEF ReloadTimerFires, selection, catalog
<1>5. ASSUME NEW r \in Requests, Finish(r), UNCHANGED <<storeWindow, catalogCache>>,
             updateQueued' = updateQueued \/ updateQueued' = TRUE
      PROVE  ExplorerInv'
  <2>0. prefWindow' = prefWindow
    BY <1>5 DEF Finish
  <2>1. CASE RenderPanels(page)
    <3>1. updateQueued' \in BOOLEAN
      BY <1>t, <1>5
    <3>2. RenderPanelsFor(page, prefWindow', storeWindow')
      BY <1>5, <2>0, <2>1 DEF RenderPanels
    <3> QED
      BY <1>0, <1>t, <1>5, <2>0, <3>1, <3>2, RenderKeepsExplorer
  <2>2. CASE UNCHANGED <<explorer, orphans, merged>>
    BY <1>t, <1>2, <1>5, <2>0, <2>2
  <2> QED
    BY <1>5, <2>1, <2>2 DEF Finish
<1>6. ASSUME NEW r \in Requests, ReloadFails(r) PROVE ExplorerInv'
  BY <1>5, <1>6 DEF ReloadFails, store
<1>7. ASSUME NEW r \in Requests, NEW n \in Answers, ReloadAnswered(r, n) PROVE ExplorerInv'
  <2>1. updateQueued' = updateQueued \/ updateQueued' = TRUE
    BY <1>7 DEF ReloadAnswered, Apply
  <2> QED
    BY <1>5, <1>7, <2>1 DEF ReloadAnswered
<1>8. ASSUME NEW ok \in BOOLEAN, CatalogAnswered(ok) PROVE ExplorerInv'
  BY <1>0, <1>8, CatalogAnsweredKeepsExplorer
<1>9. ASSUME NEW ok \in BOOLEAN, NEW seconds \in orphans, OrphanAnswered(seconds, ok)
      PROVE  ExplorerInv'
  BY <1>t, <1>2, <1>9 DEF OrphanAnswered, selection, store
<1>10. ASSUME NEW newer \in BOOLEAN, OnSnapshot(newer) PROVE ExplorerInv'
  <2>1. updateQueued' = updateQueued \/ updateQueued' = TRUE
    BY <1>10 DEF OnSnapshot
  <2>2. /\ UNCHANGED <<prefWindow, storeWindow, explorer, merged, orphans>>
        /\ catalogCache' = 0
    BY <1>10 DEF OnSnapshot, selection
  <2> QED
    BY <1>t, <1>2, <2>1, <2>2
<1>11. ASSUME NEW due \in BOOLEAN, Frame(due) PROVE ExplorerInv'
  BY <1>0, <1>11, FrameKeepsExplorer
<1>12. ASSUME CacheExpires PROVE ExplorerInv'
  BY <1>t, <1>2, <1>12 DEF CacheExpires, selection, store
<1>13. ASSUME UNCHANGED vars PROVE ExplorerInv'
  BY <1>t, <1>2, <1>13 DEF vars, selection, store, catalog
<1>14. CASE Answer
  BY <1>6, <1>7, <1>8, <1>9, <1>14 DEF Answer
<1> QED
  BY <1>1, <1>3, <1>4, <1>10, <1>11, <1>12, <1>13, <1>14 DEF Next

\* The page shown is one there is, and the acts are counted.
LEMMA NextKeepsTab ==
  ASSUME LoadsInv, [Next]_vars
  PROVE  TabTypes'
<1>t. /\ TabTypes /\ panels \in [Pages -> SUBSET Metrics] /\ hidden \subseteq Metrics
  BY SelectionTypes
<1>d. /\ gone \subseteq Pages /\ page \in Pages \ gone /\ paused \in BOOLEAN /\ route \in Pages
      /\ dock \in [panels : [Pages -> SUBSET Metrics], hidden : SUBSET Metrics]
      /\ selections \in 0 .. MaxSelections
  BY <1>t DEF TabTypes
<1>s. Selects => selections' \in 0 .. MaxSelections
  BY <1>d DEF Selects
<1>u. ASSUME UNCHANGED <<layout, tab>>, Selects \/ selections' = selections PROVE TabTypes'
  BY <1>d, <1>s, <1>u DEF TabTypes, layout, tab
<1>g. ASSUME NEW p \in Pages, Go(p), Selects, UNCHANGED <<gone, dock>>, route' \in Pages
      PROVE  TabTypes'
  <2>1. page' \in Pages \ gone /\ paused' = paused
    BY <1>t, <1>g, GoParts
  <2> QED
    BY <1>d, <1>s, <1>g, <2>1 DEF TabTypes
<1>n. ASSUME RefreshNavigation, Selects, panels' \in [Pages -> SUBSET Metrics],
             gone' \subseteq Pages, page' \in Pages \ gone'
      PROVE  TabTypes'
  <2>1. route' = page' /\ dock' = Listed(panels', gone', hidden) /\ paused' = paused
    BY <1>n DEF RefreshNavigation
  <2>2. dock' \in [panels : [Pages -> SUBSET Metrics], hidden : SUBSET Metrics]
    BY <1>t, <1>n, <2>1, ListedType
  <2> QED
    BY <1>d, <1>s, <1>n, <2>1, <2>2 DEF TabTypes
<1>1. ASSUME NEW w \in Windows, SetWindow(w) PROVE TabTypes'
  BY <1>1, <1>u DEF SetWindow
<1>2. ASSUME NEW p \in Pages, Navigate(p) PROVE TabTypes'
  BY <1>2, <1>g DEF Navigate
<1>3. ASSUME NEW p \in Pages, Back(p) PROVE TabTypes'
  BY <1>3, <1>g DEF Back
<1>4. ASSUME NEW p \in Pages, AddPage(p) PROVE TabTypes'
  BY <1>t, <1>d, <1>4, <1>n DEF AddPage
<1>5. ASSUME Refresh PROVE TabTypes'
  BY <1>5, <1>u DEF Refresh, selection
<1>6. ASSUME Pause \/ Resume PROVE TabTypes'
  BY <1>d, <1>s, <1>6 DEF Pause, Resume, TabTypes, layout
<1>7. ASSUME EditNavigation PROVE TabTypes'
  BY <1>t, <1>d, <1>7, <1>n DEF EditNavigation
<1>8. ASSUME Reset PROVE TabTypes'
  <2>1. /\ Selects /\ page' = HomePage /\ gone' = CustomPages /\ UNCHANGED <<paused, route>>
        /\ dock' = Listed(DefaultPanels, CustomPages, {})
    BY <1>8 DEF Reset
  <2>2. dock' \in [panels : [Pages -> SUBSET Metrics], hidden : SUBSET Metrics]
    BY <2>1, ListedType
  <2>3. HomePage \in Pages \ CustomPages /\ CustomPages \subseteq Pages
    OBVIOUS
  <2> QED
    BY <1>d, <1>s, <2>1, <2>2, <2>3 DEF TabTypes
<1>9. ASSUME NEW m \in Metrics, RemovePanel(m) PROVE TabTypes'
  <2>1. /\ panels' = [q \in Pages |-> panels[q] \ {m}] /\ hidden' = hidden \ {m}
        /\ dock' = Listed(panels', gone, hidden') /\ Selects
        /\ UNCHANGED <<page, gone, paused, route>>
    BY <1>9 DEF RemovePanel
  <2>2. panels' \in [Pages -> SUBSET Metrics] /\ hidden' \subseteq Metrics
    BY <1>t, <2>1
  <2>3. dock' \in [panels : [Pages -> SUBSET Metrics], hidden : SUBSET Metrics]
    BY <2>1, <2>2, ListedType
  <2> QED
    BY <1>d, <1>s, <2>1, <2>3 DEF TabTypes
<1>10. ASSUME NEW p \in Pages, NEW m \in Metrics, ToggleVisible(p, m) PROVE TabTypes'
  <2>1. PICK list \in {dock, Listed(panels, gone, hidden)} :
          dock' = [list EXCEPT !.hidden = IF m \in @ THEN @ \ {m} ELSE @ \cup {m}]
    BY <1>10 DEF ToggleVisible
  <2>2. list \in [panels : [Pages -> SUBSET Metrics], hidden : SUBSET Metrics]
    BY <1>t, <1>d, ListedType
  <2>3. dock' \in [panels : [Pages -> SUBSET Metrics], hidden : SUBSET Metrics]
    BY <2>1, <2>2
  <2>4. Selects /\ UNCHANGED <<page, gone, paused, route>>
    BY <1>10 DEF ToggleVisible
  <2> QED
    BY <1>d, <1>s, <2>3, <2>4 DEF TabTypes
<1>11. ASSUME NEW p \in Pages, NEW m \in Metrics, RevealChart(p, m) \/ SavePanel(p, m)
       PROVE  TabTypes'
  <2>1. Go(p) /\ Selects /\ UNCHANGED <<gone, dock>> /\ route' \in Pages
    BY <1>d, <1>11 DEF RevealChart, SavePanel
  <2> QED
    BY <1>g, <2>1
<1>12. ASSUME NEW p \in Pages, NEW q \in Pages, NEW moved \in SUBSET panels[p],
              RemovePage(p, q, moved)
       PROVE  TabTypes'
  <2>1. /\ panels' = [panels EXCEPT ![p] = @ \ moved, ![q] = @ \cup moved]
        /\ gone' = gone \cup {p} /\ page' = (IF page = p THEN q ELSE page)
        /\ q \notin gone /\ q # p /\ RefreshNavigation /\ Selects
    BY <1>12 DEF RemovePage
  <2>2. panels' \in [Pages -> SUBSET Metrics]
    BY <1>t, <2>1
  <2> QED
    BY <1>d, <1>n, <2>1, <2>2
<1>13. ASSUME NEW doc \in Documents, NEW pending \in SUBSET Fields, Merge(doc, pending)
       PROVE  TabTypes'
  <2>1. /\ gone' \in {gone, doc.gone}
        /\ page' \in IF route \in gone' THEN Pages \ gone' ELSE {route}
        /\ UNCHANGED tab /\ Selects
    BY <1>13 DEF Merge
  <2> QED
    BY <1>d, <1>s, <2>1 DEF TabTypes, tab
<1>14. ASSUME NEW r \in Requests, Finish(r), selections' = selections PROVE TabTypes'
  <2>1. /\ dock' \in {dock, Listed(panels, gone, hidden)}
        /\ UNCHANGED <<layout, paused, route>>
    BY <1>14 DEF Finish
  <2>2. dock' \in [panels : [Pages -> SUBSET Metrics], hidden : SUBSET Metrics]
    BY <1>t, <1>d, <2>1, ListedType
  <2> QED
    BY <1>d, <1>14, <2>1, <2>2 DEF TabTypes, layout
<1>15. ASSUME NEW r \in Requests, ReloadFails(r) \/ \E n \in Answers : ReloadAnswered(r, n)
       PROVE  TabTypes'
  BY <1>14, <1>15 DEF ReloadFails, ReloadAnswered
<1>16. ASSUME UNCHANGED <<selection, selections>> PROVE TabTypes'
  BY <1>16, <1>u DEF selection
<1>17. CASE Answer
  BY <1>15, <1>16, <1>17 DEF Answer, CatalogAnswered, OrphanAnswered
<1>18. CASE UserStep
  BY <1>1, <1>2, <1>3, <1>4, <1>5, <1>6, <1>7, <1>8, <1>9, <1>10, <1>11, <1>12, <1>18
     DEF UserStep
<1>19. ASSUME ReloadTimerFires \/ (\E newer \in BOOLEAN : OnSnapshot(newer))
              \/ (\E due \in BOOLEAN : Frame(due)) \/ CacheExpires \/ UNCHANGED vars
       PROVE  TabTypes'
  BY <1>16, <1>19 DEF ReloadTimerFires, OnSnapshot, Frame, CacheExpires, vars
<1> QED
  BY <1>13, <1>17, <1>18, <1>19 DEF Next

\* The invariant is inductive.
LEMMA NextKeeps == LoadsInv /\ [Next]_vars => LoadsInv'
BY NextKeepsCharts, NextKeepsExplorer, NextKeepsTab DEF LoadsInv

\* The inductive invariant holds throughout.
THEOREM InvariantHolds == Spec => []LoadsInv
BY InitHolds, NextKeeps, PTL DEF Spec

-----------------------------------------------------------------------------
(* The properties *)

\* Timestamps and all series kept have one length, whatever order histories,
\* snapshots and the tracking of new metrics come in.
THEOREM SeriesStayAligned == Spec => []SeriesAligned
<1>1. LoadsInv => SeriesAligned
  BY TypesSplit DEF LoadsInv, ChartsInv, ExplorerInv, SeriesAligned, Aligned
<1> QED
  BY <1>1, InvariantHolds, PTL

\* When no load is to come and none has failed, every chart of the page shows
\* the selected window without a hole, unless the answer to a save or an edit
\* of the pages has given the page other charts since the last load.
THEOREM ChartsShowSelection == Spec => []ChartsMatchSelection
<1>1. LoadsInv => ChartsMatchSelection
  BY DEF LoadsInv, ChartsInv
<1> QED
  BY <1>1, InvariantHolds, PTL

\* An explorer at rest shows the catalog of the selected window.
THEOREM ExplorerShowsWindow == Spec => []ExplorerMatchesWindow
<1>1. LoadsInv => ExplorerMatchesWindow
  BY DEF LoadsInv, ExplorerInv
<1> QED
  BY <1>1, InvariantHolds, PTL

=============================================================================
