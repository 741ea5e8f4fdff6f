--------------------------- MODULE DashboardLoads ---------------------------
(***************************************************************************)
(* What a browser tab shows and how it is loaded: reloadData and           *)
(* loadCatalog of web/src/app.ts, TimeSeriesStore of                       *)
(* web/src/core/time-series-store.ts, and the loads of MetricExplorerPanel *)
(* (metric-table-panel.ts has the same ones).  Answers arrive in any order *)
(* with respect to the selections of the user and to the snapshots of the  *)
(* stream, which RealtimeClient models in detail.                          *)
(*                                                                         *)
(* The store keeps, for the newest points of the chart, which of them have *)
(* a value: a series is a sequence of BOOLEANs beside the number of        *)
(* timestamps.  Whether a snapshot is newer than what the store has is left *)
(* open (RealtimeClient models ages), and so is when the explorer's ten    *)
(* seconds have passed.  A window is its length; a chart is the metric it  *)
(* draws.  Which page takes the place of one that is gone is left open     *)
(* (NavigationLayout models the pages).                                    *)
(***************************************************************************)
EXTENDS Integers, Sequences

CONSTANTS
  Windows,        \* the choices of the window select
  DefaultWindow,  \* defaultWindowSeconds
  MaxCatalog,     \* the catalog covers at most this much: 21600
  Pages,
  CustomPages,    \* the ones the user adds
  HomePage,       \* "overview"
  ExplorerPage,   \* the page of the metric explorer
  Metrics,
  DefaultPanels,  \* the charts of each page in the dashboard definition
  Documents,      \* the preferences the server may answer with
  NoPanel,        \* there is no explorer on the page
  MaxPoints,      \* maximumPoints
  Answers,        \* bound: points of an answered history
  Requests,       \* bound: loads of the charts under way, one of them current
  MaxSelections   \* bound: acts of the user and answers of the server

ASSUME LoadsAssumption ==
  /\ Windows \subseteq Nat \ {0}
  /\ DefaultWindow \in Windows
  /\ MaxCatalog \in Nat \ {0}
  /\ CustomPages \subseteq Pages
  /\ {HomePage, ExplorerPage} \subseteq Pages \ CustomPages
  /\ DefaultPanels \in [Pages -> SUBSET Metrics]
  /\ \A d \in Documents :
       /\ d.window \in Windows
       /\ d.hidden \subseteq Metrics
       /\ d.panels \in [Pages -> SUBSET Metrics]
       /\ d.gone \subseteq Pages /\ d.gone # Pages
  /\ MaxPoints \in Nat \ {0}
  /\ Answers \subseteq 0 .. MaxPoints
  /\ 0 \notin Requests /\ Requests # {}
  /\ MaxSelections \in Nat

VARIABLES
  prefWindow,     \* windowSeconds of the preferences
  page,           \* activePage
  panels,         \* the charts of each page, custom ones included
  gone,           \* the pages there are not: removed, or not added
  hidden,         \* hiddenPanels
  paused,
  route,          \* the page the URL names
  dock,           \* the charts and the hidden ones as the layout dock lists them
  reloadTimer,    \* whether reloadTimer is set
  controller,     \* the request whose controller is refreshController, or 0
  requests,       \* the loads under way: [Requests -> what each one asked for]
  started,        \* start has gone on to open the stream
  failed,         \* history: the last load failed
  behind,         \* history: the page got other charts by a step that loads none
  storeWindow,    \* store.windowSeconds
  tracked,        \* trackedMetrics
  points,         \* timestamps.length
  series,         \* the series kept, each the presence of its values
  shown,          \* history: the window and metrics of the history shown
  updateQueued,   \* updateQueued
  catalogCache,   \* seconds of the cached catalog, 0 for none or a stale one
  explorer,       \* the state of the explorer panel, or NoPanel
  orphans,        \* seconds asked for by explorers that are gone
  merged,         \* history: the window was merged and the explorer not reloaded
  selections      \* history: selections so far

layout == <<page, panels, gone, hidden>>

tab == <<paused, route, dock>>

selection == <<prefWindow, layout, tab>>

reload == <<reloadTimer, controller, requests, started, failed, behind>>

store == <<storeWindow, tracked, points, series, shown>>

catalog == <<catalogCache, explorer, orphans, merged>>

vars == <<selection, reload, store, updateQueued, catalog, selections>>

Idle == [window |-> 0, metrics |-> {}, aborted |-> FALSE, caller |-> "other"]

\* savePanel and start await reloadData and render the panels after it.
Callers == {"start", "savePanel", "other"}

Cap(seconds) == IF seconds < MaxCatalog THEN seconds ELSE MaxCatalog

Seconds == {Cap(w) : w \in Windows}

Explorer ==
  [loading : BOOLEAN, window : {0} \cup Windows, asked : {0} \cup Seconds,
   queued : BOOLEAN, loaded : {0} \cup Windows, seconds : {0} \cup Seconds,
   failed : BOOLEAN]

NewExplorer ==
  [loading |-> FALSE, window |-> 0, asked |-> 0, queued |-> FALSE,
   loaded |-> 0, seconds |-> 0, failed |-> FALSE]

TypeOK ==
  /\ {prefWindow, storeWindow} \subseteq Windows
  /\ gone \subseteq Pages
  /\ page \in Pages \ gone
  /\ panels \in [Pages -> SUBSET Metrics]
  /\ hidden \subseteq Metrics
  /\ route \in Pages
  /\ dock \in [panels : [Pages -> SUBSET Metrics], hidden : SUBSET Metrics]
  /\ {paused, reloadTimer, started, failed, behind, updateQueued, merged} \subseteq BOOLEAN
  /\ controller \in {0} \cup Requests
  /\ requests \in [Requests -> {Idle} \cup
       [window : Windows, metrics : SUBSET Metrics, aborted : BOOLEAN,
        caller : Callers]]
  /\ tracked \subseteq Metrics
  /\ points \in 0 .. MaxPoints
  /\ DOMAIN series \subseteq Metrics
  /\ \A m \in DOMAIN series : series[m] \in Seq(BOOLEAN)
  /\ shown \in [window : {0} \cup Windows, metrics : SUBSET Metrics]
  /\ catalogCache \in {0} \cup Seconds
  /\ explorer \in Explorer \cup {NoPanel}
  /\ orphans \subseteq Seconds
  /\ selections \in 0 .. MaxSelections

-----------------------------------------------------------------------------
(* Helpers of app.ts and of the store. *)

\* activeChartMetrics of a page.
ChartsOf(p, charts, away) == charts[p] \ away

ActiveCharts == ChartsOf(page, panels, hidden)

\* A step that loads nothing has given the page other charts.
LoadsNothing ==
  /\ behind' = (behind \/ ~(ActiveCharts' \subseteq ActiveCharts))
  /\ UNCHANGED <<reloadTimer, controller, requests, started, failed, tracked,
                 points, series, shown>>

\* What renderLayoutSettings lists: allPanels(), of the pages there are.
Listed(charts, away, invisible) ==
  [panels |-> [p \in Pages |-> IF p \in away THEN {} ELSE charts[p]],
   hidden |-> invisible]

\* normalize drops the custom charts of the pages there are not; a chart of
\* the definition is back in its place then.
OnPages(charts, away) ==
  LET lost == UNION {charts[p] \ DefaultPanels[p] : p \in away}
  IN  [p \in Pages |-> (charts[p] \ lost) \cup (DefaultPanels[p] \cap lost)]

\* refreshController?.abort(), and its mutant: the load goes on.
NotAborted == requests

Aborted ==
  [r \in Requests |->
     IF r = controller /\ requests[r] # Idle
     THEN [requests[r] EXCEPT !.aborted = TRUE] ELSE requests[r]]

\* Mutant of Track: the series is not filled up.
TrackEmpty(metrics) ==
  LET new == metrics \ tracked
  IN  /\ tracked' = tracked \cup metrics
      /\ series' = [m \in DOMAIN series \cup new |->
                      IF m \in new THEN <<>> ELSE series[m]]

\* track(metrics): a metric tracked later starts with nulls.
Track(metrics) ==
  LET new == metrics \ tracked
  IN  /\ tracked' = tracked \cup metrics
      /\ series' = [m \in DOMAIN series \cup new |->
                      IF m \in new THEN [i \in 1 .. points |-> FALSE]
                      ELSE series[m]]

\* A number for a new load.
Free == {r \in Requests : requests[r] = Idle}

\* reloadData(): supersedes the load under way and asks for the charts the
\* page shows; window and metrics as the caller leaves them.  extra is what
\* savePanel tracks before; it goes on after the load.
ReloadData(window, metrics, extra) ==
  /\ reloadTimer' = FALSE
  /\ Free # {}
  /\ LET r == CHOOSE q \in Free : TRUE IN
       /\ controller' = r
       /\ requests' = [Aborted EXCEPT
            ![r] = [window |-> window, metrics |-> metrics, aborted |-> FALSE,
                   caller |-> IF extra = {} THEN "other" ELSE "savePanel"]]
  /\ failed' = FALSE
  /\ behind' = FALSE
  /\ UNCHANGED started
  /\ Track(metrics \cup extra)
  /\ UNCHANGED <<points, shown>>

\* scheduleDataReload(): aborts at once, loads DATA_RELOAD_DELAY_MS later.
ScheduleReload ==
  /\ requests' = Aborted
  /\ reloadTimer' = TRUE
  /\ UNCHANGED <<controller, started, failed, behind, tracked, points, series, shown>>

\* load() of an explorer: asks once at a time, and takes the cached catalog
\* when it is for the window of the store.
Load(e, force, window, seconds, cache) ==
  IF e.loading
  THEN [e EXCEPT !.queued = @ \/ force \/ window # e.window]
  ELSE IF cache = seconds
  THEN [e EXCEPT !.loaded = window, !.seconds = cache, !.failed = FALSE]
  ELSE [e EXCEPT !.loading = TRUE, !.window = window, !.asked = seconds]

\* merged after a call of load(), which starts nothing while a load is under
\* way.
MergedAfterLoad ==
  \/ prefWindow # storeWindow
  \/ merged /\ explorer # NoPanel /\ explorer.loading

\* renderPanels(): every panel of the page is destroyed and made anew, with
\* the windows of the preferences and of the store.  A request of the old
\* explorer still ends up in the cache.
RenderPanelsFor(p, window, stored) ==
  /\ orphans' = IF explorer # NoPanel /\ explorer.loading
                THEN orphans \cup {explorer.asked} ELSE orphans
  /\ explorer' = IF p = ExplorerPage
                 THEN Load(NewExplorer, FALSE, window, Cap(stored), catalogCache)
                 ELSE NoPanel
  /\ merged' = (explorer' # NoPanel /\ window # stored)

RenderPanels(p) == RenderPanelsFor(p, prefWindow, storeWindow)

Selects ==
  /\ selections < MaxSelections
  /\ selections' = selections + 1

\* start() has the server's document, or the defaults, and sends its load.
Init ==
  /\ \E doc \in Documents :
       /\ prefWindow = doc.window
       /\ gone = doc.gone
       /\ panels = OnPages(doc.panels, doc.gone)
       /\ hidden = doc.hidden
  /\ storeWindow = prefWindow
  /\ page \in Pages \ gone
  /\ paused = FALSE
  /\ route = page
  /\ dock = Listed(panels, gone, hidden)
  /\ reloadTimer = FALSE
  /\ LET r == CHOOSE q \in Requests : TRUE IN
       /\ controller = r
       /\ requests = [q \in Requests |->
            IF q # r THEN Idle
            ELSE [window |-> storeWindow, metrics |-> ActiveCharts,
                  aborted |-> FALSE, caller |-> "start"]]
  /\ started = FALSE
  /\ failed = FALSE
  /\ behind = FALSE
  /\ tracked = UNION {panels[p] : p \in Pages \ gone}
  /\ points = 0
  /\ series = [m \in tracked |-> <<>>]
  /\ shown = [window |-> 0, metrics |-> {}]
  /\ updateQueued = FALSE
  /\ catalogCache = 0
  /\ explorer = NoPanel
  /\ orphans = {}
  /\ merged = FALSE
  /\ selections = 0

-----------------------------------------------------------------------------
(* Acts of the user. *)

SetWindow(w) ==
  /\ Selects
  /\ w # storeWindow
  /\ prefWindow' = w
  /\ storeWindow' = w
  /\ updateQueued' = TRUE
  /\ catalogCache' = 0
  /\ ScheduleReload
  /\ UNCHANGED <<layout, tab, explorer, orphans, merged>>

\* setActivePage, which does nothing for a page there is not.
GoTo(p) == page' = IF p \in gone THEN page ELSE p

\* What navigate(p) does in any case.
Go(p) ==
  /\ GoTo(p)
  /\ RenderPanels(page')
  /\ UNCHANGED <<prefWindow, paused, storeWindow, updateQueued, catalogCache>>

\* navigate(p) with its reload, if p is not the page shown.
Reload(p) ==
  IF p # page THEN ScheduleReload
  ELSE UNCHANGED <<reload, tracked, points, series, shown>>

\* A button of the navigation, which may name a page that has gone meanwhile.
Navigate(p) ==
  /\ Selects
  /\ Go(p)
  /\ Reload(p)
  /\ route' = p
  /\ UNCHANGED <<panels, gone, hidden, dock>>

\* handlePopState: the URL is that of another entry of the history.
Back(p) ==
  /\ Selects
  /\ started
  /\ route' = p
  /\ \E q \in IF p \in gone THEN Pages \ gone ELSE {p} : Go(q) /\ Reload(q)
  /\ UNCHANGED <<panels, gone, hidden, dock>>

\* The Refresh button, disabled while a load is under way.
Refresh ==
  /\ Selects
  /\ controller = 0
  /\ catalogCache' = 0
  /\ explorer' = IF explorer = NoPanel THEN NoPanel
                 ELSE Load(explorer, TRUE, prefWindow, Cap(storeWindow), 0)
  /\ merged' = MergedAfterLoad
  /\ ReloadData(storeWindow, ActiveCharts, {})
  /\ UNCHANGED <<selection, storeWindow, updateQueued, orphans>>

\* The Pause button; resuming also loads what was missed.
Pause ==
  /\ Selects
  /\ ~paused
  /\ paused' = TRUE
  /\ UNCHANGED <<prefWindow, layout, route, dock, reload, store, updateQueued,
                 catalog>>

Resume ==
  /\ Selects
  /\ paused
  /\ paused' = FALSE
  /\ ReloadData(storeWindow, ActiveCharts, {})
  /\ UNCHANGED <<prefWindow, layout, route, dock, storeWindow, updateQueued,
                 catalog>>

\* The checkbox of a chart that the layout dock lists on page p, drawn before
\* or opened just now.
ToggleVisible(p, m) ==
  /\ Selects
  /\ \E list \in {dock, Listed(panels, gone, hidden)} :
       /\ m \in list.panels[p]
       /\ hidden' = IF m \in list.hidden THEN hidden \ {m} ELSE hidden \cup {m}
       /\ dock' = [list EXCEPT !.hidden =
                     IF m \in @ THEN @ \ {m} ELSE @ \cup {m}]
  /\ RenderPanels(page)
  /\ UNCHANGED <<prefWindow, page, panels, gone, paused, route, storeWindow,
                 updateQueued, catalogCache>>
  /\ IF p = page
     THEN ReloadData(storeWindow, ActiveCharts', {})
     ELSE LoadsNothing

\* Enter in the chart search, when the chart found is hidden.
RevealChart(p, m) ==
  /\ Selects
  /\ p \notin gone
  /\ m \in panels[p] \cap hidden
  /\ hidden' = hidden \ {m}
  /\ Go(p)
  /\ ScheduleReload
  /\ route' = IF p = page THEN route ELSE p
  /\ UNCHANGED <<panels, gone, dock>>

\* savePanel: the chart is put on its page, which is shown and loaded.
SavePanel(p, m) ==
  /\ Selects
  /\ panels' = [q \in Pages |-> IF q = p THEN panels[q] \cup {m}
                                ELSE panels[q] \ {m}]
  /\ Go(p)
  /\ ReloadData(storeWindow, ChartsOf(page', panels', hidden), {m})
  /\ route' = IF p = page THEN route ELSE p
  /\ UNCHANGED <<gone, hidden, dock>>

\* removePanel of a chart that is not a default one.
RemovePanel(m) ==
  /\ Selects
  /\ m \notin UNION {DefaultPanels[p] : p \in Pages}
  /\ \E p \in Pages : m \in panels[p]
  /\ panels' = [q \in Pages |-> panels[q] \ {m}]
  /\ hidden' = hidden \ {m}
  /\ dock' = Listed(panels', gone, hidden')
  /\ RenderPanels(page)
  /\ ReloadData(storeWindow, ChartsOf(page, panels', hidden'), {})
  /\ UNCHANGED <<prefWindow, page, gone, paused, route, storeWindow,
                 updateQueued, catalogCache>>

\* refreshNavigationConfiguration(): the URL names the page, the dock and the
\* panels are drawn anew, and nothing is loaded.
RefreshNavigation ==
  /\ route' = page'
  /\ dock' = Listed(panels', gone', hidden)
  /\ RenderPanels(page')
  /\ UNCHANGED <<prefWindow, hidden, paused, storeWindow, updateQueued, catalogCache>>
  /\ LoadsNothing

\* removePage: the custom charts of the page move to another one, q, which is
\* shown in its place.  Charts of the definition the user has changed are
\* custom ones too.
RemovePage(p, q, moved) ==
  /\ Selects
  /\ p \notin gone /\ q \notin gone /\ q # p
  /\ panels[p] \ DefaultPanels[p] \subseteq moved
  /\ panels' = [panels EXCEPT ![p] = @ \ moved, ![q] = @ \cup moved]
  /\ gone' = gone \cup {p}
  /\ page' = IF page = p THEN q ELSE page
  /\ RefreshNavigation

\* addPage: a new page has no charts yet.
AddPage(p) ==
  /\ Selects
  /\ p \in gone \cap CustomPages
  /\ panels[p] = {}
  /\ gone' = gone \ {p}
  /\ page' = p
  /\ UNCHANGED panels
  /\ RefreshNavigation

\* Any other edit of the sections and pages.
EditNavigation ==
  /\ Selects
  /\ UNCHANGED <<page, panels, gone>>
  /\ RefreshNavigation

\* Reset layout.  The URL is left as it is.
Reset ==
  /\ Selects
  /\ prefWindow' = DefaultWindow
  /\ page' = HomePage
  /\ panels' = DefaultPanels
  /\ gone' = CustomPages
  /\ hidden' = {}
  /\ storeWindow' = DefaultWindow
  /\ updateQueued' = TRUE
  /\ dock' = Listed(DefaultPanels, CustomPages, {})
  /\ RenderPanelsFor(HomePage, DefaultWindow, DefaultWindow)
  /\ ReloadData(DefaultWindow, DefaultPanels[HomePage], {})
  /\ UNCHANGED <<paused, route, catalogCache>>

Fields == {"window", "hidden", "panels", "pages"}

\* The answer to a save: hydrate takes the server's document, which other tabs
\* have changed, but for the fields still pending; restoreRoutedPage goes to
\* the page of the URL, if there is one.  Only the preferences learn of it:
\* nothing is drawn or loaded.
Merge(doc, pending) ==
  /\ Selects
  /\ prefWindow' = IF "window" \in pending THEN prefWindow ELSE doc.window
  /\ hidden' = IF "hidden" \in pending THEN hidden ELSE doc.hidden
  /\ gone' = IF "pages" \in pending THEN gone ELSE doc.gone
  /\ panels' = OnPages(IF "panels" \in pending THEN panels ELSE doc.panels, gone')
  /\ page' \in IF route \in gone' THEN Pages \ gone' ELSE {route}
  /\ merged' = (merged \/ prefWindow' # prefWindow)
  /\ LoadsNothing
  /\ UNCHANGED <<tab, storeWindow, updateQueued, catalogCache, explorer, orphans>>

-----------------------------------------------------------------------------
(* Timers, answers and the stream. *)

ReloadTimerFires ==
  /\ reloadTimer
  /\ ReloadData(storeWindow, ActiveCharts, {})
  /\ UNCHANGED <<selection, storeWindow, updateQueued, catalog, selections>>

\* Mutant of Released: the controller stays.
KeptController(r) == controller

\* What the load leaves of refreshController.
Released(r) == IF controller = r THEN 0 ELSE controller

\* reloadData goes on after its requests, and then its caller.
Finish(r) ==
  /\ requests[r] # Idle
  /\ requests' = [requests EXCEPT ![r] = Idle]
  /\ controller' = Released(r)
  /\ started' = (started \/ requests[r].caller = "start")
  /\ IF requests[r].caller # "other" THEN RenderPanels(page)
     ELSE UNCHANGED <<explorer, orphans, merged>>
  /\ dock' = IF requests[r].caller = "savePanel" THEN Listed(panels, gone, hidden)
             ELSE dock
  /\ UNCHANGED <<prefWindow, layout, paused, route, behind>>

\* replaceHistory with n points.
Apply(r, n) ==
  /\ IF requests[r].metrics = {} THEN UNCHANGED <<points, series, shown>>
     ELSE /\ points' = n
          /\ series' = [m \in requests[r].metrics |-> [i \in 1 .. n |-> TRUE]]
          /\ shown' = [window |-> requests[r].window,
                       metrics |-> requests[r].metrics]
  /\ updateQueued' = TRUE

ReloadAnswered(r, n) ==
  /\ Finish(r)
  /\ IF requests[r].aborted
     THEN UNCHANGED <<points, series, shown, updateQueued>>
     ELSE Apply(r, n)
  /\ UNCHANGED <<reloadTimer, failed, storeWindow, tracked, catalogCache, selections>>

ReloadFails(r) ==
  /\ Finish(r)
  /\ failed' = (failed \/ ~requests[r].aborted)
  /\ UNCHANGED <<reloadTimer, store, updateQueued, catalogCache, selections>>

\* The newest MaxPoints of a series.
Newest(values) ==
  IF Len(values) <= MaxPoints THEN values
  ELSE SubSeq(values, Len(values) - MaxPoints + 1, Len(values))

\* append(snapshot) and trim: every tracked metric gets a value, a metric
\* that has no series yet one with nulls before it.
Append1(values) == Newest(Append(values, TRUE))

AppendSnapshot ==
  /\ points' = IF points < MaxPoints THEN points + 1 ELSE MaxPoints
  /\ series' = [m \in DOMAIN series \cup tracked |->
       IF m \notin DOMAIN series THEN Append1([i \in 1 .. points |-> FALSE])
       ELSE IF m \in tracked THEN Append1(series[m]) ELSE series[m]]

\* onSnapshot of app.ts.  The stream is off while paused.
OnSnapshot(newer) ==
  /\ started /\ ~paused
  /\ catalogCache' = 0
  /\ IF newer THEN AppendSnapshot /\ updateQueued' = TRUE
     ELSE UNCHANGED <<points, series, updateQueued>>
  /\ UNCHANGED <<selection, reload, storeWindow, tracked, shown, explorer,
                 orphans, merged, selections>>

\* update() of an explorer loads again for another window, and after ten
\* seconds.
Outdated(e, due) == e.loaded # prefWindow \/ due

\* queuePanelUpdate: the animation frame updates every panel.
Frame(due) ==
  /\ updateQueued
  /\ updateQueued' = FALSE
  /\ IF explorer # NoPanel /\ Outdated(explorer, due)
     THEN /\ explorer' = Load(explorer, FALSE, prefWindow, Cap(storeWindow),
                              catalogCache)
          /\ merged' = MergedAfterLoad
     ELSE UNCHANGED <<explorer, merged>>
  /\ UNCHANGED <<selection, reload, store, catalogCache, orphans, selections>>

\* Mutant of Continue: the window selected meanwhile is not looked at.
ContinueAnyway(e, ok, cache) ==
  LET ended == [e EXCEPT !.loading = FALSE, !.window = 0, !.asked = 0,
                         !.queued = FALSE]
  IN  IF ok
      THEN [ended EXCEPT !.loaded = prefWindow, !.seconds = e.asked,
                         !.failed = FALSE]
      ELSE [ended EXCEPT !.failed = TRUE]

\* The continuation of load() after loadCatalog, with the cache it left.
Continue(e, ok, cache) ==
  LET current == prefWindow = e.window
      ended == [e EXCEPT !.loading = FALSE, !.window = 0, !.asked = 0,
                         !.queued = FALSE]
      result == IF ok /\ current
                THEN [ended EXCEPT !.loaded = e.window, !.seconds = e.asked,
                                   !.failed = FALSE]
                ELSE [ended EXCEPT !.failed = @ \/ current]
  IN  IF e.queued \/ ~current
      THEN Load(result, FALSE, prefWindow, Cap(storeWindow), cache)
      ELSE result

CatalogAnswered(ok) ==
  /\ explorer # NoPanel /\ explorer.loading
  /\ catalogCache' = IF ok THEN explorer.asked ELSE catalogCache
  /\ explorer' = Continue(explorer, ok, catalogCache')
  /\ merged' = (merged \/ prefWindow # storeWindow)
  /\ UNCHANGED <<selection, reload, store, updateQueued, orphans, selections>>

OrphanAnswered(seconds, ok) ==
  /\ seconds \in orphans
  /\ orphans' = orphans \ {seconds}
  /\ catalogCache' = IF ok THEN seconds ELSE catalogCache
  /\ UNCHANGED <<selection, reload, store, updateQueued, explorer, merged,
                 selections>>

\* Five seconds after a catalog was loaded the cache is not used any more.
CacheExpires ==
  /\ catalogCache # 0
  /\ catalogCache' = 0
  /\ UNCHANGED <<selection, reload, store, updateQueued, explorer, orphans,
                 merged, selections>>

-----------------------------------------------------------------------------

UserStep ==
  \/ \E w \in Windows : SetWindow(w)
  \/ \E p \in Pages : Navigate(p) \/ Back(p) \/ AddPage(p)
  \/ Refresh \/ Pause \/ Resume \/ EditNavigation \/ Reset
  \/ \E m \in Metrics : RemovePanel(m)
  \/ \E p \in Pages, m \in Metrics :
       ToggleVisible(p, m) \/ RevealChart(p, m) \/ SavePanel(p, m)
  \/ \E p, q \in Pages : \E moved \in SUBSET panels[p] : RemovePage(p, q, moved)

Answer ==
  \/ \E r \in Requests :
       \/ ReloadFails(r)
       \/ \E n \in Answers : ReloadAnswered(r, n)
  \/ \E ok \in BOOLEAN :
       \/ CatalogAnswered(ok)
       \/ \E seconds \in orphans : OrphanAnswered(seconds, ok)

Next ==
  \/ UserStep
  \/ \E doc \in Documents, pending \in SUBSET Fields : Merge(doc, pending)
  \/ ReloadTimerFires
  \/ Answer
  \/ \E newer \in BOOLEAN : OnSnapshot(newer)
  \/ \E due \in BOOLEAN : Frame(due)
  \/ CacheExpires

Spec == Init /\ [][Next]_vars

\* Timers and animation frames happen and every request is answered, with a
\* result or an error.
Fairness ==
  /\ WF_vars(ReloadTimerFires)
  /\ WF_vars(\E due \in BOOLEAN : Frame(due))
  /\ WF_vars(\E ok \in BOOLEAN : CatalogAnswered(ok))
  /\ \A r \in Requests :
       WF_vars(ReloadFails(r) \/ \E n \in Answers : ReloadAnswered(r, n))

FairSpec == Spec /\ Fairness

-----------------------------------------------------------------------------
(* Properties. *)

\* timestamps and all series have one length, which uPlot and the CSV export
\* rely on, although the series kept change with every page, a metric may be
\* tracked at any time, and history and snapshots interleave.
SeriesAligned == TypeOK /\ \A m \in DOMAIN series : Len(series[m]) = points

\* A load is to come, is under way, or has failed.
Unsettled == reloadTimer \/ controller # 0 \/ failed

\* Once nothing is to come, the charts of the page show the selected window,
\* and no chart has a hole where a load superseded by the selection, or
\* snapshots of the page before, left nothing for it.  Excepted is a page to
\* which the answer to a save, or an edit of the pages, has given other charts:
\* those steps load nothing, and the next load makes up for them.
ChartsMatchSelection ==
  Unsettled \/ behind \/ ActiveCharts = {} \/
    /\ shown.window = storeWindow
    /\ ActiveCharts \subseteq shown.metrics
    /\ \A m \in ActiveCharts :
         m \in DOMAIN series /\ \A i \in 1 .. points : series[m][i]

\* An explorer at rest shows the catalog of the selected window, whatever was
\* under way when the window changed and whatever the cache held; it may be
\* behind after a failure, and after a merge it has not been loaded since.
ExplorerMatchesWindow ==
  explorer # NoPanel =>
    \/ explorer.loading \/ explorer.failed \/ updateQueued \/ merged
    \/ explorer.loaded = prefWindow /\ explorer.seconds = Cap(storeWindow)

\* No load is forgotten: when the user comes to rest, so does the dashboard:
\* every load that was sent or scheduled has been answered, or the message
\* says that it has failed.
ChartsSettle == <>[](ActiveCharts = {} \/ failed \/ ~Unsettled)

=============================================================================
