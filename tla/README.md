# hostmon in TLA+

A verification project for hostmon, the host monitor in this repository: a
daemon that samples a machine every few seconds, evaluates alert rules, delivers
alerts through notification channels, records history and serves a dashboard,
and for the dashboard's page in the browser. Modules are model-checked with TLC, and
every invariant and action property that TLC checks is also proved with TLAPS, for
every size of the parameters: of the alert outbox, the monitoring cycle that drives
it, the collector manager, the RVX snapshot buffer, and in the browser the realtime
client, the loads of charts, the saving of preferences and the layout of the pages.

Paths below are relative to the repository; `host_monitor/` stands for
`src/host_monitor/`, and file names ending in `.ts` are under `web/src/`.

## 1. The system

One daemon process (`run_daemon`, `host_monitor/runtime.py`) runs monitoring
cycles in its main thread. A cycle calls the parts below in a fixed order and
passes them the one `now` it read. A second thread runs the HTTP server, worker
threads run the collectors, browsers and an RVX server pull or receive data, and
the CLI and the web API edit the rule and configuration files meanwhile.

| part | state | operations | what is hard | what makes it correct |
|---|---|---|---|---|
| Monitor cycle (`runtime.py`) | `self.state`, the deadline | `cycle`, `run_forever`, `run_daemon`, `advance_deadline` | ten effects in an order, any of which may raise or be the last before a crash | state file, outbox, history and exporter agree up to the one cycle in progress |
| Alert outbox (`outbox.py`) | two SQLite tables | `enqueue`, `deliver_pending` (`pending`, `mark_*`), `prune_delivered` | crash between a send and its UPDATE; one channel of several failing; retries | at least once, and no more often than acknowledgements were lost; nothing owed is forgotten |
| Collector manager (`collectors/__init__.py`) | `_inflight`, the thread pool, the envelopes in the state | `collect`, `close` | threads that finish at any time, deadlines, last-good data, aborted cycles | one invocation at a time; a failure is counted once; a hung optional collector delays nobody |
| RVX producer (`rvx_snapshots.py`) | bounded buffer, sequence, session | `capture`, `history`, `latest` | eviction and restart between two pages | no snapshot is skipped without being reported |
| State store (`state.py`) | state file, lock file | `load`, `save`, `process_lock` | crash in a save; migration | old or new state, never a mixture |
| Rule store (`rules.py`) | rule file, cache of parsed rules | `load`, `write`, `add`, `remove`, `replace`, `set_enabled` | two processes editing, edit during load, invalid edit | last good rules; no lost update |
| Rule evaluation (`rules.py`) | `state["rules"]` | `evaluate_rules` | identity of a firing over restarts and edits | a firing has one identity |
| Alert channels (`alerts.py`) | none | `targets`, `send_one`, `send_manual` | unknown channels | |
| History files (`history.py`) | JSONL files | `append`, `tail`, `migrate_rolling_state` | torn lines, rotation, migration beside the daemon | |
| HTTP exporter (`prometheus.py`) | clients with one-slot queues, caches, in-flight queries | `publish`, `_websocket`, `_long_history`, `start`, `close` | two threads; slow clients; cancelled requests | every client sees the newest sample in the end |
| Dashboard store (`dashboard.py`) | ring of samples, catalog cache | `publish`, `seed`, queries | clock steps, metric limit | |
| Preferences (`preferences.py`, `core/preferences.ts`, `app.ts`) | the server's JSON document, localStorage, a copy per tab with what is pending and what is queued | `load`, `save`, `patch`; setters, `hydrate`, `flushPreferenceSaves` | several tabs, edits during a save, lost answers, reloads | a save changes only what its tab edited; no edit is forgotten |
| Realtime client (`core/websocket-client.ts`) | socket, two timers, attempt | `start`, `stop`, `setPaused`, events | races of timers, events and pause | one socket at most, none while paused; reconnects |
| Loads and series (`app.ts`, `core/time-series-store.ts`, `panels/metric-explorer-panel.ts`) | load under way, series, catalog cache, explorer | `reloadData`, `scheduleDataReload`, `loadCatalog`, `append`, `track` | answers in any order, selections while loading, snapshots in between | what is shown is what is selected; series stay aligned |
| Layout and panel editor (`core/preferences.ts`, `app.ts`) | pages, sections, panels and their order; the URL; the dialog | settings forms, drag and drop, editor, navigation, `normalize` | long sequences of edits; another tab; what a form names is gone | every page reachable, no panel lost, a reload changes nothing |

The page in the browser talks to the daemon by requests (`/api/status`, history,
catalog, preferences, rules) and one WebSocket. Within a tab everything is one
thread: handlers run to completion, and what interleaves are answers, timers,
socket events, animation frames and the user.

Parts without concurrency or lasting state (configuration parsing, the CLI,
service files, the readers of `/proc`, the drawing of the panels, the cluster
GPU plugin) are listed in `PROJECT.json` as not modelled. The expression engine
and the notification channels are the external packages `expr_tracker` and its
dispatcher; they appear as "this rule fires" and "this send succeeds or fails".

## 2. Modules

```
ReliableDelivery          what the outbox promises
      ^ refined by
AlertOutbox  <- AlertOutboxProofs (TLAPS)
      ^ extended by
MonitorCycle              outbox + state file + history + exporter in one cycle
             <- MonitorCycleProofs (TLAPS, over AlertOutboxProofs)
CollectorManager          collect, thread pool, envelopes kept from cycle to cycle
             <- CollectorManagerProofs (TLAPS)
RvxSnapshots              snapshot buffer, pages, and a consumer that polls
             <- RvxSnapshotsProofs (TLAPS)
RealtimeClient            a tab's WebSocket, its timers, the server's slot
             <- RealtimeClientProofs (TLAPS)
DashboardLoads            a tab's charts and metric explorer and their loads
             <- DashboardLoadsProofs (TLAPS)
PreferenceSync            tabs, localStorage and the server's preferences
             <- PreferenceSyncProofs (TLAPS)
NavigationLayout          what the preferences say of pages, sections and panels
             <- NavigationLayoutProofs (TLAPS)
MC*.tla, MC*.cfg          the instances TLC checks
```

### AlertOutbox (`outbox.py`)

`row[e][c]` is the row of `outbox_deliveries` for event `e` and channel `c`:
status, attempts, and `wait`, the time left until `next_attempt_at` (0 is due).
`events` and `age` are `outbox_events` and `now - created_at`. `Enqueue`,
`MarkDelivered`, `MarkFailed` and `PruneDelivered` are one SQLite transaction
each. `deliver_pending` is not atomic: `SelectPending` reads the batch,
`SendOk`/`SendFails` call the channel, a separate step updates the row, and
`AbandonDelivery` ends the loop anywhere, as a crash or a SQLite error does.
`sends` and `lost` are history variables: successful sends, and those whose
UPDATE never committed. `attempts` is clipped at the exponent cap and ages just
past the pruning horizon; the code does not tell larger values apart. Of
deliveries of equal (clipped) age any may come first, which allows more orders
than the query's. A wall clock that steps backwards is not modelled.

`ReliableDelivery` is its abstract specification: obligations that are accepted,
transmitted, discharged and forgotten. `Abstract` in `AlertOutbox` is the
refinement mapping.

### MonitorCycle (`runtime.py`)

Extends the outbox with the phases of `cycle`: evaluate, enqueue (per alert),
deliver, record, commit, publish, prune, wait. `memory` and `disk` are
`self.state` and the state file, reduced to the step and to how often each rule
has fired; an event is a rule with the ordinal of its firing, as its dedup key
is. `RejectAlert` is the AlertError of `targets`; `Abort` a MonitorError of any
call that is not caught inside `cycle`; `Crash` and `Restart` the process.
Rules may fire in any evaluation, so that a cycle repeated after a failure may
or may not fire the rule again. The identity of a firing (rule name and ordinal)
is computed by `expr_tracker` and assumed; editing a rule, which restarts its
ordinal, is not modelled yet. `Commit` is one step because `_atomic_save`
replaces the file with `os.replace` last of all; a loss of power that undoes a
completed rename is not modelled.

### CollectorManager (`collectors/__init__.py`)

`inflight` is `_inflight` with the state of each future; `threads` counts worker
threads per collector; `visit` is the position of the loop of `collect`.
`LeaveRunning` is the branch for optional collectors still at work, `TimedOut`
the `except TimeoutError`, `Failed` the `except Exception`, `Harvest` the rest,
with the immediate restart of optional collectors; `MergeRaises` is a result that
`_merge_result` refuses; `RequiredFailed` the final raise. `EndCycle` keeps or
drops the returned states, as the cycle does when a later step raises. Data is
abstracted to its origin (fresh, last good, none) and to the names in it that more
than one collector may report (`Labels`). `_merge_result` refuses a malformed
result, and a name that the sample has already (`Merged`): in a new result, and
also in the last-good data of a collector that still runs (`collectors/__init__.py:335`)
or has failed (`:480`), which both end in `Abort`. The health metrics
`monitor/collector/...` are taken to be names of no collector's own.

### RvxSnapshots (`rvx_snapshots.py`)

The buffer with its count bound, byte bound and page bound. The consumer is an
RVX server outside this repository, modelled from `docs/rvx_snapshots.md:79-91`:
it asks after its cursor, moves it to `next_sequence`, starts over on another
session, retries after 503. Requests and pages may be lost, and a page may be
applied after any number of captures, evictions and a restart.

### RealtimeClient (`core/websocket-client.ts`)

`socket`, `reconnectTimer`, `inactivityTimer`, `attempt`, `latest` and the flags
are the fields of the class; `conn` is what the browser knows of each socket, so
that a socket the client has given up still has its close event to come.
`Start`, `Stop`, `Pause`, `Resume`, `LoadSucceeds` and `LoadFails` are the calls
of `app.ts`, `OnOpen` to `OnClose` the event handlers, `ReconnectFires` and
`InactivityFires` the timers. Timestamps are ages, counted in samples, so that a
run has no end and still finitely many states. `slot` is the server's one-slot
queue for the client (`prometheus.py:854`), `wire` the one message under way. A
lost network makes open sockets silent without an event (`stalled`); they may
work again, fail, or stay so. How long the back-off waits, the text of messages
and the server's pings are left out.

### DashboardLoads (`app.ts`, `core/time-series-store.ts`, `panels/metric-explorer-panel.ts`)

`requests` are the calls of `reloadData` under way, `controller` the one whose
AbortController is `refreshController`; an aborted one still ends.
`series` says of each kept point whether it has a value. `explorer` is the state
of a `MetricExplorerPanel`, `orphans` the catalog requests of explorers that have
been destroyed, which still fill the cache. `Frame` is `queuePanelUpdate`.
`route` is the page the URL names, `gone` the pages there are not, and `dock` what
the layout dock lists, which may have been drawn earlier. `Merge` is the answer to a
save: `hydrate` takes the window, the hidden charts, the panels and the pages that
other tabs have saved, except in fields that are still pending, and
`restoreRoutedPage` goes to the page of the URL; nothing is drawn or loaded by it.
`RemovePage`, `AddPage` and `EditNavigation` end in `refreshNavigationConfiguration`,
which draws and does not load; `Reset` loads, and leaves the URL alone. What `start`
and `savePanel` do after they awaited a load is part of `Finish`. `behind` is a
history variable: the page has got other charts by a step that loads none.

Left open, so that the model has more behaviours than the code: which page takes the
place of one that is gone (`NavigationLayout` has that), which charts of a removed page
move, which page `Back` goes to, and whether a snapshot is newer than the store.
Panels are made at once, not one per animation frame.

### PreferenceSync (`core/preferences.ts`, `app.ts`, `preferences.py`)

A document is a function on cells: a plain field is one cell, the entries of
`panelState` are the cells of a keyed field. `tab[t]` holds the preferences with
the pending fields, the queue, the flags of `flushPreferenceSaves`, the document
the server last answered (`known`), and the request under way. `Queue`, `Flush`,
`Save`, `Patch`, `Confirmed`, `Saved`, `Failed` are functions on that state, the
parts of the code between two awaits; `ServerHandles` is one locked operation of
the server. `CallLost` loses a request before or after it was handled. `Close` and
`Open` reload a page: what was in memory is gone, and localStorage, which the
tabs share, is not. `touched`, `last`, `unsure` and `together` are history
variables for the properties.

### NavigationLayout (`core/preferences.ts`, `app.ts`)

The setters of `PreferenceStore` are functions from preferences to preferences,
and so is `Normalize`, which every load and every answer goes through. The
handlers of `app.ts` are the actions. A form or a dragged item names what was
there when it was drawn, so the arguments of the handlers range over all ids,
present or not; `editor` is the dialog with the pages it offers. Labels are left out;
an id made from a label is any unused one.

`other` is the copy of another tab. It may be old: what this tab saves reaches it
only in `OtherCatchesUp`. `OtherTab` is a change there, computed from that copy, and
its save: the fields that the setter marks are sent whole (`removePage` sends
`customPages`, `hiddenPages`, `navigationSections` and `customPanels`,
`core/preferences.ts:428`), `Merged` is the document the server then has, and this tab
takes it up with `normalize` and `restoreRoutedPage`. The changes of the other tab that
are modelled are: to go to another page, to remove or add a page, to remove a section,
and to save a panel. Its moves, its deletions of panels and its resets are not.
`PreferenceSync` is about when a document arrives, and about what is unsaved here.

`Reload` is `start` with what localStorage has. A reload that finds fields another
tab has saved beside unsaved ones of its own is not modelled: what a reload
normalizes is always this tab's own. `SectionLimit` and `PageLimit` are the 64
sections and 128 pages that `normalize` keeps (`core/preferences.ts:963`, `:830`) and
the server accepts (`preferences.py:55`, `:107`). The server's other limits (512
entries of an order, 128 panels) are left out, so that the other tab saves more than
it could. What `LayoutAssumption` says of the definition is what `assertDashboard`
demands, and two things it does not check although the code relies on them, which are
so in `config/dashboard.json`: that panels have ids of their own, and that there is a
page `overview` (`Overview`), which the defaults show (`core/preferences.ts:510`).
Without that page a reset would show a page there is not, until the preferences are
normalized again.

What the code accumulates in a loop or a `filter` (`Only`, `DefaultSections`,
`Candidates`, `NormalSections`) is a recursive function on the positions of the list,
not a fold: a fold takes an operator as its argument, and no proof can go along it.

## 3. What the runs check

| run | shows | bounds |
|---|---|---|
| `outbox` | every send is acknowledged, in flight or lost with a crash (`SendLedger`); nothing delivered is sent again; pruning forgets nothing owed; working channels drain; the tables implement `ReliableDelivery` | 2 events, a working and a dead channel, batch of 3 of the 4 deliveries, delay cap 1, horizon 1, 1 abandoned loop |
| `monitor_cycle` | memory equals the state file outside the commit, and the exporter never serves what a restart would forget; history is ahead by one step at most; channels hear only of firings the state counts or will count next; a committed firing is stored; stored deliveries are made unless an unroutable rule fires for ever | 2 rules (one unroutable), 1 channel, 2 firings each, 2 faults |
| `cycle_order` | expected violation, see 4 | as `monitor_cycle` |
| `cycle_poison` | expected violation, see 4 | as `monitor_cycle` |
| `collectors` | one thread per collector; failures counted once per invocation; returned samples have usable data; a cycle aborts only for a required failure, a malformed result or a name that another collector put in the sample; `collect` returns; finished invocations are harvested while cycles get that far | a required and an optional collector, clock to 2, failures to 2, all kinds of results for the optional one, good and malformed ones for the required one, which may carry the name that the optional one always does |
| `collectors_timeout`, `collectors_isolation` | expected violations, see 4 | as `collectors` |
| `rvx_snapshots` | the buffer is the newest stretch without holes and with exact accounting; nothing is skipped silently; gaps are real; the cursor stays valid and no page repeats a snapshot; the consumer catches up | capacity 3, 5 bytes, pages of 2 snapshots or 6 bytes, sizes 1, 3 and a refused 5, 5 sequences, 2 sessions |
| `realtime` | timers watch the socket in use and the label is honest (`SocketIsTracked`); one live connection at most, none while paused, never stranded (`OneLiveSocket`); connected again and again while the server stays reachable (`ReconnectsUnlessUnwatched`) | 3 sockets at a time, timeout of 2 intervals, messages and answers up to 1 sample late, attempt to 2, 2 loads |
| `dashboard_loads` | all series have the length of the timestamps; charts at rest show the window and the metrics selected, without holes, unless the page has got other charts by a step that loads none; an explorer at rest shows the catalog of its window; loads come to an end | 2 windows, 3 pages (one to add), 2 metrics, 2 documents the server may answer with, 2 loads under way, 2 points, 2 selections or answers of the server |
| `preference_sync` | what is shown is saved or will be sent; a lone tab forgets nothing over reloads; an answer takes back no unsaved edit, but for an entry that the PATCH leaves to the server; a save changes no field its tab left alone; edits do not stay pending, and with one tab at a time the server then has them | 2 tabs, a plain field, an entry of a keyed field, 3 values of which the server refuses one, 2 acts, 1 lost call |
| `layout` | every page is in one section, once, and nothing else is; a reload changes nothing; custom panels go only when deleted, or when another tab saves an older copy over them | 3 pages and 2 to add, of which a reload keeps 1; 2 sections and 1 to add, of which it keeps 2; 2 built-in panels and 1 to add; 3 in all of changes, reloads, and saves or catch-ups of the other tab; navigation and the steps inside the editor are not counted |

Why these bounds suffice: two events with two channels are what it takes for one
delivery to be due, sent or retried while another is not, for a batch to leave
one out and for pruning to keep one of two. In the cycle, an alert that is
routed and one that is not can come in either order, and two faults allow an
aborted cycle followed by a crash. Two collectors cover every pair of a branch
and an earlier one in the same loop, so that the second one is refused for the data
of the first, be it a result or last-good data, and not visited at all when the
first one is refused; a clock of 2 with deadline 1 allows results
before, at and after the deadline and stale data inside and outside its window.
In the buffer each of the three bounds takes effect alone and together.
Three sockets are one in use and two closing; a timeout of two intervals lets it
fire between samples, after one, or not at all. Two loads under way are one that
is superseded and its successor, whose answers come in either order, and two
selections can fall before, between and after them, or are a reset and the answer that
follows it, or the removal of a page and its return. The two documents differ in every
field, so that each merge changes something and each pending field keeps something. Of two acts on preferences the
second comes at any point of the first one's save, in either tab, or is the
reload. Three changes of a layout are an addition, its use, and a removal, here or
in the other tab, with the editor open across any of them; or two additions past a
limit and the reload that cuts one off; or a panel saved here and an older copy saved
over it.

Only `layout` uses symmetry, of the pages to add, which nothing tells apart (there is
one section to add); its properties are safety properties. Elsewhere rules, channels
and collectors differ by role.

### Fairness

* Outbox: `run_forever` calls `deliver_pending` in cycle after cycle while time
  passes (strong fairness of the call and the clock, since either can be
  overtaken by the other); the loop does not wait (weak); a channel that is not
  dead does not refuse one delivery for ever (strong, per delivery). Nothing is
  assumed of dead channels or crashes.
* Cycle: the loop goes on and the service manager restarts the process (weak
  fairness of all progress together), plus the channel assumption. Faults are
  never fair and are bounded.
* Collectors: the cycle goes on; an invocation of a required collector ends. One
  of an optional collector may hang for ever.
* Realtime client: timers fire, the browser dispatches socket events, the server
  sends what it queued (weak), samples keep coming (strong: a message under way
  can hold the clock up). Nothing is assumed of the user, of loads or of the
  network; a silent connection need not recover.
* Loads: timers and animation frames happen, requests are answered with a result
  or an error.
* Preferences: the server handles what reaches it, answers that are not lost
  arrive, retry timers fire; lost calls are bounded.
* Snapshots: the consumer keeps asking, and the network does not lose every
  request or every response (strong).

## 4. Where the code and its documents disagree

1. `docs/alerts.md:21-22` says the firing state is committed before delivery is
   attempted. `cycle` delivers at `runtime.py:157` and saves at `runtime.py:187`
   (run `cycle_order`). No message is doubled by it: `MessagesFollowState` holds.
2. `docs/alerts.md:23` says a failed channel is retried. A firing rule that names
   an unknown channel raises out of the cycle before delivery, each time, so that
   nothing is retried (run `cycle_poison`). `DrainsUnlessPoisoned` shows it to be
   the only obstacle.
3. `docs/plugins.md:105-106` and `README.md:269-270` promise that a finished late
   invocation is picked up. One that ended with a `TimeoutError` of the
   collector's own never is (run `collectors_timeout`); `FinishedIsHarvested`
   holds of all others, as long as cycles come to the end of `collect`: the loop goes
   in order, so that a collector which is refused in every cycle, an optional one
   too, keeps the finished invocations after it from ever being picked up.
4. `README.md:264` and `collectors/__init__.py:369-370` promise that an optional
   collector cannot take down the sample. What `_merge_result` refuses does: a
   malformed result (run `collectors_isolation`), and a name that another collector
   has put in the sample, in a result as well as in last-good data that is reused
   because the collector still runs or has failed. `AbortsAreJustified` shows that
   besides a required collector without data nothing else does.

The runs of the web client have no expected violation, but their properties name
exceptions, which are what the code does:

* A socket opened before any load has told the client its timeout has no
  inactivity timer, and the load that follows does not arm one: if it goes silent
  then, it stays so (`Unwatched`; `docs/prometheus.md:47-49` promises a
  reconnect). A late answer can also move `latestTimestamp` back.
* A window merged from another tab reaches the preferences but neither the store
  nor the window select (`merged`).
* Merged pages and panels are not drawn until the page is, and nothing is loaded for
  them; nor is anything when the page in use is removed and another takes its place,
  or when the answer after a reset goes back to the page of the URL. Until the next
  load the page has charts without data (`behind`).
* After a PATCH that was handled but not answered, an entry set back to what the
  tab knows is not sent again, and the next answer undoes it on the screen too
  (`LeftToServer` in `UnsavedIsKept`, `Owing` in `LoneTabForgetsNothing` and
  `EditsAreSaved`). A tab closed before the PUT of its reset cannot remove entries
  of a keyed field by a later PATCH. `Owing` leaves out somewhat more than these two:
  an entry that was ever in such a PATCH, and one whose last value is the default.
* While `panelState` is pending, `hydrate` keeps all of its entries, and
  `preferencePatch` (`app.ts:263-273`) sends the ones that differ from the server's:
  a stale entry the tab never edited goes over another tab's. `OthersSurvive` is
  therefore about fields, not entries.
* A value the server refuses (a custom panel of type `stats`,
  `preferences.py:194-195`, which the editor offers) keeps everything else of the
  tab from being saved (`EditsAreSaved`).
* A tab that has never been given a document PUTs a whole one (`OthersSurvive`), so
  two new tabs can overwrite each other; and tabs overwrite each other's
  localStorage (`LoneTabForgetsNothing` is about one tab at a time).
* A panel saved onto a page that another tab removed while the editor was open is
  dropped by the next reload (`misplaced`).
* A tab whose copy is old sends whole fields of it. Removing a page or saving a panel
  there drops the panels that were saved here since, and so does removing the page
  that they are on (`Outdated` in `PanelsAreKept`).
* Nothing keeps the user from adding more than 64 sections or 128 pages
  (`core/preferences.ts:209`, `:358`), but the server then refuses every save with
  them, which is retried each second, and the next reload cuts off the last ones:
  pages that are cut off take their panels along (`WithinLimits` in
  `ReloadChangesNothing`, the second exception of `PanelsAreKept`).
* Resetting the layout leaves the URL alone, so that the next answer of the server
  moves the active page back to it, without a load.
* A definition without a page `overview` would make a reset show a page there is not
  (`Overview` in `LayoutAssumption`).

## 5. What is proved

### AlertOutboxProofs

For all sets of events and channels, every limit, cap and horizon, and any number
of crashes:

* `OutboxTypeCorrect`: `OutboxTypeOK` always holds;
* `LedgerBalances`: `SendLedger` always holds;
* `NoDeliveredIsSent` and `PruneKeepsWhatIsOwed`: the two action properties;
* `OutboxRefines`: the outbox implements `ReliableDelivery`.

The argument: `SendLedger` is not inductive, because marking a row delivered adds
one acknowledgement only if the row was pending before. `OutboxInv` therefore
adds that everything read into the batch, and the delivery between its send and
its UPDATE, is pending in the database (`BatchIsPending`, `SendingIsPending`), and
that outside the loop nothing is left of either (`IdleIsClean`). It is preserved
because only the loop itself changes a row while the loop runs: one process, one
connection. One lemma per action shows each part; the theorems about steps
(`NoDeliveredIsSent`, `PruneKeepsWhatIsOwed`, `OutboxRefines`) use it in the state
before the step. The only assumption is `LimitsAssumption` of `AlertOutbox`: the
limits are positive numbers, and powers of two up to the exponent cap are too.

### MonitorCycleProofs

For all sets of rules, targets and channels, and every bound on firings, steps and
faults:

* `CycleUsesOutbox`: the cycle implements `OutboxSpec`, so that what is proved of
  the outbox alone holds of the daemon (`CycleSendsNoDelivered` is an instance);
* `CycleTypeCorrect`, `MemoryAgreesWithDisk`, `HistoryIsBarelyAhead` and
  `MessagesAgreeWithState`: the four invariants of the run `monitor_cycle`;
* `NoFiringIsLost`: its action property `CommittedFiringsAreStored`.

None of these is inductive by itself. `CycleInv` adds what ties the phases of a
cycle together: between evaluation and commit, `next` is the state in memory with
the firings of this very cycle counted (`NextFollowsMemory`, `FiredMayFire`); the
alerts the enqueue loop is done with are stored (`HandledAreStored`), and all are
when delivery starts (`AlertsHandled`); no row carries a later ordinal than the
one that the state file counts next (`RowsFollowState`). Lemmas about the rows
say which operations insert (only `Enqueue`) and delete (only `PruneDelivered`)
them; the rest goes by the actions of the cycle. The assumptions are
`LimitsAssumption` and `CycleAssumption`, which names the model's bounds.

### RealtimeClientProofs

For any number of sockets, any timeout and delay, and any number of loads:
`SocketAlwaysTracked` and `AlwaysOneLiveSocket`, the two invariants of the run
`realtime`. `ClientInv` is their conjunction: that a message shows "connected" of a
client that is not paused rests on `QuietWhenPaused`, and everything on the types.
One lemma per action shows each part; where `connect()` is called the two cases are
its early return and a new socket, which `OneLiveSocket` needs to be the only one.
The assumption is `ClientAssumption`.

### CollectorManagerProofs

For any collectors in any order, any deadlines, stale windows, kinds of result and
bounds on time and failures:

* `TypeCorrect`, `NeverRunTwice`, `FailuresCountInvocations` and
  `ReturnedIsUsable`: the four invariants of the run `collectors`;
* `AbortsHaveCause`: its action property `AbortsAreJustified`.

`CollectorInv` adds to them:

* `ThreadsMatch`: a worker runs exactly what is in flight and not done;
* `FailuresJustified`: a reckoning of what each invocation in flight may still add
  to `failures_total` (`Owed`) and what was added before it ended (`Ahead`), for
  the envelopes of the last cycle and for those being built, since an abort throws
  the latter away after their timeouts were counted. Both sides are clipped at the
  model's bound, so the lemmas on `Clip` come first;
* `SampleHasData`, `VisitedHaveData` and `FailureHasCause`: the same as the two
  properties of results, for the prefix of the collectors already visited;
* `UnvisitedAreEmpty`: the rest has nothing in the sample yet, so that a collector is
  never refused for data of its own.

One lemma per action, and one per way a collector is visited. The assumption is
`CollectorAssumption`, which says that `Order` is a sequence of collectors without
repetition: the collectors are the values of a dictionary keyed by their names
(`host_monitor/config.py:246`).

### RvxSnapshotsProofs

For any capacity, byte bounds, page limit, sizes of snapshots, and number of
captures and restarts: `TypeCorrect`, `BufferKeepsNewest`, `PagesSkipNothing`,
`ReportedGapsAreReal` and `CursorIsNeverRefused`, the five invariants of the run
`rvx_snapshots`.

The consumer's properties depend on the page that is on its way while the buffer
goes on: `PageContinues` says that it continues at the cursor and leaves out only
what it reports as dropped, which for the current session is gone for good. The
buffer's exact byte count is a sum, which the provers cannot follow; the model
records for each snapshot where its bytes start, `StartsAdjoin` says that each
starts where the one before it ends, and so the bytes of a stretch are a
difference. That `Evicted` and `NextAfter` choose the least or greatest number they
are defined by rests on `LeastExists` and `GreatestExists`, from the library's
theorem that `<` is well-founded on the naturals.

### DashboardLoadsProofs

For any pages, charts, windows, documents, answers and number of loads:
`SeriesStayAligned`, `ChartsShowSelection` and `ExplorerShowsWindow`, the three
invariants of the run `dashboard_loads`. `LoadsInv` has two halves that do not disturb
each other, and the types of what neither of them is about (`TabTypes`):

* `ChartsInv`: the load of the controller is the only one that may still be
  applied, and asks for what the page shows unless a reload is scheduled or the page
  is `behind` (`OneLoadCounts`); series are kept of tracked metrics only
  (`KeptAreTracked`). A step that loads nothing either shows no chart that was not
  shown before, or sets `behind`, which the next load clears;
* `ExplorerInv`: the catalog the explorer asked for, or has, is of the window it
  remembers (`ExplorerIsOfOneWindow`).

The assumption is `LoadsAssumption`.

### PreferenceSyncProofs

For any tabs, fields, entries and values, and any number of edits, resets, closed
tabs and lost calls:

* `TabsAreConsistent` and `LoneTabRemembers`: the two invariants of the run
  `preference_sync`;
* `AnswersTakeNothingBack` and `SavesSpareOthers`: its two action properties
  `UnsavedIsKept` and `OthersSurvive`.

The proof goes in three layers. First, lemmas say what each operator on a tab's
state does, field by field (`FlushParts`, `QueueParts`, `SavedParts` ...). Second,
`TabsOK` is an invariant of each tab by itself: what a request under way carries is
what the tab has, but for fields that were edited and queued since (`CallOK`), so
that an answer confirms nothing but what was sent; and nothing is queued or sent
that the tab has not touched (`TouchedOK`), unless it puts a whole document because
it was never given one or was reset. From it follow consistency and `OthersSurvive`,
for any number of tabs. Third, while no two tabs have been open at once,
`Lone` says that localStorage has every last edit and calls pending what the server
lacks (`Kept`), and that the tab is in step with both (`InStep`). The hard part is a
PATCH, which leaves out the entries that are as the tab knows them from the server:
that is sound only if the server still has them so, which `Abreast` claims unless a
PUT is due or the PATCH itself was handled. `UnsavedIsKept` rests on both layers:
what an answer confirms of a pending field is what the tab has, and an entry that the
PATCH left out is, with one tab, what the server has unless it is in `unsure`. (`Abreast` was found by a failed proof:
excusing a tab whenever a replacement was asked for holds in every state TLC
reaches, but is not inductive, for a reset during a PATCH says nothing of the PATCH
under way.) The entries of `unsure` are the one exception that no strengthening removes: it is the
gap section 4 describes. The assumptions are `SyncAssumption` and
`NothingAssumption`, that null is neither a document nor a request.

### NavigationLayoutProofs

For any definition (pages, groups, panels), any pages, sections and panels to add, any
limits, and any number of edits, reloads and changes of other tabs:

* `NavigationStaysWhole` and `ReloadShowsTheSame`: the two invariants of the run
  `layout`;
* `CustomPanelsAreKept`: its action property `PanelsAreKept`.

`LayoutOK` speaks of the pages in the order of the navigation, a list put together
from the sections, and says nothing of the types of sections; and that a reload changes
nothing is a consequence of the state, not something one step hands to the next. What
is inductive is `IInv` (`LayoutInvariant`), about the preferences themselves:

* `Whole`: the sections have ids of their own and hold the pages there are, each in
  one section, once;
* `Sound`: besides, hidden pages, added pages and the order of the panels are lists
  without repetitions, and the page in use and the protected one are there, so that
  `normalizeHiddenPages` never has to show a page again;
* `OnPages`: every panel but the misplaced ones is on a page there is, which is
  why `normalize` drops no other.

It says this of the preferences here (`TabInv`) and of the copy of the other tab
(`CopyInv`), for that copy is what the other tab's setters work on. The document the
server merges from the two need not be sound: the sections of one may lack pages of
the other, or hold pages that it has not. `Loose` says what is left, lists without
repetitions and sections that are whole for some pages, if not for those there are
(`MergedLoose`), and `NormalizeLoose` that `normalize` makes any loose document sound.

The argument has three layers. First, lists: what filtering, appending, inserting and
removing do to the elements of a list and to their being distinct. Second, lists of
sections: every setter is one or two of a few changes (a section inserted or removed,
the pages of one replaced, a page taken out of all), and each of these keeps the
sections `Whole` for the pages that are there afterwards (`WholeInsertAt`,
`WholeRemoveAt`, `WholePut`, `WholeUnassign`); then one lemma per setter
(`RemovePageSound`, `MovePageSound` ...), and `NormalizeSound`: `normalize` leaves any
sound preferences sound, and changes nothing about them but what the limits cut off.
Third, one step per handler. A form may name what is gone: the lemmas of the setters
are about all ids, present or not.

The loops of the code need induction, and the library's theorems of induction and of
recursive functions take an operator, which the provers cannot instantiate. `Induction`
and `Recursion` state both for sets and functions instead: a set that has 0 and with
each number the next has them all, from the least number that is not in it; and a
recursive function exists, by that induction. Each loop then has a lemma that says
what its recursive function is at 0 and at `n + 1` (`OnlySteps`, `DefaultSteps`,
`CandidateSteps`, `NormalSteps`) and one that goes along it. The assumption is
`LayoutAssumption`, with the page `overview` that `assertDashboard` does not check.

### Only model-checked

Liveness, which is out of the prover's reach: `HealthyChannelsDrain`,
`DrainsUnlessPoisoned`, `CollectReturns`, `FinishedIsHarvested`,
`ConsumerCatchesUp`, `ReconnectsUnlessUnwatched`, `ChartsSettle`, `EditsAreSaved`.

The inductive invariants of the larger modules were checked by TLC while they were
being written, before the proofs.

## 6. Not modelled, and the plan

Not modelled: configuration parsing, the CLI, service files, the readers of
`/proc` and the cluster plugin, which are sequential and keep no state between
calls; the drawing of panels and tables. Of the web client: labels, titles and
chart ranges; the list of the rules panel, whose reload is skipped while an older
one is under way (`panels/rules-panel.ts:155`) and whose switch sends a whole rule
(67); the settings form, which sends theme and density together as drawn
(`panels/web-settings-panel.ts:74`); plugins; `PreferenceSync` abstracts from
`normalize`, and `NavigationLayout` from what is unsaved. A request whose page was
closed reaches the server at once or never.

Left, in this order:

1. `RuleStore`: cached rules and signature, edits by the web thread, the rules
   panel and the CLI as separate read, check and write steps, with atomic
   replaces; and the reset of a rule's counters after an edit, composed with the
   outbox's identities.
2. `Broadcast`: monitor thread, event loop, one-slot queues with pongs, start and
   close; an abstract "latest value" channel that it and `RealtimeClient` together
   implement.
3. `HistoryFiles`: append, rotation, torn lines, readers, and migration beside the
   daemon; `StateStore` with its lock.
4. `LongHistory` (shared tasks, cancellation, cache), `DashboardStore`, and the
   scheduler's `advance_deadline` as pure arithmetic.
