-------------------------- MODULE NavigationLayout --------------------------
(***************************************************************************)
(* What the preferences of a tab say about pages, navigation sections and  *)
(* panels: the setters and normalize of PreferenceStore                    *)
(* (web/src/core/preferences.ts), and the handlers of web/src/app.ts that  *)
(* call them: navigation, layout settings, drag and drop, and the panel    *)
(* editor.  Another tab changes a copy of its own, which may be old, and   *)
(* sends the fields that it changed.  They arrive with the answer to a     *)
(* save (module PreferenceSync) while forms and a dialog built from the    *)
(* preferences before are on the screen.                                   *)
(*                                                                         *)
(* Labels are left out, and what is chosen by a label (the id of a new     *)
(* section or page) is any id that is not in use.                          *)
(***************************************************************************)
EXTENDS Integers, SequencesExt

CONSTANTS
  Navigation,      \* the pages of the definition: <<[id, section, placement]>>
  Overview,        \* the page "overview", which the defaults show
  BuiltIn,         \* its panels: <<[id, page, type]>>
  NewPages,        \* ids of pages the user adds
  NewSections,     \* ids of sections the user adds
  NewPanels,       \* ids of panels the user adds
  MetricLimit,     \* panelMetricLimit: [type -> Nat]
  SectionLimit,    \* the sections and the pages of the user that the server
  PageLimit,       \* accepts and normalize keeps; adding them has no limit
  NoEditor,        \* the dialog is closed
  MaxOps           \* bound: changes of the preferences and editors opened

Placements == {"main", "bottom"}

Types == DOMAIN MetricLimit

DefaultPages == [i \in DOMAIN Navigation |-> Navigation[i].id]

BuiltInIds == {BuiltIn[i].id : i \in DOMAIN BuiltIn}

Pages == ToSet(DefaultPages) \cup NewPages

Panels == BuiltInIds \cup NewPanels

NavigationItem ==
  [id : ToSet(DefaultPages), placement : Placements,
   section : {Navigation[i].section : i \in DOMAIN Navigation}]

PanelDefinition ==
  [id : BuiltInIds, page : ToSet(DefaultPages),
   type : {BuiltIn[i].type : i \in DOMAIN BuiltIn}]

\* What assertDashboard of config/dashboard.ts demands of a definition (an item
\* without a placement is one of "main"), and what is so in dashboard.json but
\* not checked: that its panels have ids of their own, and that it has the page
\* the defaults name.
ASSUME LayoutAssumption ==
  /\ Navigation \in Seq(NavigationItem)
  /\ Overview \in ToSet(DefaultPages)
  /\ IsInjective(DefaultPages)
  /\ BuiltIn \in Seq(PanelDefinition)
  /\ IsInjective([i \in DOMAIN BuiltIn |-> BuiltIn[i].id])
  /\ NewPages \cap ToSet(DefaultPages) = {}
  /\ NewPanels \cap BuiltInIds = {}
  /\ {"timeseries", "stats", "metric-table"} = Types
  /\ MetricLimit \in [Types -> Nat \ {0}]
  /\ {SectionLimit, PageLimit} \subseteq Nat \ {0}
  /\ MaxOps \in Nat

VARIABLES
  layout,     \* the fields of the preferences, and activePage
  other,      \* the copy of another tab, but for its activePage
  route,      \* the page the URL names
  editor,     \* the panel editor
  misplaced,  \* history: panels saved onto a page that was gone
  ops         \* history: how many of them so far

vars == <<layout, other, route, editor, misplaced, ops>>

-----------------------------------------------------------------------------
(* PreferenceStore: helpers and normalize. *)

\* The elements of a list that are in a set.  The accumulations over lists are
\* recursive functions, which can be reasoned about, and no folds.
Only(list, set) ==
  LET kept[n \in 0 .. Len(list)] ==
        IF n = 0 THEN <<>>
        ELSE IF list[n] \in set THEN Append(kept[n - 1], list[n])
        ELSE kept[n - 1]
  IN  kept[Len(list)]

\* effectiveNavigationItems.
Items(L) ==
  Only(DefaultPages, Pages \ ToSet(L.hiddenPages)) \o L.customPages

Visible(L) == ToSet(Items(L))

Without(list, x) == Only(list, ToSet(list) \ {x})

\* The position of a section, 0 when there is none.
SectionAt(sections, id) == SelectInSeq(sections, LAMBDA s : s.id = id)

SectionOf(sections, p) ==
  SelectInSeq(sections, LAMBDA s : p \in ToSet(s.pages))

PlacedAt(sections, placement) ==
  SelectInSeq(sections, LAMBDA s : s.placement = placement)

\* defaultNavigationSections: one section per group, in order of appearance.
Grouped(sections, item) ==
  LET i == SectionAt(sections, item.section)
  IN  IF i = 0
      THEN Append(sections, [id |-> item.section, placement |-> item.placement,
                             pages |-> <<item.id>>])
      ELSE [sections EXCEPT ![i].pages = Append(@, item.id)]

DefaultSections ==
  LET groups[n \in 0 .. Len(Navigation)] ==
        IF n = 0 THEN <<>> ELSE Grouped(groups[n - 1], Navigation[n])
  IN  groups[Len(Navigation)]

Pruned(sections, visible) ==
  [i \in DOMAIN sections |->
     [sections[i] EXCEPT !.pages = Only(@, visible)]]

\* Array.slice(0, limit).
FirstOf(list, limit) ==
  SubSeq(list, 1, IF Len(list) <= limit THEN Len(list) ELSE limit)

\* The first half of normalizeNavigationSections: a section whose id was seen
\* is dropped, and so are pages that are unknown or assigned already.
Assigned(sections) == UNION {ToSet(sections[i].pages) : i \in DOMAIN sections}

Taken(kept, s, visible) ==
  IF SectionAt(kept, s.id) # 0 THEN kept
  ELSE Append(kept, [s EXCEPT !.pages = Only(@, visible \ Assigned(kept))])

Candidates(sections, visible) ==
  LET kept[n \in 0 .. Len(sections)] ==
        IF n = 0 THEN <<>> ELSE Taken(kept[n - 1], sections[n], visible)
  IN  kept[Len(sections)]

\* Its second half: a page in no section goes where the defaults have it, to
\* a section with that placement, or to the first.
Assign(sections, p) ==
  IF SectionOf(sections, p) # 0 THEN sections
  ELSE LET d == SectionOf(DefaultSections, p)
           same == IF d = 0 THEN 0
                   ELSE SectionAt(sections, DefaultSections[d].id)
           placed == IF d = 0 THEN 0
                     ELSE PlacedAt(sections, DefaultSections[d].placement)
           i == IF same # 0 THEN same ELSE IF placed # 0 THEN placed ELSE 1
       IN  [sections EXCEPT ![i].pages = Append(@, p)]

NormalSections(sections, items) ==
  LET defaults == Pruned(DefaultSections, ToSet(items))
      kept == Candidates(IF sections = <<>> THEN defaults
                         ELSE FirstOf(sections, SectionLimit), ToSet(items))
      filled[n \in 0 .. Len(items)] ==
        IF n = 0 THEN IF kept = <<>> THEN defaults ELSE kept
        ELSE Assign(filled[n - 1], items[n])
  IN  filled[Len(items)]

\* normalizeHiddenPages shows a page when there would be none.
NormalHidden(hidden, customPages) ==
  IF customPages = <<>> /\ Len(hidden) >= Len(Navigation)
  THEN Tail(hidden) ELSE hidden

\* isCustomPanel keeps the panels whose page is there (all are well formed).
KnownPanels(L, pages) == {id \in DOMAIN L.panels : L.panels[id].page \in pages}

\* normalize: what a load or an answer of the server makes of preferences.
Normalize(L) ==
  LET customPages == FirstOf(L.customPages, PageLimit)
      P == [L EXCEPT !.customPages = customPages,
                     !.hiddenPages = NormalHidden(@, customPages)]
      kept == KnownPanels(L, Visible(P))
  IN  [P EXCEPT
         !.sections = NormalSections(@, Items(P)),
         !.panels = [id \in kept |-> @[id]],
         !.active = IF @ \in Visible(P) THEN @ ELSE Items(P)[1]]

Defaults ==
  [sections |-> DefaultSections, hiddenPages |-> <<>>, customPages |-> <<>>,
   panels |-> <<>>, order |-> [i \in DOMAIN BuiltIn |-> BuiltIn[i].id],
   hidden |-> {}, active |-> Overview]

-----------------------------------------------------------------------------
(* PreferenceStore: the setters, from preferences to preferences.  One that *)
(* returns early leaves them as they are.                                   *)

\* Mutant of SetActivePage: any page is taken.
SetAnyPage(L, p) == [L EXCEPT !.active = p]

SetActivePage(L, p) ==
  IF p \in Visible(L) THEN [L EXCEPT !.active = p] ELSE L

AddNavigationSection(L, id, placement) ==
  [L EXCEPT !.sections =
     Append(@, [id |-> id, placement |-> placement, pages |-> <<>>])]

UpdateNavigationSection(L, id, placement) ==
  LET i == SectionAt(L.sections, id)
  IN  IF i = 0 THEN L ELSE [L EXCEPT !.sections[i].placement = placement]

\* Where the source goes, given the index of the target without it.
Beside(index, after) == IF after THEN index + 1 ELSE index

MoveNavigationSectionRelative(L, source, target, after) ==
  LET i == SectionAt(L.sections, source)
      j == SectionAt(L.sections, target)
      moved == [L.sections[i] EXCEPT !.placement = L.sections[j].placement]
      rest == RemoveAt(L.sections, i)
  IN  IF source = target \/ i = 0 \/ j = 0 THEN L
      ELSE [L EXCEPT !.sections =
              InsertAt(rest, Beside(SectionAt(rest, target), after), moved)]

\* Mutant of RemoveNavigationSection: its pages go with the section.
RemoveSectionAndPages(L, id) ==
  LET i == SectionAt(L.sections, id)
  IN  IF Len(L.sections) <= 1 \/ i = 0 THEN L
      ELSE [L EXCEPT !.sections = RemoveAt(@, i)]

RemoveNavigationSection(L, id) ==
  LET i == SectionAt(L.sections, id)
      rest == RemoveAt(L.sections, i)
      peer == PlacedAt(rest, L.sections[i].placement)
      fallback == IF peer # 0 THEN peer ELSE 1
  IN  IF Len(L.sections) <= 1 \/ i = 0 THEN L
      ELSE [L EXCEPT !.sections =
              [rest EXCEPT ![fallback].pages = @ \o L.sections[i].pages]]

\* Takes a page out of every section.
Unassign(sections, p) ==
  [i \in DOMAIN sections |-> [sections[i] EXCEPT !.pages = Without(@, p)]]

MovePageRelative(L, source, target, after) ==
  LET j == SectionOf(L.sections, target)
      rest == Unassign(L.sections, source)
      at == SelectInSeq(rest[j].pages, LAMBDA p : p = target)
  IN  IF source = target \/ ~({source, target} \subseteq Visible(L)) \/ j = 0
      THEN L
      ELSE [L EXCEPT !.sections =
              [rest EXCEPT ![j].pages = InsertAt(@, Beside(at, after), source)]]

AddPage(L, p, section) ==
  LET i == SectionAt(L.sections, section)
  IN  IF i = 0 THEN L
      ELSE [L EXCEPT !.customPages = Append(@, p),
                     !.sections[i].pages = Append(@, p)]

\* updatePage puts the page at the end of its section, the old one or not.
UpdatePage(L, p, section) ==
  LET i == SectionAt(L.sections, section)
  IN  IF i = 0 \/ p \notin Visible(L) THEN L
      ELSE [L EXCEPT !.sections =
              [Unassign(L.sections, p) EXCEPT ![i].pages = Append(@, p)]]

Protected == {BuiltIn[i].page : i \in {j \in DOMAIN BuiltIn :
                                         BuiltIn[j].type = "sections"}}

ChartPages == {BuiltIn[i].page : i \in {j \in DOMAIN BuiltIn :
                                          BuiltIn[j].type = "timeseries"}}

\* Where the panels of a removed page go: a page with charts, or any other.
FallbackPage(L, p) ==
  LET items == Items(L)
      charts == SelectInSeq(items, LAMBDA q :
                  q # p /\ q \in ChartPages \cup ToSet(L.customPages))
  IN  IF charts # 0 THEN items[charts]
      ELSE items[SelectInSeq(items, LAMBDA q : q # p)]

\* What removePage makes of the panels.
MovedPanels(panels, p, fallback) ==
  [id \in DOMAIN panels |->
     IF panels[id].page = p THEN [panels[id] EXCEPT !.page = fallback]
     ELSE panels[id]]

RemovePage(L, p) ==
  IF p \in Protected \/ p \notin Visible(L) \/ Len(Items(L)) <= 1 THEN L
  ELSE LET fallback == FallbackPage(L, p)
       IN  [L EXCEPT
              !.customPages = Without(@, p),
              !.hiddenPages =
                 IF Contains(L.customPages, p) \/ Contains(@, p) THEN @
                 ELSE Append(@, p),
              !.sections = Unassign(@, p),
              !.panels = MovedPanels(@, p, fallback),
              !.active = IF @ = p THEN fallback ELSE @]

SetVisible(L, id, visible) ==
  [L EXCEPT !.hidden = IF visible THEN @ \ {id} ELSE @ \cup {id}]

\* move: swaps with the neighbour in panelOrder, shown or not.
Move(L, id, direction) ==
  LET i == SelectInSeq(L.order, LAMBDA q : q = id)
      j == i + direction
  IN  IF i = 0 \/ j \notin DOMAIN L.order THEN L
      ELSE [L EXCEPT !.order = [@ EXCEPT ![i] = L.order[j], ![j] = id]]

\* moveBefore first completes the order with the panels it lacks (here in any
\* order, the code has them as they are defined).
MoveBefore(L, source, target) ==
  LET known == BuiltInIds \cup DOMAIN L.panels
      missing == SetToSeq(known \ ToSet(L.order))
      order == Only(L.order, known) \o missing
      rest == Without(order, source)
      at == SelectInSeq(rest, LAMBDA q : q = target)
  IN  IF source = target \/ ~Contains(order, source) \/ ~Contains(order, target)
      THEN L
      ELSE [L EXCEPT !.order = InsertAt(rest, at, source)]

SaveCustomPanel(L, id, panel) ==
  LET panels == [q \in DOMAIN L.panels \cup {id} |->
                   IF q = id THEN panel ELSE L.panels[q]]
  IN  [L EXCEPT !.panels = panels,
                !.order = IF id \in DOMAIN L.panels \/ Contains(@, id) THEN @
                          ELSE Append(@, id)]

RemoveCustomPanel(L, id) ==
  [L EXCEPT !.panels = [q \in DOMAIN @ \ {id} |-> @[q]],
            !.order = Without(@, id),
            !.hidden = @ \ {id}]

-----------------------------------------------------------------------------
(* Handlers of app.ts.  The dialog of the editor makes the page inert; other *)
(* controls name what was there when they were drawn, which may be gone.     *)

Idle == editor = NoEditor

Operates ==
  /\ ops < MaxOps
  /\ ops' = ops + 1

\* navigate: the URL changes although setActivePage may refuse the page.
Navigated(L, p) ==
  /\ layout' = SetActivePage(L, p)
  /\ route' = IF L.active # p THEN p ELSE route

Navigate(p) ==
  /\ Idle
  /\ Navigated(layout, p)
  /\ UNCHANGED <<other, editor, misplaced, ops>>

\* Back and forward: handlePopState.
PopState(p) ==
  /\ Idle
  /\ route' = p
  /\ layout' = SetActivePage(layout,
                 IF p \in Visible(layout) THEN p ELSE Items(layout)[1])
  /\ UNCHANGED <<other, editor, misplaced, ops>>

\* renderNavigationSettings: the forms of sections and pages, in a panel of the
\* protected page.  They lead to refreshNavigationConfiguration.
Configure(L) ==
  /\ layout.active \in Protected
  /\ Idle /\ Operates
  /\ layout' = L
  /\ route' = L.active
  /\ UNCHANGED <<other, editor, misplaced>>

AddSection(id, placement) ==
  /\ SectionAt(layout.sections, id) = 0
  /\ Configure(AddNavigationSection(layout, id, placement))

PlaceSection(id, placement) ==
  Configure(UpdateNavigationSection(layout, id, placement))

DeleteSection(id) ==
  /\ Len(layout.sections) > 1
  /\ Configure(RemoveNavigationSection(layout, id))

DropSection(source, target, after) ==
  Configure(MoveNavigationSectionRelative(layout, source, target, after))

CreatePage(p, section) ==
  /\ p \notin Visible(layout)
  /\ SectionAt(layout.sections, section) # 0
  /\ Configure(SetActivePage(AddPage(layout, p, section), p))

MovePage(p, section) == Configure(UpdatePage(layout, p, section))

DropPage(source, target, after) ==
  Configure(MovePageRelative(layout, source, target, after))

DeletePage(p) == Configure(RemovePage(layout, p))

\* A handler that changes panels only.
Arrange(L) ==
  /\ Idle /\ Operates
  /\ layout' = L
  /\ UNCHANGED <<other, route, editor, misplaced>>

\* renderLayoutSettings and bindPanelDrag.
TogglePanel(id) == Arrange(SetVisible(layout, id, id \in layout.hidden))

MovePanel(id, direction) == Arrange(Move(layout, id, direction))

DropPanel(source, target) == Arrange(MoveBefore(layout, source, target))

\* The page in use shows a panel.
OnScreen(id) ==
  /\ id \notin layout.hidden
  /\ IF id \in DOMAIN layout.panels THEN layout.panels[id].page = layout.active
     ELSE \E i \in DOMAIN BuiltIn :
            BuiltIn[i].id = id /\ BuiltIn[i].page = layout.active

\* removePanel: the Delete button of a custom panel.
RemovePanel(id) ==
  /\ id \in DOMAIN layout.panels /\ OnScreen(id)
  /\ Idle /\ Operates
  /\ layout' = RemoveCustomPanel(layout, id)
  /\ misplaced' = misplaced \ {id}
  /\ UNCHANGED <<other, route, editor>>

\* chart-search: the panel found is shown, and its page.
FindPanel(id, page) ==
  /\ \/ id \in DOMAIN layout.panels /\ page = layout.panels[id].page
     \/ \E i \in DOMAIN BuiltIn : BuiltIn[i].id = id /\ BuiltIn[i].page = page
  /\ page \in Visible(layout)
  /\ Idle /\ Operates
  /\ Navigated(SetVisible(layout, id, TRUE), page)
  /\ UNCHANGED <<other, editor, misplaced>>

\* layout-reset.  The URL still names the page before.
Reset ==
  /\ Idle /\ Operates
  /\ layout' = Defaults
  /\ misplaced' = {}
  /\ UNCHANGED <<other, route, editor>>

-----------------------------------------------------------------------------
(* The panel editor. *)

PagesInOrder(L) == FlattenSeq([i \in DOMAIN L.sections |-> L.sections[i].pages])

FirstOr(pages, default) == IF pages = <<>> THEN default ELSE pages[1]

\* defaultChartPage.
DefaultChartPage(L) ==
  LET ordered == PagesInOrder(L)
  IN  IF L.active \in ChartPages \cup ToSet(L.customPages) THEN L.active
      ELSE FirstOr(Only(ordered, ChartPages) \o ordered,
                   FirstOr(Items(L), L.active))

\* defaultPanelPage.
DefaultPanelPage(L, type) ==
  LET i == SectionOf(L.sections, L.active)
      main == SelectInSeq(L.sections, LAMBDA s :
                s.placement = "main" /\ s.pages # <<>>)
  IN  IF type = "timeseries" THEN DefaultChartPage(L)
      ELSE IF i # 0 /\ L.sections[i].placement = "main" THEN L.active
      ELSE IF main # 0 THEN L.sections[main].pages[1]
      ELSE FirstOr(PagesInOrder(L), FirstOr(Items(L), L.active))

\* openPanelEditor: the destinations offered are the pages of now, and the
\* first is selected when the panel's own is not among them.
OpenEditor(id, panel) ==
  /\ Idle /\ Operates
  /\ editor' = [id |-> id, type |-> panel.type, count |-> panel.count,
                page |-> IF panel.page \in Visible(layout) THEN panel.page
                         ELSE PagesInOrder(layout)[1],
                offered |-> Visible(layout)]
  /\ UNCHANGED <<layout, other, route, misplaced>>

\* The Add buttons, and with metrics selected those of the metric explorer.
CreatePanel(id, count) ==
  /\ id \in NewPanels \ DOMAIN layout.panels
  /\ OpenEditor(id, [type |-> "timeseries", count |-> count,
                     page |-> DefaultPanelPage(layout, "timeseries")])

\* The Edit button of a panel; a built-in summary has none.
EditPanel(id) ==
  /\ OnScreen(id)
  /\ \/ id \in DOMAIN layout.panels /\ OpenEditor(id, layout.panels[id])
     \/ /\ id \notin DOMAIN layout.panels
        /\ \E i \in DOMAIN BuiltIn :
             /\ BuiltIn[i].id = id
             /\ BuiltIn[i].type \in {"timeseries", "metric-table"}
             /\ OpenEditor(id, [type |-> BuiltIn[i].type, count |-> 1,
                                 page |-> BuiltIn[i].page])

Editing(change) ==
  /\ ~Idle
  /\ editor' = change
  /\ UNCHANGED <<layout, other, route, misplaced, ops>>

ChooseDestination(p) ==
  /\ ~Idle /\ p \in editor.offered
  /\ Editing([editor EXCEPT !.page = p])

\* switchPanelEditorType, for a new panel: the metrics selected stay.
SwitchType(type) ==
  /\ ~Idle /\ editor.id \in NewPanels \ DOMAIN layout.panels
  /\ Editing([editor EXCEPT !.type = type])

\* renderMetricPicker: the buttons of metrics.
PickMetric ==
  /\ ~Idle /\ editor.count < MetricLimit[editor.type]
  /\ Editing([editor EXCEPT !.count = @ + 1])

DropMetric ==
  /\ ~Idle /\ editor.count > 0
  /\ Editing([editor EXCEPT !.count = @ - 1])

CloseEditor == Editing(NoEditor)

\* updatePanelSaveState, and again the check of savePanel.
MaySave == editor.count \in 1 .. MetricLimit[editor.type]

\* savePanel: the panel is saved and its page shown.
SavePanel ==
  /\ ~Idle /\ MaySave
  /\ LET panel == [page |-> editor.page, type |-> editor.type,
                   count |-> editor.count]
     IN  Navigated(SaveCustomPanel(layout, editor.id, panel), editor.page)
  /\ editor' = NoEditor
  /\ misplaced' = IF editor.page \in Visible(layout) THEN misplaced \ {editor.id}
                  ELSE misplaced \cup {editor.id}
  /\ UNCHANGED <<other, ops>>

\* deleteEditedPanel: a built-in panel is hidden instead.
DeleteEdited ==
  /\ ~Idle /\ editor.id \in BuiltInIds \cup DOMAIN layout.panels
  /\ LET removed == RemoveCustomPanel(layout, editor.id)
     IN  layout' = IF editor.id \in BuiltInIds
                   THEN SetVisible(removed, editor.id, FALSE) ELSE removed
  /\ editor' = NoEditor
  /\ misplaced' = misplaced \ {editor.id}
  /\ UNCHANGED <<other, route, ops>>

-----------------------------------------------------------------------------
(* Reloads and other tabs. *)

\* restoreRoutedPage, after hydrate.
Routed(L) == SetActivePage(L, route)

\* start: a reload of the page takes up what localStorage has.
Reload ==
  /\ Operates
  /\ layout' = Routed(Normalize(layout))
  /\ route' = layout'.active
  /\ editor' = NoEditor
  /\ misplaced' = {}
  /\ UNCHANGED other

WithinLimits(L) ==
  /\ Len(L.sections) <= SectionLimit
  /\ Len(L.customPages) <= PageLimit

\* What the server does not refuse (validate_dashboard_preferences): it takes
\* panels of one type only.
Accepted(L) ==
  /\ WithinLimits(L)
  /\ \A id \in DOMAIN L.panels : L.panels[id].type = "timeseries"

\* The copy of the other tab, but for the page that is in use there.
Copy(L) == [L EXCEPT !.active = Items(L)[1]]

\* What the server, and hydrate, have of a save of the other tab: its fields
\* are those of D, the others as they are here, and the page in use is the one
\* the server knows of.
Merged(D, fields, p) ==
  LET Field(f) == IF f \in fields THEN D[f] ELSE layout[f]
  IN  [layout EXCEPT
         !.sections = Field("sections"), !.hiddenPages = Field("hiddenPages"),
         !.customPages = Field("customPages"), !.panels = Field("panels"),
         !.order = Field("order"), !.active = p]

\* The other tab has changed its copy to D and saves the fields.  This tab has
\* nothing unsaved: what becomes of that is module PreferenceSync.
OtherSaves(D, fields, p) ==
  LET document == Merged(D, fields, p)
  IN  /\ Operates
      /\ Accepted(layout) /\ Accepted(document)
      /\ layout' = Routed(Normalize(document))
      /\ other' = Copy(D)
      /\ misplaced' = {}
      /\ UNCHANGED <<route, editor>>

\* Mutant of PageFields: the panels that removePage has moved are not saved.
PageFieldsButPanels == {"hiddenPages", "customPages", "sections"}

\* What removePage saves.
PageFields == {"hiddenPages", "customPages", "sections", "panels"}

\* Its copy may be older than the preferences here: the other tab goes to
\* another page, removes or adds one, removes a section, or saves a panel.
OtherTab(p) ==
  \/ OtherSaves(other, {}, p)
  \/ \E q \in Pages :
       /\ RemovePage(other, q) # other
       /\ OtherSaves(RemovePage(other, q), PageFields, p)
  \/ \E q \in NewPages, i \in DOMAIN other.sections :
       /\ q \notin Visible(other)
       /\ OtherSaves(AddPage(other, q, other.sections[i].id),
                     {"customPages", "sections"}, p)
  \/ \E i \in DOMAIN other.sections :
       /\ Len(other.sections) > 1
       /\ OtherSaves(RemoveNavigationSection(other, other.sections[i].id),
                     {"sections"}, p)
  \/ \E id \in NewPanels, page \in Visible(other) :
       OtherSaves(SaveCustomPanel(other, id,
                    [page |-> page, type |-> "timeseries", count |-> 1]),
                  {"panels", "order"}, p)

\* The other tab is reloaded, or a save of its own is answered: its copy is
\* what the server has.
OtherCatchesUp ==
  /\ Operates
  /\ Accepted(layout)
  /\ other' = Copy(Normalize(layout))
  /\ UNCHANGED <<layout, route, editor, misplaced>>

-----------------------------------------------------------------------------

SectionIds == {DefaultSections[i].id : i \in DOMAIN DefaultSections} \cup NewSections

\* The guards that all actions of a group have in common are stated before it
\* again, so that TLC need not go through the group where it is off.
MayOperate == ops < MaxOps

Visit == \E p \in Pages : Navigate(p) \/ PopState(p)

Setting ==
  \/ \E p \in Pages : DeletePage(p)
  \/ \E id \in NewSections, placement \in Placements : AddSection(id, placement)
  \/ \E id \in SectionIds :
       \/ DeleteSection(id)
       \/ \E placement \in Placements : PlaceSection(id, placement)
       \/ \E p \in NewPages : CreatePage(p, id)
       \/ \E p \in Pages : MovePage(p, id)
  \/ \E after \in BOOLEAN :
       \/ \E s, t \in SectionIds : DropSection(s, t, after)
       \/ \E s, t \in Pages : DropPage(s, t, after)

NavigationStep ==
  \/ Visit
  \/ layout.active \in Protected /\ Idle /\ MayOperate /\ Setting

Deletes ==
  \/ \E id \in Panels : RemovePanel(id)
  \/ DeleteEdited
  \/ Reset

Arrangement ==
  \E id \in Panels :
    \/ TogglePanel(id)
    \/ MovePanel(id, -1) \/ MovePanel(id, 1)
    \/ \E t \in Panels : DropPanel(id, t)
    \/ \E count \in 0 .. MetricLimit["metric-table"] : CreatePanel(id, count)
    \/ EditPanel(id)
    \/ \E page \in Pages : FindPanel(id, page)

PanelStep == Deletes \/ (Idle /\ MayOperate /\ Arrangement)

InEditor ==
  \/ \E p \in Pages : ChooseDestination(p)
  \/ \E type \in Types : SwitchType(type)
  \/ PickMetric \/ DropMetric \/ CloseEditor \/ SavePanel

EditorStep == ~Idle /\ InEditor

Next ==
  \/ NavigationStep
  \/ PanelStep
  \/ EditorStep
  \/ Reload
  \/ MayOperate /\ \E p \in Pages : OtherTab(p)
  \/ OtherCatchesUp

\* The page in use is from an earlier visit.
Init ==
  /\ \E p \in ToSet(DefaultPages) :
       /\ layout = [Defaults EXCEPT !.active = p]
       /\ route = p
  /\ other = Copy(layout)
  /\ editor = NoEditor
  /\ misplaced = {}
  /\ ops = 0

Spec == Init /\ [][Next]_vars

-----------------------------------------------------------------------------
(* Properties. *)

Panel == [page : Pages, type : Types, count : Nat]

TypeOK ==
  /\ \A L \in {layout, other} :
       /\ ToSet(L.hiddenPages) \subseteq ToSet(DefaultPages)
       /\ ToSet(L.customPages) \subseteq NewPages
       /\ DOMAIN L.panels \subseteq Panels
       /\ \A id \in DOMAIN L.panels : L.panels[id] \in Panel
       /\ ToSet(L.order) \subseteq Panels
       /\ L.hidden \subseteq Panels
       /\ L.active \in Pages
  /\ route \in Pages
  /\ editor = NoEditor \/ [editor EXCEPT !.offered = {}] \in
       [id : Panels, type : Types, page : Pages, count : Nat, offered : {{}}]
  /\ misplaced \subseteq DOMAIN layout.panels
  /\ ops \in 0 .. MaxOps

\* Every page there is can be reached and left: it is in exactly one section,
\* once; no section lists a page that is gone; ids are unique; the page shown
\* is there, and so is the protected one, where a layout is put right.
NavigationIsWhole ==
  LET sections == layout.sections
  IN  /\ sections # <<>>
      /\ \A i, j \in DOMAIN sections : sections[i].id = sections[j].id => i = j
      /\ IsInjective(PagesInOrder(layout))
      /\ ToSet(PagesInOrder(layout)) = Visible(layout)
      /\ IsInjective(Items(layout))
      /\ layout.active \in Visible(layout)
      /\ Protected \subseteq Visible(layout)
      /\ IsInjective(layout.order)
      /\ IsInjective(layout.hiddenPages)

LayoutOK == TypeOK /\ NavigationIsWhole

\* A reload shows what was there: normalize, which every load and every answer
\* of the server goes through, changes nothing any sequence of setters has
\* left.  The exceptions are a panel that was saved onto a page that another
\* tab had removed while the editor was open, which is dropped, and more
\* sections or pages than normalize keeps and the server accepts, which nothing
\* keeps the user from adding (preferences.ts:209, 358).
ReloadChangesNothing ==
  LET kept == DOMAIN layout.panels \ misplaced
  IN  WithinLimits(layout) =>
      /\ [Normalize(layout) EXCEPT !.panels = <<>>] = [layout EXCEPT !.panels = <<>>]
      /\ \A id \in kept : /\ id \in DOMAIN Normalize(layout).panels
                          /\ Normalize(layout).panels[id] = layout.panels[id]

\* What the other tab saves may take a panel away: its copy lacks the panel, or
\* the panel is, here or in the copy, on a page that one of them has not.
Outdated(id) ==
  \/ id \notin DOMAIN other.panels
  \/ ~({layout.panels[id].page, other.panels[id].page, other'.panels[id].page}
         \subseteq Visible(layout) \cap Visible(other))

\* A custom panel goes only when it is deleted or the layout is reset, also
\* when its page is deleted here or in another tab ("Custom charts will move
\* to another page", web/src/app.ts:1144).  The exceptions: it was saved onto
\* a page that was gone, a reload cuts the pages off, or another tab saves the
\* panels or pages of a copy that is older than the panel or its page, whole
\* (preferences.ts:428).
PanelsAreKept ==
  [][\/ \A id \in DOMAIN layout.panels \ misplaced :
          \/ /\ id \in DOMAIN layout'.panels
             /\ \/ layout'.panels[id].page \in Visible(layout')
                \/ id \in misplaced'
          \/ Outdated(id) /\ \E p \in Pages : OtherTab(p)
     \/ Reload /\ Len(layout.customPages) > PageLimit
     \/ Deletes]_vars

=============================================================================
