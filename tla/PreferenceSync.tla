--------------------------- MODULE PreferenceSync ---------------------------
(***************************************************************************)
(* How the preferences of the dashboard are kept in three places: in each  *)
(* tab (PreferenceStore of web/src/core/preferences.ts, and the save queue *)
(* of web/src/app.ts), in the localStorage the tabs of a browser share,    *)
(* and in the server's document (DashboardPreferenceStore of               *)
(* preferences.py).  Calls are lost before or after the server has handled *)
(* them, tabs are reloaded, and several tabs edit at once.                 *)
(*                                                                         *)
(* A document is a function on cells.  A plain field, such as theme, has   *)
(* one cell; the entries of panelState (panelColumns is alike) are the     *)
(* cells of one keyed field.  What the values may be is NavigationLayout's *)
(* subject: here normalize changes nothing.                                *)
(***************************************************************************)
EXTENDS Integers, FiniteSets

CONSTANTS
  Tabs,
  Plain,       \* plain fields, each its own cell
  Entries,     \* the entries of the keyed field
  PanelState,  \* the keyed field
  Values,
  Bad,         \* values of plain fields that the server's validation refuses
  NoDocument,  \* null: nothing stored
  NoCall,
  MaxActs,     \* bound: edits, resets and closed tabs
  MaxLost      \* bound: lost calls

\* 0 is the default of a plain field, and an entry that is not there.
Default == 0

ASSUME SyncAssumption ==
  /\ Plain \cap Entries = {}
  /\ PanelState \notin Plain
  /\ {Default, 1} \subseteq Values
  /\ Bad \subseteq Values \ {Default, 1}
  /\ MaxActs \in Nat
  /\ MaxLost \in Nat

VARIABLES
  tab,            \* the state of each tab
  stored,         \* localStorage under STORAGE_KEY
  storedPending,  \* localStorage under PENDING_KEY
  server,         \* the server's document
  acts,           \* history: acts of the user so far
  lost,           \* history: calls lost so far
  touched,        \* history: fields a tab has edited or found pending
  last,           \* history: the last edit of each cell, by any tab, or NoValue
  unsure,         \* history: entries in a PATCH whose answer was lost
  together        \* history: whether two tabs were ever open at once

storage == <<stored, storedPending>>

vars == <<tab, storage, server, acts, lost, touched, last, unsure, together>>

Cells == Plain \cup Entries

Fields == Plain \cup {PanelState}

FieldOf(c) == IF c \in Plain THEN c ELSE PanelState

CellsOf(fields) == {c \in Cells : FieldOf(c) \in fields}

Documents == [Cells -> Values]

Defaults == [c \in Cells |-> Default]

\* What an earlier session has left.
Earlier == [c \in Cells |-> 1]

NoValue == -1

\* A request under way: which fields it confirms, the cells a PATCH carries,
\* the preferences it was made from, and the document the server answered.
Call ==
  [kind : {"get", "patch", "put"}, fields : SUBSET Fields,
   cells : SUBSET Cells, body : Documents,
   status : {"asked", "answered", "refused"},
   answer : {NoDocument} \cup Documents]

\* null is neither a document nor a request.
ASSUME NothingAssumption == NoDocument \notin Documents /\ NoCall \notin Call

\* The queue (preferenceSaveFields) is being flushed while there is a call.
Tab ==
  [phase : {"closed", "opening", "live"}, value : Documents,
   hadLocal : BOOLEAN, pending : SUBSET Fields, queue : SUBSET Fields,
   replace : BOOLEAN, retry : BOOLEAN, loaded : BOOLEAN,
   known : {NoDocument} \cup Documents, call : {NoCall} \cup Call]

Closed ==
  [phase |-> "closed", value |-> Defaults, hadLocal |-> FALSE, pending |-> {},
   queue |-> {}, replace |-> FALSE, retry |-> FALSE, loaded |-> FALSE,
   known |-> NoDocument, call |-> NoCall]

Live(t) == tab[t].phase = "live"

-----------------------------------------------------------------------------
(* The parts of app.ts and preferences.ts, on the state x of a tab. *)

Get ==
  [kind |-> "get", fields |-> {}, cells |-> {}, body |-> Defaults,
   status |-> "asked", answer |-> NoDocument]

\* Mutant of Patch: the whole document is sent.
PatchAll(x, fields) == Cells

\* preferencePatch: of a keyed field, the entries that differ from what the
\* server last answered.  An entry that is gone is not among them.
Patch(x, fields) ==
  {c \in CellsOf(fields) :
     c \in Plain \/ /\ x.value[c] # Default
                    /\ \/ x.known = NoDocument
                       \/ x.value[c] # x.known[c]}

\* One turn of flushPreferenceSaves up to its request.
Save(x) ==
  LET replace == x.replace \/ x.known = NoDocument
  IN  [x EXCEPT
         !.queue = {},
         !.replace = FALSE,
         !.call = [kind |-> IF replace THEN "put" ELSE "patch",
                   fields |-> x.queue, cells |-> Patch(x, x.queue),
                   body |-> x.value, status |-> "asked",
                   answer |-> NoDocument]]

\* The loop of flushPreferenceSaves: the server's document is read before
\* anything is written.
Flush(x) ==
  IF x.queue = {} THEN [x EXCEPT !.call = NoCall]
  ELSE IF x.loaded THEN Save(x)
  ELSE [x EXCEPT !.call = Get]

Queue(x, fields, replace) ==
  LET queued == [x EXCEPT !.queue = @ \cup fields, !.replace = @ \/ replace]
  IN  IF x.call # NoCall \/ x.retry THEN queued ELSE Flush(queued)

\* hydrate: the server's document, but for the fields that are pending.
Hydrated(x, document) ==
  [x EXCEPT !.value = [c \in Cells |->
     IF FieldOf(c) \in x.pending THEN x.value[c] ELSE document[c]]]

\* Mutant of Confirmed: an edit made since the request is confirmed with it.
ConfirmedAll(x) == x.call.fields

\* What a save confirms: the fields that still are what was sent.
Confirmed(x) ==
  {f \in x.call.fields : \A c \in CellsOf({f}) : x.value[c] = x.call.body[c]}

\* A request has been answered with a document, in flushPreferenceSaves.
Saved(x) ==
  LET document == x.call.answer
      confirmed == [x EXCEPT !.pending = @ \ Confirmed(x), !.known = document]
  IN  Flush(Hydrated(confirmed, document))

Loaded(x) ==
  LET document == x.call.answer
      loaded == [x EXCEPT !.loaded = TRUE, !.known = document]
  IN  IF document = NoDocument THEN loaded ELSE Hydrated(loaded, document)

\* Mutants of Failed: what failed is not queued again; no retry is scheduled.
FailedForgotten(x) ==
  [x EXCEPT !.replace = @ \/ x.call.kind = "put", !.call = NoCall, !.retry = TRUE]

FailedForGood(x) ==
  [x EXCEPT !.queue = @ \cup x.pending, !.replace = @ \/ x.call.kind = "put",
            !.call = NoCall]

\* The catch block: what is pending is queued again, and a replacement that
\* may not have happened is asked for again, after the retry timer.
Failed(x) ==
  [x EXCEPT !.queue = @ \cup x.pending,
            !.replace = @ \/ x.call.kind = "put",
            !.call = NoCall,
            !.retry = TRUE]

\* The rest of start() after hydratePreferences.
Started(x) ==
  LET live == [x EXCEPT !.phase = "live", !.call = NoCall]
  IN  IF live.pending = {} THEN live
      ELSE Queue(live, live.pending, live.loaded /\ live.known = NoDocument)

\* hydratePreferences has an answer: preferences of the time before the
\* server kept them become pending as a whole.
Opened(x) ==
  LET loaded == Loaded(x)
  IN  IF loaded.known = NoDocument /\ x.hadLocal
      THEN [loaded EXCEPT !.pending = Fields] ELSE loaded

\* Mutant of StoreBoth: what is pending is kept in memory only.
StoreValue(x) ==
  /\ stored' = x.value
  /\ UNCHANGED storedPending

\* What PreferenceStore has written to localStorage.
StoreBoth(x) ==
  /\ stored' = x.value
  /\ storedPending' = x.pending

Init ==
  /\ tab = [t \in Tabs |-> Closed]
  /\ stored \in {NoDocument, Earlier}
  /\ storedPending = {}
  /\ server \in {NoDocument, Earlier}
  /\ acts = 0
  /\ lost = 0
  /\ touched = [t \in Tabs |-> {}]
  /\ last = [c \in Cells |-> NoValue]
  /\ unsure = {}
  /\ together = FALSE

-----------------------------------------------------------------------------
(* Acts of the user. *)

Acts ==
  /\ acts < MaxActs
  /\ acts' = acts + 1

\* What the constructor of PreferenceStore finds in localStorage.
Found ==
  [Closed EXCEPT !.value = IF stored = NoDocument THEN Defaults ELSE stored,
                 !.hadLocal = stored # NoDocument,
                 !.pending = storedPending]

\* A page is loaded, and hydratePreferences asks for the server's document.
Open(t) ==
  /\ tab[t].phase = "closed"
  /\ tab' = [tab EXCEPT ![t] = [Found EXCEPT !.phase = "opening", !.call = Get]]
  /\ together' = (together \/ \E u \in Tabs \ {t} : tab[u].phase # "closed")
  /\ touched' = [touched EXCEPT ![t] = storedPending]
  /\ UNCHANGED <<storage, server, acts, lost, last, unsure>>

\* A setter of PreferenceStore: save() of a field.
Edit(t, c, v) ==
  /\ Acts
  /\ Live(t)
  /\ v # tab[t].value[c]
  /\ LET edited == [tab[t] EXCEPT !.value[c] = v, !.pending = @ \cup {FieldOf(c)}]
     IN  /\ tab' = [tab EXCEPT ![t] = Queue(edited, {FieldOf(c)}, FALSE)]
         /\ StoreBoth(edited)
  /\ touched' = [touched EXCEPT ![t] = @ \cup {FieldOf(c)}]
  /\ last' = [last EXCEPT ![c] = v]
  /\ UNCHANGED <<server, lost, unsure, together>>

\* The form of the chart defaults, which is one field.
SetField(t, c, v) ==
  /\ c \in Plain
  /\ Edit(t, c, v)

\* The checkboxes of a panel's columns, of which one stays checked.
SetEntry(t, c, v) ==
  /\ c \in Entries /\ v # Default
  /\ Edit(t, c, v)

Reset(t) ==
  /\ Acts
  /\ Live(t)
  /\ LET edited == [tab[t] EXCEPT !.value = Defaults, !.pending = Fields]
     IN  /\ tab' = [tab EXCEPT ![t] = Queue(edited, Fields, TRUE)]
         /\ StoreBoth(edited)
  /\ touched' = [touched EXCEPT ![t] = Fields]
  /\ last' = Defaults
  /\ UNCHANGED <<server, lost, unsure, together>>

-----------------------------------------------------------------------------
(* The server: load, save and patch under its lock. *)

Merged(call) ==
  [c \in Cells |-> IF c \in call.cells THEN call.body[c] ELSE server[c]]

Refuses(call) ==
  \/ call.kind = "patch" /\ server = NoDocument
  \/ \E c \in Plain :
       /\ call.kind = "put" \/ c \in call.cells
       /\ call.body[c] \in Bad

\* The document after the request.
Handled(call) ==
  IF call.kind = "get" \/ Refuses(call) THEN server
  ELSE IF call.kind = "put" THEN call.body
  ELSE Merged(call)

Answer(call) ==
  IF call.kind # "get" /\ Refuses(call) THEN [call EXCEPT !.status = "refused"]
  ELSE [call EXCEPT !.status = "answered", !.answer = Handled(call)]

Has(t, status) == tab[t].call # NoCall /\ tab[t].call.status = status

Asked(t) == Has(t, "asked")

Answered(t) == Has(t, "answered")

ServerHandles(t) ==
  /\ Asked(t)
  /\ server' = Handled(tab[t].call)
  /\ tab' = [tab EXCEPT ![t].call = Answer(@)]
  /\ UNCHANGED <<storage, acts, lost, touched, last, unsure, together>>

\* A request that is still under way when its page goes reaches the server at
\* once or not at all.
Close(t) ==
  /\ Acts
  /\ tab[t].phase # "closed"
  /\ tab' = [tab EXCEPT ![t] = Closed]
  /\ touched' = [touched EXCEPT ![t] = {}]
  /\ \/ UNCHANGED server
     \/ Asked(t) /\ server' = Handled(tab[t].call)
  /\ UNCHANGED <<storage, lost, last, unsure, together>>

-----------------------------------------------------------------------------
(* The answers in the tab. *)

\* The answer of hydratePreferences.
OpenAnswered(t) ==
  /\ tab[t].phase = "opening" /\ Answered(t)
  /\ LET opened == Opened(tab[t])
     IN  /\ tab' = [tab EXCEPT ![t] = Started(opened)]
         /\ stored' = IF opened.known = NoDocument THEN stored ELSE opened.value
         /\ storedPending' = IF opened.known = NoDocument /\ tab[t].hadLocal
                             THEN opened.pending ELSE storedPending
         /\ touched' = [touched EXCEPT ![t] = opened.pending]
  /\ UNCHANGED <<server, acts, lost, last, unsure, together>>

\* The document that was missing is there, and the flush goes on.
LoadAnswered(t) ==
  /\ Live(t) /\ Answered(t)
  /\ tab[t].call.kind = "get"
  /\ LET loaded == Loaded(tab[t])
     IN  /\ tab' = [tab EXCEPT ![t] = Flush(loaded)]
         /\ stored' = IF loaded.known = NoDocument THEN stored ELSE loaded.value
  /\ UNCHANGED <<storedPending, server, acts, lost, touched, last, unsure, together>>

SaveAnswered(t) ==
  /\ Live(t) /\ Answered(t)
  /\ tab[t].call.kind # "get"
  /\ LET saved == Saved(tab[t])
     IN  /\ tab' = [tab EXCEPT ![t] = saved]
         /\ StoreBoth(saved)
  /\ UNCHANGED <<server, acts, lost, touched, last, unsure, together>>

\* A call ends with an error.
Fail(t) ==
  tab' = [tab EXCEPT ![t] =
            IF Live(t) THEN Failed(tab[t]) ELSE Started(tab[t])]

Refused(t) ==
  /\ Has(t, "refused")
  /\ Fail(t)
  /\ UNCHANGED <<storage, server, acts, lost, touched, last, unsure, together>>

\* The request or its answer is lost.
CallLost(t) ==
  /\ lost < MaxLost
  /\ lost' = lost + 1
  /\ tab[t].call # NoCall
  /\ Fail(t)
  /\ unsure' = IF Answered(t) /\ tab[t].call.kind = "patch"
               THEN unsure \cup (tab[t].call.cells \cap Entries) ELSE unsure
  /\ UNCHANGED <<storage, server, acts, touched, last, together>>

RetryFires(t) ==
  /\ tab[t].retry
  /\ tab' = [tab EXCEPT ![t] = Queue([tab[t] EXCEPT !.retry = FALSE], {}, FALSE)]
  /\ UNCHANGED <<storage, server, acts, lost, touched, last, unsure, together>>

-----------------------------------------------------------------------------

UserStep(t) ==
  \/ Open(t)
  \/ Close(t)
  \/ \E c \in Cells, v \in Values : SetField(t, c, v) \/ SetEntry(t, c, v)
  \/ Reset(t)

TabStep(t) ==
  \/ OpenAnswered(t)
  \/ LoadAnswered(t)
  \/ SaveAnswered(t)
  \/ Refused(t)
  \/ RetryFires(t)

Next == \E t \in Tabs :
  \/ UserStep(t)
  \/ ServerHandles(t)
  \/ TabStep(t)
  \/ CallLost(t)

Spec == Init /\ [][Next]_vars

\* The server handles what reaches it, answers arrive unless they are lost,
\* and timers fire.  Users need do nothing.
Fairness == \A t \in Tabs : WF_vars(ServerHandles(t)) /\ WF_vars(TabStep(t))

FairSpec == Spec /\ Fairness

-----------------------------------------------------------------------------
(* Properties. *)

TypeOK ==
  /\ tab \in [Tabs -> Tab]
  /\ stored \in {NoDocument} \cup Documents
  /\ storedPending \subseteq Fields
  /\ server \in {NoDocument} \cup Documents
  /\ acts \in 0 .. MaxActs
  /\ lost \in 0 .. MaxLost
  /\ touched \in [Tabs -> SUBSET Fields]
  /\ last \in [Cells -> Values \cup {NoValue}]
  /\ unsure \subseteq Entries
  /\ together \in BOOLEAN

\* A tab that knows the server's document shows it, but for the fields whose
\* edits are pending; and each of those is queued, in the request under way,
\* or both, with a request or a retry to come.  Otherwise an edit would be
\* shown as saved that was not, or would stay pending with nothing to save it.
ShownIsSavedOrComing == \A t \in Tabs : Live(t) =>
  LET x == tab[t]
      sending == IF x.call = NoCall THEN {} ELSE x.call.fields
  IN  /\ x.known # NoDocument =>
           \A c \in Cells : FieldOf(c) \in x.pending \/ x.value[c] = x.known[c]
      /\ x.pending \subseteq x.queue \cup sending
      /\ x.queue # {} => x.call # NoCall \/ x.retry

Consistent == TypeOK /\ ShownIsSavedOrComing

\* Entries of a pending field that its PATCH under way does not carry, and so
\* leaves to the server.  An entry that is gone is never carried: only the PUT
\* of a reset removes it.  One that is as the tab knows it from the server is
\* not carried either, which is no loss unless the server's has changed since,
\* by a PATCH of the tab whose answer was lost or by another tab.
LeftToServer(t) ==
  {c \in Entries :
     /\ tab[t].call # NoCall /\ tab[t].call.kind = "patch"
     /\ tab[t].value[c] = tab[t].call.body[c]
     /\ \/ tab[t].value[c] = Default
        \/ tab[t].value[c] = tab[t].known[c] /\ (c \in unsure \/ together)}

\* While a tab is open, neither an answer nor a failure changes what it has in
\* a field with unconfirmed edits: not the answer to a save made before the
\* edit, also when the edit sets a cell back to what the server had before
\* that save, and not a late load.  The exception is what LeftToServer names,
\* where the answer does undo an edit.
UnsavedIsKept ==
  [][\A t \in Tabs :
       Live(t) /\ tab'[t].phase = "live" /\ UNCHANGED acts =>
         \A c \in CellsOf(tab[t].pending) \ LeftToServer(t) :
           tab'[t].value[c] = tab[t].value[c]]_vars

\* The cells that were edited, but for two kinds of entries.  A PATCH does not
\* carry the removal of one, when the tab was closed before the PUT of the
\* reset was done.  And after a PATCH that was handled but not answered, an
\* entry set back to what the tab knows of the server is not sent, and the
\* next answer undoes it; an entry that was ever in such a PATCH is left out.
Owing ==
  {c \in Cells :
     last[c] # NoValue /\ c \notin unsure /\ (c \in Entries => last[c] # Default)}

\* With one tab at a time, no edit is forgotten: it is in the server's
\* document, or localStorage has it and calls it pending, over lost calls,
\* closed tabs and resets (web/e2e/dashboard.spec.ts:2583, retries without
\* losing changes).
LoneTabForgetsNothing ==
  ~together => \A c \in Owing :
    \/ server # NoDocument /\ server[c] = last[c]
    \/ FieldOf(c) \in storedPending /\ stored[c] = last[c]

\* A save changes no field that its tab has left alone, however old the
\* tab's copy is (web/e2e/dashboard.spec.ts:2542, stale clients).  The
\* exception is a tab that has never been given a document: it puts one.
\* Within the keyed field nothing is promised: with one entry edited, a stale
\* copy of another is sent with it if the server has answered another value.
OthersSurvive ==
  [][\A t \in Tabs :
       Asked(t) /\ server' # server /\ server # NoDocument
         /\ tab'[t] # tab[t] /\ tab[t].known # NoDocument =>
       \A c \in Cells : server'[c] # server[c] => FieldOf(c) \in touched[t]]_vars

\* The edits of a tab do not stay pending, also after lost answers and failed
\* loads, and with one tab at a time the server then has the last edit of
\* every cell that is Owing.  With several, the later save of a cell wins.  If
\* the server refuses a value of the tab, nothing of it may be saved.
EditsAreSaved == \A t \in Tabs :
  <>[](Live(t) =>
         \/ \E c \in Plain : tab[t].value[c] \in Bad
         \/ /\ tab[t].pending = {}
            /\ ~together => \A c \in Owing :
                 server # NoDocument /\ server[c] = last[c])

=============================================================================
