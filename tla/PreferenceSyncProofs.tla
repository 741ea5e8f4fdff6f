----------------------- MODULE PreferenceSyncProofs -----------------------
(***************************************************************************)
(* What tabs, localStorage and the server keep of the preferences, for any *)
(* tabs, fields, entries and values, and any number of edits, resets,      *)
(* closed tabs and lost calls.                                             *)
(*                                                                         *)
(* None of the properties is inductive.  That a tab shows what is saved or *)
(* will be needs to know what the request under way carries: what the tab  *)
(* has, but for what was edited and queued since (CallOK).  That a save    *)
(* spares what others have changed needs to know that nothing is queued or *)
(* sent that the tab has not touched, and when a whole document is put     *)
(* (TouchedOK).  That a tab on its own forgets nothing needs localStorage  *)
(* to have every last edit (Kept), and the tab to know the server's        *)
(* entries unless it will replace them: a PATCH leaves out those that are  *)
(* as it knows them (InStep, Abreast).                                     *)
(***************************************************************************)
EXTENDS PreferenceSync, TLAPS

\* The fields of the request under way.
Sending(x) == IF x.call = NoCall THEN {} ELSE x.call.fields

\* A closed tab is gone; one that opens has asked for the document and
\* nothing else, which it does not know before it has loaded it.
PhaseOK(x) ==
  /\ x.phase = "closed" => x = Closed
  /\ x.phase = "opening" =>
       /\ x.queue = {} /\ ~x.replace /\ ~x.retry /\ ~x.loaded
       /\ x.call # NoCall /\ x.call.kind = "get"
  /\ ~x.loaded => x.known = NoDocument

\* What a save carries is what the tab has, but for what was edited since;
\* a PATCH leaves out entries that are gone or as the server has answered
\* last; and the answer has what was sent.
CallOK(x) ==
  x.call # NoCall =>
    LET k == x.call
    IN  /\ k.kind = "get" => k.fields = {} /\ ~x.loaded
        /\ k.kind # "get" =>
             /\ x.phase = "live" /\ x.loaded
             /\ \A c \in Cells :
                  FieldOf(c) \in x.queue \cap x.pending \/ x.value[c] = k.body[c]
        /\ k.kind = "patch" =>
             /\ x.known # NoDocument
             /\ k.cells = {c \in CellsOf(k.fields) :
                  c \in Plain \/ (k.body[c] # Default /\ k.body[c] # x.known[c])}
        /\ k.kind = "put" /\ k.status = "answered" => k.answer = k.body
        /\ k.kind = "patch" /\ k.status = "answered" =>
             k.answer # NoDocument /\ \A c \in k.cells : k.answer[c] = k.body[c]

\* What the tab shows is what the server has answered, or pending.
Shows(x) ==
  x.known # NoDocument =>
    \A c \in Cells : FieldOf(c) \in x.pending \/ x.value[c] = x.known[c]

\* ShownIsSavedOrComing of one tab.
ShownOK(x) ==
  x.phase = "live" =>
    /\ Shows(x)
    /\ x.pending \subseteq x.queue \cup Sending(x)
    /\ x.queue # {} => x.call # NoCall \/ x.retry

\* A tab saves what it has touched, unless it puts a document because it has
\* never been given one.
TouchedOK(x, fields) ==
  /\ x.pending \cup x.queue \cup Sending(x) \subseteq fields
  /\ \/ fields = Fields
     \/ /\ x.replace => x.call = NoCall /\ x.loaded /\ x.known = NoDocument
        /\ x.call # NoCall /\ x.call.kind = "put" => x.known = NoDocument

\* The state x of a tab that has touched the fields is in order.
TabOK(x, fields) ==
  /\ x \in Tab
  /\ PhaseOK(x)
  /\ CallOK(x)
  /\ ShownOK(x)
  /\ TouchedOK(x, fields)

\* The inductive invariant of the tabs.
TabsOK == \A t \in Tabs : TabOK(tab[t], touched[t])

\* A live tab before it goes on with its queue: its request is done with.
Ready(x, fields) ==
  /\ x \in Tab /\ x.phase = "live"
  /\ ~x.loaded => x.known = NoDocument
  /\ Shows(x)
  /\ x.pending \subseteq x.queue
  /\ x.queue \subseteq fields
  /\ fields = Fields \/ (x.replace => x.loaded /\ x.known = NoDocument)

-----------------------------------------------------------------------------
(* What the operators on the state of a tab do, field by field. *)

USE SyncAssumption, NothingAssumption

\* Every cell belongs to a field, and the initial documents are documents.
LEMMA FieldFacts ==
  /\ \A c \in Cells : FieldOf(c) \in Fields
  /\ \A fields, c : c \in CellsOf(fields) <=> c \in Cells /\ FieldOf(c) \in fields
  /\ Defaults \in Documents /\ Earlier \in Documents
BY DEF Cells, Fields, FieldOf, CellsOf, Defaults, Earlier, Documents, Default

\* The components of a tab's state.
LEMMA TabParts ==
  ASSUME NEW x \in Tab
  PROVE  /\ x.phase \in {"closed", "opening", "live"} /\ x.value \in Documents
         /\ x.hadLocal \in BOOLEAN /\ x.pending \subseteq Fields /\ x.queue \subseteq Fields
         /\ x.replace \in BOOLEAN /\ x.retry \in BOOLEAN /\ x.loaded \in BOOLEAN
         /\ x.known \in {NoDocument} \cup Documents /\ x.call \in {NoCall} \cup Call
BY DEF Tab

\* The components of a request.
LEMMA CallParts ==
  ASSUME NEW k \in Call
  PROVE  /\ k.kind \in {"get", "patch", "put"} /\ k.fields \subseteq Fields
         /\ k.cells \subseteq Cells /\ k.body \in Documents
         /\ k.status \in {"asked", "answered", "refused"}
         /\ k.answer \in {NoDocument} \cup Documents
BY DEF Call

\* y is x with another queue and request.
SameButCall(x, y) ==
  /\ y.phase = x.phase /\ y.value = x.value /\ y.hadLocal = x.hadLocal
  /\ y.pending = x.pending /\ y.retry = x.retry /\ y.loaded = x.loaded
  /\ y.known = x.known

\* The request of a load.
LEMMA GetParts ==
  /\ Get \in Call /\ Get # NoCall /\ Get.kind = "get" /\ Get.fields = {}
  /\ Get.status = "asked"
BY FieldFacts DEF Get, Call

\* A turn of the queue: what the save that it sends carries.
LEMMA SaveParts ==
  ASSUME NEW x \in Tab
  PROVE  LET y == Save(x)
         IN  /\ y \in Tab /\ SameButCall(x, y)
             /\ y.queue = {} /\ y.replace = FALSE
             /\ y.call \in Call /\ y.call # NoCall
             /\ y.call.kind = IF x.replace \/ x.known = NoDocument THEN "put" ELSE "patch"
             /\ y.call.fields = x.queue /\ y.call.cells = Patch(x, x.queue)
             /\ y.call.body = x.value /\ y.call.status = "asked"
<1> DEFINE k == [kind |-> IF x.replace \/ x.known = NoDocument THEN "put" ELSE "patch",
                 fields |-> x.queue, cells |-> Patch(x, x.queue),
                 body |-> x.value, status |-> "asked", answer |-> NoDocument]
<1>1. Patch(x, x.queue) \subseteq Cells
  BY DEF Patch, CellsOf
<1>2. k \in Call
  BY <1>1, TabParts DEF Call
<1>3. /\ k # NoCall
      /\ k.kind = IF x.replace \/ x.known = NoDocument THEN "put" ELSE "patch"
      /\ k.fields = x.queue /\ k.cells = Patch(x, x.queue)
      /\ k.body = x.value /\ k.status = "asked"
  BY <1>2
<1>4. Save(x) = [x EXCEPT !.queue = {}, !.replace = FALSE, !.call = k]
  BY DEF Save
<1> HIDE DEF k
<1>5. /\ Save(x) \in Tab /\ SameButCall(x, Save(x))
      /\ Save(x).queue = {} /\ Save(x).replace = FALSE /\ Save(x).call = k
  BY <1>2, <1>4 DEF Tab, SameButCall
<1> QED
  BY <1>2, <1>3, <1>5

\* The queue is empty, saved, or waits for the server's document.
LEMMA FlushParts ==
  ASSUME NEW x \in Tab
  PROVE  LET y == Flush(x)
         IN  /\ y \in Tab /\ SameButCall(x, y)
             /\ \/ /\ x.queue = {} /\ y.queue = {}
                   /\ y.replace = x.replace /\ y.call = NoCall
                \/ /\ x.queue # {} /\ x.loaded /\ y.queue = {}
                   /\ y.replace = FALSE
                   /\ y.call \in Call /\ y.call # NoCall
                   /\ y.call.kind = IF x.replace \/ x.known = NoDocument THEN "put" ELSE "patch"
                   /\ y.call.fields = x.queue /\ y.call.cells = Patch(x, x.queue)
                   /\ y.call.body = x.value /\ y.call.status = "asked"
                \/ /\ x.queue # {} /\ ~x.loaded /\ y.queue = x.queue
                   /\ y.replace = x.replace /\ y.call = Get
<1>1. CASE x.queue = {}
  <2>1. Flush(x) = [x EXCEPT !.call = NoCall]
    BY <1>1 DEF Flush
  <2>2. /\ Flush(x) \in Tab /\ SameButCall(x, Flush(x)) /\ Flush(x).queue = x.queue
        /\ Flush(x).replace = x.replace /\ Flush(x).call = NoCall
    BY <2>1 DEF Tab, SameButCall
  <2> QED
    BY <1>1, <2>2
<1>2. CASE x.queue # {} /\ x.loaded
  <2>1. Flush(x) = Save(x)
    BY <1>2 DEF Flush
  <2> QED
    BY <1>2, <2>1, SaveParts
<1>3. CASE x.queue # {} /\ ~x.loaded
  <2>1. Flush(x) = [x EXCEPT !.call = Get]
    BY <1>3 DEF Flush
  <2>2. /\ Flush(x) \in Tab /\ SameButCall(x, Flush(x)) /\ Flush(x).queue = x.queue
        /\ Flush(x).replace = x.replace /\ Flush(x).call = Get
    BY <2>1, GetParts DEF Tab, SameButCall
  <2> QED
    BY <1>3, <2>2
<1> QED
  BY <1>1, <1>2, <1>3

\* Going on with the queue leaves a tab in order.
LEMMA FlushIsOK ==
  ASSUME NEW x, NEW fields \in SUBSET Fields, Ready(x, fields)
  PROVE  TabOK(Flush(x), fields) /\ Flush(x).phase = "live"
<1> DEFINE y == Flush(x)
<1>0. x \in Tab /\ x.phase = "live" /\ x.loaded \in BOOLEAN
  BY TabParts DEF Ready
<1>1. /\ y \in Tab /\ SameButCall(x, y)
      /\ \/ /\ x.queue = {} /\ y.queue = {}
            /\ y.replace = x.replace /\ y.call = NoCall
         \/ /\ x.queue # {} /\ x.loaded /\ y.queue = {}
            /\ y.replace = FALSE
            /\ y.call \in Call /\ y.call # NoCall
            /\ y.call.kind = IF x.replace \/ x.known = NoDocument THEN "put" ELSE "patch"
            /\ y.call.fields = x.queue /\ y.call.cells = Patch(x, x.queue)
            /\ y.call.body = x.value /\ y.call.status = "asked"
         \/ /\ x.queue # {} /\ ~x.loaded /\ y.queue = x.queue
            /\ y.replace = x.replace /\ y.call = Get
  BY <1>0, FlushParts
<1> HIDE DEF y
<1>2. /\ y.phase = "live"
      /\ ~y.loaded => y.known = NoDocument
      /\ Shows(y)
      /\ y.pending \subseteq x.queue
      /\ x.queue \subseteq fields
      /\ fields = Fields \/ (x.replace => x.loaded /\ x.known = NoDocument)
      /\ y.value = x.value /\ y.known = x.known /\ y.loaded = x.loaded
  BY <1>0, <1>1 DEF SameButCall, Ready, Shows
<1>3. PhaseOK(y)
  BY <1>2 DEF PhaseOK
<1>4. CASE x.queue = {}
  <2>1. y.queue = {} /\ y.replace = x.replace /\ y.call = NoCall
    BY <1>1, <1>4
  <2>2. CallOK(y) /\ ShownOK(y) /\ TouchedOK(y, fields)
    BY <1>2, <1>4, <2>1 DEF CallOK, ShownOK, TouchedOK, Sending
  <2> QED
    BY <1>1, <1>2, <1>3, <2>2 DEF TabOK, y
<1>5. CASE x.queue # {} /\ x.loaded
  <2>1. /\ y.queue = {} /\ y.replace = FALSE
        /\ y.call \in Call /\ y.call # NoCall
        /\ y.call.kind = IF x.replace \/ x.known = NoDocument THEN "put" ELSE "patch"
        /\ y.call.fields = x.queue /\ y.call.cells = Patch(x, x.queue)
        /\ y.call.body = x.value /\ y.call.status = "asked"
    BY <1>1, <1>5
  <2>2. CallOK(y)
    <3>1. y.call.kind # "get"
      BY <2>1
    <3>2. y.call.kind = "patch" =>
            /\ y.known # NoDocument
            /\ y.call.cells = {c \in CellsOf(y.call.fields) :
                 c \in Plain \/ (y.call.body[c] # Default /\ y.call.body[c] # y.known[c])}
      BY <1>2, <2>1 DEF Patch
    <3> QED
      BY <1>2, <1>5, <2>1, <3>1, <3>2 DEF CallOK
  <2>3. ShownOK(y)
    BY <1>2, <2>1 DEF ShownOK, Sending
  <2>4. TouchedOK(y, fields)
    <3>1. Sending(y) = x.queue
      BY <2>1 DEF Sending
    <3>2. fields = Fields \/ (y.call.kind = "put" => y.known = NoDocument)
      BY <1>2, <2>1
    <3> QED
      BY <1>2, <2>1, <3>1, <3>2 DEF TouchedOK
  <2> QED
    BY <1>1, <1>2, <1>3, <2>2, <2>3, <2>4 DEF TabOK, y
<1>6. CASE x.queue # {} /\ ~x.loaded
  <2>1. y.queue = x.queue /\ y.replace = x.replace /\ y.call = Get
    BY <1>1, <1>6
  <2>2. CallOK(y)
    BY <1>2, <1>6, <2>1, GetParts DEF CallOK
  <2>3. ShownOK(y)
    BY <1>2, <2>1, GetParts DEF ShownOK, Sending
  <2>4. TouchedOK(y, fields)
    <3>1. Sending(y) = {} /\ y.call.kind # "put"
      BY <2>1, GetParts DEF Sending
    <3> QED
      BY <1>2, <1>6, <2>1, <3>1 DEF TouchedOK
  <2> QED
    BY <1>1, <1>2, <1>3, <2>2, <2>3, <2>4 DEF TabOK, y
<1> QED
  BY <1>0, <1>4, <1>5, <1>6

\* What Queue has before it looks whether a request is under way.
Queued(x, fields, replace) ==
  [x EXCEPT !.queue = @ \cup fields, !.replace = @ \/ replace]

\* Queue adds fields and goes on with the queue unless it must wait.
LEMMA QueueParts ==
  ASSUME NEW x \in Tab, NEW fields \in SUBSET Fields, NEW replace \in BOOLEAN
  PROVE  LET q == Queued(x, fields, replace)
         IN  /\ q \in Tab /\ SameButCall(x, q) /\ q.call = x.call
             /\ q.queue = x.queue \cup fields /\ q.replace = (x.replace \/ replace)
             /\ Queue(x, fields, replace) =
                  IF x.call # NoCall \/ x.retry THEN q ELSE Flush(q)
<1> DEFINE q == Queued(x, fields, replace)
<1>1. (x.replace \/ replace) \in BOOLEAN /\ x.queue \cup fields \subseteq Fields
  BY TabParts
<1>2. /\ q \in Tab /\ SameButCall(x, q) /\ q.call = x.call
      /\ q.queue = x.queue \cup fields /\ q.replace = (x.replace \/ replace)
  BY <1>1 DEF Queued, Tab, SameButCall
<1>3. Queue(x, fields, replace) = IF x.call # NoCall \/ x.retry THEN q ELSE Flush(q)
  BY DEF Queue, Queued
<1> QED
  BY <1>2, <1>3

\* x with edits in the fields fs, which are queued.
Changes(x, y, fs, replace) ==
  /\ y \in Tab
  /\ y.phase = x.phase /\ y.loaded = x.loaded /\ y.known = x.known /\ y.call = x.call
  /\ y.pending = x.pending \cup fs /\ y.queue = x.queue \cup fs
  /\ y.replace = (x.replace \/ replace)
  /\ \A c \in Cells : FieldOf(c) \in fs \/ y.value[c] = x.value[c]

\* An edit keeps a tab in order, or lets it go on with its queue.
LEMMA ChangeIsOK ==
  ASSUME NEW x, NEW y, NEW fields \in SUBSET Fields, NEW fs \in SUBSET Fields,
         NEW replace \in BOOLEAN,
         TabOK(x, fields), x.phase = "live", Changes(x, y, fs, replace),
         replace => fs = Fields
  PROVE  /\ x.call = NoCall => Ready(y, fields \cup fs)
         /\ (x.call # NoCall \/ y.retry) => TabOK(y, fields \cup fs)
<1>1. /\ x \in Tab /\ y \in Tab /\ y.phase = "live" /\ y.replace \in BOOLEAN
      /\ x.replace \in BOOLEAN /\ x.loaded \in BOOLEAN
  BY TabParts DEF TabOK, Changes
<1>2. /\ y.loaded = x.loaded /\ y.known = x.known /\ y.call = x.call
      /\ y.pending = x.pending \cup fs /\ y.queue = x.queue \cup fs
      /\ \A c \in Cells : FieldOf(c) \in fs \/ y.value[c] = x.value[c]
  BY DEF Changes
<1>3. PhaseOK(x) /\ CallOK(x) /\ Shows(x) /\ x.pending \subseteq x.queue \cup Sending(x)
      /\ TouchedOK(x, fields)
  BY DEF TabOK, ShownOK
<1>4. Sending(y) = Sending(x)
  BY <1>2 DEF Sending
<1>5. Shows(y) /\ y.pending \subseteq y.queue \cup Sending(y)
  BY <1>2, <1>3, <1>4 DEF Shows
<1>6. PhaseOK(y)
  BY <1>1, <1>2, <1>3 DEF PhaseOK
<1>7. CallOK(y)
  <2>1. x.call = NoCall => CallOK(y)
    BY <1>2 DEF CallOK
  <2>2. ASSUME x.call # NoCall
        PROVE  CallOK(y)
    <3>1. x.call.kind # "get" => \A c \in Cells :
            FieldOf(c) \in y.queue \cap y.pending \/ y.value[c] = y.call.body[c]
      BY <1>2, <1>3, <2>2 DEF CallOK
    <3> QED
      BY <1>1, <1>2, <1>3, <2>2, <3>1 DEF CallOK
  <2> QED
    BY <2>1, <2>2
<1>8. fields \cup fs = Fields \/ (y.replace = x.replace /\ fields # Fields)
  <2>1. CASE replace
    BY <2>1
  <2>2. CASE ~replace
    <3>1. y.replace = x.replace
      BY <1>1, <2>2 DEF Changes
    <3> QED
      BY <3>1
  <2> QED
    BY <2>1, <2>2
<1>9. TouchedOK(y, fields \cup fs)
  <2>1. y.pending \cup y.queue \cup Sending(y) \subseteq fields \cup fs
    BY <1>2, <1>3, <1>4 DEF TouchedOK
  <2>2. CASE fields \cup fs = Fields
    BY <2>1, <2>2 DEF TouchedOK
  <2>3. CASE y.replace = x.replace /\ fields # Fields
    BY <1>2, <1>3, <2>1, <2>3 DEF TouchedOK
  <2> QED
    BY <1>8, <2>2, <2>3
<1>10. (x.call # NoCall \/ y.retry) => TabOK(y, fields \cup fs)
  <2>1. (x.call # NoCall \/ y.retry) => ShownOK(y)
    BY <1>2, <1>5 DEF ShownOK
  <2> QED
    BY <1>1, <1>6, <1>7, <1>9, <2>1 DEF TabOK
<1>11. ASSUME x.call = NoCall
       PROVE  Ready(y, fields \cup fs)
  <2>1. y.pending \subseteq y.queue
    BY <1>2, <1>5, <1>11 DEF Sending
  <2>2. y.queue \subseteq fields \cup fs
    BY <1>9 DEF TouchedOK
  <2>3. fields \cup fs = Fields \/ (y.replace => y.loaded /\ y.known = NoDocument)
    BY <1>9 DEF TouchedOK
  <2> QED
    BY <1>1, <1>5, <1>6, <2>1, <2>2, <2>3 DEF Ready, PhaseOK
<1> QED
  BY <1>10, <1>11

\* hydrate changes only what is not pending.
LEMMA HydratedParts ==
  ASSUME NEW x \in Tab, NEW document \in Documents
  PROVE  LET y == Hydrated(x, document)
         IN  /\ y \in Tab
             /\ y.phase = x.phase /\ y.hadLocal = x.hadLocal /\ y.pending = x.pending
             /\ y.queue = x.queue /\ y.replace = x.replace /\ y.retry = x.retry
             /\ y.loaded = x.loaded /\ y.known = x.known /\ y.call = x.call
             /\ \A c \in Cells :
                  y.value[c] = IF FieldOf(c) \in x.pending THEN x.value[c] ELSE document[c]
<1> DEFINE v == [c \in Cells |-> IF FieldOf(c) \in x.pending THEN x.value[c] ELSE document[c]]
<1>1. v \in Documents
  BY TabParts DEF Documents
<1>2. \A c \in Cells : v[c] = IF FieldOf(c) \in x.pending THEN x.value[c] ELSE document[c]
  OBVIOUS
<1>3. Hydrated(x, document) = [x EXCEPT !.value = v]
  BY DEF Hydrated
<1> HIDE DEF v
<1>4. LET y == Hydrated(x, document)
      IN  /\ y \in Tab
          /\ y.phase = x.phase /\ y.hadLocal = x.hadLocal /\ y.pending = x.pending
          /\ y.queue = x.queue /\ y.replace = x.replace /\ y.retry = x.retry
          /\ y.loaded = x.loaded /\ y.known = x.known /\ y.call = x.call
          /\ y.value = v
  BY <1>1, <1>3 DEF Tab
<1> QED
  BY <1>2, <1>4

\* What the answer to a save makes of a tab: what is confirmed is not pending
\* any more, and what is not pending is the server's.
LEMMA SavedParts ==
  ASSUME NEW x \in Tab, x.call # NoCall, x.call.answer \in Documents
  PROVE  \E z \in Tab :
           /\ Saved(x) = Flush(z)
           /\ z.phase = x.phase /\ z.pending = x.pending \ Confirmed(x)
           /\ z.queue = x.queue /\ z.replace = x.replace /\ z.retry = x.retry
           /\ z.loaded = x.loaded /\ z.known = x.call.answer
           /\ \A c \in Cells :
                z.value[c] = IF FieldOf(c) \in z.pending THEN x.value[c] ELSE x.call.answer[c]
<1> DEFINE document == x.call.answer
           w == [x EXCEPT !.pending = @ \ Confirmed(x), !.known = document]
<1>1. /\ w \in Tab
      /\ w.phase = x.phase /\ w.pending = x.pending \ Confirmed(x)
      /\ w.queue = x.queue /\ w.replace = x.replace /\ w.retry = x.retry
      /\ w.loaded = x.loaded /\ w.known = document /\ w.value = x.value
  BY DEF Tab
<1>2. Saved(x) = Flush(Hydrated(w, document))
  BY DEF Saved
<1> HIDE DEF w
<1>3. LET z == Hydrated(w, document)
      IN  /\ z \in Tab
          /\ z.phase = x.phase /\ z.pending = x.pending \ Confirmed(x)
          /\ z.queue = x.queue /\ z.replace = x.replace /\ z.retry = x.retry
          /\ z.loaded = x.loaded /\ z.known = document
          /\ \A c \in Cells :
                z.value[c] = IF FieldOf(c) \in w.pending THEN x.value[c] ELSE document[c]
  BY <1>1, HydratedParts
<1> QED
  BY <1>1, <1>2, <1>3

\* What the document that was asked for makes of a tab.
LEMMA LoadedParts ==
  ASSUME NEW x \in Tab, x.call # NoCall, x.call.answer \in {NoDocument} \cup Documents
  PROVE  LET z == Loaded(x)
         IN  /\ z \in Tab
             /\ z.phase = x.phase /\ z.hadLocal = x.hadLocal /\ z.pending = x.pending
             /\ z.queue = x.queue /\ z.replace = x.replace /\ z.retry = x.retry
             /\ z.loaded = TRUE /\ z.known = x.call.answer /\ z.call = x.call
             /\ z.known = NoDocument => z.value = x.value
             /\ z.known # NoDocument => \A c \in Cells :
                  z.value[c] = IF FieldOf(c) \in x.pending THEN x.value[c] ELSE z.known[c]
<1> DEFINE document == x.call.answer
           w == [x EXCEPT !.loaded = TRUE, !.known = document]
<1>1. /\ w \in Tab
      /\ w.phase = x.phase /\ w.hadLocal = x.hadLocal /\ w.pending = x.pending
      /\ w.queue = x.queue /\ w.replace = x.replace /\ w.retry = x.retry
      /\ w.loaded = TRUE /\ w.known = document /\ w.value = x.value /\ w.call = x.call
  BY DEF Tab
<1>2. Loaded(x) = IF document = NoDocument THEN w ELSE Hydrated(w, document)
  BY DEF Loaded
<1> HIDE DEF w
<1>3. CASE document = NoDocument
  BY <1>1, <1>2, <1>3
<1>4. CASE document # NoDocument
  <2>1. document \in Documents
    BY <1>4
  <2>2. LET z == Hydrated(w, document)
        IN  /\ z \in Tab
            /\ z.phase = x.phase /\ z.hadLocal = x.hadLocal /\ z.pending = x.pending
            /\ z.queue = x.queue /\ z.replace = x.replace /\ z.retry = x.retry
            /\ z.loaded = TRUE /\ z.known = document /\ z.call = x.call
            /\ \A c \in Cells :
                 z.value[c] = IF FieldOf(c) \in x.pending THEN x.value[c] ELSE document[c]
    BY <1>1, <2>1, HydratedParts
  <2> QED
    BY <1>2, <1>4, <2>2
<1> QED
  BY <1>3, <1>4

\* A failed save is queued again.
LEMMA FailedParts ==
  ASSUME NEW x \in Tab, x.call # NoCall
  PROVE  LET y == Failed(x)
         IN  /\ y \in Tab
             /\ y.phase = x.phase /\ y.value = x.value /\ y.pending = x.pending
             /\ y.queue = x.queue \cup x.pending /\ y.call = NoCall /\ y.retry = TRUE
             /\ y.replace = (x.replace \/ x.call.kind = "put")
             /\ y.loaded = x.loaded /\ y.known = x.known
<1>1. (x.replace \/ x.call.kind = "put") \in BOOLEAN /\ x.queue \cup x.pending \subseteq Fields
  BY TabParts
<1> QED
  BY <1>1 DEF Failed, Tab

\* A failure leaves a live tab in order, with a retry to come.
LEMMA FailedIsOK ==
  ASSUME NEW x, NEW fields \in SUBSET Fields,
         TabOK(x, fields), x.phase = "live", x.call # NoCall
  PROVE  TabOK(Failed(x), fields)
<1> DEFINE y == Failed(x)
<1>1. x \in Tab /\ x.replace \in BOOLEAN /\ x.call \in Call /\ x.loaded \in BOOLEAN
  BY TabParts DEF TabOK
<1>2. /\ y \in Tab
      /\ y.phase = x.phase /\ y.value = x.value /\ y.pending = x.pending
      /\ y.queue = x.queue \cup x.pending /\ y.call = NoCall /\ y.retry = TRUE
      /\ y.replace = (x.replace \/ x.call.kind = "put")
      /\ y.loaded = x.loaded /\ y.known = x.known
  BY <1>1, FailedParts
<1> HIDE DEF y
<1>3. PhaseOK(y) /\ CallOK(y) /\ ShownOK(y)
  BY <1>2 DEF TabOK, PhaseOK, CallOK, ShownOK, Shows
<1>4. TouchedOK(y, fields)
  <2>1. y.pending \cup y.queue \cup Sending(y) \subseteq fields
    BY <1>2 DEF TabOK, TouchedOK, Sending
  <2>2. fields = Fields \/ (y.replace => y.loaded /\ y.known = NoDocument)
    <3>1. ASSUME fields # Fields, y.replace
          PROVE  y.loaded /\ y.known = NoDocument
      <4>1. ~x.replace
        BY <3>1 DEF TabOK, TouchedOK
      <4>2. x.call.kind = "put"
        BY <1>2, <3>1, <4>1
      <4> QED
        BY <1>2, <3>1, <4>2 DEF TabOK, TouchedOK, CallOK
    <3> QED
      BY <3>1
  <2> QED
    BY <1>2, <2>1, <2>2 DEF TouchedOK
<1> QED
  BY <1>2, <1>3, <1>4 DEF TabOK, y

\* The end of start(), for a tab that has or has not been answered.
LEMMA StartedParts ==
  ASSUME NEW x \in Tab, x.queue = {}, ~x.replace, ~x.retry
  PROVE  \E q \in Tab :
           /\ q.phase = "live" /\ q.value = x.value /\ q.pending = x.pending
           /\ q.retry = FALSE /\ q.loaded = x.loaded /\ q.known = x.known
           /\ q.queue = x.pending
           /\ q.replace => x.loaded /\ x.known = NoDocument
           /\ Started(x) = Flush(q) \/ (Started(x) = q /\ q.call = NoCall /\ q.pending = {})
<1> DEFINE live == [x EXCEPT !.phase = "live", !.call = NoCall]
           first == live.loaded /\ live.known = NoDocument
<1>1. /\ live \in Tab /\ live.phase = "live" /\ live.call = NoCall
      /\ live.value = x.value /\ live.pending = x.pending /\ live.retry = x.retry
      /\ live.loaded = x.loaded /\ live.known = x.known /\ live.queue = x.queue
      /\ live.replace = x.replace
  BY DEF Tab
<1>2. Started(x) = IF live.pending = {} THEN live ELSE Queue(live, live.pending, first)
  BY DEF Started
<1>3. x.replace = FALSE /\ x.retry = FALSE /\ x.pending \subseteq Fields /\ x.loaded \in BOOLEAN
  BY TabParts
<1> HIDE DEF live
<1>4. first = (x.loaded /\ x.known = NoDocument) /\ first \in BOOLEAN
  BY <1>1
<1> HIDE DEF first
<1>5. PICK b \in BOOLEAN : b = first
  BY <1>4
<1>6. CASE x.pending = {}
  BY <1>1, <1>2, <1>3, <1>6
<1>7. CASE x.pending # {}
  <2> DEFINE q == Queued(live, live.pending, b)
  <2>0. live \in Tab /\ live.pending \in SUBSET Fields /\ b \in BOOLEAN
    BY <1>1, <1>3, <1>4
  <2>1. /\ q \in Tab /\ SameButCall(live, q) /\ q.call = live.call
        /\ q.queue = live.queue \cup live.pending /\ q.replace = (live.replace \/ b)
        /\ Queue(live, live.pending, b) =
             IF live.call # NoCall \/ live.retry THEN q ELSE Flush(q)
    BY <2>0, QueueParts
  <2>2. Started(x) = Flush(q)
    BY <1>1, <1>2, <1>3, <1>7, <1>5, <2>1
  <2> QED
    BY <1>1, <1>3, <1>4, <1>5, <2>1, <2>2 DEF SameButCall
<1> QED
  BY <1>6, <1>7

\* A tab that starts, with or without the server's document, is in order.
LEMMA StartedIsOK ==
  ASSUME NEW x \in Tab, NEW fields \in SUBSET Fields,
         x.queue = {}, ~x.replace, ~x.retry, ~x.loaded => x.known = NoDocument,
         Shows(x), x.pending \subseteq fields
  PROVE  TabOK(Started(x), fields)
<1>1. PICK q \in Tab :
        /\ q.phase = "live" /\ q.value = x.value /\ q.pending = x.pending
        /\ q.retry = FALSE /\ q.loaded = x.loaded /\ q.known = x.known
        /\ q.queue = x.pending
        /\ q.replace => x.loaded /\ x.known = NoDocument
        /\ Started(x) = Flush(q) \/ (Started(x) = q /\ q.call = NoCall /\ q.pending = {})
  BY StartedParts
<1>2. Shows(q)
  BY <1>1 DEF Shows
<1>3. Ready(q, fields)
  BY <1>1, <1>2 DEF Ready
<1>4. CASE Started(x) = Flush(q)
  BY <1>3, <1>4, FlushIsOK
<1>5. CASE Started(x) = q /\ q.call = NoCall /\ q.pending = {}
  <2>1. PhaseOK(q) /\ CallOK(q)
    BY <1>1, <1>5 DEF PhaseOK, CallOK
  <2>2. ShownOK(q)
    BY <1>1, <1>2, <1>5 DEF ShownOK
  <2>3. TouchedOK(q, fields)
    BY <1>1, <1>5 DEF TouchedOK, Sending
  <2> QED
    BY <1>5, <2>1, <2>2, <2>3 DEF TabOK
<1> QED
  BY <1>1, <1>4, <1>5

\* What an answer leaves of a tab that opens.
LEMMA OpenedParts ==
  ASSUME NEW x \in Tab, x.call # NoCall, x.call.answer \in {NoDocument} \cup Documents
  PROVE  LET z == Opened(x)
         IN  /\ z \in Tab
             /\ z.queue = x.queue /\ z.replace = x.replace /\ z.retry = x.retry
             /\ z.loaded = TRUE /\ z.known = x.call.answer
             /\ z.known = NoDocument => z.value = x.value
             /\ z.known # NoDocument => \A c \in Cells :
                  z.value[c] = IF FieldOf(c) \in z.pending THEN x.value[c] ELSE z.known[c]
             /\ x.pending \subseteq z.pending
             /\ z.known # NoDocument \/ ~x.hadLocal => z.pending = x.pending
<1> DEFINE w == Loaded(x)
<1>1. /\ w \in Tab
      /\ w.phase = x.phase /\ w.hadLocal = x.hadLocal /\ w.pending = x.pending
      /\ w.queue = x.queue /\ w.replace = x.replace /\ w.retry = x.retry
      /\ w.loaded = TRUE /\ w.known = x.call.answer /\ w.call = x.call
      /\ w.known = NoDocument => w.value = x.value
      /\ w.known # NoDocument => \A c \in Cells :
           w.value[c] = IF FieldOf(c) \in x.pending THEN x.value[c] ELSE w.known[c]
  BY LoadedParts
<1>2. Opened(x) = IF w.known = NoDocument /\ x.hadLocal
                  THEN [w EXCEPT !.pending = Fields] ELSE w
  BY DEF Opened
<1>3. x.pending \subseteq Fields
  BY TabParts
<1> HIDE DEF w
<1>4. CASE w.known = NoDocument /\ x.hadLocal
  <2> DEFINE z == [w EXCEPT !.pending = Fields]
  <2>1. /\ z \in Tab /\ z.pending = Fields /\ z.queue = w.queue /\ z.replace = w.replace
        /\ z.retry = w.retry /\ z.loaded = w.loaded /\ z.known = w.known
        /\ z.value = w.value
    BY <1>1 DEF Tab
  <2>2. Opened(x) = z
    BY <1>2, <1>4
  <2> HIDE DEF z
  <2> QED
    BY <1>1, <1>3, <1>4, <2>1, <2>2
<1>5. CASE ~(w.known = NoDocument /\ x.hadLocal)
  BY <1>1, <1>2, <1>5
<1> QED
  BY <1>4, <1>5

\* A tab that opens is in order once it is answered.
LEMMA OpenedIsOK ==
  ASSUME NEW x, NEW fields \in SUBSET Fields, TabOK(x, fields),
         x.phase = "opening"
  PROVE  LET z == Opened(x)
         IN  TabOK(Started(z), z.pending)
<1> DEFINE z == Opened(x)
<1>1. /\ x \in Tab /\ x.call # NoCall /\ x.call \in Call
      /\ x.call.answer \in {NoDocument} \cup Documents
      /\ x.queue = {} /\ ~x.replace /\ ~x.retry
  BY TabParts, CallParts DEF TabOK, PhaseOK
<1>2. /\ z \in Tab
      /\ z.queue = x.queue /\ z.replace = x.replace /\ z.retry = x.retry
      /\ z.loaded = TRUE /\ z.known = x.call.answer
      /\ z.known # NoDocument => \A c \in Cells :
           z.value[c] = IF FieldOf(c) \in z.pending THEN x.value[c] ELSE z.known[c]
  BY <1>1, OpenedParts
<1> HIDE DEF z
<1>3. Shows(z) /\ z.pending \in SUBSET Fields
  BY <1>2, TabParts DEF Shows
<1> QED
  BY <1>1, <1>2, <1>3, StartedIsOK DEF z

\* A late answer to the load.
LEMMA LoadedIsReady ==
  ASSUME NEW x, NEW fields \in SUBSET Fields, TabOK(x, fields), x.phase = "live",
         x.call # NoCall, x.call.kind = "get"
  PROVE  Ready(Loaded(x), fields)
<1> DEFINE z == Loaded(x)
<1>1. /\ x \in Tab /\ x.call \in Call /\ x.call.answer \in {NoDocument} \cup Documents
  BY TabParts, CallParts DEF TabOK
<1>2. /\ z \in Tab
      /\ z.phase = x.phase /\ z.pending = x.pending
      /\ z.queue = x.queue /\ z.replace = x.replace /\ z.loaded = TRUE
      /\ z.known # NoDocument => \A c \in Cells :
           z.value[c] = IF FieldOf(c) \in x.pending THEN x.value[c] ELSE z.known[c]
  BY <1>1, LoadedParts
<1> HIDE DEF z
<1>3. Shows(z)
  BY <1>2 DEF Shows
<1>4. Sending(x) = {}
  BY DEF Sending, TabOK, CallOK
<1>5. x.pending \subseteq x.queue /\ x.queue \subseteq fields
  BY <1>4 DEF TabOK, ShownOK, TouchedOK
<1>6. fields = Fields \/ ~x.replace
  BY DEF TabOK, TouchedOK
<1> QED
  BY <1>2, <1>3, <1>5, <1>6 DEF Ready, z

\* What a save was answered with is a document.
LEMMA AnswerIsDocument ==
  ASSUME NEW x, NEW fields, TabOK(x, fields),
         x.call # NoCall, x.call.kind # "get", x.call.status = "answered"
  PROVE  x \in Tab /\ x.call \in Call /\ x.call.answer \in Documents /\ x.phase = "live"
<1>1. x \in Tab /\ x.call \in Call
  BY TabParts DEF TabOK
<1>2. /\ x.call.kind \in {"patch", "put"} /\ x.call.body \in Documents
      /\ x.call.answer \in {NoDocument} \cup Documents
  BY <1>1, CallParts
<1> QED
  BY <1>1, <1>2 DEF TabOK, CallOK

\* The answer to a save: what it confirms is what was not edited since.
LEMMA SavedIsReady ==
  ASSUME NEW x, NEW fields \in SUBSET Fields, TabOK(x, fields),
         x.call # NoCall, x.call.kind # "get",
         NEW z \in Tab, z.phase = x.phase, x.phase = "live",
         z.pending = x.pending \ Confirmed(x),
         z.queue = x.queue, z.replace = x.replace, z.loaded = x.loaded,
         z.known = x.call.answer,
         \A c \in Cells :
           z.value[c] = IF FieldOf(c) \in z.pending THEN x.value[c] ELSE x.call.answer[c]
  PROVE  Ready(z, fields)
<1>1. Shows(z)
  BY DEF Shows
<1>2. z.pending \subseteq x.queue
  <2> SUFFICES ASSUME NEW f \in x.pending, f \notin x.queue
               PROVE  f \in Confirmed(x)
    OBVIOUS
  <2>1. f \in x.call.fields
    BY DEF TabOK, ShownOK, Sending
  <2>2. \A c \in CellsOf({f}) : x.value[c] = x.call.body[c]
    BY FieldFacts DEF TabOK, CallOK
  <2> QED
    BY <2>1, <2>2 DEF Confirmed
<1>3. x.queue \subseteq fields /\ (fields = Fields \/ ~x.replace)
  BY DEF TabOK, TouchedOK
<1>4. z.loaded
  BY DEF TabOK, CallOK
<1> QED
  BY <1>1, <1>2, <1>3, <1>4 DEF Ready

-----------------------------------------------------------------------------
(* The server *)

\* What the server makes of a request k, and what it answers.
LEMMA HandledParts ==
  ASSUME server \in {NoDocument} \cup Documents, NEW k \in Call
  PROVE  LET a == Answer(k)
         IN  /\ a \in Call /\ a.kind = k.kind /\ a.fields = k.fields
             /\ a.cells = k.cells /\ a.body = k.body
             /\ Handled(k) \in {NoDocument} \cup Documents
             /\ \/ a.status = "refused" /\ Handled(k) = server
                \/ /\ a.status = "answered" /\ a.answer = Handled(k)
                   /\ \/ k.kind = "get" /\ Handled(k) = server
                      \/ k.kind = "put" /\ Handled(k) = k.body
                      \/ /\ k.kind = "patch" /\ server # NoDocument
                         /\ Handled(k) # NoDocument
                         /\ \A c \in Cells : Handled(k)[c] =
                              IF c \in k.cells THEN k.body[c] ELSE server[c]
<1>0. /\ k.kind \in {"get", "patch", "put"} /\ k.body \in Documents
  BY CallParts
<1>2. LET a == [k EXCEPT !.status = "refused"]
      IN  /\ a \in Call /\ a.kind = k.kind /\ a.fields = k.fields
          /\ a.cells = k.cells /\ a.body = k.body /\ a.status = "refused"
  BY DEF Call
<1>3. CASE k.kind # "get" /\ Refuses(k)
  BY <1>2, <1>3 DEF Answer, Handled
<1>4. CASE k.kind = "get"
  <2> DEFINE a == [k EXCEPT !.status = "answered", !.answer = server]
  <2>0. /\ a \in Call /\ a.kind = k.kind /\ a.fields = k.fields
        /\ a.cells = k.cells /\ a.body = k.body
        /\ a.status = "answered" /\ a.answer = server
    BY <1>4 DEF Call
  <2> HIDE DEF a
  <2>1. Handled(k) = server /\ Answer(k) = a
    BY <1>4 DEF Answer, Handled, a
  <2> QED
    BY <1>4, <2>1, <2>0
<1>5. CASE k.kind = "put" /\ ~Refuses(k)
  <2> DEFINE a == [k EXCEPT !.status = "answered", !.answer = k.body]
  <2>0. /\ a \in Call /\ a.kind = k.kind /\ a.fields = k.fields
        /\ a.cells = k.cells /\ a.body = k.body
        /\ a.status = "answered" /\ a.answer = k.body
    BY <1>0 DEF Call
  <2> HIDE DEF a
  <2>1. Handled(k) = k.body /\ Answer(k) = a
    BY <1>5 DEF Answer, Handled, a
  <2> QED
    BY <1>0, <1>5, <2>1, <2>0
<1>6. CASE k.kind = "patch" /\ ~Refuses(k)
  <2>2. server # NoDocument /\ server \in Documents
    BY <1>6 DEF Refuses
  <2>3. /\ Merged(k) \in Documents
        /\ \A c \in Cells : Merged(k)[c] = IF c \in k.cells THEN k.body[c] ELSE server[c]
    BY <1>0, <2>2 DEF Merged, Documents
  <2>4. Merged(k) # NoDocument
    BY <2>3
  <2> DEFINE a == [k EXCEPT !.status = "answered", !.answer = Merged(k)]
  <2>0. /\ a \in Call /\ a.kind = k.kind /\ a.fields = k.fields
        /\ a.cells = k.cells /\ a.body = k.body
        /\ a.status = "answered" /\ a.answer = Merged(k)
    BY <2>3 DEF Call
  <2> HIDE DEF a
  <2>1. Handled(k) = Merged(k) /\ Answer(k) = a
    BY <1>6 DEF Answer, Handled, a
  <2> QED
    BY <1>6, <2>1, <2>2, <2>3, <2>4, <2>0
<1> QED
  BY <1>0, <1>3, <1>4, <1>5, <1>6

\* A tab whose request was handled.
LEMMA HandledIsOK ==
  ASSUME server \in {NoDocument} \cup Documents,
         NEW x, NEW fields, TabOK(x, fields), x.call # NoCall
  PROVE  LET y == [x EXCEPT !.call = Answer(@)]
         IN  /\ TabOK(y, fields) /\ y.call = Answer(x.call) /\ y.call # NoCall
             /\ y.phase = x.phase /\ y.value = x.value /\ y.pending = x.pending
             /\ y.replace = x.replace /\ y.known = x.known
<1> DEFINE y == [x EXCEPT !.call = Answer(x.call)]
           k == x.call
           a == Answer(x.call)
<1>1. x \in Tab /\ k \in Call
  BY TabParts DEF TabOK
<1>2. /\ a \in Call /\ a.kind = k.kind /\ a.fields = k.fields
      /\ a.cells = k.cells /\ a.body = k.body
      /\ \/ a.status = "refused"
         \/ /\ a.status = "answered" /\ a.answer = Handled(k)
            /\ \/ k.kind = "get" /\ Handled(k) = server
               \/ k.kind = "put" /\ Handled(k) = k.body
               \/ /\ k.kind = "patch" /\ server # NoDocument
                  /\ Handled(k) # NoDocument
                  /\ \A c \in Cells : Handled(k)[c] =
                       IF c \in k.cells THEN k.body[c] ELSE server[c]
  BY <1>1, HandledParts
<1> HIDE DEF a
<1>3. /\ y \in Tab /\ y.call = a /\ a # NoCall
      /\ y.phase = x.phase /\ y.value = x.value /\ y.pending = x.pending
      /\ y.replace = x.replace /\ y.known = x.known /\ y.queue = x.queue
      /\ y.retry = x.retry /\ y.loaded = x.loaded
  BY <1>1, <1>2 DEF Tab, a
<1>4. x.phase # "closed"
  BY <1>1 DEF TabOK, PhaseOK, Closed
<1> HIDE DEF y
<1>5. PhaseOK(y)
  BY <1>2, <1>3, <1>4 DEF TabOK, PhaseOK
<1>6. CallOK(y)
  <2>1. a.kind = "patch" /\ a.status = "answered" =>
          a.answer # NoDocument /\ \A c \in a.cells : a.answer[c] = a.body[c]
    BY <1>1, <1>2, CallParts
  <2>2. a.kind = "put" /\ a.status = "answered" => a.answer = a.body
    BY <1>2
  <2> QED
    BY <1>2, <1>3, <2>1, <2>2 DEF TabOK, CallOK
<1>7. Sending(y) = Sending(x)
  BY <1>2, <1>3 DEF Sending
<1>8. ShownOK(y)
  BY <1>3, <1>7 DEF TabOK, ShownOK, Shows
<1>9. TouchedOK(y, fields)
  BY <1>2, <1>3, <1>7 DEF TabOK, TouchedOK
<1>10. TabOK(y, fields)
  BY <1>3, <1>5, <1>6, <1>8, <1>9 DEF TabOK
<1> QED
  BY <1>3, <1>10 DEF y, a

-----------------------------------------------------------------------------
(* The tabs: TypeOK and TabsOK *)

\* e is x with edits in the fields fs, before they are queued.
Edits(x, e, fs) ==
  /\ e \in Tab
  /\ e.phase = x.phase /\ e.loaded = x.loaded /\ e.known = x.known /\ e.call = x.call
  /\ e.queue = x.queue /\ e.replace = x.replace
  /\ e.pending = x.pending \cup fs
  /\ \A c \in Cells : FieldOf(c) \in fs \/ e.value[c] = x.value[c]

\* Queueing an edit keeps a tab in order.
LEMMA QueueIsOK ==
  ASSUME NEW x, NEW e, NEW fields \in SUBSET Fields, NEW fs \in SUBSET Fields,
         NEW replace \in BOOLEAN,
         TabOK(x, fields), x.phase = "live", Edits(x, e, fs), replace => fs = Fields
  PROVE  TabOK(Queue(e, fs, replace), fields \cup fs)
<1> DEFINE q == Queued(e, fs, replace)
<1>1. /\ q \in Tab /\ SameButCall(e, q) /\ q.call = e.call
      /\ q.queue = e.queue \cup fs /\ q.replace = (e.replace \/ replace)
      /\ Queue(e, fs, replace) = IF e.call # NoCall \/ e.retry THEN q ELSE Flush(q)
  BY QueueParts, Z3 DEF Edits
<1> HIDE DEF q
<1>2. Changes(x, q, fs, replace)
  BY <1>1 DEF Changes, Edits, SameButCall
<1>3. /\ x.call = NoCall => Ready(q, fields \cup fs)
      /\ (x.call # NoCall \/ q.retry) => TabOK(q, fields \cup fs)
  BY <1>2, ChangeIsOK
<1>4. q.retry = e.retry /\ e.call = x.call
  BY <1>1 DEF SameButCall, Edits
<1>5. CASE e.call # NoCall \/ e.retry
  BY <1>1, <1>3, <1>4, <1>5
<1>6. CASE ~(e.call # NoCall \/ e.retry)
  <2>1. Ready(q, fields \cup fs) /\ Queue(e, fs, replace) = Flush(q)
    BY <1>1, <1>3, <1>4, <1>6
  <2>2. fields \cup fs \in SUBSET Fields
    OBVIOUS
  <2> QED
    BY <2>1, <2>2, FlushIsOK
<1> QED
  BY <1>5, <1>6

\* A step of one tab.
LEMMA OneTabMoves ==
  ASSUME TypeOK, TabsOK, NEW t \in Tabs, NEW y, NEW fields \in SUBSET Fields,
         TabOK(y, fields),
         tab' = [tab EXCEPT ![t] = y], touched' = [touched EXCEPT ![t] = fields]
  PROVE  /\ tab' \in [Tabs -> Tab] /\ touched' \in [Tabs -> SUBSET Fields]
         /\ TabsOK'
<1>1. y \in Tab
  BY DEF TabOK
<1>2. tab' \in [Tabs -> Tab] /\ touched' \in [Tabs -> SUBSET Fields]
  BY <1>1 DEF TypeOK
<1>3. ASSUME NEW u \in Tabs
      PROVE  TabOK(tab'[u], touched'[u])
  BY <1>3 DEF TypeOK, TabsOK
<1> QED
  BY <1>2, <1>3 DEF TabsOK

\* A step of one tab that touches no more fields.
LEMMA OneTabSteps ==
  ASSUME TypeOK, TabsOK, NEW t \in Tabs, NEW y, TabOK(y, touched[t]),
         tab' = [tab EXCEPT ![t] = y], touched' = touched
  PROVE  /\ tab' \in [Tabs -> Tab] /\ touched' \in [Tabs -> SUBSET Fields]
         /\ TabsOK'
<1>1. touched[t] \in SUBSET Fields /\ touched' = [touched EXCEPT ![t] = touched[t]]
  BY DEF TypeOK
<1> QED
  BY <1>1, OneTabMoves

\* The document after a request is one.
LEMMA HandledIsDocument ==
  ASSUME TypeOK, NEW t \in Tabs, Asked(t)
  PROVE  Handled(tab[t].call) \in {NoDocument} \cup Documents
<1>1. tab[t].call \in Call /\ server \in {NoDocument} \cup Documents
  BY TabParts DEF TypeOK, Asked, Has
<1> QED
  BY <1>1, HandledParts

\* What a tab finds in localStorage, field by field.
LEMMA FoundParts ==
  ASSUME TypeOK
  PROVE  LET y == [Found EXCEPT !.phase = "opening", !.call = Get]
         IN  /\ y \in Tab /\ y.phase = "opening" /\ y.call = Get
             /\ y.value = IF stored = NoDocument THEN Defaults ELSE stored
             /\ y.pending = storedPending /\ y.queue = {} /\ y.replace = FALSE
             /\ y.retry = FALSE /\ y.loaded = FALSE /\ y.known = NoDocument
<1> DEFINE y == [Found EXCEPT !.phase = "opening", !.call = Get]
           v == IF stored = NoDocument THEN Defaults ELSE stored
           h == stored # NoDocument
<1>1. v \in Documents /\ h \in BOOLEAN /\ storedPending \subseteq Fields
  BY FieldFacts DEF TypeOK
<1>2. /\ Closed \in Tab /\ Closed.queue = {} /\ Closed.replace = FALSE
      /\ Closed.retry = FALSE /\ Closed.loaded = FALSE /\ Closed.known = NoDocument
  BY FieldFacts DEF Closed, Tab
<1>3. Found = [Closed EXCEPT !.value = v, !.hadLocal = h, !.pending = storedPending]
  BY DEF Found
<1> HIDE DEF v, h
<1>4. /\ Found \in Tab /\ Found.value = v /\ Found.pending = storedPending
      /\ Found.queue = {} /\ Found.replace = FALSE
      /\ Found.retry = FALSE /\ Found.loaded = FALSE /\ Found.known = NoDocument
  BY <1>1, <1>2, <1>3 DEF Tab
<1>5. /\ y \in Tab /\ y.phase = "opening" /\ y.call = Get
      /\ y.value = v
      /\ y.pending = storedPending /\ y.queue = {} /\ y.replace = FALSE
      /\ y.retry = FALSE /\ y.loaded = FALSE /\ y.known = NoDocument
  BY <1>4, GetParts DEF Tab
<1> HIDE DEF y
<1> QED
  BY <1>5 DEF y, v

\* A closed tab is in order.
LEMMA ClosedIsOK == TabOK(Closed, {})
<1>1. /\ Closed \in Tab /\ Closed.phase = "closed" /\ Closed.pending = {} /\ Closed.queue = {}
      /\ Closed.replace = FALSE /\ Closed.known = NoDocument /\ Closed.call = NoCall
  BY FieldFacts DEF Closed, Tab
<1> QED
  BY <1>1 DEF TabOK, PhaseOK, CallOK, ShownOK, TouchedOK, Sending

\* Open preserves TypeOK and TabsOK.
LEMMA OpenKeepsTabs ==
  ASSUME TypeOK, TabsOK, NEW t \in Tabs, Open(t)
  PROVE  TypeOK' /\ TabsOK'
<1> DEFINE y == [Found EXCEPT !.phase = "opening", !.call = Get]
<1>1. /\ tab' = [tab EXCEPT ![t] = y] /\ touched' = [touched EXCEPT ![t] = storedPending]
      /\ together' \in BOOLEAN
      /\ UNCHANGED <<storage, server, acts, lost, last, unsure>>
  <2>1. (together \/ \E u \in Tabs \ {t} : tab[u].phase # "closed") \in BOOLEAN
    OBVIOUS
  <2> QED
    BY <2>1 DEF Open
<1>2. /\ y \in Tab /\ y.phase = "opening" /\ y.call = Get
      /\ y.pending = storedPending /\ y.queue = {} /\ y.replace = FALSE
      /\ y.retry = FALSE /\ y.loaded = FALSE /\ y.known = NoDocument
  BY FoundParts
<1> HIDE DEF y
<1>3. TabOK(y, storedPending)
  BY <1>2, GetParts DEF TabOK, PhaseOK, CallOK, ShownOK, TouchedOK, Sending
<1>4. storedPending \in SUBSET Fields
  BY DEF TypeOK
<1>5. tab' \in [Tabs -> Tab] /\ touched' \in [Tabs -> SUBSET Fields] /\ TabsOK'
  BY <1>1, <1>3, <1>4, OneTabMoves
<1> QED
  BY <1>1, <1>5 DEF TypeOK, storage

\* Close preserves them.
LEMMA CloseKeepsTabs ==
  ASSUME TypeOK, TabsOK, NEW t \in Tabs, Close(t)
  PROVE  TypeOK' /\ TabsOK'
<1>1. /\ tab' = [tab EXCEPT ![t] = Closed] /\ touched' = [touched EXCEPT ![t] = {}]
      /\ Acts
      /\ server' = server \/ (Asked(t) /\ server' = Handled(tab[t].call))
      /\ UNCHANGED <<storage, lost, last, unsure, together>>
  BY DEF Close
<1>2. server' \in {NoDocument} \cup Documents
  BY <1>1, HandledIsDocument DEF TypeOK
<1>3. tab' \in [Tabs -> Tab] /\ touched' \in [Tabs -> SUBSET Fields] /\ TabsOK'
  BY <1>1, ClosedIsOK, OneTabMoves
<1>4. acts' \in 0 .. MaxActs
  BY <1>1 DEF Acts, TypeOK
<1> QED
  BY <1>1, <1>2, <1>3, <1>4 DEF TypeOK, storage

\* e shows what x does, but for v in the cell c.
OneCellIsSet(x, e, c, v) ==
  e.value[c] = v /\ \A d \in Cells : d # c => e.value[d] = x.value[d]

\* An edit of one cell, before it is queued.
LEMMA EditParts ==
  ASSUME NEW x \in Tab, NEW c \in Cells, NEW v \in Values
  PROVE  LET e == [x EXCEPT !.value[c] = v, !.pending = @ \cup {FieldOf(c)}]
         IN  /\ Edits(x, e, {FieldOf(c)}) /\ e.retry = x.retry
             /\ OneCellIsSet(x, e, c, v) /\ e.value \in Documents
<1> DEFINE w == [x.value EXCEPT ![c] = v]
           f == FieldOf(c)
           e == [x EXCEPT !.value[c] = v, !.pending = @ \cup {f}]
<1>1. f \in Fields /\ x.value \in Documents /\ x.pending \subseteq Fields
  BY FieldFacts, TabParts
<1>2. w \in Documents /\ w[c] = v /\ \A d \in Cells : d # c => w[d] = x.value[d]
  BY <1>1 DEF Documents
<1>3. e = [x EXCEPT !.value = w, !.pending = x.pending \cup {f}]
  BY DEF Tab
<1> HIDE DEF w, e, f
<1>4. x.pending \cup {f} \subseteq Fields
  BY <1>1
<1>5. /\ e \in Tab
      /\ e.phase = x.phase /\ e.loaded = x.loaded /\ e.known = x.known /\ e.call = x.call
      /\ e.queue = x.queue /\ e.replace = x.replace /\ e.retry = x.retry
      /\ e.pending = x.pending \cup {f} /\ e.value = w
  BY <1>2, <1>3, <1>4 DEF Tab
<1>6. Edits(x, e, {f})
  BY <1>2, <1>5 DEF Edits, f
<1>7. OneCellIsSet(x, e, c, v)
  BY <1>2, <1>5 DEF OneCellIsSet
<1> QED
  BY <1>2, <1>5, <1>6, <1>7 DEF e, f

\* All defaults, before they are queued.
LEMMA ResetParts ==
  ASSUME NEW x \in Tab
  PROVE  LET e == [x EXCEPT !.value = Defaults, !.pending = Fields]
         IN  Edits(x, e, Fields) /\ e.retry = x.retry /\ e.value = Defaults
<1> DEFINE e == [x EXCEPT !.value = Defaults, !.pending = Fields]
<1>1. /\ e \in Tab
      /\ e.phase = x.phase /\ e.loaded = x.loaded /\ e.known = x.known /\ e.call = x.call
      /\ e.queue = x.queue /\ e.replace = x.replace /\ e.retry = x.retry
      /\ e.pending = Fields /\ e.value = Defaults
  BY FieldFacts DEF Tab
<1>2. x.pending \subseteq Fields
  BY TabParts
<1> HIDE DEF e
<1>3. Edits(x, e, Fields)
  BY <1>1, <1>2, FieldFacts DEF Edits
<1> QED
  BY <1>1, <1>3 DEF e

\* Edit preserves them, whatever the cell and the value.
LEMMA EditKeepsTabs ==
  ASSUME TypeOK, TabsOK, NEW t \in Tabs, NEW c \in Cells, NEW v \in Values, Edit(t, c, v)
  PROVE  TypeOK' /\ TabsOK'
<1> DEFINE x == tab[t]
           f == FieldOf(c)
           e == [x EXCEPT !.value[c] = v, !.pending = @ \cup {f}]
<1>1. /\ Acts /\ x.phase = "live" /\ tab' = [tab EXCEPT ![t] = Queue(e, {f}, FALSE)]
      /\ stored' = e.value /\ storedPending' = e.pending
      /\ touched' = [touched EXCEPT ![t] = touched[t] \cup {f}]
      /\ last' = [last EXCEPT ![c] = v]
      /\ UNCHANGED <<server, lost, unsure, together>>
  BY DEF Edit, Live, StoreBoth, TypeOK
<1>2. x \in Tab /\ TabOK(x, touched[t]) /\ touched[t] \in SUBSET Fields /\ {f} \in SUBSET Fields
  BY FieldFacts DEF TypeOK, TabsOK
<1>3. Edits(x, e, {f}) /\ e.value \in Documents
  BY <1>2, EditParts
<1> HIDE DEF x, e, f
<1>4. TabOK(Queue(e, {f}, FALSE), touched[t] \cup {f})
  BY <1>1, <1>2, <1>3, QueueIsOK
<1>5. tab' \in [Tabs -> Tab] /\ touched' \in [Tabs -> SUBSET Fields] /\ TabsOK'
  <2>1. touched[t] \cup {f} \in SUBSET Fields
    BY <1>2
  <2> QED
    BY <1>1, <1>4, <2>1, OneTabMoves
<1>6. e.pending \subseteq Fields
  BY <1>3, TabParts DEF Edits
<1>7. last' \in [Cells -> Values \cup {NoValue}] /\ acts' \in 0 .. MaxActs
  BY <1>1 DEF TypeOK, Acts
<1> QED
  BY <1>1, <1>3, <1>5, <1>6, <1>7 DEF TypeOK

\* Reset preserves them.
LEMMA ResetKeepsTabs ==
  ASSUME TypeOK, TabsOK, NEW t \in Tabs, Reset(t)
  PROVE  TypeOK' /\ TabsOK'
<1> DEFINE x == tab[t]
           e == [x EXCEPT !.value = Defaults, !.pending = Fields]
<1>1. /\ Acts /\ x.phase = "live" /\ tab' = [tab EXCEPT ![t] = Queue(e, Fields, TRUE)]
      /\ stored' = e.value /\ storedPending' = e.pending
      /\ touched' = [touched EXCEPT ![t] = Fields]
      /\ last' = Defaults
      /\ UNCHANGED <<server, lost, unsure, together>>
  BY DEF Reset, Live, StoreBoth
<1>2. x \in Tab /\ TabOK(x, touched[t]) /\ touched[t] \in SUBSET Fields
  BY DEF TypeOK, TabsOK
<1>3. Edits(x, e, Fields) /\ e.value = Defaults
  BY <1>2, ResetParts
<1> HIDE DEF x, e
<1>4. TabOK(Queue(e, Fields, TRUE), touched[t] \cup Fields) /\ touched[t] \cup Fields = Fields
  BY <1>1, <1>2, <1>3, QueueIsOK
<1>5. tab' \in [Tabs -> Tab] /\ touched' \in [Tabs -> SUBSET Fields] /\ TabsOK'
  BY <1>1, <1>4, OneTabMoves
<1>6. e.pending \subseteq Fields
  BY <1>3, TabParts DEF Edits
<1>7. Defaults \in Documents /\ Defaults \in [Cells -> Values \cup {NoValue}]
  BY FieldFacts DEF Defaults
<1>8. acts' \in 0 .. MaxActs
  BY <1>1 DEF TypeOK, Acts
<1> QED
  BY <1>1, <1>3, <1>5, <1>6, <1>7, <1>8 DEF TypeOK

\* ServerHandles preserves them.
LEMMA HandleKeepsTabs ==
  ASSUME TypeOK, TabsOK, NEW t \in Tabs, ServerHandles(t)
  PROVE  TypeOK' /\ TabsOK'
<1> DEFINE x == tab[t]
           y == [x EXCEPT !.call = Answer(@)]
<1>1. /\ x \in Tab /\ x.call # NoCall /\ server' = Handled(x.call)
      /\ UNCHANGED <<storage, acts, lost, touched, last, unsure, together>>
      /\ TabOK(x, touched[t]) /\ server \in {NoDocument} \cup Documents
  BY DEF ServerHandles, Asked, Has, TypeOK, TabsOK
<1>2. tab' = [tab EXCEPT ![t] = y]
  BY DEF ServerHandles, TypeOK
<1>3. TabOK(y, touched[t])
  BY <1>1, HandledIsOK
<1>4. Handled(x.call) \in {NoDocument} \cup Documents
  BY HandledIsDocument DEF ServerHandles
<1> HIDE DEF x, y
<1>5. tab' \in [Tabs -> Tab] /\ touched' \in [Tabs -> SUBSET Fields] /\ TabsOK'
  BY <1>1, <1>2, <1>3, OneTabSteps
<1> QED
  BY <1>1, <1>4, <1>5 DEF TypeOK, storage

\* OpenAnswered preserves them.
LEMMA OpenAnsweredKeepsTabs ==
  ASSUME TypeOK, TabsOK, NEW t \in Tabs, OpenAnswered(t)
  PROVE  TypeOK' /\ TabsOK'
<1> DEFINE x == tab[t]
           z == Opened(x)
<1>1. /\ x \in Tab /\ x.phase = "opening" /\ x.call # NoCall
      /\ tab' = [tab EXCEPT ![t] = Started(z)]
      /\ stored' = (IF z.known = NoDocument THEN stored ELSE z.value)
      /\ storedPending' = (IF z.known = NoDocument /\ x.hadLocal
                           THEN z.pending ELSE storedPending)
      /\ touched' = [touched EXCEPT ![t] = z.pending]
      /\ UNCHANGED <<server, acts, lost, last, unsure, together>>
      /\ TabOK(x, touched[t]) /\ touched[t] \in SUBSET Fields
  BY DEF OpenAnswered, Answered, Has, TypeOK, TabsOK
<1>2. x.call.answer \in {NoDocument} \cup Documents
  BY <1>1, TabParts, CallParts
<1>3. z \in Tab
  BY <1>1, <1>2, OpenedParts
<1>4. TabOK(Started(z), z.pending)
  BY <1>1, OpenedIsOK
<1> HIDE DEF x, z
<1>5. z.value \in Documents /\ z.pending \in SUBSET Fields
  BY <1>3, TabParts
<1>6. tab' \in [Tabs -> Tab] /\ touched' \in [Tabs -> SUBSET Fields] /\ TabsOK'
  BY <1>1, <1>4, <1>5, OneTabMoves
<1> QED
  BY <1>1, <1>5, <1>6 DEF TypeOK

\* LoadAnswered preserves them.
LEMMA LoadAnsweredKeepsTabs ==
  ASSUME TypeOK, TabsOK, NEW t \in Tabs, LoadAnswered(t)
  PROVE  TypeOK' /\ TabsOK'
<1> DEFINE x == tab[t]
           z == Loaded(x)
<1>1. /\ x \in Tab /\ x.phase = "live" /\ x.call # NoCall /\ x.call.kind = "get"
      /\ tab' = [tab EXCEPT ![t] = Flush(z)]
      /\ stored' = (IF z.known = NoDocument THEN stored ELSE z.value)
      /\ UNCHANGED <<storedPending, server, acts, lost, touched, last, unsure, together>>
      /\ TabOK(x, touched[t]) /\ touched[t] \in SUBSET Fields
  BY DEF LoadAnswered, Answered, Has, Live, TypeOK, TabsOK
<1>2. Ready(z, touched[t])
  BY <1>1, LoadedIsReady
<1> HIDE DEF x, z
<1>3. TabOK(Flush(z), touched[t])
  BY <1>1, <1>2, FlushIsOK
<1>4. z.value \in Documents
  BY <1>2, TabParts DEF Ready
<1>5. tab' \in [Tabs -> Tab] /\ touched' \in [Tabs -> SUBSET Fields] /\ TabsOK'
  BY <1>1, <1>3, OneTabSteps
<1> QED
  BY <1>1, <1>4, <1>5 DEF TypeOK

\* SaveAnswered preserves them.
LEMMA SaveAnsweredKeepsTabs ==
  ASSUME TypeOK, TabsOK, NEW t \in Tabs, SaveAnswered(t)
  PROVE  TypeOK' /\ TabsOK'
<1> DEFINE x == tab[t]
           y == Saved(x)
<1>1. /\ x \in Tab /\ x.phase = "live" /\ x.call # NoCall /\ x.call.kind # "get"
      /\ x.call.status = "answered"
      /\ tab' = [tab EXCEPT ![t] = y]
      /\ stored' = y.value /\ storedPending' = y.pending
      /\ UNCHANGED <<server, acts, lost, touched, last, unsure, together>>
      /\ TabOK(x, touched[t]) /\ touched[t] \in SUBSET Fields
  BY DEF SaveAnswered, Answered, Has, Live, StoreBoth, TypeOK, TabsOK
<1> HIDE DEF x
<1>2. x.call.answer \in Documents
  BY <1>1, AnswerIsDocument
<1>3. PICK z \in Tab :
        /\ y = Flush(z)
        /\ z.phase = x.phase /\ z.pending = x.pending \ Confirmed(x)
        /\ z.queue = x.queue /\ z.replace = x.replace /\ z.retry = x.retry
        /\ z.loaded = x.loaded /\ z.known = x.call.answer
        /\ \A c \in Cells :
             z.value[c] = IF FieldOf(c) \in z.pending THEN x.value[c] ELSE x.call.answer[c]
  BY <1>1, <1>2, SavedParts
<1> HIDE DEF y
<1>4. Ready(z, touched[t])
  BY <1>1, <1>3, SavedIsReady
<1>5. TabOK(y, touched[t])
  BY <1>1, <1>3, <1>4, FlushIsOK
<1>6. y.value \in Documents /\ y.pending \subseteq Fields
  BY <1>5, TabParts DEF TabOK
<1>7. tab' \in [Tabs -> Tab] /\ touched' \in [Tabs -> SUBSET Fields] /\ TabsOK'
  BY <1>1, <1>5, OneTabSteps
<1> QED
  BY <1>1, <1>6, <1>7 DEF TypeOK

\* A failed request.
LEMMA FailKeepsTabs ==
  ASSUME TypeOK, TabsOK, NEW t \in Tabs, tab[t].call # NoCall, Fail(t), touched' = touched
  PROVE  tab' \in [Tabs -> Tab] /\ touched' \in [Tabs -> SUBSET Fields] /\ TabsOK'
<1> DEFINE x == tab[t]
           y == IF x.phase = "live" THEN Failed(x) ELSE Started(x)
<1>1. /\ x \in Tab /\ x.call # NoCall /\ tab' = [tab EXCEPT ![t] = y]
      /\ TabOK(x, touched[t]) /\ touched[t] \in SUBSET Fields
  BY DEF Fail, Live, TypeOK, TabsOK
<1> HIDE DEF x
<1>2. CASE x.phase = "live"
  <2>1. TabOK(y, touched[t])
    BY <1>1, <1>2, FailedIsOK
  <2> HIDE DEF y
  <2> QED
    BY <1>1, <2>1, OneTabSteps
<1>3. CASE x.phase # "live"
  <2>1. x.phase = "opening"
    BY <1>1, <1>3, TabParts DEF TabOK, PhaseOK, Closed
  <2>2. /\ x.queue = {} /\ ~x.replace /\ ~x.retry /\ ~x.loaded /\ x.known = NoDocument
    BY <1>1, <2>1 DEF TabOK, PhaseOK
  <2>3. Shows(x) /\ x.pending \subseteq touched[t]
    BY <1>1, <2>2 DEF Shows, TabOK, TouchedOK
  <2>4. TabOK(Started(x), touched[t])
    BY <1>1, <2>2, <2>3, StartedIsOK
  <2>5. y = Started(x)
    BY <1>3
  <2> HIDE DEF y
  <2> QED
    BY <1>1, <2>4, <2>5, OneTabSteps
<1> QED
  BY <1>2, <1>3

\* RetryFires preserves them.
LEMMA RetryKeepsTabs ==
  ASSUME TypeOK, TabsOK, NEW t \in Tabs, RetryFires(t)
  PROVE  TypeOK' /\ TabsOK'
<1> DEFINE x == tab[t]
           e == [x EXCEPT !.retry = FALSE]
<1>1. /\ x \in Tab /\ x.retry /\ tab' = [tab EXCEPT ![t] = Queue(e, {}, FALSE)]
      /\ UNCHANGED <<storage, server, acts, lost, touched, last, unsure, together>>
      /\ TabOK(x, touched[t]) /\ touched[t] \in SUBSET Fields
  BY DEF RetryFires, TypeOK, TabsOK
<1> HIDE DEF x
<1>2. x.phase = "live"
  BY <1>1, TabParts DEF TabOK, PhaseOK, Closed
<1>3. Edits(x, e, {})
  BY <1>1 DEF Edits, Tab
<1> HIDE DEF e
<1>4. TabOK(Queue(e, {}, FALSE), touched[t] \cup {}) /\ touched[t] \cup {} = touched[t]
  BY <1>1, <1>2, <1>3, QueueIsOK
<1>5. tab' \in [Tabs -> Tab] /\ touched' \in [Tabs -> SUBSET Fields] /\ TabsOK'
  BY <1>1, <1>4, OneTabSteps
<1> QED
  BY <1>1, <1>5 DEF TypeOK, storage

\* Every step preserves them.
LEMMA NextKeepsTabs ==
  ASSUME TypeOK, TabsOK, [Next]_vars
  PROVE  TypeOK' /\ TabsOK'
<1>1. ASSUME NEW t \in Tabs, UserStep(t) PROVE TypeOK' /\ TabsOK'
  BY <1>1, OpenKeepsTabs, CloseKeepsTabs, EditKeepsTabs, ResetKeepsTabs
     DEF UserStep, SetField, SetEntry
<1>2. ASSUME NEW t \in Tabs, ServerHandles(t) PROVE TypeOK' /\ TabsOK'
  BY <1>2, HandleKeepsTabs
<1>3. ASSUME NEW t \in Tabs, Refused(t) PROVE TypeOK' /\ TabsOK'
  <2>1. /\ tab[t].call # NoCall /\ Fail(t) /\ touched' = touched
        /\ UNCHANGED <<storage, server, acts, lost, touched, last, unsure, together>>
    BY <1>3 DEF Refused, Has
  <2>2. tab' \in [Tabs -> Tab] /\ touched' \in [Tabs -> SUBSET Fields] /\ TabsOK'
    BY <2>1, FailKeepsTabs
  <2> QED
    BY <2>1, <2>2 DEF TypeOK, storage
<1>4. ASSUME NEW t \in Tabs, CallLost(t) PROVE TypeOK' /\ TabsOK'
  <2>1. /\ tab[t].call # NoCall /\ Fail(t) /\ touched' = touched
        /\ lost < MaxLost /\ lost' = lost + 1
        /\ unsure' \subseteq unsure \cup Entries
        /\ UNCHANGED <<storage, server, acts, touched, last, together>>
    BY <1>4 DEF CallLost
  <2>2. tab' \in [Tabs -> Tab] /\ touched' \in [Tabs -> SUBSET Fields] /\ TabsOK'
    BY <2>1, FailKeepsTabs
  <2>3. lost' \in 0 .. MaxLost /\ unsure' \subseteq Entries
    BY <2>1 DEF TypeOK
  <2> QED
    BY <2>1, <2>2, <2>3 DEF TypeOK, storage
<1>5. ASSUME NEW t \in Tabs, TabStep(t) PROVE TypeOK' /\ TabsOK'
  BY <1>3, <1>5, OpenAnsweredKeepsTabs, LoadAnsweredKeepsTabs, SaveAnsweredKeepsTabs,
     RetryKeepsTabs DEF TabStep
<1>6. CASE UNCHANGED vars
  BY <1>6 DEF vars, storage, TypeOK, TabsOK
<1> QED
  BY <1>1, <1>2, <1>4, <1>5, <1>6 DEF Next

-----------------------------------------------------------------------------
(* What a step of one tab does to the others, and an answer to its tab *)

\* A step of the tab u.
StepOf(u) == UserStep(u) \/ ServerHandles(u) \/ TabStep(u) \/ CallLost(u)

\* It leaves the other tabs alone.
LEMMA OthersStay ==
  ASSUME TypeOK, NEW u \in Tabs, NEW t \in Tabs, StepOf(u), t # u
  PROVE  tab'[t] = tab[t]
<1>1. CASE UserStep(u)
  BY <1>1 DEF TypeOK, UserStep, Open, Close, SetField, SetEntry, Edit, Reset
<1>2. CASE ServerHandles(u)
  BY <1>2 DEF TypeOK, ServerHandles
<1>3. CASE TabStep(u)
  BY <1>3 DEF TypeOK, TabStep, OpenAnswered, LoadAnswered, SaveAnswered, Refused, Fail,
              RetryFires
<1>4. CASE CallLost(u)
  BY <1>4 DEF TypeOK, CallLost, Fail
<1> QED
  BY <1>1, <1>2, <1>3, <1>4 DEF StepOf

\* Queueing changes neither what is shown nor what is pending.
LEMMA QueueShows ==
  ASSUME NEW e \in Tab, NEW fs \in SUBSET Fields, NEW replace \in BOOLEAN
  PROVE  LET y == Queue(e, fs, replace)
         IN  y.value = e.value /\ y.pending = e.pending /\ y.phase = e.phase /\ y.known = e.known
<1> DEFINE q == Queued(e, fs, replace)
<1>1. /\ q \in Tab /\ SameButCall(e, q) /\ q.call = e.call
      /\ q.queue = e.queue \cup fs /\ q.replace = (e.replace \/ replace)
      /\ Queue(e, fs, replace) = IF e.call # NoCall \/ e.retry THEN q ELSE Flush(q)
  BY QueueParts, Z3
<1> HIDE DEF q
<1>2. SameButCall(q, Flush(q))
  BY <1>1, FlushParts
<1> QED
  BY <1>1, <1>2 DEF SameButCall

\* A confirmed cell is answered as it is, unless it is an entry that a PATCH
\* does not carry: one that is gone, or as the server has answered last.
LEMMA AnswerConfirms ==
  ASSUME NEW x, NEW fields, TabOK(x, fields), x.call # NoCall, x.call.kind # "get",
         x.call.status = "answered", NEW c \in Cells, FieldOf(c) \in Confirmed(x)
  PROVE  \/ x.call.answer[c] = x.value[c]
         \/ /\ c \in Entries /\ x.call.kind = "patch" /\ x.value[c] = x.call.body[c]
            /\ \/ x.value[c] = Default
               \/ /\ c \notin x.call.cells
                  /\ x.known # NoDocument /\ x.value[c] = x.known[c]
<1>1. x.call.kind \in {"patch", "put"}
  BY TabParts, CallParts DEF TabOK
<1>2. c \in CellsOf(x.call.fields) /\ x.value[c] = x.call.body[c]
  BY FieldFacts DEF Confirmed
<1>3. CASE x.call.kind = "put"
  BY <1>2, <1>3 DEF TabOK, CallOK
<1>4. CASE x.call.kind = "patch"
  <2>1. /\ x.known # NoDocument
        /\ c \in x.call.cells <=>
             c \in Plain \/ (x.call.body[c] # Default /\ x.call.body[c] # x.known[c])
        /\ c \in x.call.cells => x.call.answer[c] = x.call.body[c]
    BY <1>2, <1>4 DEF TabOK, CallOK
  <2>2. c \in Plain \/ c \in Entries
    BY DEF Cells
  <2> QED
    BY <1>2, <1>4, <2>1, <2>2
<1> QED
  BY <1>1, <1>3, <1>4

-----------------------------------------------------------------------------
(* The properties of every tab *)

\* At first every tab is closed.
LEMMA InitTabs == Init => TypeOK /\ TabsOK
<1> SUFFICES ASSUME Init PROVE TypeOK /\ TabsOK
  OBVIOUS
<1>1. Closed \in Tab /\ TabOK(Closed, {})
  BY ClosedIsOK DEF TabOK
<1>2. tab \in [Tabs -> Tab] /\ touched \in [Tabs -> SUBSET Fields] /\ TabsOK
  BY <1>1 DEF Init, TabsOK
<1>3. last \in [Cells -> Values \cup {NoValue}]
  BY DEF Init
<1>4. 0 \in 0 .. MaxActs /\ 0 \in 0 .. MaxLost
  OBVIOUS
<1> QED
  BY <1>2, <1>3, <1>4, FieldFacts DEF Init, TypeOK

\* The invariant of the tabs holds throughout.
THEOREM TabsInOrder == Spec => [](TypeOK /\ TabsOK)
<1>1. Init => TypeOK /\ TabsOK
  BY InitTabs
<1>2. TypeOK /\ TabsOK /\ [Next]_vars => (TypeOK /\ TabsOK)'
  BY NextKeepsTabs
<1> QED
  BY <1>1, <1>2, PTL DEF Spec

\* A tab shows what the server has answered or what is pending, and what is
\* pending will be saved.
THEOREM TabsAreConsistent == Spec => []Consistent
<1>1. TypeOK /\ TabsOK => Consistent
  <2> SUFFICES ASSUME TypeOK, TabsOK PROVE ShownIsSavedOrComing
    BY DEF Consistent
  <2>1. ASSUME NEW t \in Tabs, Live(t)
        PROVE  LET x == tab[t]
                   sending == IF x.call = NoCall THEN {} ELSE x.call.fields
               IN  /\ x.known # NoDocument =>
                        \A c \in Cells : FieldOf(c) \in x.pending \/ x.value[c] = x.known[c]
                   /\ x.pending \subseteq x.queue \cup sending
                   /\ x.queue # {} => x.call # NoCall \/ x.retry
    BY <2>1 DEF TabsOK, TabOK, ShownOK, Shows, Sending, Live
  <2> QED
    BY <2>1 DEF ShownIsSavedOrComing
<1> QED
  BY <1>1, TabsInOrder, PTL

\* A save changes only fields its tab has touched.
LEMMA StepSparesOthers ==
  ASSUME TypeOK, TabsOK, NEW t \in Tabs, StepOf(t), Asked(t), server' # server,
         server # NoDocument, tab[t].known # NoDocument,
         NEW c \in Cells, server'[c] # server[c]
  PROVE  FieldOf(c) \in touched[t]
<1> DEFINE x == tab[t]
<1>1. /\ x \in Tab /\ x.call # NoCall /\ x.call \in Call /\ TabOK(x, touched[t])
      /\ server \in {NoDocument} \cup Documents
  BY TabParts DEF Asked, Has, TypeOK, TabsOK
<1>2. server' = Handled(x.call)
  BY DEF StepOf, UserStep, Open, Close, SetField, SetEntry, Edit, Reset, ServerHandles,
         TabStep, OpenAnswered, LoadAnswered, SaveAnswered, Refused, RetryFires, CallLost
<1>3. \/ x.call.kind = "put"
      \/ /\ x.call.kind = "patch"
         /\ c \in x.call.cells \/ server'[c] = server[c]
  BY <1>1, <1>2, HandledParts
<1>4. CASE x.call.kind = "put"
  <2>1. touched[t] = Fields
    BY <1>1, <1>4 DEF TabOK, TouchedOK
  <2> QED
    BY <2>1, FieldFacts
<1>5. CASE x.call.kind = "patch"
  <2>1. c \in x.call.cells
    BY <1>3, <1>5
  <2>2. x.call.cells = {d \in CellsOf(x.call.fields) :
             d \in Plain \/ (x.call.body[d] # Default /\ x.call.body[d] # x.known[d])}
    BY <1>1, <1>5 DEF TabOK, CallOK
  <2>3. c \in CellsOf(x.call.fields)
    BY <2>1, <2>2
  <2>4. FieldOf(c) \in x.call.fields
    BY <2>3, FieldFacts
  <2> QED
    BY <1>1, <2>4 DEF TabOK, TouchedOK, Sending
<1> QED
  BY <1>3, <1>4, <1>5

\* A save changes no field that its tab has left alone, unless the tab was
\* never given a document.
THEOREM SavesSpareOthers == Spec => OthersSurvive
<1> DEFINE A == \A t \in Tabs :
                  Asked(t) /\ server' # server /\ server # NoDocument
                    /\ tab'[t] # tab[t] /\ tab[t].known # NoDocument =>
                  \A c \in Cells : server'[c] # server[c] => FieldOf(c) \in touched[t]
<1>1. TypeOK /\ TabsOK /\ [Next]_vars => [A]_vars
  <2> SUFFICES ASSUME TypeOK, TabsOK, Next, NEW t \in Tabs,
                      Asked(t), server' # server, server # NoDocument,
                      tab'[t] # tab[t], tab[t].known # NoDocument,
                      NEW c \in Cells, server'[c] # server[c]
               PROVE  FieldOf(c) \in touched[t]
    OBVIOUS
  <2>1. PICK u \in Tabs : StepOf(u)
    BY DEF Next, StepOf
  <2>2. u = t
    BY <2>1, OthersStay
  <2> QED
    BY <2>1, <2>2, StepSparesOthers
<1> QED
  BY <1>1, TabsInOrder, PTL DEF Spec, OthersSurvive

-----------------------------------------------------------------------------
(* A tab on its own *)

\* A cell was edited, and the edit is none of the two exceptions of
\* LoneTabForgetsNothing.
Owed(c, edits, gaps) ==
  /\ edits[c] # NoValue
  /\ ~(c \in Entries /\ edits[c] = Default)
  /\ c \notin gaps

\* localStorage has the last edits, and what it does not call pending the
\* server has, too.
Kept(edits, gaps, kept, pending, document) ==
  \A c \in Cells : Owed(c, edits, gaps) =>
    /\ kept # NoDocument /\ kept[c] = edits[c]
    /\ \/ document # NoDocument /\ document[c] = edits[c]
       \/ FieldOf(c) \in pending

\* The server's entries are as it has answered last.
Level(x, document, gaps) ==
  x.known # NoDocument =>
    /\ document # NoDocument
    /\ \A c \in Entries \ gaps : document[c] = x.known[c]

\* The next save, or the one under way, replaces the document.
PutIsDue(x) == IF x.call = NoCall THEN x.replace ELSE x.call.kind = "put"

\* The entries are level unless a PUT is due, but for what a PATCH that was
\* handled has changed.
Abreast(x, document, gaps) ==
  x.known # NoDocument /\ ~PutIsDue(x) =>
    /\ document # NoDocument
    /\ \A c \in Entries \ gaps :
         \/ document[c] = x.known[c]
         \/ /\ x.call # NoCall /\ x.call.kind = "patch"
            /\ x.call.status = "answered" /\ c \in x.call.cells

\* A tab that is alone is in step with localStorage and the server.
InStep(x, document, gaps, kept, pending) ==
  /\ x.pending = pending
  /\ x.value = kept \/ kept = NoDocument
  /\ x.call # NoCall /\ x.call.status = "answered" => document = x.call.answer
  /\ Abreast(x, document, gaps)

\* No other tab is open.
Alone(t) == \A u \in Tabs \ {t} : tab[u].phase = "closed"

\* The inductive invariant of tabs that are never open together.
Lone ==
  /\ \A t \in Tabs : tab[t].phase # "closed" =>
       /\ Alone(t)
       /\ InStep(tab[t], server, unsure, stored, storedPending)
  /\ Kept(last, unsure, stored, storedPending, server)

\* A tab that goes on with its queue stays in step.
LEMMA FlushInStep ==
  ASSUME NEW z \in Tab, NEW document, NEW gaps, NEW kept,
         z.value = kept \/ kept = NoDocument, ~z.loaded => z.known = NoDocument,
         ~z.replace => Level(z, document, gaps)
  PROVE  InStep(Flush(z), document, gaps, kept, z.pending)
<1> DEFINE y == Flush(z)
<1>1. /\ SameButCall(z, y) /\ z.replace \in BOOLEAN
      /\ \/ y.replace = z.replace /\ y.call = NoCall
         \/ /\ y.call # NoCall
            /\ y.call.kind = IF z.replace \/ z.known = NoDocument THEN "put" ELSE "patch"
            /\ y.call.status = "asked"
         \/ z.loaded = FALSE /\ y.replace = z.replace /\ y.call = Get
  BY FlushParts, TabParts
<1> HIDE DEF y
<1>2. y.pending = z.pending /\ y.value = z.value /\ y.known = z.known
  BY <1>1 DEF SameButCall
<1>3. y.call # NoCall => y.call.status # "answered"
  BY <1>1, GetParts
<1>4. Abreast(y, document, gaps)
  <2> SUFFICES ASSUME z.known # NoDocument, ~PutIsDue(y)
               PROVE  Level(z, document, gaps)
    BY <1>2 DEF Abreast, Level
  <2>1. CASE y.replace = z.replace /\ y.call = NoCall
    BY <2>1 DEF PutIsDue
  <2>2. CASE /\ y.call # NoCall
             /\ y.call.kind = IF z.replace \/ z.known = NoDocument THEN "put" ELSE "patch"
    BY <2>2 DEF PutIsDue
  <2> QED
    BY <1>1, <2>1, <2>2
<1> QED
  BY <1>2, <1>3, <1>4 DEF InStep, y

\* So does one that queues fields.
LEMMA QueueInStep ==
  ASSUME NEW e \in Tab, NEW fs \in SUBSET Fields, NEW replace \in BOOLEAN,
         NEW document, NEW gaps, NEW kept,
         InStep(e, document, gaps, kept, e.pending), ~e.loaded => e.known = NoDocument
  PROVE  InStep(Queue(e, fs, replace), document, gaps, kept, e.pending)
<1> DEFINE q == Queued(e, fs, replace)
<1>1. /\ q \in Tab /\ SameButCall(e, q) /\ q.call = e.call
      /\ q.queue = e.queue \cup fs /\ q.replace = (e.replace \/ replace)
      /\ Queue(e, fs, replace) = IF e.call # NoCall \/ e.retry THEN q ELSE Flush(q)
  BY QueueParts, Z3
<1> HIDE DEF q
<1>2. /\ q.pending = e.pending /\ q.value = e.value /\ q.known = e.known
      /\ q.loaded = e.loaded
  BY <1>1 DEF SameButCall
<1>3. Abreast(e, document, gaps) /\ (e.value = kept \/ kept = NoDocument)
  BY DEF InStep
<1>4. InStep(q, document, gaps, kept, e.pending)
  <2>1. PutIsDue(e) => PutIsDue(q)
    BY <1>1 DEF PutIsDue
  <2>2. Abreast(q, document, gaps)
    BY <1>1, <1>2, <1>3, <2>1 DEF Abreast
  <2> QED
    BY <1>1, <1>2, <1>3, <2>2 DEF InStep
<1>5. ASSUME e.call = NoCall
      PROVE  InStep(Flush(q), document, gaps, kept, e.pending)
  <2>1. ~q.replace => ~PutIsDue(e)
    BY <1>1, <1>5 DEF PutIsDue
  <2>2. ~q.replace => Level(q, document, gaps)
    BY <1>2, <1>3, <1>5, <2>1 DEF Abreast, Level
  <2>3. (q.value = kept \/ kept = NoDocument) /\ (~q.loaded => q.known = NoDocument)
    BY <1>2, <1>3
  <2>4. InStep(Flush(q), document, gaps, kept, q.pending)
    BY <1>1, <2>2, <2>3, FlushInStep
  <2> QED
    BY <1>2, <2>4
<1> QED
  BY <1>1, <1>4, <1>5

\* So does one that starts.
LEMMA StartedInStep ==
  ASSUME NEW x \in Tab, x.queue = {}, ~x.replace, ~x.retry,
         ~x.loaded => x.known = NoDocument,
         NEW document, NEW gaps, NEW kept,
         x.value = kept \/ kept = NoDocument, Level(x, document, gaps)
  PROVE  InStep(Started(x), document, gaps, kept, x.pending)
<1>1. PICK q \in Tab :
        /\ q.value = x.value /\ q.pending = x.pending
        /\ q.loaded = x.loaded /\ q.known = x.known
        /\ Started(x) = Flush(q) \/ (Started(x) = q /\ q.call = NoCall /\ q.pending = {})
  BY StartedParts
<1>2. Level(q, document, gaps)
  BY <1>1 DEF Level
<1>3. CASE Started(x) = Flush(q)
  <2>1. InStep(Flush(q), document, gaps, kept, q.pending)
    BY <1>1, <1>2, FlushInStep
  <2> QED
    BY <1>1, <1>3, <2>1
<1>4. CASE Started(x) = q /\ q.call = NoCall
  BY <1>1, <1>2, <1>4 DEF InStep, Abreast, Level
<1> QED
  BY <1>1, <1>3, <1>4

\* After a failure the server may have entries of a PATCH that the tab does
\* not know of.
LEMMA FailedInStep ==
  ASSUME NEW x \in Tab, x.call # NoCall, NEW document, NEW gaps, NEW more, NEW kept,
         InStep(x, document, gaps, kept, x.pending), gaps \subseteq more,
         x.call.status = "answered" /\ x.call.kind = "patch" =>
           x.call.cells \cap Entries \subseteq more
  PROVE  InStep(Failed(x), document, more, kept, x.pending)
<1> DEFINE y == Failed(x)
<1>1. /\ y.value = x.value /\ y.pending = x.pending
      /\ y.call = NoCall /\ y.known = x.known
      /\ y.replace = (x.replace \/ x.call.kind = "put")
  BY FailedParts
<1> HIDE DEF y
<1>2. Abreast(y, document, more)
  <2>1. ~PutIsDue(y) => ~PutIsDue(x)
    BY <1>1 DEF PutIsDue
  <2> QED
    BY <1>1, <2>1 DEF InStep, Abreast
<1> QED
  BY <1>1, <1>2 DEF InStep, y

\* A request changes nothing on the server that was edited and is not pending.
LEMMA HandlingKeeps ==
  ASSUME NEW t \in Tabs, TypeOK, TabsOK, tab[t].call # NoCall,
         InStep(tab[t], server, unsure, stored, storedPending),
         Kept(last, unsure, stored, storedPending, server)
  PROVE  Kept(last, unsure, stored, storedPending, Handled(tab[t].call))
<1> DEFINE x == tab[t]
           after == Handled(x.call)
<1>1. /\ x \in Tab /\ x.call \in Call /\ TabOK(x, touched[t])
      /\ server \in {NoDocument} \cup Documents
  BY TabParts DEF TypeOK, TabsOK
<1>2. \/ after = server
      \/ x.call.kind = "put" /\ after = x.call.body
      \/ /\ x.call.kind = "patch" /\ server # NoDocument /\ after # NoDocument
         /\ \A c \in Cells : after[c] = IF c \in x.call.cells THEN x.call.body[c] ELSE server[c]
  BY <1>1, HandledParts
<1>3. x.call.body # NoDocument
  BY <1>1, CallParts
<1> HIDE DEF after
<1>4. ASSUME NEW c \in Cells, Owed(c, last, unsure), FieldOf(c) \notin storedPending
      PROVE  after # NoDocument /\ after[c] = last[c]
  <2>1. stored # NoDocument /\ stored[c] = last[c] /\ server # NoDocument /\ server[c] = last[c]
    BY <1>4 DEF Kept
  <2>2. x.value = stored /\ x.pending = storedPending
    BY <2>1 DEF InStep
  <2>3. x.call.kind # "get" => x.call.body[c] = last[c]
    BY <1>1, <1>4, <2>1, <2>2 DEF TabOK, CallOK
  <2> QED
    BY <1>2, <1>3, <2>1, <2>3
<1> QED
  BY <1>4 DEF Kept, after

\* A request that the server handles leaves its tab in step.
LEMMA HandledInStep ==
  ASSUME NEW t \in Tabs, TypeOK, TabsOK, Asked(t),
         InStep(tab[t], server, unsure, stored, storedPending)
  PROVE  InStep([tab[t] EXCEPT !.call = Answer(@)], Handled(tab[t].call),
                unsure, stored, storedPending)
<1> DEFINE x == tab[t]
           k == x.call
           y == [x EXCEPT !.call = Answer(@)]
           a == Answer(k)
           after == Handled(k)
<1>1. /\ x \in Tab /\ k # NoCall /\ k \in Call /\ k.status = "asked"
      /\ TabOK(x, touched[t]) /\ server \in {NoDocument} \cup Documents
  BY TabParts DEF Asked, Has, TypeOK, TabsOK
<1>2. /\ y.call = a /\ a # NoCall
      /\ y.value = x.value /\ y.pending = x.pending
      /\ y.replace = x.replace /\ y.known = x.known
  BY <1>1, HandledIsOK
<1>3. /\ a.kind = k.kind /\ a.cells = k.cells
      /\ \/ a.status = "refused" /\ after = server
         \/ /\ a.status = "answered" /\ a.answer = after
            /\ \/ k.kind = "get" /\ after = server
               \/ k.kind = "put" /\ after = k.body
               \/ /\ k.kind = "patch" /\ server # NoDocument
                  /\ after # NoDocument
                  /\ \A c \in Cells : after[c] = IF c \in k.cells THEN k.body[c] ELSE server[c]
  BY <1>1, HandledParts
<1> HIDE DEF y, a, after
<1>4. Abreast(y, after, unsure)
  <2> SUFFICES ASSUME x.known # NoDocument, k.kind # "put"
               PROVE  /\ after # NoDocument
                      /\ \A c \in Entries \ unsure :
                           \/ after[c] = x.known[c]
                           \/ a.kind = "patch" /\ a.status = "answered" /\ c \in a.cells
    BY <1>2, <1>3 DEF Abreast, PutIsDue
  <2>1. /\ server # NoDocument
        /\ \A c \in Entries \ unsure : server[c] = x.known[c]
    BY <1>1 DEF InStep, Abreast, PutIsDue
  <2>2. \A c \in Entries : c \in Cells
    BY DEF Cells
  <2> QED
    BY <1>3, <2>1, <2>2
<1> QED
  BY <1>2, <1>3, <1>4 DEF InStep, y, after

\* Another document takes the place of what is not pending, in localStorage,
\* which loses no edit.
LEMMA HydratingKeeps ==
  ASSUME NEW edits, NEW gaps, NEW kept, NEW pending, NEW document, NEW shown, NEW value,
         Kept(edits, gaps, kept, pending, document),
         shown = kept \/ kept = NoDocument,
         document # NoDocument,
         value # NoDocument,
         \A c \in Cells : value[c] = IF FieldOf(c) \in pending THEN shown[c] ELSE document[c]
  PROVE  Kept(edits, gaps, value, pending, document)
<1> SUFFICES ASSUME NEW c \in Cells, Owed(c, edits, gaps)
             PROVE  value[c] = edits[c] /\ (document[c] = edits[c] \/ FieldOf(c) \in pending)
  BY DEF Kept
<1>1. kept # NoDocument /\ kept[c] = edits[c] /\ shown = kept
  BY DEF Kept
<1> QED
  BY <1>1 DEF Kept

\* What is confirmed has reached the server.
LEMMA ConfirmingKeeps ==
  ASSUME NEW x, NEW fields, NEW document, NEW edits, NEW gaps, NEW kept,
         TabOK(x, fields), x.call # NoCall, x.call.kind # "get", x.call.status = "answered",
         InStep(x, document, gaps, kept, x.pending),
         Kept(edits, gaps, kept, x.pending, document)
  PROVE  Kept(edits, gaps, kept, x.pending \ Confirmed(x), document)
<1> SUFFICES ASSUME NEW c \in Cells, Owed(c, edits, gaps), FieldOf(c) \in Confirmed(x)
             PROVE  document # NoDocument /\ document[c] = edits[c]
  BY DEF Kept
<1>1. document = x.call.answer /\ document # NoDocument
  BY AnswerIsDocument DEF InStep
<1>2. kept # NoDocument /\ kept[c] = edits[c] /\ x.value = kept
  BY DEF Kept, InStep
<1>3. \/ x.call.answer[c] = x.value[c]
      \/ c \in Entries /\ x.value[c] = Default
      \/ /\ c \in Entries /\ x.call.kind = "patch" /\ c \notin x.call.cells
         /\ x.known # NoDocument /\ x.value[c] = x.known[c]
  BY AnswerConfirms
<1>4. ~(c \in Entries /\ x.value[c] = Default) /\ c \notin gaps
  BY <1>2 DEF Owed
<1>5. CASE /\ c \in Entries /\ x.call.kind = "patch" /\ c \notin x.call.cells
           /\ x.known # NoDocument /\ x.value[c] = x.known[c]
  <2>1. ~PutIsDue(x)
    BY <1>5 DEF PutIsDue
  <2>2. document[c] = x.known[c]
    BY <1>4, <1>5, <2>1 DEF InStep, Abreast
  <2> QED
    BY <1>1, <1>2, <1>5, <2>2
<1> QED
  BY <1>1, <1>2, <1>3, <1>4, <1>5

\* A step of the tab that is alone, which may close it.
LEMMA LoneTabMoves ==
  ASSUME TypeOK, NEW t \in Tabs, Alone(t), NEW y, tab' = [tab EXCEPT ![t] = y],
         y.phase # "closed" => InStep(y, server', unsure', stored', storedPending'),
         Kept(last', unsure', stored', storedPending', server')
  PROVE  Lone'
<1>1. tab'[t] = y /\ \A u \in Tabs \ {t} : tab'[u] = tab[u]
  BY DEF TypeOK
<1>2. \A u \in Tabs \ {t} : tab'[u].phase = "closed"
  BY <1>1 DEF Alone
<1>3. Alone(t)'
  BY <1>2 DEF Alone
<1>4. ASSUME NEW u \in Tabs, tab'[u].phase # "closed"
      PROVE  Alone(u)' /\ InStep(tab'[u], server', unsure', stored', storedPending')
  <2>1. u = t
    BY <1>2, <1>4
  <2> QED
    BY <1>1, <1>3, <1>4, <2>1
<1> QED
  BY <1>4 DEF Lone

\* What is known of an open tab that is alone.
LEMMA LoneFacts ==
  ASSUME TypeOK, TabsOK, Lone, NEW t \in Tabs, tab[t].phase # "closed"
  PROVE  /\ tab[t] \in Tab /\ TabOK(tab[t], touched[t]) /\ touched[t] \in SUBSET Fields
         /\ Alone(t)
         /\ InStep(tab[t], server, unsure, stored, storedPending)
         /\ tab[t].pending = storedPending
         /\ Kept(last, unsure, stored, storedPending, server)
         /\ server \in {NoDocument} \cup Documents
         /\ tab[t].call \in {NoCall} \cup Call
         /\ ~tab[t].loaded => tab[t].known = NoDocument
BY TabParts DEF TypeOK, TabsOK, Lone, InStep, TabOK, PhaseOK

\* A closed tab has no request and no retry.
LEMMA ActiveIsOpen ==
  ASSUME TypeOK, TabsOK, NEW t \in Tabs,
         tab[t].call # NoCall \/ tab[t].retry \/ tab[t].phase \in {"opening", "live"}
  PROVE  tab[t].phase # "closed"
BY DEF TypeOK, TabsOK, TabOK, PhaseOK, Closed

\* Open preserves Lone, as long as no other tab is open.
LEMMA OpenKeepsLone ==
  ASSUME TypeOK, TabsOK, Lone, NEW t \in Tabs, Open(t), ~together'
  PROVE  Lone'
<1> DEFINE y == [Found EXCEPT !.phase = "opening", !.call = Get]
<1>1. /\ tab' = [tab EXCEPT ![t] = y] /\ Alone(t)
      /\ UNCHANGED <<stored, storedPending, server, last, unsure>>
  BY DEF Open, storage, Alone
<1>2. /\ y.call = Get /\ y.pending = storedPending /\ y.known = NoDocument
      /\ y.value = IF stored = NoDocument THEN Defaults ELSE stored
  BY FoundParts
<1> HIDE DEF y
<1>3. InStep(y, server, unsure, stored, storedPending)
  BY <1>2, GetParts DEF InStep, Abreast
<1> QED
  BY <1>1, <1>3, LoneTabMoves DEF Lone

\* Close preserves Lone, also when the request still reaches the server.
LEMMA CloseKeepsLone ==
  ASSUME TypeOK, TabsOK, Lone, NEW t \in Tabs, Close(t)
  PROVE  Lone'
<1>1. /\ tab' = [tab EXCEPT ![t] = Closed] /\ tab[t].phase # "closed"
      /\ server' = server \/ (Asked(t) /\ server' = Handled(tab[t].call))
      /\ UNCHANGED <<stored, storedPending, last, unsure>>
  BY DEF Close, storage
<1>2. /\ Alone(t) /\ Kept(last, unsure, stored, storedPending, server)
      /\ InStep(tab[t], server, unsure, stored, storedPending)
  BY <1>1, LoneFacts
<1>3. Asked(t) => Kept(last, unsure, stored, storedPending, Handled(tab[t].call))
  BY <1>2, HandlingKeeps DEF Asked, Has
<1>4. Kept(last', unsure', stored', storedPending', server')
  BY <1>1, <1>2, <1>3
<1>5. Closed.phase = "closed"
  BY DEF Closed
<1> QED
  BY <1>1, <1>2, <1>4, <1>5, LoneTabMoves

\* An edit goes to localStorage and is pending.
LEMMA EditKept ==
  ASSUME NEW x \in Tab, NEW e \in Tab, NEW fs \in SUBSET Fields, Edits(x, e, fs),
         NEW gaps, NEW kept, NEW document, NEW edits, NEW after,
         x.value = kept \/ kept = NoDocument,
         Kept(edits, gaps, kept, x.pending, document),
         \A c \in Cells : \/ FieldOf(c) \in fs /\ after[c] = e.value[c]
                          \/ after[c] = edits[c] /\ e.value[c] = x.value[c]
  PROVE  Kept(after, gaps, e.value, e.pending, document)
<1> SUFFICES ASSUME NEW c \in Cells, Owed(c, after, gaps)
             PROVE  /\ e.value # NoDocument /\ e.value[c] = after[c]
                    /\ \/ document # NoDocument /\ document[c] = after[c]
                       \/ FieldOf(c) \in e.pending
  BY DEF Kept
<1>1. e.value # NoDocument /\ e.pending = x.pending \cup fs
  BY TabParts DEF Edits
<1>2. CASE FieldOf(c) \in fs /\ after[c] = e.value[c]
  BY <1>1, <1>2
<1>3. CASE after[c] = edits[c] /\ e.value[c] = x.value[c]
  <2>1. Owed(c, edits, gaps)
    BY <1>3 DEF Owed
  <2> QED
    BY <1>1, <1>3, <2>1 DEF Kept
<1> QED
  BY <1>2, <1>3

\* And the tab stays in step with both.
LEMMA EditInStep ==
  ASSUME NEW x \in Tab, NEW e \in Tab, NEW fs \in SUBSET Fields, Edits(x, e, fs),
         NEW replace \in BOOLEAN, NEW gaps, NEW kept, NEW document,
         InStep(x, document, gaps, kept, x.pending), ~x.loaded => x.known = NoDocument
  PROVE  InStep(Queue(e, fs, replace), document, gaps, e.value, e.pending)
<1>1. Abreast(e, document, gaps)
  BY DEF InStep, Abreast, PutIsDue, Edits
<1>2. InStep(e, document, gaps, e.value, e.pending) /\ (~e.loaded => e.known = NoDocument)
  BY <1>1 DEF InStep, Edits
<1> QED
  BY <1>2, QueueInStep

\* Edit preserves Lone.
LEMMA EditKeepsLone ==
  ASSUME TypeOK, TabsOK, Lone, NEW t \in Tabs, NEW c \in Cells, NEW v \in Values,
         Edit(t, c, v)
  PROVE  Lone'
<1> DEFINE x == tab[t]
           f == FieldOf(c)
           e == [x EXCEPT !.value[c] = v, !.pending = @ \cup {f}]
           y == Queue(e, {f}, FALSE)
<1>1. /\ x.phase # "closed" /\ tab' = [tab EXCEPT ![t] = y]
      /\ stored' = e.value /\ storedPending' = e.pending
      /\ last' = [last EXCEPT ![c] = v]
      /\ UNCHANGED <<server, unsure>>
  BY DEF Edit, Live, StoreBoth
<1>2. /\ x \in Tab /\ Alone(t) /\ x.pending = storedPending
      /\ InStep(x, server, unsure, stored, storedPending)
      /\ Kept(last, unsure, stored, storedPending, server)
      /\ ~x.loaded => x.known = NoDocument
  BY <1>1, LoneFacts
<1>3. Edits(x, e, {f}) /\ OneCellIsSet(x, e, c, v)
  BY <1>2, EditParts
<1>4. {f} \in SUBSET Fields /\ e \in Tab
  BY <1>3, FieldFacts DEF Edits
<1>5. \A d \in Cells : \/ FieldOf(d) \in {f} /\ last'[d] = e.value[d]
                       \/ last'[d] = last[d] /\ e.value[d] = x.value[d]
  <2> SUFFICES ASSUME NEW d \in Cells
               PROVE  \/ d = c /\ last'[d] = v
                      \/ d # c /\ last'[d] = last[d]
    BY <1>3 DEF OneCellIsSet
  <2> QED
    BY <1>1 DEF TypeOK
<1> HIDE DEF x, e, f
<1>6. x.value = stored \/ stored = NoDocument
  BY <1>2 DEF InStep
<1>7. Kept(last', unsure, e.value, e.pending, server)
  <2> DEFINE fs == {f}
             after == last'
  <2>1. Kept(last, unsure, stored, x.pending, server)
    BY <1>2
  <2>2. fs \in SUBSET Fields /\ Edits(x, e, fs)
    BY <1>3, <1>4
  <2>3. \A d \in Cells : \/ FieldOf(d) \in fs /\ after[d] = e.value[d]
                         \/ after[d] = last[d] /\ e.value[d] = x.value[d]
    BY <1>5
  <2> HIDE DEF fs, after
  <2>4. Kept(after, unsure, e.value, e.pending, server)
    BY <1>2, <1>4, <1>6, <2>1, <2>2, <2>3, EditKept
  <2> QED
    BY <2>4 DEF after
<1>8. InStep(y, server, unsure, e.value, e.pending)
  BY <1>2, <1>3, <1>4, EditInStep
<1> HIDE DEF y
<1> QED
  BY <1>1, <1>2, <1>7, <1>8, LoneTabMoves

\* Reset preserves Lone: its defaults are edits like others.
LEMMA ResetKeepsLone ==
  ASSUME TypeOK, TabsOK, Lone, NEW t \in Tabs, Reset(t)
  PROVE  Lone'
<1> DEFINE x == tab[t]
           e == [x EXCEPT !.value = Defaults, !.pending = Fields]
           y == Queue(e, Fields, TRUE)
<1>1. /\ x.phase # "closed" /\ tab' = [tab EXCEPT ![t] = y]
      /\ stored' = e.value /\ storedPending' = e.pending
      /\ last' = Defaults
      /\ UNCHANGED <<server, unsure>>
  BY DEF Reset, Live, StoreBoth
<1>2. /\ x \in Tab /\ Alone(t) /\ x.pending = storedPending
      /\ InStep(x, server, unsure, stored, storedPending)
      /\ Kept(last, unsure, stored, storedPending, server)
      /\ ~x.loaded => x.known = NoDocument
  BY <1>1, LoneFacts
<1>3. Edits(x, e, Fields) /\ e \in Tab /\ e.value = Defaults
  BY <1>2, ResetParts DEF Edits
<1> HIDE DEF x, e
<1>4. x.value = stored \/ stored = NoDocument
  BY <1>2 DEF InStep
<1>5. \A d \in Cells : FieldOf(d) \in Fields /\ last'[d] = e.value[d]
  BY <1>1, <1>3, FieldFacts
<1>6. Kept(last', unsure, e.value, e.pending, server)
  BY <1>2, <1>3, <1>4, <1>5, EditKept
<1>7. InStep(y, server, unsure, e.value, e.pending)
  BY <1>2, <1>3, EditInStep
<1> HIDE DEF y
<1> QED
  BY <1>1, <1>2, <1>6, <1>7, LoneTabMoves

\* ServerHandles preserves Lone.
LEMMA HandleKeepsLone ==
  ASSUME TypeOK, TabsOK, Lone, NEW t \in Tabs, ServerHandles(t)
  PROVE  Lone'
<1> DEFINE y == [tab[t] EXCEPT !.call = Answer(@)]
<1>1. /\ tab' = [tab EXCEPT ![t] = y] /\ server' = Handled(tab[t].call)
      /\ Asked(t) /\ tab[t].call # NoCall
      /\ UNCHANGED <<stored, storedPending, last, unsure>>
  BY DEF ServerHandles, storage, TypeOK, Asked, Has
<1>2. /\ Alone(t) /\ InStep(tab[t], server, unsure, stored, storedPending)
      /\ Kept(last, unsure, stored, storedPending, server)
  BY <1>1, ActiveIsOpen, LoneFacts
<1>3. Kept(last, unsure, stored, storedPending, Handled(tab[t].call))
  BY <1>1, <1>2, HandlingKeeps
<1>4. InStep(y, Handled(tab[t].call), unsure, stored, storedPending)
  BY <1>1, <1>2, HandledInStep
<1> HIDE DEF y
<1> QED
  BY <1>1, <1>2, <1>3, <1>4, LoneTabMoves

\* OpenAnswered preserves Lone: what is hydrated is not pending.
LEMMA OpenAnsweredKeepsLone ==
  ASSUME TypeOK, TabsOK, Lone, NEW t \in Tabs, OpenAnswered(t)
  PROVE  Lone'
<1> DEFINE x == tab[t]
           z == Opened(x)
           y == Started(z)
<1>1. /\ x.phase = "opening" /\ x.call # NoCall /\ x.call.status = "answered"
      /\ tab' = [tab EXCEPT ![t] = y]
      /\ stored' = (IF z.known = NoDocument THEN stored ELSE z.value)
      /\ storedPending' = (IF z.known = NoDocument /\ x.hadLocal
                           THEN z.pending ELSE storedPending)
      /\ UNCHANGED <<server, last, unsure>>
  BY DEF OpenAnswered, Answered, Has
<1>2. /\ x \in Tab /\ Alone(t) /\ x.pending = storedPending
      /\ InStep(x, server, unsure, stored, storedPending)
      /\ Kept(last, unsure, stored, storedPending, server)
      /\ x.call \in Call /\ server \in {NoDocument} \cup Documents
  BY <1>1, LoneFacts
<1>3. x.queue = {} /\ ~x.replace /\ ~x.retry
  BY <1>1, LoneFacts DEF TabOK, PhaseOK
<1>4. x.call.answer = server /\ (x.value = stored \/ stored = NoDocument)
  BY <1>1, <1>2 DEF InStep
<1> HIDE DEF x
<1>5. /\ z \in Tab
      /\ z.queue = x.queue /\ z.replace = x.replace /\ z.retry = x.retry
      /\ z.loaded = TRUE /\ z.known = server
      /\ z.known = NoDocument => z.value = x.value
      /\ z.known # NoDocument => \A c \in Cells :
           z.value[c] = IF FieldOf(c) \in z.pending THEN x.value[c] ELSE z.known[c]
      /\ x.pending \subseteq z.pending
      /\ z.known # NoDocument \/ ~x.hadLocal => z.pending = x.pending
  BY <1>1, <1>2, <1>4, OpenedParts
<1> HIDE DEF z
<1>6. storedPending' = z.pending /\ (z.value = stored' \/ stored' = NoDocument)
  BY <1>1, <1>2, <1>4, <1>5
<1>7. Level(z, server, unsure)
  BY <1>5 DEF Level
<1>8. InStep(y, server, unsure, stored', z.pending)
  BY <1>3, <1>5, <1>6, <1>7, StartedInStep
<1>9. Kept(last, unsure, stored', z.pending, server)
  <2>1. CASE z.known = NoDocument
    BY <1>1, <1>2, <1>5, <2>1 DEF Kept
  <2>2. CASE z.known # NoDocument
    <3>1. z.value # NoDocument /\ server # NoDocument /\ z.pending = storedPending
      BY <1>2, <1>5, <2>2, TabParts
    <3>2. \A c \in Cells :
            z.value[c] = IF FieldOf(c) \in storedPending THEN x.value[c] ELSE server[c]
      BY <1>5, <2>2, <3>1
    <3>3. Kept(last, unsure, z.value, storedPending, server)
      BY <1>2, <1>4, <3>1, <3>2, HydratingKeeps
    <3> QED
      BY <1>1, <2>2, <3>1, <3>3
  <2> QED
    BY <2>1, <2>2
<1> HIDE DEF y
<1> QED
  BY <1>1, <1>2, <1>6, <1>8, <1>9, LoneTabMoves

\* LoadAnswered preserves Lone.
LEMMA LoadAnsweredKeepsLone ==
  ASSUME TypeOK, TabsOK, Lone, NEW t \in Tabs, LoadAnswered(t)
  PROVE  Lone'
<1> DEFINE x == tab[t]
           z == Loaded(x)
           y == Flush(z)
<1>1. /\ x.phase = "live" /\ x.call # NoCall /\ x.call.status = "answered"
      /\ x.call.kind = "get"
      /\ tab' = [tab EXCEPT ![t] = y]
      /\ stored' = (IF z.known = NoDocument THEN stored ELSE z.value)
      /\ UNCHANGED <<storedPending, server, last, unsure>>
  BY DEF LoadAnswered, Live, Answered, Has
<1>2. /\ x \in Tab /\ Alone(t) /\ x.pending = storedPending
      /\ InStep(x, server, unsure, stored, storedPending)
      /\ Kept(last, unsure, stored, storedPending, server)
      /\ x.call \in Call /\ server \in {NoDocument} \cup Documents
  BY <1>1, LoneFacts
<1>3. x.call.answer = server /\ (x.value = stored \/ stored = NoDocument)
  BY <1>1, <1>2 DEF InStep
<1> HIDE DEF x
<1>4. /\ z \in Tab /\ z.pending = x.pending /\ z.loaded = TRUE /\ z.known = server
      /\ z.known = NoDocument => z.value = x.value
      /\ z.known # NoDocument => \A c \in Cells :
           z.value[c] = IF FieldOf(c) \in x.pending THEN x.value[c] ELSE z.known[c]
  BY <1>1, <1>2, <1>3, LoadedParts
<1> HIDE DEF z
<1>5. z.value = stored' \/ stored' = NoDocument
  BY <1>1, <1>3, <1>4
<1>6. Level(z, server, unsure)
  BY <1>4 DEF Level
<1>7. InStep(y, server, unsure, stored', z.pending)
  BY <1>4, <1>5, <1>6, FlushInStep
<1>8. Kept(last, unsure, stored', storedPending, server)
  <2>1. CASE z.known = NoDocument
    BY <1>1, <1>2, <2>1
  <2>2. CASE z.known # NoDocument
    <3>1. z.value # NoDocument /\ server # NoDocument
      BY <1>4, <2>2, TabParts
    <3>2. \A c \in Cells :
            z.value[c] = IF FieldOf(c) \in storedPending THEN x.value[c] ELSE server[c]
      BY <1>2, <1>4, <2>2
    <3>3. Kept(last, unsure, z.value, storedPending, server)
      BY <1>2, <1>3, <3>1, <3>2, HydratingKeeps
    <3> QED
      BY <1>1, <2>2, <3>3
  <2> QED
    BY <2>1, <2>2
<1> HIDE DEF y
<1> QED
  BY <1>1, <1>2, <1>4, <1>7, <1>8, LoneTabMoves

\* SaveAnswered preserves Lone: what it confirms has reached the server.
LEMMA SaveAnsweredKeepsLone ==
  ASSUME TypeOK, TabsOK, Lone, NEW t \in Tabs, SaveAnswered(t)
  PROVE  Lone'
<1> DEFINE x == tab[t]
           y == Saved(x)
<1>1. /\ x.phase = "live" /\ x.call # NoCall /\ x.call.status = "answered"
      /\ x.call.kind # "get"
      /\ tab' = [tab EXCEPT ![t] = y]
      /\ stored' = y.value /\ storedPending' = y.pending
      /\ UNCHANGED <<server, last, unsure>>
  BY DEF SaveAnswered, Live, Answered, Has, StoreBoth
<1>2. /\ x \in Tab /\ Alone(t) /\ x.pending = storedPending /\ TabOK(x, touched[t])
      /\ InStep(x, server, unsure, stored, storedPending)
      /\ Kept(last, unsure, stored, storedPending, server)
      /\ ~x.loaded => x.known = NoDocument
  BY <1>1, LoneFacts
<1>3. /\ x.call.answer = server /\ (x.value = stored \/ stored = NoDocument)
      /\ x.call.answer \in Documents /\ server # NoDocument /\ x.loaded
  <2>1. x.call.answer \in Documents
    BY <1>1, <1>2, AnswerIsDocument
  <2>2. x.loaded
    BY <1>1, <1>2 DEF TabOK, CallOK
  <2> QED
    BY <1>1, <1>2, <2>1, <2>2 DEF InStep
<1> HIDE DEF x
<1>4. PICK z \in Tab :
        /\ y = Flush(z)
        /\ z.phase = x.phase /\ z.pending = x.pending \ Confirmed(x)
        /\ z.queue = x.queue /\ z.replace = x.replace /\ z.retry = x.retry
        /\ z.loaded = x.loaded /\ z.known = x.call.answer
        /\ \A c \in Cells :
             z.value[c] = IF FieldOf(c) \in z.pending THEN x.value[c] ELSE x.call.answer[c]
  BY <1>1, <1>2, <1>3, SavedParts
<1>5. y.value = z.value /\ y.pending = z.pending
  BY <1>4, FlushParts DEF SameButCall
<1>6. z.value # NoDocument /\ Level(z, server, unsure)
  BY <1>3, <1>4, TabParts DEF Level
<1>7. InStep(Flush(z), server, unsure, z.value, z.pending)
  BY <1>3, <1>4, <1>6, FlushInStep
<1>8. Kept(last, unsure, stored, z.pending, server)
  BY <1>1, <1>2, <1>4, ConfirmingKeeps
<1>9. Kept(last, unsure, z.value, z.pending, server)
  <2>1. \A c \in Cells :
          z.value[c] = IF FieldOf(c) \in z.pending THEN x.value[c] ELSE server[c]
    BY <1>3, <1>4
  <2> QED
    BY <1>3, <1>6, <1>8, <2>1, HydratingKeeps
<1> HIDE DEF y
<1> QED
  BY <1>1, <1>2, <1>4, <1>5, <1>7, <1>9, LoneTabMoves

\* A call that fails preserves Lone, if what it may have changed is unsure.
LEMMA FailKeepsLone ==
  ASSUME TypeOK, TabsOK, Lone, NEW t \in Tabs, tab[t].call # NoCall, Fail(t),
         unsure \subseteq unsure',
         Answered(t) /\ tab[t].call.kind = "patch" =>
           tab[t].call.cells \cap Entries \subseteq unsure',
         UNCHANGED <<stored, storedPending, server, last>>
  PROVE  Lone'
<1> DEFINE x == tab[t]
           y == IF x.phase = "live" THEN Failed(x) ELSE Started(x)
<1>1. /\ x.phase # "closed" /\ tab' = [tab EXCEPT ![t] = y]
      /\ x.call # NoCall
      /\ x.call.status = "answered" /\ x.call.kind = "patch" =>
           x.call.cells \cap Entries \subseteq unsure'
  BY ActiveIsOpen DEF Fail, Live, Answered, Has
<1>2. /\ x \in Tab /\ Alone(t) /\ x.pending = storedPending /\ TabOK(x, touched[t])
      /\ InStep(x, server, unsure, stored, storedPending)
      /\ Kept(last, unsure, stored, storedPending, server)
  BY <1>1, LoneFacts
<1> HIDE DEF x
<1>3. Kept(last, unsure', stored, storedPending, server)
  BY <1>2 DEF Kept, Owed
<1>4. InStep(y, server, unsure', stored, storedPending)
  <2>1. CASE x.phase = "live"
    BY <1>1, <1>2, <2>1, FailedInStep
  <2>2. CASE x.phase # "live"
    <3>1. x.phase = "opening"
      BY <1>1, <1>2, <2>2, TabParts
    <3>2. x.queue = {} /\ ~x.replace /\ ~x.retry /\ ~x.loaded /\ x.known = NoDocument
      BY <1>2, <3>1 DEF TabOK, PhaseOK
    <3>3. (x.value = stored \/ stored = NoDocument) /\ Level(x, server, unsure')
      BY <1>2, <3>2 DEF InStep, Level
    <3>4. InStep(Started(x), server, unsure', stored, x.pending)
      BY <1>2, <3>2, <3>3, StartedInStep
    <3> QED
      BY <1>2, <2>2, <3>4
  <2> QED
    BY <2>1, <2>2
<1> HIDE DEF y
<1> QED
  BY <1>1, <1>2, <1>3, <1>4, LoneTabMoves

\* RetryFires preserves Lone.
LEMMA RetryKeepsLone ==
  ASSUME TypeOK, TabsOK, Lone, NEW t \in Tabs, RetryFires(t)
  PROVE  Lone'
<1> DEFINE x == tab[t]
           e == [x EXCEPT !.retry = FALSE]
           y == Queue(e, {}, FALSE)
<1>1. /\ x.phase # "closed" /\ tab' = [tab EXCEPT ![t] = y]
      /\ UNCHANGED <<stored, storedPending, server, last, unsure>>
  BY ActiveIsOpen DEF RetryFires, storage
<1>2. /\ x \in Tab /\ Alone(t) /\ x.pending = storedPending
      /\ InStep(x, server, unsure, stored, storedPending)
      /\ Kept(last, unsure, stored, storedPending, server)
      /\ ~x.loaded => x.known = NoDocument
  BY <1>1, LoneFacts
<1> HIDE DEF x
<1>3. /\ e \in Tab /\ e.value = x.value /\ e.pending = x.pending /\ e.call = x.call
      /\ e.replace = x.replace /\ e.known = x.known /\ e.loaded = x.loaded
  BY <1>2 DEF Tab
<1> HIDE DEF e
<1>4. InStep(e, server, unsure, stored, e.pending) /\ (~e.loaded => e.known = NoDocument)
  BY <1>2, <1>3 DEF InStep, Abreast, PutIsDue
<1>5. InStep(y, server, unsure, stored, e.pending)
  BY <1>3, <1>4, QueueInStep
<1> HIDE DEF y
<1> QED
  BY <1>1, <1>2, <1>3, <1>5, LoneTabMoves

\* Every step preserves Lone while no second tab is opened.
LEMMA NextKeepsLone ==
  ASSUME TypeOK, TabsOK, ~together => Lone, [Next]_vars, ~together'
  PROVE  Lone'
<1>1. ~together
  <2>1. ASSUME NEW t \in Tabs, UserStep(t) PROVE together => together'
    BY <2>1 DEF UserStep, Open, Close, SetField, SetEntry, Edit, Reset
  <2>2. ASSUME NEW t \in Tabs, TabStep(t) PROVE together' = together
    BY <2>2 DEF TabStep, OpenAnswered, LoadAnswered, SaveAnswered, Refused, RetryFires
  <2>3. ASSUME NEW t \in Tabs, ServerHandles(t) \/ CallLost(t) PROVE together' = together
    BY <2>3 DEF ServerHandles, CallLost
  <2>4. UNCHANGED vars => together' = together
    BY DEF vars
  <2> QED
    BY <2>1, <2>2, <2>3, <2>4 DEF Next
<1>2. Lone
  BY <1>1
<1>3. ASSUME NEW t \in Tabs, UserStep(t) PROVE Lone'
  BY <1>2, <1>3, OpenKeepsLone, CloseKeepsLone, EditKeepsLone, ResetKeepsLone
     DEF UserStep, SetField, SetEntry
<1>4. ASSUME NEW t \in Tabs, ServerHandles(t) PROVE Lone'
  BY <1>2, <1>4, HandleKeepsLone
<1>5. ASSUME NEW t \in Tabs, Refused(t) PROVE Lone'
  <2>1. /\ tab[t].call # NoCall /\ Fail(t) /\ ~Answered(t)
        /\ UNCHANGED <<stored, storedPending, server, last, unsure>>
    BY <1>5 DEF Refused, Has, Answered, storage
  <2> QED
    BY <1>2, <2>1, FailKeepsLone
<1>6. ASSUME NEW t \in Tabs, CallLost(t) PROVE Lone'
  <2>1. /\ tab[t].call # NoCall /\ Fail(t)
        /\ unsure' = IF Answered(t) /\ tab[t].call.kind = "patch"
                     THEN unsure \cup (tab[t].call.cells \cap Entries) ELSE unsure
        /\ UNCHANGED <<stored, storedPending, server, last>>
    BY <1>6 DEF CallLost, storage
  <2>2. /\ unsure \subseteq unsure'
        /\ Answered(t) /\ tab[t].call.kind = "patch" =>
             tab[t].call.cells \cap Entries \subseteq unsure'
    BY <2>1
  <2> QED
    BY <1>2, <2>1, <2>2, FailKeepsLone
<1>7. ASSUME NEW t \in Tabs, TabStep(t) PROVE Lone'
  BY <1>2, <1>5, <1>7, OpenAnsweredKeepsLone, LoadAnsweredKeepsLone,
     SaveAnsweredKeepsLone, RetryKeepsLone DEF TabStep
<1>8. CASE UNCHANGED vars
  BY <1>2, <1>8 DEF vars, storage, Lone, Alone
<1> QED
  BY <1>3, <1>4, <1>6, <1>7, <1>8 DEF Next

\* Nothing was edited at first.
LEMMA InitLone == Init => Lone
<1> SUFFICES ASSUME Init PROVE Lone
  OBVIOUS
<1>1. \A t \in Tabs : tab[t].phase = "closed"
  BY DEF Init, Closed
<1>2. Kept(last, unsure, stored, storedPending, server)
  BY DEF Init, Kept, Owed
<1> QED
  BY <1>1, <1>2 DEF Lone

\* The invariant of tabs that are never open together.
LEMMA LoneInOrder == Spec => [](~together => Lone)
<1>1. Init => (~together => Lone)
  BY InitLone
<1>2. TypeOK /\ TabsOK /\ (~together => Lone) /\ [Next]_vars => (~together => Lone)'
  BY NextKeepsLone
<1> QED
  BY <1>1, <1>2, TabsInOrder, PTL DEF Spec

\* With one tab at a time no edit is forgotten, but for the entries that are
\* not Owing.
THEOREM LoneTabRemembers == Spec => []LoneTabForgetsNothing
<1>1. (~together => Lone) => LoneTabForgetsNothing
  <2> SUFFICES ASSUME Lone, NEW c \in Owing
               PROVE  \/ server # NoDocument /\ server[c] = last[c]
                      \/ FieldOf(c) \in storedPending /\ stored[c] = last[c]
    BY DEF LoneTabForgetsNothing
  <2>1. c \in Cells /\ Owed(c, last, unsure)
    BY DEF Owing, Owed
  <2> QED
    BY <2>1 DEF Lone, Kept
<1> QED
  BY <1>1, LoneInOrder, PTL

\* An answer changes no cell of a pending field but those left to the server.
LEMMA StepKeepsUnsaved ==
  ASSUME TypeOK, TabsOK, ~together => Lone, NEW t \in Tabs, StepOf(t), Live(t),
         tab'[t].phase = "live", UNCHANGED acts,
         NEW c \in CellsOf(tab[t].pending) \ LeftToServer(t)
  PROVE  tab'[t].value[c] = tab[t].value[c]
<1> DEFINE x == tab[t]
<1>1. /\ x \in Tab /\ x.phase = "live" /\ TabOK(x, touched[t]) /\ acts \in Nat
      /\ touched[t] \in SUBSET Fields
  BY DEF Live, TypeOK, TabsOK
<1>2. c \in Cells /\ FieldOf(c) \in x.pending /\ c \notin LeftToServer(t)
  BY FieldFacts
<1>3. ~UserStep(t)
  <2>1. ~Acts
    BY <1>1 DEF Acts
  <2>2. ~Open(t)
    BY <1>1 DEF Open
  <2> QED
    BY <2>1, <2>2 DEF UserStep, Close, SetField, SetEntry, Edit, Reset
<1>4. ASSUME tab[t].call # NoCall, Fail(t) PROVE tab'[t].value[c] = x.value[c]
  <2>1. tab'[t] = Failed(x)
    BY <1>1, <1>4 DEF Fail, Live, TypeOK
  <2> QED
    BY <1>1, <1>4, <2>1, FailedParts
<1>5. ASSUME ServerHandles(t) PROVE tab'[t].value[c] = x.value[c]
  <2>1. tab'[t] = [x EXCEPT !.call = Answer(@)]
    BY <1>5 DEF ServerHandles, TypeOK
  <2>2. [x EXCEPT !.call = Answer(@)].value = x.value
    BY <1>1 DEF Tab
  <2> QED
    BY <2>1, <2>2
<1>6. ASSUME LoadAnswered(t) PROVE tab'[t].value[c] = x.value[c]
  <2>1. /\ tab'[t] = Flush(Loaded(x))
        /\ x.call # NoCall /\ x.call.answer \in {NoDocument} \cup Documents
    BY <1>1, <1>6, TabParts, CallParts DEF LoadAnswered, Answered, Has, TypeOK
  <2>2. Loaded(x) \in Tab /\ Loaded(x).value[c] = x.value[c]
    BY <1>1, <1>2, <2>1, LoadedParts
  <2> QED
    BY <2>1, <2>2, FlushParts DEF SameButCall
<1>7. ASSUME SaveAnswered(t) PROVE tab'[t].value[c] = x.value[c]
  <2>1. /\ tab'[t] = Saved(x)
        /\ x.call # NoCall /\ x.call.kind # "get" /\ x.call.status = "answered"
    BY <1>7 DEF SaveAnswered, Answered, Has, TypeOK
  <2>2. x.call.answer \in Documents
    BY <1>1, <2>1, AnswerIsDocument
  <2>3. PICK z \in Tab :
          /\ Saved(x) = Flush(z) /\ z.pending = x.pending \ Confirmed(x)
          /\ \A d \in Cells :
               z.value[d] = IF FieldOf(d) \in z.pending THEN x.value[d] ELSE x.call.answer[d]
    BY <1>1, <2>1, <2>2, SavedParts
  <2>4. Flush(z).value = z.value
    BY FlushParts DEF SameButCall
  <2>5. CASE FieldOf(c) \in z.pending
    BY <1>2, <2>1, <2>3, <2>4, <2>5
  <2>6. CASE FieldOf(c) \notin z.pending
    <3>1. FieldOf(c) \in Confirmed(x)
      BY <1>2, <2>3, <2>6
    <3>2. \/ x.call.answer[c] = x.value[c]
          \/ /\ c \in Entries /\ x.call.kind = "patch" /\ x.value[c] = x.call.body[c]
             /\ \/ x.value[c] = Default
                \/ /\ c \notin x.call.cells
                   /\ x.known # NoDocument /\ x.value[c] = x.known[c]
      BY <1>1, <1>2, <2>1, <3>1, AnswerConfirms
    <3>3. x.call.answer[c] = x.value[c]
      <4> SUFFICES ASSUME c \in Entries, x.call.kind = "patch",
                          c \notin x.call.cells, x.known # NoDocument,
                          x.value[c] = x.known[c], c \notin unsure, ~together
                   PROVE  x.call.answer[c] = x.value[c]
        BY <1>2, <2>1, <3>2 DEF LeftToServer
      <4>1. InStep(x, server, unsure, stored, storedPending)
        BY <1>1 DEF Lone
      <4>2. server = x.call.answer /\ server[c] = x.known[c]
        BY <2>1, <4>1 DEF InStep, Abreast, PutIsDue
      <4> QED
        BY <4>2
    <3> QED
      BY <1>2, <2>1, <2>3, <2>4, <2>6, <3>3
  <2> QED
    BY <2>5, <2>6
<1>8. ASSUME RetryFires(t) PROVE tab'[t].value[c] = x.value[c]
  <2> DEFINE e == [x EXCEPT !.retry = FALSE]
  <2>1. tab'[t] = Queue(e, {}, FALSE)
    BY <1>8 DEF RetryFires, TypeOK
  <2>2. e \in Tab /\ e.value = x.value
    BY <1>1 DEF Tab
  <2> HIDE DEF e
  <2>3. Queue(e, {}, FALSE).value = e.value
    BY <2>2, QueueShows
  <2> QED
    BY <2>1, <2>2, <2>3
<1>9. CASE TabStep(t)
  BY <1>1, <1>4, <1>6, <1>7, <1>8, <1>9 DEF TabStep, OpenAnswered, Refused, Has
<1>10. CASE CallLost(t)
  BY <1>4, <1>10 DEF CallLost
<1> QED
  BY <1>3, <1>5, <1>9, <1>10 DEF StepOf

\* While a tab is open, no answer and no failure changes what it has in a
\* field with unconfirmed edits, but for the entries left to the server.
THEOREM AnswersTakeNothingBack == Spec => UnsavedIsKept
<1> DEFINE A == \A t \in Tabs :
                  Live(t) /\ tab'[t].phase = "live" /\ UNCHANGED acts =>
                    \A c \in CellsOf(tab[t].pending) \ LeftToServer(t) :
                      tab'[t].value[c] = tab[t].value[c]
<1>1. TypeOK /\ TabsOK /\ (~together => Lone) /\ [Next]_vars => [A]_vars
  <2> SUFFICES ASSUME TypeOK, TabsOK, ~together => Lone, Next, NEW t \in Tabs,
                      Live(t), tab'[t].phase = "live", UNCHANGED acts,
                      NEW c \in CellsOf(tab[t].pending) \ LeftToServer(t)
               PROVE  tab'[t].value[c] = tab[t].value[c]
    OBVIOUS
  <2>1. PICK u \in Tabs : StepOf(u)
    BY DEF Next, StepOf
  <2> QED
    BY <2>1, OthersStay, StepKeepsUnsaved
<1> QED
  BY <1>1, TabsInOrder, LoneInOrder, PTL DEF Spec, UnsavedIsKept

=============================================================================
