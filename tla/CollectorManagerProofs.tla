---------------------- MODULE CollectorManagerProofs ----------------------
(***************************************************************************)
(* What holds of CollectorManager.collect for any number of collectors in  *)
(* any order, any deadlines and stale windows, and any results.            *)
(*                                                                         *)
(* None of the four properties is inductive.  OneThreadPerCollector needs  *)
(* threads and entries in flight to agree (ThreadsMatch).  That a failure  *)
(* is counted once needs a reckoning of what each entry in flight may      *)
(* still add to failures_total (Owed) and of what was added before its     *)
(* invocation ended (Ahead), for the old states and for those being built. *)
(* That what collect returns is usable, and that an abort has a cause,     *)
(* needs the same of every prefix of the collectors already visited.       *)
(***************************************************************************)
EXTENDS CollectorManager, TLAPS

\* A worker runs exactly the entries in flight that are not done.
ThreadsMatch == \A c \in Collectors : threads[c] = IF Running(c) THEN 1 ELSE 0

\* Only an overdue invocation is reported before it ends.
ReportedIsOverdue ==
  \A c \in Collectors : Running(c) /\ inflight[c].reported => Overdue(c)

\* A timeout was counted, and its invocation has not ended yet.
Ahead(v) == IF v.future = "running" /\ v.reported THEN 1 ELSE 0

\* The invocation failed or overran its deadline.
Mishap(v) ==
  \/ v.future \in {"raised", "timeout_error"}
  \/ v.future \in {"refreshed", "cached"} /\ v.late

\* A mishap that no cycle has counted yet.
Owed(v) == IF Mishap(v) /\ ~v.reported THEN 1 ELSE 0

\* With v in flight and m mishaps so far, this many failures are not too many.
Justified(v, m, failures) == Clip(failures + Owed(v)) <= Clip(m + Ahead(v))

\* It is so whether the states being built are kept or lost.
FailuresJustified ==
  \A c \in Collectors :
    /\ Justified(inflight[c], mishaps[c], state[c].failures)
    /\ Justified(inflight[c], mishaps[c], work[c].failures)

\* What the sample says of a collector's data is true.
Honest(c, p) ==
  /\ p.up \/ p.stale => p.data # "none"
  /\ p.data = "last_good" => now - state[c].success <= MaxStale[c]

SampleHasData ==
  phase # "idle" => \A c \in Collectors : Honest(c, sample[c])

\* The required collectors visited so far have data, or a failure was noted.
VisitedHaveData ==
  phase # "idle" /\ ~failed =>
    \A i \in 1 .. visit - 1 :
      Order[i] \in Required => sample[Order[i]].data # "none"

\* A noted failure is that of a required collector visited without data.
FailureHasCause ==
  failed =>
    \E i \in 1 .. visit - 1 :
      /\ Order[i] \in Required
      /\ work[Order[i]].known
      /\ sample[Order[i]].data = "none"

\* Nothing is in the sample of a collector not yet visited.
UnvisitedAreEmpty ==
  phase = "collect" => \A i \in visit .. Len(Order) : sample[Order[i]] = NoPart

ReturnedIsComplete ==
  phase = "returned" => visit > Len(Order) /\ ~failed

CollectorInv ==
  /\ TypeOK
  /\ ThreadsMatch
  /\ ReportedIsOverdue
  /\ FailuresJustified
  /\ SampleHasData
  /\ VisitedHaveData
  /\ FailureHasCause
  /\ ReturnedIsComplete
  /\ UnvisitedAreEmpty

\* A position before the one visited is another one.
LEMMA EarlierPosition ==
  ASSUME NEW n \in Nat, NEW m \in 1 .. n, NEW i \in 1 .. m - 1
  PROVE  i \in 1 .. n /\ i \in 1 .. m /\ i # m
OBVIOUS

USE CollectorAssumption

\* Every position holds a collector and every collector has a position.
LEMMA OrderIsTotal ==
  /\ Len(Order) \in Nat
  /\ \A i \in 1 .. Len(Order) : Order[i] \in Collectors
  /\ \A c \in Collectors : \E i \in 1 .. Len(Order) : Order[i] = c
BY DEF Collectors

\* The fields an entry of _inflight has, by what its future is.
LEMMA InvocationParts ==
  ASSUME NEW v \in {NoInvocation} \cup Invocation
  PROVE  /\ v.future \in ResultKinds \cup {"none", "running"}
         /\ v.future = "none" => v = NoInvocation
         /\ v.future # "none" => v.reported \in BOOLEAN
         /\ v.future \in {"running", "refreshed", "cached"} => v.collected \in Time
         /\ v.future = "running" => v.at \in Time
         /\ v.future \in {"refreshed", "cached"}
              => v.late \in BOOLEAN /\ v.names \subseteq Labels
BY DEF NoInvocation, Invocation, ResultKinds

\* Marking an invocation as reported changes nothing else of it.
LEMMA InvocationReported ==
  ASSUME NEW v \in Invocation
  PROVE  LET u == [v EXCEPT !.reported = TRUE]
         IN  /\ u \in Invocation
             /\ u.future = v.future
             /\ u.reported
             /\ v.future = "running" => u.at = v.at
BY DEF Invocation

\* An entry owes, or is ahead by, at most one failure.
LEMMA OwedOrAhead ==
  ASSUME NEW v
  PROVE  Owed(v) \in {0, 1} /\ Ahead(v) \in {0, 1}
BY DEF Owed, Ahead

-----------------------------------------------------------------------------
(* Visits *)

\* A visit of c that leaves v in flight, the envelope w among the states being
\* built and the part p in the sample keeps the invariant, whatever v, w and p
\* are, if they are consistent with each other.  Each way of visiting a
\* collector is an instance.
LEMMA VisitKeeps ==
  ASSUME CollectorInv, NEW c \in Collectors, Visiting(c), NextCollector,
         NEW v \in {NoInvocation} \cup Invocation,
         inflight' = [inflight EXCEPT ![c] = v],
         threads' = [threads EXCEPT ![c] = IF v.future = "running" THEN 1 ELSE 0],
         v.future = "running" /\ v.reported => clock - v.at >= Deadline[c],
         NEW w \in Envelope,
         work' = [work EXCEPT ![c] = w],
         Justified(v, mishaps[c], state[c].failures),
         Justified(v, mishaps[c], w.failures),
         NEW p \in Part,
         sample' = [sample EXCEPT ![c] = p],
         Honest(c, p),
         failed' \in BOOLEAN,
         ~failed' => ~failed /\ (c \in Required => p.data # "none"),
         failed' => failed \/ (c \in Required /\ w.known /\ p.data = "none")
  PROVE  CollectorInv'
<1> USE DEF NextCollector, Visiting
<1>0. TypeOK
  BY DEF CollectorInv
<1>U. visit \in 1 .. Len(Order) /\ visit \in Nat /\ Len(Order) \in Nat
  BY <1>0, OrderIsTotal DEF TypeOK
<1>V. /\ visit' = visit + 1 /\ visit' - 1 = visit
      /\ visit' \in 1 .. Len(Order) + 1
      /\ c = Order[visit]
      /\ \A i \in 1 .. visit : Order[i] \in Collectors
  <2>1. visit' = visit + 1 /\ c = Order[visit]
    OBVIOUS
  <2>2. visit' - 1 = visit /\ visit' \in 1 .. Len(Order) + 1
    BY <1>U, <2>1
  <2>3. ASSUME NEW i \in 1 .. visit PROVE Order[i] \in Collectors
    BY <1>U, OrderIsTotal
  <2> QED
    BY <2>1, <2>2, <2>3
<1>W. ASSUME NEW i \in 1 .. visit - 1
      PROVE  i \in 1 .. visit /\ Order[i] # c
  <2>1. i \in 1 .. Len(Order) /\ i \in 1 .. visit /\ i # visit
    BY <1>U, EarlierPosition
  <2> QED
    BY <2>1, <1>U, <1>V
<1>1. TypeOK'
  <2>1. /\ clock' \in Time /\ now' \in Time /\ phase' \in {"idle", "collect", "returned"}
        /\ state' \in [Collectors -> Envelope] /\ submitted' \subseteq Collectors
        /\ mishaps' \in [Collectors -> 0 .. MaxFailures]
    BY <1>0 DEF TypeOK
  <2>2. /\ inflight' \in [Collectors -> {NoInvocation} \cup Invocation]
        /\ work' \in [Collectors -> Envelope]
        /\ sample' \in [Collectors -> Part]
    BY <1>0 DEF TypeOK
  <2>3. threads' \in [Collectors -> Nat]
    BY <1>0 DEF TypeOK
  <2> QED
    BY <1>U, <1>V, <2>1, <2>2, <2>3 DEF TypeOK
<1>2. ThreadsMatch'
  BY <1>0 DEF CollectorInv, ThreadsMatch, TypeOK, Running
<1>3. ReportedIsOverdue'
  BY <1>0 DEF CollectorInv, ReportedIsOverdue, TypeOK, Running, Overdue
<1>4. FailuresJustified'
  BY <1>0 DEF CollectorInv, FailuresJustified, TypeOK
<1>5. SampleHasData'
  BY <1>0 DEF CollectorInv, SampleHasData, TypeOK, Honest
<1>6. VisitedHaveData'
  <2> SUFFICES ASSUME ~failed', NEW i \in 1 .. visit' - 1, Order[i] \in Required
               PROVE  sample'[Order[i]].data # "none"
    BY DEF VisitedHaveData
  <2>0. i \in 1 .. visit /\ Order[i] \in Collectors
    BY <1>V
  <2>1. CASE Order[i] = c
    BY <2>1, <1>0 DEF TypeOK
  <2>2. CASE Order[i] # c
    <3>1. i \in 1 .. visit - 1
      BY <2>2, <2>0, <1>U, <1>V
    <3>2. sample[Order[i]].data # "none"
      BY <3>1 DEF CollectorInv, VisitedHaveData
    <3> QED
      BY <3>2, <2>2, <2>0, <1>0 DEF TypeOK
  <2> QED
    BY <2>1, <2>2
<1>7. FailureHasCause'
  <2> SUFFICES ASSUME failed'
               PROVE  \E i \in 1 .. visit : /\ Order[i] \in Required
                                            /\ work'[Order[i]].known
                                            /\ sample'[Order[i]].data = "none"
    BY <1>V DEF FailureHasCause
  <2>1. CASE failed
    <3>1. PICK i \in 1 .. visit - 1 : /\ Order[i] \in Required
                                      /\ work[Order[i]].known
                                      /\ sample[Order[i]].data = "none"
      BY <2>1 DEF CollectorInv, FailureHasCause
    <3>2. i \in 1 .. visit /\ Order[i] # c /\ Order[i] \in Collectors
      BY <1>V, <1>W
    <3>3. work'[Order[i]] = work[Order[i]] /\ sample'[Order[i]] = sample[Order[i]]
      BY <3>2, <1>0 DEF TypeOK
    <3> QED
      BY <3>1, <3>2, <3>3
  <2>2. CASE ~failed
    <3>1. work'[c] = w /\ sample'[c] = p
      BY <1>0 DEF TypeOK
    <3>2. visit \in 1 .. visit
      BY <1>U
    <3> QED
      BY <2>2, <3>1, <3>2, <1>V
  <2> QED
    BY <2>1, <2>2
<1>8. ReturnedIsComplete'
  BY DEF ReturnedIsComplete
<1>9. UnvisitedAreEmpty'
  <2> SUFFICES ASSUME NEW i \in visit' .. Len(Order)
               PROVE  sample'[Order[i]] = NoPart
    BY DEF UnvisitedAreEmpty
  <2>1. i \in visit .. Len(Order) /\ i \in 1 .. Len(Order) /\ i # visit
    BY <1>U, <1>V
  <2>2. sample[Order[i]] = NoPart
    BY <2>1 DEF CollectorInv, UnvisitedAreEmpty
  <2>3. Order[i] # c /\ Order[i] \in Collectors
    BY <2>1, <1>U, <1>V, OrderIsTotal
  <2> QED
    BY <2>2, <2>3, <1>0 DEF TypeOK
<1> QED
  BY <1>1, <1>2, <1>3, <1>4, <1>5, <1>6, <1>7, <1>8, <1>9 DEF CollectorInv

\* A clipped counter is within its bound.
LEMMA ClipBound ==
  ASSUME NEW n \in Nat
  PROVE  Clip(n) \in 0 .. MaxFailures
BY DEF Clip

\* What the invariant says of one collector.
LEMMA VisitedFacts ==
  ASSUME CollectorInv, NEW c \in Collectors
  PROVE  /\ inflight[c] \in {NoInvocation} \cup Invocation
         /\ inflight[c].future \in ResultKinds \cup {"none", "running"}
         /\ inflight[c] # NoInvocation => inflight[c] \in Invocation
         /\ threads[c] = IF Running(c) THEN 1 ELSE 0
         /\ threads = [threads EXCEPT ![c] = threads[c]]
         /\ inflight = [inflight EXCEPT ![c] = inflight[c]]
         /\ state[c] \in Envelope
         /\ state[c].failures \in 0 .. MaxFailures
         /\ mishaps[c] \in 0 .. MaxFailures
         /\ Justified(inflight[c], mishaps[c], state[c].failures)
         /\ clock \in Time /\ now \in Time
<1> USE DEF CollectorInv
<1>1. inflight[c] \in {NoInvocation} \cup Invocation
  BY DEF TypeOK
<1>2. inflight[c].future \in ResultKinds \cup {"none", "running"}
  BY <1>1, InvocationParts
<1>3. /\ threads[c] = IF Running(c) THEN 1 ELSE 0
      /\ threads = [threads EXCEPT ![c] = threads[c]]
      /\ inflight = [inflight EXCEPT ![c] = inflight[c]]
  BY DEF ThreadsMatch, TypeOK
<1>4. state[c] \in Envelope /\ mishaps[c] \in 0 .. MaxFailures /\ clock \in Time /\ now \in Time
  BY DEF TypeOK
<1>5. state[c].failures \in 0 .. MaxFailures
  BY <1>4 DEF Envelope
<1>6. Justified(inflight[c], mishaps[c], state[c].failures)
  BY DEF FailuresJustified
<1> QED
  BY <1>1, <1>2, <1>3, <1>4, <1>5, <1>6

\* Reusing last-good data is honest if UseStale allows it.
LEMMA LastGoodIsHonest ==
  ASSUME NEW c \in Collectors, NEW up \in BOOLEAN, NEW stale \in BOOLEAN,
         up \/ stale => UseStale(c)
  PROVE  LET p == [data |-> LastGood(c), up |-> up, stale |-> stale]
         IN  p \in Part /\ Honest(c, p) /\ (p.data = "none" <=> ~UseStale(c))
BY DEF Part, Honest, LastGood, UseStale

\* The end of a call: whatever was being built is gone; an entry in flight that
\* changed runs if and only if it ran, and its failures are still in order.
LEMMA EndCallKeeps ==
  ASSUME CollectorInv, EndCall, state' \in {work, state},
         UNCHANGED <<clock, threads, mishaps>>,
         inflight' \in [Collectors -> {NoInvocation} \cup Invocation],
         \A c \in Collectors :
           \/ inflight'[c] = inflight[c]
           \/ /\ inflight'[c].future = "running" <=> Running(c)
              /\ inflight'[c].future = "running" /\ inflight'[c].reported
                   => clock - inflight'[c].at >= Deadline[c]
              /\ Justified(inflight'[c], mishaps[c], state'[c].failures)
  PROVE  CollectorInv'
<1> USE DEF EndCall
<1>0. /\ NoEnvelope \in Envelope /\ NoPart \in Part /\ NoEnvelope.failures = 0
      /\ 1 \in 1 .. Len(Order) + 1 /\ 0 \in Time
  BY OrderIsTotal DEF NoEnvelope, Envelope, NoPart, Part, Time
<1>4. TypeOK'
  BY <1>0 DEF CollectorInv, TypeOK
<1>5. ThreadsMatch'
  BY DEF CollectorInv, ThreadsMatch, Running
<1>6. ReportedIsOverdue'
  BY DEF CollectorInv, ReportedIsOverdue, Running, Overdue
<1>7. FailuresJustified'
  <2> SUFFICES ASSUME NEW c \in Collectors
               PROVE  /\ Justified(inflight'[c], mishaps[c], state'[c].failures)
                      /\ Justified(inflight'[c], mishaps[c], 0)
    BY <1>0 DEF FailuresJustified
  <2>1. state'[c].failures \in 0 .. MaxFailures /\ mishaps[c] \in 0 .. MaxFailures
    BY DEF CollectorInv, TypeOK, Envelope
  <2>2. Justified(inflight[c], mishaps[c], state'[c].failures)
    BY DEF CollectorInv, FailuresJustified
  <2>3. Justified(inflight'[c], mishaps[c], state'[c].failures)
    BY <2>2
  <2>4. Owed(inflight'[c]) \in {0, 1} /\ Ahead(inflight'[c]) \in {0, 1}
    BY OwedOrAhead
  <2> QED
    BY <2>1, <2>3, <2>4 DEF Justified, Clip
<1>8. SampleHasData' /\ VisitedHaveData' /\ FailureHasCause' /\ ReturnedIsComplete'
        /\ UnvisitedAreEmpty'
  BY DEF SampleHasData, VisitedHaveData, FailureHasCause, ReturnedIsComplete,
         UnvisitedAreEmpty
<1> QED
  BY <1>4, <1>5, <1>6, <1>7, <1>8 DEF CollectorInv

\* An abort in the visit of c that leaves v in flight.
LEMMA AbortKeeps ==
  ASSUME CollectorInv, NEW c \in Collectors, Abort, UNCHANGED threads,
         NEW v \in {NoInvocation} \cup Invocation,
         inflight' = [inflight EXCEPT ![c] = v],
         v.future = "running" <=> Running(c),
         v.future = "running" /\ v.reported => clock - v.at >= Deadline[c],
         Justified(v, mishaps[c], state[c].failures)
  PROVE  CollectorInv'
<1>1. /\ inflight' \in [Collectors -> {NoInvocation} \cup Invocation]
      /\ \A d \in Collectors : inflight'[d] = IF d = c THEN v ELSE inflight[d]
  BY DEF CollectorInv, TypeOK
<1>2. EndCall /\ state' = state /\ UNCHANGED <<clock, threads, mishaps>>
  BY DEF Abort
<1> QED
  BY <1>1, <1>2, EndCallKeeps

\* An optional collector is left running.
LEMMA LeaveRunningKeeps ==
  ASSUME CollectorInv, NEW c \in Collectors, LeaveRunning(c)
  PROVE  CollectorInv'
<1> USE DEF LeaveRunning
<1>A. CASE LastGoodRefused(c) /\ Abort
  BY <1>A, EndCallKeeps DEF Abort, CollectorInv, TypeOK
<1> SUFFICES ASSUME ~(LastGoodRefused(c) /\ Abort)
             PROVE  CollectorInv'
  BY <1>A
<1> DEFINE w == [state[c] EXCEPT !.known = TRUE]
           p == [data |-> LastGood(c), up |-> UseStale(c), stale |-> FALSE]
<1>1. UseStale(c) \in BOOLEAN
  BY DEF UseStale
<1>2. p \in Part /\ Honest(c, p)
  BY <1>1, LastGoodIsHonest
<1>3. w \in Envelope /\ w.failures = state[c].failures
  BY VisitedFacts DEF Envelope
<1>4. inflight[c].future = "running"
  BY DEF Running
<1>5. inflight' = [inflight EXCEPT ![c] = inflight[c]]
  BY VisitedFacts
<1>6. threads' = [threads EXCEPT ![c] = IF inflight[c].future = "running" THEN 1 ELSE 0]
  BY <1>4, VisitedFacts
<1>7. inflight[c].reported => clock - inflight[c].at >= Deadline[c]
  BY DEF CollectorInv, ReportedIsOverdue, Overdue
<1>8. failed' \in BOOLEAN /\ failed' = failed
  BY DEF CollectorInv, TypeOK
<1>9. /\ inflight[c] \in {NoInvocation} \cup Invocation
      /\ Justified(inflight[c], mishaps[c], state[c].failures)
      /\ Justified(inflight[c], mishaps[c], w.failures)
  BY <1>3, VisitedFacts
<1>10. /\ work' = [work EXCEPT ![c] = w] /\ sample' = [sample EXCEPT ![c] = p]
       /\ Visiting(c) /\ NextCollector
       /\ c \notin Required
  OBVIOUS
<1> HIDE DEF w, p, LeaveRunning
<1> QED
  BY <1>2, <1>3, <1>4, <1>5, <1>6, <1>7, <1>8, <1>9, <1>10, VisitKeeps

\* The common end of the failure paths, whatever becomes of the entry.
LEMMA RecordFailureKeeps ==
  ASSUME CollectorInv, NEW c \in Collectors, Visiting(c), RecordFailure(c),
         UNCHANGED threads,
         NEW v \in {NoInvocation} \cup Invocation,
         inflight' = [inflight EXCEPT ![c] = v],
         v.future = "running" <=> Running(c),
         v.future = "running" /\ v.reported => clock - v.at >= Deadline[c],
         Justified(v, mishaps[c], state[c].failures),
         Justified(v, mishaps[c], FailedEnvelope(c).failures)
  PROVE  CollectorInv'
<1> USE DEF RecordFailure
<1>A. CASE LastGoodRefused(c) /\ Abort
  BY <1>A, AbortKeeps
<1> SUFFICES ASSUME ~(LastGoodRefused(c) /\ Abort)
             PROVE  CollectorInv'
  BY <1>A
<1> DEFINE w == FailedEnvelope(c)
           p == [data |-> LastGood(c), up |-> FALSE, stale |-> UseStale(c)]
<1>1. UseStale(c) \in BOOLEAN
  BY DEF UseStale
<1>2. p \in Part /\ Honest(c, p) /\ (p.data = "none" <=> ~UseStale(c))
  BY <1>1, LastGoodIsHonest
<1>3. w \in Envelope /\ w.known
  <2>1. Clip(state[c].failures + (IF inflight[c].reported THEN 0 ELSE 1)) \in 0 .. MaxFailures
    <3>1. state[c].failures + (IF inflight[c].reported THEN 0 ELSE 1) \in Nat
      BY VisitedFacts
    <3> QED
      BY <3>1, ClipBound
  <2>2. state[c] \in Envelope
    BY VisitedFacts
  <2> QED
    BY <2>1, <2>2 DEF FailedEnvelope, Envelope
<1>4. threads' = [threads EXCEPT ![c] = IF v.future = "running" THEN 1 ELSE 0]
  BY VisitedFacts
<1>5. /\ failed' \in BOOLEAN
      /\ ~failed' => ~failed /\ (c \in Required => p.data # "none")
      /\ failed' => failed \/ (c \in Required /\ w.known /\ p.data = "none")
  BY <1>1, <1>2, <1>3 DEF CollectorInv, TypeOK
<1>6. work' = [work EXCEPT ![c] = w] /\ sample' = [sample EXCEPT ![c] = p] /\ NextCollector
  OBVIOUS
<1> HIDE DEF w, p
<1> QED
  BY <1>2, <1>3, <1>4, <1>5, <1>6, VisitKeeps DEF w

\* A timeout marks the entry as reported and counts it the first time.
LEMMA TimedOutKeeps ==
  ASSUME CollectorInv, NEW c \in Collectors, TimedOut(c)
  PROVE  CollectorInv'
<1> USE DEF TimedOut
<1> DEFINE v == [inflight[c] EXCEPT !.reported = TRUE]
<1>1. inflight[c] \in Invocation
  BY VisitedFacts DEF Running, NoInvocation
<1>2. /\ v \in Invocation /\ v.future = inflight[c].future /\ v.reported
      /\ v.future = "running" => v.at = inflight[c].at
  BY <1>1, InvocationReported
<1>3. inflight' = [inflight EXCEPT ![c] = v]
  OBVIOUS
<1>4. v.future = "running" => clock - v.at >= Deadline[c]
  BY <1>2 DEF Running, Overdue
<1>5. /\ Justified(v, mishaps[c], state[c].failures)
      /\ Justified(v, mishaps[c], FailedEnvelope(c).failures)
  <2> HIDE DEF v
  <2>1. FailedEnvelope(c).failures
          = Clip(state[c].failures + (IF inflight[c].reported THEN 0 ELSE 1))
    BY VisitedFacts DEF FailedEnvelope, Envelope
  <2>2. inflight[c].reported \in BOOLEAN
    BY <1>1, InvocationParts DEF Invocation
  <2>3. inflight[c].future \in {"running", "timeout_error"}
    BY DEF Running
  <2> QED
    BY <1>2, <2>1, <2>2, <2>3, VisitedFacts DEF Justified, Owed, Ahead, Mishap, Clip
<1> HIDE DEF v
<1> QED
  BY <1>2, <1>3, <1>4, <1>5, RecordFailureKeeps DEF Running

\* A collector that raised is counted unless its timeout was.
LEMMA FailedKeeps ==
  ASSUME CollectorInv, NEW c \in Collectors, Failed(c)
  PROVE  CollectorInv'
<1> USE DEF Failed
<1>1. inflight[c] \in Invocation
  BY VisitedFacts DEF NoInvocation
<1>2. NoInvocation.future = "none"
  BY DEF NoInvocation
<1>3. inflight[c].reported \in BOOLEAN
  BY <1>1, InvocationParts DEF Invocation
<1>4. FailedEnvelope(c).failures
        = Clip(state[c].failures + (IF inflight[c].reported THEN 0 ELSE 1))
  BY VisitedFacts DEF FailedEnvelope, Envelope
<1>5. /\ Justified(NoInvocation, mishaps[c], state[c].failures)
      /\ Justified(NoInvocation, mishaps[c], FailedEnvelope(c).failures)
  BY <1>2, <1>3, <1>4, VisitedFacts DEF Justified, Owed, Ahead, Mishap, Clip
<1> QED
  BY <1>2, <1>5, RecordFailureKeeps DEF Running

\* A result is merged; it counts if it is late and was not reported.
LEMMA HarvestKeeps ==
  ASSUME CollectorInv, NEW c \in Collectors, Harvest(c)
  PROVE  CollectorInv'
<1> USE DEF Harvest
<1> DEFINE again == c \notin Required /\ c \notin submitted
           v == IF again THEN Started(c, now) ELSE NoInvocation
           w == ResultEnvelope(c)
           p == [data |-> "fresh", up |-> TRUE, stale |-> FALSE]
<1>1. p \in Part /\ Honest(c, p) /\ p.data # "none"
  BY DEF Part, Honest
<1>2. /\ inflight[c] \in Invocation
      /\ inflight[c].collected \in Time
      /\ inflight[c].reported \in BOOLEAN
      /\ inflight[c].late \in BOOLEAN
      /\ inflight[c].names \subseteq Labels
      /\ threads[c] = 0
  BY VisitedFacts, InvocationParts DEF NoInvocation, Running
<1>3. v \in {NoInvocation} \cup Invocation /\ (v.future = "running" <=> again)
  BY VisitedFacts DEF Started, Invocation, NoInvocation
<1>4. v.future = "running" => ~v.reported
  BY DEF Started, NoInvocation
<1>5. inflight' = [inflight EXCEPT ![c] = v]
  BY DEF Started
<1>6. threads' = [threads EXCEPT ![c] = IF v.future = "running" THEN 1 ELSE 0]
  <2>1. CASE again
    BY <2>1, <1>2, <1>3
  <2>2. CASE ~again
    BY <2>2, <1>2, <1>3, VisitedFacts
  <2> QED
    BY <2>1, <2>2
<1>7. NewMiss(c) \in BOOLEAN
  BY DEF NewMiss, ActualRefresh
<1>8. w \in Envelope /\ w.failures = Clip(state[c].failures + (IF NewMiss(c) THEN 1 ELSE 0))
  <2>1. Clip(state[c].failures + (IF NewMiss(c) THEN 1 ELSE 0)) \in 0 .. MaxFailures
    <3>1. state[c].failures + (IF NewMiss(c) THEN 1 ELSE 0) \in Nat
      BY <1>7, VisitedFacts
    <3> QED
      BY <3>1, ClipBound
  <2>2. state[c].success \in Time \cup {-1}
    BY VisitedFacts DEF Envelope
  <2> QED
    BY <2>1, <2>2, <1>2 DEF ResultEnvelope, Envelope
<1>9. Justified(v, mishaps[c], state[c].failures) /\ Justified(v, mishaps[c], w.failures)
  <2>1. Owed(v) = 0 /\ Ahead(v) = 0
    BY <1>4 DEF Owed, Ahead, Mishap, Started, NoInvocation
  <2>2. NewMiss(c) => Owed(inflight[c]) = 1
    BY DEF NewMiss, Owed, Mishap
  <2>3. Ahead(inflight[c]) = 0 /\ Owed(inflight[c]) \in {0, 1}
    BY OwedOrAhead DEF Ahead
  <2> HIDE DEF v, w
  <2> QED
    BY <1>7, <1>8, <2>1, <2>2, <2>3, VisitedFacts DEF Justified, Clip
<1>10. failed' = failed /\ failed \in BOOLEAN
  BY DEF CollectorInv, TypeOK
<1>11. work' = [work EXCEPT ![c] = w] /\ sample' = [sample EXCEPT ![c] = p] /\ NextCollector
       /\ Visiting(c)
  OBVIOUS
<1>12. c \in Required => ~again
  OBVIOUS
<1> HIDE DEF v, w, p, again, Harvest
<1> QED
  BY <1>1, <1>3, <1>4, <1>5, <1>6, <1>8, <1>9, <1>10, <1>11, <1>12, VisitKeeps

\* A result that cannot be merged leaves nothing behind.
LEMMA MergeRaisesKeeps ==
  ASSUME CollectorInv, NEW c \in Collectors, MergeRaises(c)
  PROVE  CollectorInv'
<1> USE DEF MergeRaises
<1>1. NoInvocation.future = "none" /\ ~Running(c)
  BY DEF NoInvocation, ResultRefused, Running
<1>2. Justified(NoInvocation, mishaps[c], state[c].failures)
  <2>1. Owed(NoInvocation) = 0 /\ Ahead(NoInvocation) = 0 /\ Ahead(inflight[c]) = 0
    BY <1>1 DEF Owed, Ahead, Mishap, Running
  <2>2. Owed(inflight[c]) \in {0, 1}
    BY OwedOrAhead
  <2> QED
    BY <2>1, <2>2, VisitedFacts DEF Justified, Clip
<1> QED
  BY <1>1, <1>2, AbortKeeps

-----------------------------------------------------------------------------
(* The other steps *)

\* No collector has run before the first cycle.
LEMMA InitHolds == Init => CollectorInv
<1> SUFFICES ASSUME Init PROVE CollectorInv
  OBVIOUS
<1> USE DEF Init
<1>0. NoEnvelope \in Envelope /\ NoPart \in Part /\ NoEnvelope.failures = 0
  BY DEF NoEnvelope, Envelope, NoPart, Part
<1>1. TypeOK
  <2>1. 0 \in Time /\ 0 \in 0 .. MaxFailures /\ 1 \in 1 .. Len(Order) + 1
    BY OrderIsTotal DEF Time
  <2> QED
    BY <1>0, <2>1 DEF TypeOK
<1>2. ThreadsMatch /\ ReportedIsOverdue
  BY DEF ThreadsMatch, ReportedIsOverdue, Running, NoInvocation
<1>3. FailuresJustified
  BY <1>0 DEF FailuresJustified, Justified, Owed, Ahead, Mishap, Clip, NoInvocation
<1>4. SampleHasData /\ VisitedHaveData /\ FailureHasCause /\ ReturnedIsComplete
        /\ UnvisitedAreEmpty
  BY DEF SampleHasData, VisitedHaveData, FailureHasCause, ReturnedIsComplete,
         UnvisitedAreEmpty
<1> QED
  BY <1>1, <1>2, <1>3, <1>4 DEF CollectorInv

\* An overdue invocation stays overdue as time passes.
LEMMA TickKeeps ==
  ASSUME CollectorInv, Tick
  PROVE  CollectorInv'
<1> USE DEF Tick
<1>1. TypeOK'
  BY DEF CollectorInv, TypeOK, Time
<1>2. ReportedIsOverdue'
  <2> SUFFICES ASSUME NEW c \in Collectors, Running(c)', inflight'[c].reported
               PROVE  Overdue(c)'
    BY DEF ReportedIsOverdue
  <2>0. Running(c) /\ inflight[c].reported
    BY DEF Running
  <2>1. inflight[c].at \in Nat /\ clock \in Nat /\ Deadline[c] \in Nat
    BY <2>0, InvocationParts DEF CollectorInv, TypeOK, Running, Time
  <2>2. clock - inflight[c].at >= Deadline[c]
    BY <2>0 DEF CollectorInv, ReportedIsOverdue, Overdue
  <2> QED
    BY <2>1, <2>2 DEF Overdue
<1>3. ThreadsMatch' /\ FailuresJustified'
  BY DEF CollectorInv, ThreadsMatch, FailuresJustified, Running
<1>4. SampleHasData' /\ VisitedHaveData' /\ FailureHasCause' /\ ReturnedIsComplete'
        /\ UnvisitedAreEmpty'
  BY DEF CollectorInv, SampleHasData, VisitedHaveData, FailureHasCause,
         ReturnedIsComplete, UnvisitedAreEmpty, Honest
<1> QED
  BY <1>1, <1>2, <1>3, <1>4 DEF CollectorInv

\* An invocation that ends badly owes a failure unless its timeout was reported;
\* either way there is one mishap more.
LEMMA FinishKeeps ==
  ASSUME CollectorInv, NEW c \in Collectors, Finish(c)
  PROVE  CollectorInv'
<1> USE DEF Finish
<1>1. PICK kind \in Kinds[c], names \in Reports[c] :
        /\ inflight' = [inflight EXCEPT ![c] =
             IF kind \in {"refreshed", "cached"}
             THEN [future |-> kind, reported |-> @.reported, collected |-> @.collected,
                   late |-> clock - @.at > Deadline[c], names |-> names]
             ELSE [future |-> kind, reported |-> @.reported]]
        /\ mishaps' = IF kind \in {"raised", "timeout_error"} \/ Overdue(c)
                      THEN [mishaps EXCEPT ![c] = Clip(@ + 1)] ELSE mishaps
  OBVIOUS
<1> DEFINE v == IF kind \in {"refreshed", "cached"}
                THEN [future |-> kind, reported |-> inflight[c].reported,
                      collected |-> inflight[c].collected,
                      late |-> clock - inflight[c].at > Deadline[c], names |-> names]
                ELSE [future |-> kind, reported |-> inflight[c].reported]
           m == IF kind \in {"raised", "timeout_error"} \/ Overdue(c)
                THEN Clip(mishaps[c] + 1) ELSE mishaps[c]
<1>2. kind \in ResultKinds /\ names \subseteq Labels
  OBVIOUS
<1>3. /\ inflight[c].reported \in BOOLEAN /\ inflight[c].collected \in Time
      /\ inflight[c].at \in Time /\ clock \in Time /\ Deadline[c] \in Nat
      /\ inflight[c].future = "running"
      /\ threads[c] = 1
  BY VisitedFacts, InvocationParts DEF Running
<1>4. v \in Invocation
  <2>1. CASE kind \in {"refreshed", "cached"}
    BY <2>1, <1>2, <1>3 DEF Invocation
  <2>2. CASE kind \notin {"refreshed", "cached"}
    BY <2>2, <1>2, <1>3 DEF Invocation, ResultKinds
  <2> QED
    BY <2>1, <2>2
<1>5. v.future = kind /\ kind # "running" /\ kind # "none" /\ v.reported = inflight[c].reported
  BY <1>2 DEF ResultKinds
<1>6. m \in 0 .. MaxFailures
  <2>1. mishaps[c] \in 0 .. MaxFailures /\ mishaps[c] + 1 \in Nat
    BY VisitedFacts
  <2> QED
    BY <2>1, ClipBound
<1>7. inflight' = [inflight EXCEPT ![c] = v]
  BY <1>1
<1>8. mishaps' = [mishaps EXCEPT ![c] = m]
  BY <1>1 DEF CollectorInv, TypeOK
<1>9. ASSUME NEW f \in 0 .. MaxFailures, Justified(inflight[c], mishaps[c], f)
      PROVE  Justified(v, m, f)
  <2>1. Owed(inflight[c]) = 0 /\ Ahead(v) = 0
    BY <1>3, <1>5 DEF Owed, Mishap, Ahead
  <2>2. mishaps[c] \in 0 .. MaxFailures
    BY VisitedFacts
  <2>3. CASE kind \in {"raised", "timeout_error"} \/ Overdue(c)
    <3>1. m = Clip(mishaps[c] + 1)
      BY <2>3
    <3>2. Ahead(inflight[c]) \in {0, 1} /\ Owed(v) \in {0, 1}
      BY OwedOrAhead
    <3>3. Owed(v) = 0 \/ Ahead(inflight[c]) = 0
      BY <1>5 DEF Owed, Ahead
    <3> HIDE DEF v, m
    <3> QED
      BY <1>9, <2>1, <2>2, <3>1, <3>2, <3>3 DEF Justified, Clip
  <2>4. CASE kind \notin {"raised", "timeout_error"} /\ ~Overdue(c)
    <3>1. m = mishaps[c]
      BY <2>4
    <3>2. kind \in {"refreshed", "cached"} => ~v.late
      <4>1. ~(clock - inflight[c].at > Deadline[c])
        BY <2>4, <1>3 DEF Overdue, Time
      <4> QED
        BY <4>1, <2>4
    <3>3. Owed(v) = 0
      BY <3>2, <2>4, <1>5 DEF Owed, Mishap
    <3>4. ~inflight[c].reported
      BY <2>4 DEF CollectorInv, ReportedIsOverdue
    <3>5. Ahead(inflight[c]) = 0
      BY <3>4 DEF Ahead
    <3> HIDE DEF v, m
    <3> QED
      BY <1>9, <2>1, <2>2, <3>1, <3>3, <3>5 DEF Justified, Clip
  <2> QED
    BY <2>3, <2>4
<1> HIDE DEF v, m
<1>10. TypeOK'
  BY <1>3, <1>4, <1>6, <1>7, <1>8 DEF CollectorInv, TypeOK
<1>11. ThreadsMatch'
  BY <1>3, <1>5, <1>7 DEF CollectorInv, ThreadsMatch, TypeOK, Running
<1>12. ReportedIsOverdue'
  BY <1>5, <1>7 DEF CollectorInv, ReportedIsOverdue, TypeOK, Running, Overdue
<1>13. FailuresJustified'
  <2> SUFFICES ASSUME NEW d \in Collectors
               PROVE  /\ Justified(inflight'[d], mishaps'[d], state[d].failures)
                      /\ Justified(inflight'[d], mishaps'[d], work[d].failures)
    BY DEF FailuresJustified
  <2>1. state[d].failures \in 0 .. MaxFailures /\ work[d].failures \in 0 .. MaxFailures
    BY DEF CollectorInv, TypeOK, Envelope
  <2>2. /\ Justified(inflight[d], mishaps[d], state[d].failures)
        /\ Justified(inflight[d], mishaps[d], work[d].failures)
    BY DEF CollectorInv, FailuresJustified
  <2>3. CASE d = c
    BY <2>1, <2>2, <2>3, <1>7, <1>8, <1>9 DEF CollectorInv, TypeOK
  <2>4. CASE d # c
    BY <2>2, <2>4, <1>7, <1>8 DEF CollectorInv, TypeOK
  <2> QED
    BY <2>3, <2>4
<1>14. SampleHasData' /\ VisitedHaveData' /\ FailureHasCause' /\ ReturnedIsComplete'
         /\ UnvisitedAreEmpty'
  BY DEF CollectorInv, SampleHasData, VisitedHaveData, FailureHasCause,
         ReturnedIsComplete, UnvisitedAreEmpty, Honest
<1> QED
  BY <1>10, <1>11, <1>12, <1>13, <1>14 DEF CollectorInv

\* Exactly the collectors with nothing in flight are submitted.
LEMMA StartCycleKeeps ==
  ASSUME CollectorInv, StartCycle
  PROVE  CollectorInv'
<1> USE DEF StartCycle
<1>0. /\ NoEnvelope \in Envelope /\ NoPart \in Part /\ NoEnvelope.failures = 0
      /\ Len(Order) \in Nat
  BY OrderIsTotal DEF NoEnvelope, Envelope, NoPart, Part
<1>1. ASSUME NEW c \in Collectors
      PROVE  /\ Started(c, clock) \in Invocation
             /\ Started(c, clock).future = "running"
             /\ ~Started(c, clock).reported
  BY DEF CollectorInv, TypeOK, Started, Invocation
<1>2. ASSUME NEW c \in Collectors
      PROVE  \/ c \in submitted' /\ inflight[c] = NoInvocation /\ inflight'[c] = Started(c, clock)
             \/ c \notin submitted' /\ inflight[c] # NoInvocation /\ inflight'[c] = inflight[c]
  OBVIOUS
<1>3. NoInvocation.future = "none"
  BY DEF NoInvocation
<1>4. TypeOK'
  <2>1. inflight' \in [Collectors -> {NoInvocation} \cup Invocation]
    BY <1>1 DEF CollectorInv, TypeOK
  <2>2. threads' \in [Collectors -> Nat]
    BY DEF CollectorInv, TypeOK
  <2>3. 1 \in 1 .. Len(Order) + 1 /\ submitted' \subseteq Collectors
    BY <1>0
  <2> QED
    BY <1>0, <2>1, <2>2, <2>3 DEF CollectorInv, TypeOK
<1>5. ThreadsMatch'
  <2> SUFFICES ASSUME NEW c \in Collectors
               PROVE  threads'[c] = IF inflight'[c].future = "running" THEN 1 ELSE 0
    BY DEF ThreadsMatch, Running
  <2>1. threads[c] = IF inflight[c].future = "running" THEN 1 ELSE 0
    BY DEF CollectorInv, ThreadsMatch, Running
  <2>2. threads'[c] = threads[c] + (IF c \in submitted' THEN 1 ELSE 0)
    OBVIOUS
  <2> QED
    BY <1>1, <1>2, <1>3, <2>1, <2>2
<1>6. ReportedIsOverdue'
  <2> SUFFICES ASSUME NEW c \in Collectors, inflight'[c].future = "running",
                      inflight'[c].reported
               PROVE  clock - inflight'[c].at >= Deadline[c]
    BY DEF ReportedIsOverdue, Running, Overdue
  <2> QED
    BY <1>1, <1>2 DEF CollectorInv, ReportedIsOverdue, Running, Overdue
<1>7. FailuresJustified'
  <2> SUFFICES ASSUME NEW c \in Collectors
               PROVE  /\ Justified(inflight'[c], mishaps[c], state[c].failures)
                      /\ Justified(inflight'[c], mishaps[c], 0)
    BY <1>0 DEF FailuresJustified
  <2>1. state[c].failures \in 0 .. MaxFailures /\ mishaps[c] \in 0 .. MaxFailures
    BY VisitedFacts
  <2>2. Justified(inflight[c], mishaps[c], state[c].failures)
    BY VisitedFacts
  <2>3. Justified(inflight'[c], mishaps[c], state[c].failures)
    <3>1. CASE inflight'[c] = inflight[c]
      BY <2>2, <3>1
    <3>2. CASE inflight[c] = NoInvocation /\ inflight'[c] = Started(c, clock)
      <4>1. Owed(inflight[c]) = 0 /\ Ahead(inflight[c]) = 0
        BY <1>3, <3>2 DEF Owed, Ahead, Mishap
      <4>2. Owed(inflight'[c]) = 0 /\ Ahead(inflight'[c]) = 0
        BY <1>1, <3>2 DEF Owed, Ahead, Mishap
      <4> QED
        BY <2>2, <4>1, <4>2 DEF Justified
    <3> QED
      BY <1>2, <3>1, <3>2
  <2>4. Owed(inflight'[c]) \in {0, 1} /\ Ahead(inflight'[c]) \in {0, 1}
    BY OwedOrAhead
  <2> QED
    BY <2>1, <2>3, <2>4 DEF Justified, Clip
<1>8. SampleHasData'
  BY <1>0 DEF SampleHasData, Honest, NoPart
<1>9. VisitedHaveData' /\ FailureHasCause' /\ ReturnedIsComplete'
  BY DEF VisitedHaveData, FailureHasCause, ReturnedIsComplete
<1>10. UnvisitedAreEmpty'
  BY <1>0, OrderIsTotal DEF UnvisitedAreEmpty
<1> QED
  BY <1>4, <1>5, <1>6, <1>7, <1>8, <1>9, <1>10 DEF CollectorInv

\* collect returns when all are visited and nothing required failed.
LEMMA ReturnKeeps ==
  ASSUME CollectorInv, Return
  PROVE  CollectorInv'
BY DEF Return, CollectorInv, TypeOK, ThreadsMatch, ReportedIsOverdue, FailuresJustified,
       SampleHasData, VisitedHaveData, FailureHasCause, ReturnedIsComplete, UnvisitedAreEmpty,
       Running, Overdue, Honest

\* The invariant is inductive.
LEMMA NextKeeps ==
  ASSUME CollectorInv, [Next]_vars
  PROVE  CollectorInv'
<1>1. CASE Tick
  BY <1>1, TickKeeps
<1>2. ASSUME NEW c \in Collectors, Finish(c)
      PROVE  CollectorInv'
  BY <1>2, FinishKeeps
<1>3. CASE StartCycle
  BY <1>3, StartCycleKeeps
<1>4. ASSUME NEW c \in Collectors, Visit(c)
      PROVE  CollectorInv'
  <2>1. CASE LeaveRunning(c)
    BY <2>1, LeaveRunningKeeps
  <2>2. CASE TimedOut(c)
    BY <2>2, TimedOutKeeps
  <2>3. CASE Failed(c)
    BY <2>3, FailedKeeps
  <2>4. CASE Harvest(c)
    BY <2>4, HarvestKeeps
  <2>5. CASE MergeRaises(c)
    BY <2>5, MergeRaisesKeeps
  <2> QED
    BY <1>4, <2>1, <2>2, <2>3, <2>4, <2>5 DEF Visit
<1>5. CASE RequiredFailed
  BY <1>5, EndCallKeeps DEF RequiredFailed, CollectorInv, TypeOK
<1>6. CASE Return
  BY <1>6, ReturnKeeps
<1>7. CASE EndCycle
  BY <1>7, EndCallKeeps DEF EndCycle, CollectorInv, TypeOK
<1>8. CASE UNCHANGED vars
  BY <1>8 DEF vars, CollectorInv, TypeOK, ThreadsMatch, ReportedIsOverdue,
              FailuresJustified, SampleHasData, VisitedHaveData, FailureHasCause,
              ReturnedIsComplete, UnvisitedAreEmpty, Running, Overdue, Honest
<1> QED
  BY <1>1, <1>2, <1>3, <1>4, <1>5, <1>6, <1>7, <1>8 DEF Next, CollectStep

\* It holds in every reachable state.
LEMMA InvariantHolds == Spec => []CollectorInv
<1>1. Init => CollectorInv
  BY InitHolds
<1>2. CollectorInv /\ [Next]_vars => CollectorInv'
  BY NextKeeps
<1> QED
  BY <1>1, <1>2, PTL DEF Spec

-----------------------------------------------------------------------------
(* The theorems *)

\* Type correctness.
THEOREM TypeCorrect == Spec => []TypeOK
<1>1. CollectorInv => TypeOK
  BY DEF CollectorInv
<1> QED
  BY <1>1, InvariantHolds, PTL

\* A collector never runs in two threads, for any number of collectors and any
\* sequence of timeouts, late answers and aborted cycles.
THEOREM NeverRunTwice == Spec => []OneThreadPerCollector
<1>1. CollectorInv => OneThreadPerCollector
  <2> SUFFICES ASSUME CollectorInv, NEW c \in Collectors
               PROVE  threads[c] <= 1
    BY DEF OneThreadPerCollector
  <2>1. threads[c] = 1 \/ threads[c] = 0
    BY DEF CollectorInv, ThreadsMatch
  <2> QED
    BY <2>1
<1> QED
  BY <1>1, InvariantHolds, PTL

\* failures_total never counts an invocation twice: not its timeout in several
\* cycles, nor its late exception or result after its timeout.
THEOREM FailuresCountInvocations == Spec => []FailuresAreInvocations
<1>1. CollectorInv => FailuresAreInvocations
  <2> SUFFICES ASSUME CollectorInv, NEW c \in Collectors
               PROVE  state[c].failures
                        <= Clip(mishaps[c] + (IF Running(c) /\ Overdue(c) THEN 1 ELSE 0))
    BY DEF FailuresAreInvocations
  <2>1. state[c].failures \in 0 .. MaxFailures /\ mishaps[c] \in 0 .. MaxFailures
    BY VisitedFacts
  <2>2. Justified(inflight[c], mishaps[c], state[c].failures)
    BY VisitedFacts
  <2>3. Ahead(inflight[c]) = 1 => Running(c) /\ Overdue(c)
    BY DEF Ahead, Running, CollectorInv, ReportedIsOverdue
  <2>4. Owed(inflight[c]) \in {0, 1} /\ Ahead(inflight[c]) \in {0, 1}
    BY OwedOrAhead
  <2> QED
    BY <2>1, <2>2, <2>3, <2>4 DEF Justified, Clip
<1> QED
  BY <1>1, InvariantHolds, PTL

\* What collect returns has data of every required collector, none of it older
\* than its stale window unless just delivered.
THEOREM ReturnedIsUsable == Spec => []ReturnedSampleIsUsable
<1>1. CollectorInv => ReturnedSampleIsUsable
  <2> SUFFICES ASSUME CollectorInv, phase = "returned", NEW c \in Collectors
               PROVE  /\ c \in Required => sample[c].data # "none"
                      /\ Honest(c, sample[c])
    BY DEF ReturnedSampleIsUsable, Honest
  <2>1. PICK i \in 1 .. Len(Order) : Order[i] = c
    BY OrderIsTotal
  <2>2. i \in 1 .. visit - 1
    BY <2>1, OrderIsTotal DEF CollectorInv, ReturnedIsComplete, TypeOK
  <2> QED
    BY <2>1, <2>2 DEF CollectorInv, ReturnedIsComplete, VisitedHaveData, SampleHasData
<1> QED
  BY <1>1, InvariantHolds, PTL

\* What is refused is refused for the data of another collector.
LEMMA RefusedForAnother ==
  ASSUME CollectorInv, NEW c \in Collectors, Visiting(c), Offered(c) \cap Merged # {}
  PROVE  CannotBeMerged(c)
<1>1. PICK d \in Collectors : sample[d].data # "none" /\ Offered(c) \cap work[d].names # {}
  BY DEF Merged
<1>2. visit \in visit .. Len(Order) /\ c = Order[visit]
  BY OrderIsTotal DEF Visiting, CollectorInv, TypeOK
<1>3. sample[c] = NoPart
  BY <1>2 DEF Visiting, CollectorInv, UnvisitedAreEmpty
<1>4. d # c
  BY <1>1, <1>3 DEF NoPart
<1> QED
  BY <1>1, <1>4 DEF CannotBeMerged

\* collect aborts a cycle only for a required collector without usable data, for
\* a malformed result, or for a result or last-good data that shares a name with
\* the data of another collector in the sample.
THEOREM AbortsHaveCause == Spec => AbortsAreJustified
<1> DEFINE Cause == \/ RequiredFailedWithoutData
                    \/ \E c \in Collectors : Visiting(c) /\ CannotBeMerged(c)
<1>1. ASSUME CollectorInv, [Next]_vars, phase = "collect", phase' = "idle"
      PROVE  Cause
  <2>1. \/ RequiredFailed
        \/ \E c \in Collectors : MergeRaises(c)
        \/ \E c \in Collectors : LeaveRunning(c) \/ TimedOut(c) \/ Failed(c)
    BY <1>1 DEF Next, CollectStep, Visit, Tick, Finish, StartCycle, Harvest, NextCollector,
                Return, EndCycle, vars
  <2>2. CASE RequiredFailed
    BY <1>1, <2>2 DEF RequiredFailed, RequiredFailedWithoutData, CollectorInv,
                      FailureHasCause
  <2>3. ASSUME NEW c \in Collectors, MergeRaises(c)
        PROVE  Cause
    <3>1. CASE inflight[c].future = "unmergeable"
      BY <2>3, <3>1 DEF MergeRaises, CannotBeMerged
    <3>2. CASE Offered(c) \cap Merged # {}
      BY <1>1, <2>3, <3>2, RefusedForAnother DEF MergeRaises
    <3> QED
      BY <2>3, <3>1, <3>2 DEF MergeRaises, ResultRefused, Offered
  <2>4. ASSUME NEW c \in Collectors, LeaveRunning(c) \/ TimedOut(c) \/ Failed(c)
        PROVE  Cause
    <3>1. LastGoodRefused(c) /\ Visiting(c)
      BY <1>1, <2>4 DEF LeaveRunning, TimedOut, Failed, RecordFailure, NextCollector
    <3>2. inflight[c].future \in {"running", "timeout_error", "raised"}
      BY <2>4 DEF LeaveRunning, TimedOut, Failed, Running
    <3>3. Offered(c) \cap Merged # {}
      BY <3>1, <3>2 DEF LastGoodRefused, Offered
    <3> QED
      BY <1>1, <3>1, <3>3, RefusedForAnother
  <2> QED
    BY <2>1, <2>2, <2>3, <2>4
<1>2. CollectorInv /\ [Next]_vars => [phase = "collect" /\ phase' = "idle" => Cause]_vars
  BY <1>1
<1> QED
  BY <1>2, InvariantHolds, PTL DEF Spec, AbortsAreJustified

=============================================================================
