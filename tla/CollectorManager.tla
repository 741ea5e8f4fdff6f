-------------------------- MODULE CollectorManager --------------------------
(***************************************************************************)
(* CollectorManager.collect of src/host_monitor/collectors/__init__.py as  *)
(* the daemon calls it (wait_for_optional=False), with the thread pool it  *)
(* submits to and the cycle that keeps or drops the states it returns.     *)
(*                                                                         *)
(* One collect call submits every collector that has no invocation in      *)
(* flight, then visits the collectors in order.  A required collector is   *)
(* waited for until its deadline; an optional one that still runs within   *)
(* its deadline is left alone and its last good data is reused.  Threads   *)
(* finish, and time passes, at any moment in between.                      *)
(*                                                                         *)
(* Metrics and fields are abstracted to where a collector's data in the    *)
(* sample comes from and which of the names that more than one collector   *)
(* uses it carries (Labels); a result to these names and its kind:         *)
(*   refreshed      CollectorResult with refreshed=True                    *)
(*   cached         CollectorResult with refreshed=False                   *)
(*   raised         the collector raised, or returned no CollectorResult   *)
(*   timeout_error  the collector raised TimeoutError itself               *)
(*   unmergeable    a result that _merge_result refuses whatever the       *)
(*                  sample holds: a non-finite metric, an invalid field    *)
(* _merge_result refuses a name twice in a sample as well, be it in a new  *)
(* result or in last-good data.                                            *)
(* The monotonic and the wall clock are one integer clock.                 *)
(***************************************************************************)
EXTENDS Integers, Sequences

CONSTANTS
  Order,        \* the collector bindings, in configuration order
  Required,     \* those with required = true
  Deadline,     \* deadline_seconds of each
  MaxStale,     \* max_stale_seconds of each
  Kinds,        \* kinds of results each collector can produce
  Labels,       \* metric and field names that several collectors may report
  Reports,      \* the sets of these names each collector's results may carry
  MaxTime,      \* bound: the clock stops here
  MaxFailures   \* bound: failures_total stops here

Collectors == {Order[i] : i \in 1 .. Len(Order)}

ResultKinds == {"refreshed", "cached", "raised", "timeout_error", "unmergeable"}

\* The bindings come from a table keyed by their names.
ASSUME CollectorAssumption ==
  /\ Order \in Seq(Collectors)
  /\ \A i, j \in 1 .. Len(Order) : Order[i] = Order[j] => i = j
  /\ Required \subseteq Collectors
  /\ Deadline \in [Collectors -> Nat \ {0}]
  /\ MaxStale \in [Collectors -> Nat]
  /\ Kinds \in [Collectors -> SUBSET ResultKinds]
  /\ Reports \in [Collectors -> SUBSET SUBSET Labels]
  /\ MaxTime \in Nat
  /\ MaxFailures \in Nat

VARIABLES
  clock,
  state,      \* state["collectors"]: the envelopes of the last completed cycle
  inflight,   \* _inflight and the futures in it
  threads,    \* worker threads running an invocation of each collector
  phase,      \* "idle", "collect", or "returned" when collect has returned
  visit,      \* position in Order
  now,        \* the cycle's now
  submitted,  \* submitted_now
  failed,     \* whether required_errors is non-empty
  work,       \* the states being built
  sample,     \* the collector's part of the metrics being built
  mishaps     \* history: invocations that raised or overran their deadline

vars == <<clock, state, inflight, threads, phase, visit, now, submitted,
          failed, work, sample, mishaps>>

Time == 0 .. MaxTime

\* An envelope has data (metrics, fields) exactly if it has last_success_at.
\* names: those of Labels in its data.
Envelope == [known : BOOLEAN, failures : 0 .. MaxFailures, success : Time \cup {-1},
             names : SUBSET Labels]

NoEnvelope == [known |-> FALSE, failures |-> 0, success |-> -1, names |-> {}]

NoInvocation == [future |-> "none"]

Running(c) == inflight[c].future = "running"

Done(c) == inflight[c].future \notin {"none", "running"}

\* at is submitted_at, collected is collection_time; of an invocation that is
\* done only whether it took longer than the deadline matters (late).
Invocation ==
  [future : {"running"}, at : Time, collected : Time, reported : BOOLEAN]
    \cup
  [future : {"refreshed", "cached"}, collected : Time, late : BOOLEAN,
   reported : BOOLEAN, names : SUBSET Labels]
    \cup
  [future : {"raised", "timeout_error", "unmergeable"}, reported : BOOLEAN]

\* data: where the collector's metrics in the sample come from.
Part == [data : {"none", "fresh", "last_good"}, up : BOOLEAN, stale : BOOLEAN]

NoPart == [data |-> "none", up |-> FALSE, stale |-> FALSE]

TypeOK ==
  /\ clock \in Time
  /\ state \in [Collectors -> Envelope]
  /\ inflight \in [Collectors -> {NoInvocation} \cup Invocation]
  /\ threads \in [Collectors -> Nat]
  /\ phase \in {"idle", "collect", "returned"}
  /\ visit \in 1 .. Len(Order) + 1
  /\ now \in Time
  /\ submitted \subseteq Collectors
  /\ failed \in BOOLEAN
  /\ work \in [Collectors -> Envelope]
  /\ sample \in [Collectors -> Part]
  /\ mishaps \in [Collectors -> 0 .. MaxFailures]

Init ==
  /\ clock = 0
  /\ state = [c \in Collectors |-> NoEnvelope]
  /\ inflight = [c \in Collectors |-> NoInvocation]
  /\ threads = [c \in Collectors |-> 0]
  /\ phase = "idle"
  /\ visit = 1
  /\ now = 0
  /\ submitted = {}
  /\ failed = FALSE
  /\ work = [c \in Collectors |-> NoEnvelope]
  /\ sample = [c \in Collectors |-> NoPart]
  /\ mishaps = [c \in Collectors |-> 0]

-----------------------------------------------------------------------------
(* The environment: time and worker threads *)

Clip(n) == IF n > MaxFailures THEN MaxFailures ELSE n

\* remaining = 0.0
Overdue(c) == clock - inflight[c].at >= Deadline[c]

Tick ==
  /\ clock < MaxTime
  /\ clock' = clock + 1
  /\ UNCHANGED <<state, inflight, threads, phase, visit, now, submitted,
                 failed, work, sample, mishaps>>

\* _collect_timed ends in its worker thread.
Finish(c) ==
  /\ Running(c)
  /\ \E kind \in Kinds[c], names \in Reports[c] :
       /\ inflight' = [inflight EXCEPT ![c] =
            IF kind \in {"refreshed", "cached"}
            THEN [future |-> kind, reported |-> @.reported, collected |-> @.collected,
                  late |-> clock - @.at > Deadline[c], names |-> names]
            ELSE [future |-> kind, reported |-> @.reported]]
       /\ mishaps' = IF kind \in {"raised", "timeout_error"} \/ Overdue(c)
                     THEN [mishaps EXCEPT ![c] = Clip(@ + 1)] ELSE mishaps
  /\ threads' = [threads EXCEPT ![c] = @ - 1]
  /\ UNCHANGED <<clock, state, phase, visit, now, submitted, failed, work, sample>>

-----------------------------------------------------------------------------
(* collect *)

\* Mutant of Started: submitted_at holds the deadline.
StartedAtDeadline(c, collected) ==
  [future |-> "running", at |-> clock + Deadline[c], collected |-> collected,
   reported |-> FALSE]

\* _start_collection
Started(c, collected) ==
  [future |-> "running", at |-> clock, collected |-> collected, reported |-> FALSE]

\* A cycle starts: every collector without an invocation in flight is submitted.
StartCycle ==
  /\ phase = "idle"
  /\ phase' = "collect"
  /\ now' = clock
  /\ visit' = 1
  /\ failed' = FALSE
  /\ submitted' = {c \in Collectors : inflight[c] = NoInvocation}
  /\ inflight' = [c \in Collectors |->
                    IF c \in submitted' THEN Started(c, clock) ELSE inflight[c]]
  /\ threads' = [c \in Collectors |->
                    threads[c] + (IF c \in submitted' THEN 1 ELSE 0)]
  /\ work' = [c \in Collectors |-> NoEnvelope]
  /\ sample' = [c \in Collectors |-> NoPart]
  /\ UNCHANGED <<clock, state, mishaps>>

\* The call is over and its local variables are gone.
EndCall ==
  /\ phase' = "idle"
  /\ visit' = 1
  /\ now' = 0
  /\ submitted' = {}
  /\ failed' = FALSE
  /\ work' = [c \in Collectors |-> NoEnvelope]
  /\ sample' = [c \in Collectors |-> NoPart]

Visiting(c) == phase = "collect" /\ visit <= Len(Order) /\ c = Order[visit]

UseStale(c) ==
  /\ state[c].success # -1
  /\ now - state[c].success <= MaxStale[c]

LastGood(c) == IF UseStale(c) THEN "last_good" ELSE "none"

\* The names in metrics and fields: those of the collectors visited so far that
\* have data in the sample.
Merged == UNION {work[d].names : d \in {e \in Collectors : sample[e].data # "none"}}

\* _merge_result raises for c's last-good data: a name is there already.
LastGoodRefused(c) == UseStale(c) /\ state[c].names \cap Merged # {}

NextCollector ==
  /\ visit' = visit + 1
  /\ UNCHANGED <<clock, state, phase, now, submitted, mishaps>>

\* CollectorError leaves collect in the middle of the loop and ends the cycle.
Abort ==
  /\ EndCall
  /\ UNCHANGED <<clock, state, mishaps>>

\* Mutant of LeaveRunning: optional collectors are waited for as well.
LeaveNothingRunning(c) == FALSE

\* An optional collector still at work within its deadline is not waited for.
LeaveRunning(c) ==
  /\ Visiting(c)
  /\ c \notin Required
  /\ Running(c)
  /\ ~Overdue(c)
  /\ \/ /\ ~LastGoodRefused(c)
        /\ work' = [work EXCEPT ![c] = [state[c] EXCEPT !.known = TRUE]]
        /\ sample' = [sample EXCEPT ![c] =
                        [data |-> LastGood(c), up |-> UseStale(c), stale |-> FALSE]]
        /\ NextCollector
        /\ UNCHANGED failed
     \/ LastGoodRefused(c) /\ Abort
  /\ UNCHANGED <<inflight, threads>>

\* Mutant of FailedEnvelope: every cycle counts the failure again.
FailedEnvelopeEveryTime(c) ==
  [state[c] EXCEPT !.known = TRUE, !.failures = Clip(@ + 1)]

\* failures_total grows with the first failure of an invocation only.
FailedEnvelope(c) ==
  [state[c] EXCEPT !.known = TRUE,
                   !.failures = Clip(@ + (IF inflight[c].reported THEN 0 ELSE 1))]

\* Mutant of RecordFailure: stale data is reused whatever its age.
RecordFailureAnyAge(c) ==
  /\ work' = [work EXCEPT ![c] = FailedEnvelope(c)]
  /\ sample' = [sample EXCEPT ![c] =
                  [data |-> IF state[c].success # -1 THEN "last_good" ELSE "none",
                   up |-> FALSE, stale |-> state[c].success # -1]]
  /\ failed' = (failed \/ (c \in Required /\ state[c].success = -1))
  /\ NextCollector

\* Mutant of RecordFailure: any collector without stale data fails the cycle.
RecordFailureAsRequired(c) ==
  /\ work' = [work EXCEPT ![c] = FailedEnvelope(c)]
  /\ sample' = [sample EXCEPT ![c] =
                  [data |-> LastGood(c), up |-> FALSE, stale |-> UseStale(c)]]
  /\ failed' = (failed \/ ~UseStale(c))
  /\ NextCollector

\* The common end of the failure paths.
RecordFailure(c) ==
  \/ /\ ~LastGoodRefused(c)
     /\ work' = [work EXCEPT ![c] = FailedEnvelope(c)]
     /\ sample' = [sample EXCEPT ![c] =
                     [data |-> LastGood(c), up |-> FALSE, stale |-> UseStale(c)]]
     /\ failed' = (failed \/ (c \in Required /\ ~UseStale(c)))
     /\ NextCollector
  \/ LastGoodRefused(c) /\ Abort

\* Mutant of TimedOut: the entry is dropped although its thread still runs.
TimedOutAndDropped(c) ==
  /\ Visiting(c)
  /\ Running(c)
  /\ Overdue(c)
  /\ inflight' = [inflight EXCEPT ![c] = NoInvocation]
  /\ RecordFailure(c)
  /\ UNCHANGED threads

\* except TimeoutError: the deadline passed and the future is still running,
\* or the future is done and holds a TimeoutError of the collector's own.  The
\* entry stays in _inflight either way.
TimedOut(c) ==
  /\ Visiting(c)
  /\ \/ Running(c) /\ Overdue(c)
     \/ inflight[c].future = "timeout_error"
  /\ inflight' = [inflight EXCEPT ![c].reported = TRUE]
  /\ RecordFailure(c)
  /\ UNCHANGED threads

\* Mutant of Failed: the finished entry stays in _inflight.
FailedKeepingEntry(c) ==
  /\ Visiting(c)
  /\ inflight[c].future = "raised"
  /\ inflight' = [inflight EXCEPT ![c].reported = TRUE]
  /\ RecordFailure(c)
  /\ UNCHANGED threads

\* except Exception
Failed(c) ==
  /\ Visiting(c)
  /\ inflight[c].future = "raised"
  /\ inflight' = [inflight EXCEPT ![c] = NoInvocation]
  /\ RecordFailure(c)
  /\ UNCHANGED threads

\* actual_refresh: a cached result refreshes only a collector without envelope.
ActualRefresh(c) == inflight[c].future = "refreshed" \/ ~state[c].known

NewMiss(c) ==
  ActualRefresh(c) /\ inflight[c].late /\ ~inflight[c].reported

ResultEnvelope(c) ==
  [known |-> TRUE,
   failures |-> Clip(state[c].failures + (IF NewMiss(c) THEN 1 ELSE 0)),
   success |-> IF ActualRefresh(c) \/ state[c].success = -1
               THEN inflight[c].collected ELSE state[c].success,
   names |-> inflight[c].names]

\* _merge_result raises for the result of c.
ResultRefused(c) ==
  \/ inflight[c].future = "unmergeable"
  \/ inflight[c].future \in {"refreshed", "cached"} /\ inflight[c].names \cap Merged # {}

\* A result is merged; an optional collector that was not submitted in this
\* very call starts again at once, from the state it just returned.
Harvest(c) ==
  /\ Visiting(c)
  /\ inflight[c].future \in {"refreshed", "cached"}
  /\ ~ResultRefused(c)
  /\ work' = [work EXCEPT ![c] = ResultEnvelope(c)]
  /\ sample' = [sample EXCEPT ![c] = [data |-> "fresh", up |-> TRUE, stale |-> FALSE]]
  /\ IF c \notin Required /\ c \notin submitted
     THEN /\ inflight' = [inflight EXCEPT ![c] = Started(c, now)]
          /\ threads' = [threads EXCEPT ![c] = @ + 1]
     ELSE /\ inflight' = [inflight EXCEPT ![c] = NoInvocation]
          /\ UNCHANGED threads
  /\ NextCollector
  /\ UNCHANGED failed

\* _merge_result raises after the entry was deleted.
MergeRaises(c) ==
  /\ Visiting(c)
  /\ ResultRefused(c)
  /\ inflight' = [inflight EXCEPT ![c] = NoInvocation]
  /\ Abort
  /\ UNCHANGED threads

Visit(c) == LeaveRunning(c) \/ TimedOut(c) \/ Failed(c) \/ Harvest(c) \/ MergeRaises(c)

\* raise CollectorError: the cycle ends and the states that were built are lost.
RequiredFailed ==
  /\ phase = "collect"
  /\ visit > Len(Order)
  /\ failed
  /\ EndCall
  /\ UNCHANGED <<clock, state, inflight, threads, mishaps>>

Return ==
  /\ phase = "collect"
  /\ visit > Len(Order)
  /\ ~failed
  /\ phase' = "returned"
  /\ UNCHANGED <<clock, state, inflight, threads, visit, now, submitted,
                 failed, work, sample, mishaps>>

\* The rest of the cycle succeeds and self.state becomes next_state, or it
\* raises MonitorError and the old state stays.
EndCycle ==
  /\ phase = "returned"
  /\ state' \in {work, state}
  /\ EndCall
  /\ UNCHANGED <<clock, inflight, threads, mishaps>>

CollectStep ==
  \/ StartCycle
  \/ \E c \in Collectors : Visit(c)
  \/ RequiredFailed
  \/ Return
  \/ EndCycle

Next ==
  \/ Tick
  \/ \E c \in Collectors : Finish(c)
  \/ CollectStep

Spec == Init /\ [][Next]_vars

\* The daemon keeps cycling.  An invocation of a required collector ends; one
\* of an optional collector may hang for ever.
Fairness ==
  /\ WF_vars(CollectStep)
  /\ \A c \in Required : WF_vars(Finish(c))

FairSpec == Spec /\ Fairness

-----------------------------------------------------------------------------
(* Properties *)

\* A collector is never run twice at the same time, whatever timeouts, late
\* answers and aborted cycles occur; so the pool of one worker per collector
\* never queues an invocation.
OneThreadPerCollector == \A c \in Collectors : threads[c] <= 1

\* failures_total counts an invocation at most once: neither a timeout that
\* several cycles see, nor the late exception or late result after it, counts
\* again.
FailuresAreInvocations ==
  \A c \in Collectors :
    state[c].failures <= Clip(mishaps[c] + (IF Running(c) /\ Overdue(c) THEN 1 ELSE 0))

\* A sample that collect returns has data of every required collector, and data
\* older than the stale window only if the collector itself just delivered it;
\* a collector reported up or stale does have data in the sample.
ReturnedSampleIsUsable ==
  phase = "returned" =>
    \A c \in Collectors :
      /\ c \in Required => sample[c].data # "none"
      /\ sample[c].up \/ sample[c].stale => sample[c].data # "none"
      /\ sample[c].data = "last_good" => now - state[c].success <= MaxStale[c]

RequiredFailedWithoutData ==
  \E c \in Required : work[c].known /\ sample[c].data = "none"

\* The names in what would go into the sample for c: its result, or its
\* last-good data if it has none.
Offered(c) ==
  IF inflight[c].future \in {"refreshed", "cached"} THEN inflight[c].names
  ELSE IF UseStale(c) THEN state[c].names ELSE {}

\* The collector being visited cannot be merged: its result is malformed, or
\* what it has to offer shares a name with what another one put in the sample.
CannotBeMerged(c) ==
  \/ inflight[c].future = "unmergeable"
  \/ \E d \in Collectors \ {c} :
       sample[d].data # "none" /\ Offered(c) \cap work[d].names # {}

\* collect aborts the cycle only when a required collector has failed without
\* usable last-good data, or when the collector it is visiting has a malformed
\* result, or a result or last-good data that shares a name with another's: no
\* other exception, timeout or late answer of a collector does, and no collector
\* is refused for data of its own that was merged before.
AbortsAreJustified ==
  [][phase = "collect" /\ phase' = "idle" =>
       \/ RequiredFailedWithoutData
       \/ \E c \in Collectors : Visiting(c) /\ CannotBeMerged(c)]_vars

\* README.md: "An optional collector failure does not discard healthy localhost
\* metrics"; a comment in collect calls collectors an isolation boundary.
OptionalFailuresAreIsolated ==
  [][phase = "collect" /\ phase' = "idle" => RequiredFailedWithoutData]_vars

\* A collect call ends even if optional collectors never answer and no time
\* passes: slow remote work does not delay sampling.
CollectReturns == phase = "collect" ~> phase # "collect"

\* An invocation that has finished does not stay in flight for ever, so that
\* the collector runs again, unless it ended with a TimeoutError of its own or
\* what others offer is refused in every cycle from some time on, so that collect
\* no longer comes to the end of its collectors.
FinishedIsHarvested ==
  []<>(phase = "collect" /\ visit > Len(Order)) =>
    \A c \in Collectors :
      Done(c) /\ inflight[c].future # "timeout_error" ~> ~Done(c)

\* docs/plugins.md: "A timed-out invocation remains in flight and is not
\* submitted again until it finishes"; README.md: "a late result is picked up by
\* a later cycle".
EveryFinishIsPickedUp == \A c \in Collectors : Done(c) ~> ~Done(c)

=============================================================================
