---------------------------- MODULE MonitorCycle ----------------------------
(***************************************************************************)
(* MonitorRuntime.cycle and run_forever of src/host_monitor/runtime.py,    *)
(* over the alert outbox of AlertOutbox, the state file of state.py and    *)
(* the JSONL history: which effects one monitoring cycle has, in which     *)
(* order, and what is left of them when the cycle raises MonitorError or   *)
(* the process dies between two of them.                                   *)
(*                                                                         *)
(* A cycle is the sequence of phases                                       *)
(*   evaluate, enqueue (once per alert), deliver (select, then send and    *)
(*   mark once per delivery), record, commit, publish, prune, wait         *)
(* Failures of the collectors and of the rule file happen before the first *)
(* effect and are stuttering steps.                                        *)
(***************************************************************************)
EXTENDS AlertOutbox

CONSTANTS
  Rules,       \* alert rules
  Targets,     \* alerts.targets: the channels of each rule
  Unroutable,  \* rules that name an unknown channel: targets raises AlertError
  MaxFires,    \* bound: how often one rule fires
  MaxStep,     \* bound: the last step at which rules fire
  MaxFaults    \* bound: aborted cycles and crashes

ASSUME CycleAssumption ==
  /\ Targets \in [Rules -> SUBSET Channels]
  /\ Unroutable \subseteq Rules
  /\ MaxFires \in Nat \ {0}
  /\ MaxStep \in Nat
  /\ MaxFaults \in Nat
  /\ MaxFaults <= MaxAbandoned
  /\ Events = Rules \X (0 .. MaxFires - 1)

VARIABLES
  phase,      \* where the cycle is; "down" when no daemon runs
  memory,     \* MonitorRuntime.state
  disk,       \* the state file
  next,       \* next_state of the running cycle
  alerts,     \* rules whose alert the running cycle has yet to enqueue
  fired,      \* rules that fired in the running cycle
  recorded,   \* steps with a row in the JSONL history
  published,  \* step of the sample the exporter serves, -1 if none
  faults      \* aborted cycles and crashes so far

cycleVars ==
  <<phase, memory, disk, next, alerts, fired, recorded, published, faults>>

vars == <<outboxVars, cycleVars>>

Phase == {"evaluate", "enqueue", "deliver", "record", "commit", "publish",
          "prune", "wait", "down"}

\* The parts of the state the cycle's order matters for: "step" and, of
\* "rules", how often each has fired.
State == [step : -1 .. MaxStep, fires : [Rules -> 0 .. MaxFires]]

EmptyState == [step |-> -1, fires |-> [r \in Rules |-> 0]]

CycleTypeOK ==
  /\ OutboxTypeOK
  /\ phase \in Phase
  /\ memory \in State
  /\ disk \in State
  /\ next \in State
  /\ alerts \subseteq fired
  /\ fired \subseteq Rules
  /\ recorded \subseteq 0 .. MaxStep
  /\ published \in -1 .. MaxStep
  /\ faults \in 0 .. MaxFaults

Init ==
  /\ OutboxInit
  /\ phase = "evaluate"
  /\ memory = EmptyState
  /\ disk = EmptyState
  /\ next = EmptyState
  /\ alerts = {}
  /\ fired = {}
  /\ recorded = {}
  /\ published = -1
  /\ faults = 0

-----------------------------------------------------------------------------
(* One cycle *)

\* Mutant of EventOf: the identity depends on the attempt, as it would if it
\* hashed the text or the time of the alert.
EventOfThisAttempt(r) == <<r, Lesser(memory.fires[r] + faults, MaxFires - 1)>>

\* Mutant of EventOf: the ordinal is read after the firing was counted.
EventOfNext(r) == <<r, memory.fires[r] + 1>>

\* The identity of an alert: rule and ordinal of the firing (dedup_key), which
\* the restored rule state determines.
EventOf(r) == <<r, memory.fires[r]>>

MayFire(r) == memory.fires[r] < MaxFires /\ memory.step < MaxStep

\* Mutant of Evaluate: the engine updates the runtime's own state.
EvaluateInPlace(F) ==
  /\ phase = "evaluate"
  /\ \A r \in F : MayFire(r)
  /\ next' = [step |-> Lesser(memory.step + 1, MaxStep),
              fires |-> [r \in Rules |->
                memory.fires[r] + (IF r \in F THEN 1 ELSE 0)]]
  /\ memory' = next'
  /\ alerts' = F
  /\ fired' = F
  /\ phase' = "enqueue"
  /\ UNCHANGED <<outboxVars, disk, recorded, published, faults>>

\* Collect, load the rules and evaluate them from the state in memory; the
\* condition of any rule may hold or not.  Nothing is written yet.
Evaluate(F) ==
  /\ phase = "evaluate"
  /\ \A r \in F : MayFire(r)
  /\ next' = [step |-> Lesser(memory.step + 1, MaxStep),
              fires |-> [r \in Rules |->
                memory.fires[r] + (IF r \in F THEN 1 ELSE 0)]]
  /\ alerts' = F
  /\ fired' = F
  /\ phase' = "enqueue"
  /\ UNCHANGED <<outboxVars, memory, disk, recorded, published, faults>>

\* One alert of the loop: targets, then enqueue.
EnqueueAlert(r) ==
  /\ phase = "enqueue"
  /\ r \in alerts \ Unroutable
  /\ alerts' = alerts \ {r}
  /\ IF Targets[r] = {} THEN UNCHANGED outboxVars
                        ELSE Enqueue(EventOf(r), Targets[r])
  /\ UNCHANGED <<phase, memory, disk, next, fired, recorded, published, faults>>

\* Mutant of StartDelivery: deliver first, enqueue what is left later.
StartDeliveryEarly ==
  /\ phase = "enqueue"
  /\ SelectPending
  /\ phase' = "deliver"
  /\ UNCHANGED <<memory, disk, next, alerts, fired, recorded, published, faults>>

StartDelivery ==
  /\ phase = "enqueue"
  /\ alerts = {}
  /\ SelectPending
  /\ phase' = "deliver"
  /\ UNCHANGED <<memory, disk, next, alerts, fired, recorded, published, faults>>

DeliverStep ==
  /\ phase = "deliver"
  /\ \/ \E d \in Deliveries : SendOk(d) \/ SendFails(d)
     \/ MarkDelivered
     \/ MarkFailed
  /\ UNCHANGED cycleVars

DeliveryDone ==
  /\ phase = "deliver"
  /\ FinishDelivery
  /\ phase' = "record"
  /\ UNCHANGED <<memory, disk, next, alerts, fired, recorded, published, faults>>

\* history.append; a MonitorError becomes a warning and the cycle goes on.
Record ==
  /\ phase = "record"
  /\ recorded' \in {recorded \cup {next.step}, recorded}
  /\ phase' = "commit"
  /\ UNCHANGED <<outboxVars, memory, disk, next, alerts, fired, published, faults>>

\* Mutant of Commit: a failing save is a warning, like a failing append.
CommitOrWarn ==
  /\ phase = "commit"
  /\ disk' \in {next, disk}
  /\ memory' = next
  /\ phase' = "publish"
  /\ UNCHANGED <<outboxVars, next, alerts, fired, recorded, published, faults>>

\* state_store.save (an atomic replace) and self.state = next_state.
Commit ==
  /\ phase = "commit"
  /\ disk' = next
  /\ memory' = next
  /\ phase' = "publish"
  /\ UNCHANGED <<outboxVars, next, alerts, fired, recorded, published, faults>>

\* prometheus.publish and publish_snapshot.
Publish ==
  /\ phase = "publish"
  /\ published' = memory.step
  /\ phase' = "prune"
  /\ UNCHANGED <<outboxVars, memory, disk, next, alerts, fired, recorded, faults>>

Prune ==
  /\ phase = "prune"
  /\ PruneDelivered
  /\ phase' = "wait"
  /\ UNCHANGED <<memory, disk, next, alerts, fired, recorded, published, faults>>

\* stop_event.wait until the next deadline; the next cycle reads a later now.
Wait ==
  /\ phase = "wait"
  /\ Tick
  /\ phase' = "evaluate"
  /\ next' = memory
  /\ alerts' = {}
  /\ fired' = {}
  /\ UNCHANGED <<memory, disk, recorded, published, faults>>

-----------------------------------------------------------------------------
(* Failures *)

Fault == faults < MaxFaults /\ faults' = faults + 1

\* What the database forgets when a cycle or the process ends early.
CutDelivery == IF call = "deliver" THEN AbandonDelivery ELSE UNCHANGED outboxVars

\* targets raises AlertError for a channel that is not configured: the cycle
\* ends, alerts enqueued before it stay.
RejectAlert ==
  /\ phase = "enqueue"
  /\ alerts \cap Unroutable # {}
  /\ phase' = "wait"
  /\ UNCHANGED <<outboxVars, memory, disk, next, alerts, fired, recorded,
                 published, faults>>

\* MonitorError from enqueue, pending, an UPDATE, event_status, save or prune;
\* run_forever logs it and waits for the next cycle.
Abort ==
  /\ phase \in {"enqueue", "deliver", "record", "commit", "prune"}
  /\ Fault
  /\ CutDelivery
  /\ phase' = "wait"
  /\ UNCHANGED <<memory, disk, next, alerts, fired, recorded, published>>

Crash ==
  /\ phase # "down"
  /\ Fault
  /\ CutDelivery
  /\ phase' = "down"
  /\ published' = -1
  /\ UNCHANGED <<memory, disk, next, alerts, fired, recorded>>

\* run_daemon: MonitorRuntime.__init__ loads the state file.
Restart ==
  /\ phase = "down"
  /\ memory' = disk
  /\ phase' = "evaluate"
  /\ next' = disk
  /\ alerts' = {}
  /\ fired' = {}
  /\ UNCHANGED <<outboxVars, disk, recorded, published, faults>>

Next ==
  \/ \E F \in SUBSET Rules : Evaluate(F)
  \/ \E r \in Rules : EnqueueAlert(r)
  \/ StartDelivery
  \/ DeliverStep
  \/ DeliveryDone
  \/ Record
  \/ Commit
  \/ Publish
  \/ Prune
  \/ Wait
  \/ RejectAlert
  \/ Abort
  \/ Crash
  \/ Restart

Spec == Init /\ [][Next]_vars

\* The daemon's loop always goes on (systemd restarts it), the number of faults
\* is bounded, and a channel that is not dead accepts in the end what it is
\* sent again and again.  Nothing is assumed of how calls of the outbox follow
\* each other: that is the cycle's own doing.
Progress ==
  \/ \E F \in SUBSET Rules : Evaluate(F)
  \/ \E r \in Rules : EnqueueAlert(r)
  \/ StartDelivery \/ DeliverStep \/ DeliveryDone
  \/ Record \/ Commit \/ Publish \/ Prune \/ Wait
  \/ RejectAlert \/ Restart

Fairness ==
  /\ WF_vars(Progress)
  /\ \A d \in Deliveries : SF_vars(phase = "deliver" /\ SendOk(d) /\ UNCHANGED cycleVars)

FairSpec == Spec /\ Fairness

-----------------------------------------------------------------------------
(* Properties *)

\* While the daemon runs, the state a cycle starts from is the state a restart
\* would start from: no aborted cycle, failed save or crash leaves the rule
\* counters in memory ahead of or behind the state file; and the exporter
\* never serves a sample that a restart would forget (save before publish).
MemoryIsDisk ==
  /\ phase # "down" => memory = disk
  /\ published <= disk.step

\* The JSONL history runs ahead of the state file by at most the one cycle
\* that recorded its row and did not commit, whatever number of cycles aborted.
HistoryAtMostOneAhead == recorded \subseteq 0 .. disk.step + 1

\* No channel is sent an alert whose firing the state file does not know or
\* will not count next: re-evaluating after a crash or a failed save yields the
\* same event and not a second message (event identity, INSERT OR IGNORE).
MessagesFollowState ==
  \A e \in Events, c \in Channels :
    sends[e][c] > 0 => e[2] <= disk.fires[e[1]]

\* The state file never gets ahead of the outbox: when a save makes a firing
\* permanent, a delivery to each channel of the rule has been stored.
CommittedFiringsAreStored ==
  [][\A r \in Rules : disk'.fires[r] > disk.fires[r] =>
       \A c \in Targets[r] : row[<<r, disk.fires[r]>>][c].status # "none"]_vars

\* A stored delivery to a channel that works is eventually made, unless rules
\* with an unknown channel keep firing for ever.
DrainsUnlessPoisoned ==
  <>[](fired \cap Unroutable = {}) => HealthyChannelsDrain

\* docs/alerts.md: "A failed channel is retried": a delivery that failed on a
\* channel that works is eventually made.
FailedDeliveryIsRetried ==
  \A e \in Events, c \in Channels \ DeadChannels :
    row[e][c].status = "pending" /\ row[e][c].attempts > 0
      ~> row[e][c].status # "pending"

\* docs/alerts.md: hostmon "commits the new firing state before attempting
\* delivery".
StateCommittedBeforeDelivery ==
  [][\A e \in Events, c \in Channels :
       sends'[e][c] > sends[e][c] => e[2] < disk.fires[e[1]]]_vars
=============================================================================
