------------------------- MODULE MonitorCycleProofs -------------------------
(***************************************************************************)
(* What holds of the monitoring cycle for every set of rules and channels, *)
(* any number of firings and steps, and any number of aborted cycles and   *)
(* crashes.                                                                *)
(*                                                                         *)
(* A cycle uses the outbox by its own operations only, so that everything  *)
(* proved of the outbox holds of it (CycleUsesOutbox).  Agreement of the   *)
(* state file with the outbox rests on CycleInv: between evaluation and    *)
(* commit, next_state is the state in memory with the firings of this very *)
(* cycle counted, the alerts handled so far are stored under the ordinals  *)
(* of the state on disk, and no row carries a later ordinal.               *)
(***************************************************************************)
EXTENDS MonitorCycle, AlertOutboxProofs

\* The phases in which next_state exists and is not committed.
Working == {"enqueue", "deliver", "record", "commit"}

\* Only rules below the bound of the model have fired.
FiredMayFire == phase \in Working => \A r \in fired : memory.fires[r] < MaxFires

\* next_state is the state in memory, one step on, with this cycle's firings.
NextFollowsMemory ==
  phase \in Working =>
    /\ next.step = Lesser(memory.step + 1, MaxStep)
    /\ \A r \in Rules :
         next.fires[r] = memory.fires[r] + (IF r \in fired THEN 1 ELSE 0)

\* A delivery is stored only for a firing that the state file counts, or for
\* the next one.
RowsFollowState ==
  \A e \in Events, c \in Channels :
    row[e][c].status # "none" => e[2] <= disk.fires[e[1]]

\* The alerts the enqueue loop is done with are stored.
HandledAreStored ==
  phase \in Working =>
    \A r \in fired \ alerts : \A c \in Targets[r] :
      row[<<r, memory.fires[r]>>][c].status # "none"

\* Delivery starts after the last alert was enqueued.
AlertsHandled == phase \in {"deliver", "record", "commit"} => alerts = {}

CycleInv ==
  /\ OutboxInv
  /\ CycleTypeOK
  /\ MemoryIsDisk
  /\ HistoryAtMostOneAhead
  /\ FiredMayFire
  /\ NextFollowsMemory
  /\ RowsFollowState
  /\ HandledAreStored
  /\ AlertsHandled
  /\ MessagesFollowState

USE LimitsAssumption, CycleAssumption

-----------------------------------------------------------------------------
(* The cycle uses the outbox by its operations *)

\* An event of a rule below the bound is one of the events of the model.
LEMMA EventOfRule ==
  ASSUME CycleTypeOK, NEW r \in Rules, memory.fires[r] < MaxFires
  PROVE  EventOf(r) \in Events /\ EventOf(r) = <<r, memory.fires[r]>>
<1>1. memory.fires[r] \in 0 .. MaxFires
  BY DEF CycleTypeOK, State
<1> QED
  BY <1>1 DEF EventOf

\* The alert of a rule is enqueued for the rule's channels.
LEMMA EnqueueAlertStep ==
  ASSUME CycleTypeOK, FiredMayFire, NEW r \in Rules, EnqueueAlert(r)
  PROVE  /\ EventOf(r) \in Events /\ EventOf(r) = <<r, memory.fires[r]>>
         /\ Targets[r] \in SUBSET Channels
         /\ Targets[r] # {} => Enqueue(EventOf(r), Targets[r])
         /\ Targets[r] = {} => UNCHANGED outboxVars
<1>1. r \in fired /\ phase \in Working
  BY DEF EnqueueAlert, CycleTypeOK, Working
<1>2. memory.fires[r] < MaxFires
  BY <1>1 DEF FiredMayFire
<1> QED
  BY <1>2, EventOfRule DEF EnqueueAlert

\* Every step of the cycle is a step of the outbox or leaves it alone.
LEMMA StepUsesOutbox ==
  ASSUME CycleTypeOK, FiredMayFire, [Next]_vars
  PROVE  [OutboxNext]_outboxVars
<1>1. ASSUME NEW F \in SUBSET Rules, Evaluate(F)
      PROVE  UNCHANGED outboxVars
  BY <1>1 DEF Evaluate, outboxVars
<1>2. ASSUME NEW r \in Rules, EnqueueAlert(r)
      PROVE  [OutboxNext]_outboxVars
  BY <1>2, EnqueueAlertStep DEF OutboxNext
<1>3. CASE StartDelivery \/ DeliverStep \/ DeliveryDone \/ Prune \/ Wait
  BY <1>3 DEF StartDelivery, DeliverStep, DeliveryDone, Prune, Wait, OutboxNext
<1>4. CASE Record \/ Commit \/ Publish \/ RejectAlert \/ Restart
  BY <1>4 DEF Record, Commit, Publish, RejectAlert, Restart
<1>5. CASE Abort \/ Crash
  BY <1>5 DEF Abort, Crash, CutDelivery, OutboxNext
<1>6. CASE UNCHANGED vars
  BY <1>6 DEF vars
<1> QED
  BY <1>1, <1>2, <1>3, <1>4, <1>5, <1>6 DEF Next

-----------------------------------------------------------------------------
(* Type correctness *)

\* The state a first start finds.
LEMMA CycleInitType == Init => CycleTypeOK
  BY InitType DEF Init, CycleTypeOK, State, EmptyState, Phase

\* next_state is a state.
LEMMA NextState ==
  ASSUME CycleTypeOK, NEW F \in SUBSET Rules, \A r \in F : MayFire(r)
  PROVE  [step |-> Lesser(memory.step + 1, MaxStep),
          fires |-> [r \in Rules |->
            memory.fires[r] + (IF r \in F THEN 1 ELSE 0)]] \in State
<1>1. memory.step \in -1 .. MaxStep /\ memory.fires \in [Rules -> 0 .. MaxFires]
  BY DEF CycleTypeOK, State
<1>2. Lesser(memory.step + 1, MaxStep) \in 0 .. MaxStep
  BY <1>1 DEF Lesser
<1>3. \A r \in Rules :
        memory.fires[r] + (IF r \in F THEN 1 ELSE 0) \in 0 .. MaxFires
  BY <1>1 DEF MayFire
<1> QED
  BY <1>2, <1>3 DEF State

\* Every step keeps the parts of the cycle well formed.
LEMMA CycleTypeStep ==
  ASSUME CycleTypeOK, FiredMayFire, NextFollowsMemory, [Next]_vars
  PROVE  CycleTypeOK'
<1>1. OutboxTypeOK'
  BY StepUsesOutbox, TypeStep DEF CycleTypeOK
<1>2. ASSUME NEW F \in SUBSET Rules, Evaluate(F)
      PROVE  CycleTypeOK'
  <2>1. next' \in State
    BY <1>2, NextState DEF Evaluate
  <2> QED
    BY <1>1, <1>2, <2>1 DEF CycleTypeOK, Evaluate, Phase
<1>3. ASSUME NEW r \in Rules, EnqueueAlert(r)
      PROVE  CycleTypeOK'
  BY <1>1, <1>3 DEF CycleTypeOK, EnqueueAlert
<1>4. CASE StartDelivery \/ DeliverStep \/ DeliveryDone \/ Prune \/ Wait
  BY <1>1, <1>4
  DEF CycleTypeOK, StartDelivery, DeliverStep, DeliveryDone, Prune, Wait, Phase, cycleVars
<1>5. CASE Record
  <2>1. memory.step \in -1 .. MaxStep
    BY DEF CycleTypeOK, State
  <2>2. next.step \in 0 .. MaxStep
    BY <1>5, <2>1 DEF NextFollowsMemory, Working, Record, Lesser
  <2> QED
    BY <1>1, <1>5, <2>2 DEF CycleTypeOK, Record, Phase
<1>6. CASE Publish
  <2>1. memory.step \in -1 .. MaxStep
    BY DEF CycleTypeOK, State
  <2> QED
    BY <1>1, <1>6, <2>1 DEF CycleTypeOK, Publish, Phase
<1>7. CASE Commit \/ RejectAlert \/ Restart
  BY <1>1, <1>7 DEF CycleTypeOK, Commit, RejectAlert, Restart, Phase
<1>8. CASE Abort \/ Crash
  <2>1. faults' \in 0 .. MaxFaults
    BY <1>8 DEF CycleTypeOK, Abort, Crash, Fault
  <2>2. phase' \in Phase
    BY <1>8 DEF Abort, Crash, Phase
  <2>3. published' \in -1 .. MaxStep
    BY <1>8 DEF CycleTypeOK, Abort, Crash
  <2>4. UNCHANGED <<memory, disk, next, alerts, fired, recorded>>
    BY <1>8 DEF Abort, Crash
  <2> QED
    BY <1>1, <2>1, <2>2, <2>3, <2>4 DEF CycleTypeOK
<1>9. CASE UNCHANGED vars
  BY <1>1, <1>9 DEF CycleTypeOK, vars, cycleVars
<1> QED
  BY <1>2, <1>3, <1>4, <1>5, <1>6, <1>7, <1>8, <1>9 DEF Next

-----------------------------------------------------------------------------
(* Rows and sends *)

\* No operation of the outbox but Enqueue inserts rows, and none but
\* PruneDelivered deletes them.
NoNewRows ==
  \A e \in Events, c \in Channels :
    row'[e][c].status # "none" => row[e][c].status # "none"

NoRowsDeleted ==
  \A e \in Events, c \in Channels :
    row[e][c].status # "none" => row'[e][c].status # "none"

\* The steps of the delivery loop and of time keep the set of rows.
LEMMA LoopKeepsRows ==
  ASSUME OutboxInv,
         \/ SelectPending \/ MarkDelivered \/ MarkFailed
         \/ \E d \in Deliveries : SendOk(d) \/ SendFails(d)
         \/ FinishDelivery \/ AbandonDelivery \/ Tick \/ UNCHANGED outboxVars
  PROVE  NoNewRows /\ NoRowsDeleted
<1>1. CASE \/ SelectPending \/ \E d \in Deliveries : SendOk(d) \/ SendFails(d)
           \/ FinishDelivery \/ AbandonDelivery \/ UNCHANGED outboxVars
  <2>1. UNCHANGED row
    BY <1>1 DEF SelectPending, SendOk, SendFails, Take, FinishDelivery,
                AbandonDelivery, outboxVars
  <2> QED
    BY <2>1 DEF NoNewRows, NoRowsDeleted
<1>2. CASE Tick \/ MarkFailed
  BY <1>2, TickStatus, MarkFailedStatus DEF OutboxInv, NoNewRows, NoRowsDeleted
<1>3. CASE MarkDelivered
  <2> SUFFICES ASSUME NEW e \in Events, NEW c \in Channels
               PROVE  row'[e][c].status # "none" <=> row[e][c].status # "none"
    BY DEF NoNewRows, NoRowsDeleted
  <2>1. CASE e = sending.event /\ c = sending.channel
    <3>1. <<e, c>> \in Deliveries
      BY DEF Deliveries
    <3>2. row[e][c].status = "pending"
      BY <1>3, <2>1, <3>1 DEF OutboxInv, SendingIsPending, MarkDelivered, IsPending
    <3> QED
      BY <1>3, <2>1, <3>2, MarkDeliveredStatus DEF OutboxInv
  <2>2. CASE ~(e = sending.event /\ c = sending.channel)
    BY <1>3, <2>2, MarkDeliveredStatus DEF OutboxInv
  <2> QED
    BY <2>1, <2>2
<1> QED
  BY <1>1, <1>2, <1>3

\* Pruning only deletes rows.
LEMMA PruneAddsNoRows ==
  ASSUME PruneDelivered
  PROVE  NoNewRows
  BY DEF PruneDelivered, NoNewRows, NoRow

\* enqueue inserts the missing rows of its event and deletes none.
LEMMA EnqueueRows ==
  ASSUME OutboxTypeOK, NEW f \in Events, NEW targets \in SUBSET Channels,
         Enqueue(f, targets), NEW e \in Events, NEW c \in Channels
  PROVE  row'[e][c].status # "none"
           <=> row[e][c].status # "none" \/ (e = f /\ c \in targets)
  BY DEF OutboxTypeOK, Enqueue, FreshRow, NoRow

\* Of the steps of the cycle only EnqueueAlert inserts rows and only Prune
\* deletes them.
LEMMA CycleKeepsRows ==
  ASSUME CycleTypeOK, OutboxInv, [Next]_vars
  PROVE  /\ (\E r \in Rules : EnqueueAlert(r)) \/ NoNewRows
         /\ Prune \/ (\E r \in Rules : EnqueueAlert(r)) \/ NoRowsDeleted
<1>1. ASSUME NEW F \in SUBSET Rules, Evaluate(F)
      PROVE  UNCHANGED outboxVars
  BY <1>1 DEF Evaluate, outboxVars
<1>2. CASE StartDelivery \/ DeliverStep \/ DeliveryDone \/ Wait
  BY <1>2, LoopKeepsRows DEF StartDelivery, DeliverStep, DeliveryDone, Wait
<1>3. CASE Record \/ Commit \/ Publish \/ RejectAlert \/ Restart
  BY <1>3, LoopKeepsRows DEF Record, Commit, Publish, RejectAlert, Restart
<1>4. CASE Abort \/ Crash
  BY <1>4, LoopKeepsRows DEF Abort, Crash, CutDelivery
<1>5. CASE UNCHANGED vars
  BY <1>5, LoopKeepsRows DEF vars
<1>6. CASE Prune
  BY <1>6, PruneAddsNoRows DEF Prune
<1> QED
  BY <1>1, <1>2, <1>3, <1>4, <1>5, <1>6, LoopKeepsRows DEF Next

-----------------------------------------------------------------------------
(* The state file *)

\* A save never takes a firing back, and counts only firings of this cycle.
LEMMA DiskGrows ==
  ASSUME CycleTypeOK, MemoryIsDisk, NextFollowsMemory, [Next]_vars
  PROVE  /\ disk.step <= disk'.step
         /\ \A r \in Rules : /\ disk.fires[r] <= disk'.fires[r]
                             /\ disk'.fires[r] > disk.fires[r] => Commit /\ r \in fired
<1>1. /\ disk.step \in -1 .. MaxStep
      /\ \A r \in Rules : disk.fires[r] \in 0 .. MaxFires
  BY DEF CycleTypeOK, State
<1>2. CASE Commit
  <2>1. /\ disk' = next
        /\ next.step = Lesser(disk.step + 1, MaxStep)
        /\ \A r \in Rules : next.fires[r] = disk.fires[r] + (IF r \in fired THEN 1 ELSE 0)
    BY <1>2 DEF Commit, MemoryIsDisk, NextFollowsMemory, Working
  <2>2. disk.step <= Lesser(disk.step + 1, MaxStep)
    BY <1>1 DEF Lesser
  <2> QED
    BY <1>1, <1>2, <2>1, <2>2
<1>3. CASE ~Commit
  <2>1. disk' = disk
    BY <1>3 DEF Next, Evaluate, EnqueueAlert, StartDelivery, DeliverStep, DeliveryDone,
                Record, Publish, Prune, Wait, RejectAlert, Abort, Crash, Restart,
                cycleVars, vars
  <2> QED
    BY <1>1, <2>1
<1> QED
  BY <1>2, <1>3

\* Memory and disk agree again after every step, and the exporter serves no
\* later sample than the state file holds.
LEMMA MemoryIsDiskStep ==
  ASSUME CycleTypeOK, MemoryIsDisk, NextFollowsMemory, [Next]_vars
  PROVE  MemoryIsDisk'
<1>1. /\ published \in -1 .. MaxStep /\ disk.step \in -1 .. MaxStep
      /\ disk'.step \in Int
  <2>1. disk' \in {disk, next}
    BY DEF Next, Evaluate, EnqueueAlert, StartDelivery, DeliverStep, DeliveryDone,
           Record, Commit, Publish, Prune, Wait, RejectAlert, Abort, Crash, Restart,
           cycleVars, vars
  <2> QED
    BY <2>1 DEF CycleTypeOK, State
<1>2. disk.step <= disk'.step
  BY DiskGrows
<1>3. published' <= disk'.step
  <2>1. published' \in {published, -1} \/ (Publish /\ published' = memory.step)
    BY DEF Next, Evaluate, EnqueueAlert, StartDelivery, DeliverStep, DeliveryDone,
           Record, Commit, Publish, Prune, Wait, RejectAlert, Abort, Crash, Restart,
           cycleVars, vars
  <2>2. Publish => memory = disk /\ disk' = disk
    BY DEF Publish, MemoryIsDisk
  <2> QED
    BY <1>1, <1>2, <2>1, <2>2 DEF MemoryIsDisk
<1>4. phase' # "down" => memory' = disk'
  <2>1. CASE Restart \/ Commit
    BY <2>1 DEF Restart, Commit
  <2>2. CASE ~Restart /\ ~Commit
    <3>1. UNCHANGED <<memory, disk>> /\ (phase' # "down" => phase # "down")
      BY <2>2 DEF Next, Evaluate, EnqueueAlert, StartDelivery, DeliverStep,
                  DeliveryDone, Record, Publish, Prune, Wait, RejectAlert, Abort,
                  Crash, cycleVars, vars
    <3> QED
      BY <3>1 DEF MemoryIsDisk
  <2> QED
    BY <2>1, <2>2
<1> QED
  BY <1>3, <1>4 DEF MemoryIsDisk

\* The history runs ahead by the cycle that recorded and did not commit.
LEMMA HistoryStep ==
  ASSUME CycleTypeOK, MemoryIsDisk, HistoryAtMostOneAhead, NextFollowsMemory,
         [Next]_vars
  PROVE  HistoryAtMostOneAhead'
<1>1. disk.step \in -1 .. MaxStep /\ disk'.step \in Int /\ disk.step <= disk'.step
  <2>1. disk' \in {disk, next}
    BY DEF Next, Evaluate, EnqueueAlert, StartDelivery, DeliverStep, DeliveryDone,
           Record, Commit, Publish, Prune, Wait, RejectAlert, Abort, Crash, Restart,
           cycleVars, vars
  <2> QED
    BY <2>1, DiskGrows DEF CycleTypeOK, State
<1>2. CASE Record
  <2>1. next.step = Lesser(disk.step + 1, MaxStep) /\ disk' = disk
    BY <1>2 DEF Record, MemoryIsDisk, NextFollowsMemory, Working
  <2>2. next.step \in 0 .. disk.step + 1
    BY <1>1, <2>1 DEF Lesser
  <2>3. recorded' \in {recorded \cup {next.step}, recorded}
    BY <1>2 DEF Record
  <2> QED
    BY <2>1, <2>2, <2>3 DEF HistoryAtMostOneAhead
<1>3. CASE ~Record
  <2>1. recorded' = recorded
    BY <1>3 DEF Next, Evaluate, EnqueueAlert, StartDelivery, DeliverStep,
                DeliveryDone, Commit, Publish, Prune, Wait, RejectAlert, Abort,
                Crash, Restart, cycleVars, vars
  <2> QED
    BY <1>1, <2>1 DEF HistoryAtMostOneAhead
<1> QED
  BY <1>2, <1>3

-----------------------------------------------------------------------------
(* next_state and the alert loop *)

\* Between evaluation and commit, next_state is memory plus the firings.
LEMMA NextStep ==
  ASSUME CycleTypeOK, FiredMayFire, NextFollowsMemory, [Next]_vars
  PROVE  FiredMayFire' /\ NextFollowsMemory'
<1>1. ASSUME NEW F \in SUBSET Rules, Evaluate(F)
      PROVE  FiredMayFire' /\ NextFollowsMemory'
  <2>1. memory' = memory /\ fired' = F
    BY <1>1 DEF Evaluate
  <2>2. \A r \in F : memory.fires[r] < MaxFires
    BY <1>1 DEF Evaluate, MayFire
  <2>3. /\ next'.step = Lesser(memory.step + 1, MaxStep)
        /\ \A r \in Rules : next'.fires[r] = memory.fires[r] + (IF r \in F THEN 1 ELSE 0)
    BY <1>1 DEF Evaluate
  <2> QED
    BY <2>1, <2>2, <2>3 DEF FiredMayFire, NextFollowsMemory
<1>2. CASE \/ \E r \in Rules : EnqueueAlert(r)
           \/ StartDelivery \/ DeliverStep \/ DeliveryDone \/ Record \/ UNCHANGED vars
  <2>1. /\ UNCHANGED <<memory, next, fired>>
        /\ phase' \in Working => phase \in Working
    BY <1>2 DEF EnqueueAlert, StartDelivery, DeliverStep, DeliveryDone, Record,
                Working, cycleVars, vars
  <2> QED
    BY <2>1 DEF FiredMayFire, NextFollowsMemory
<1>3. CASE \/ Commit \/ Publish \/ Prune \/ Wait \/ RejectAlert \/ Abort \/ Crash
           \/ Restart
  <2>1. phase' \notin Working
    BY <1>3 DEF Commit, Publish, Prune, Wait, RejectAlert, Abort, Crash, Restart, Working
  <2> QED
    BY <2>1 DEF FiredMayFire, NextFollowsMemory
<1> QED
  BY <1>1, <1>2, <1>3 DEF Next

\* Rows appear under the ordinal the state on disk will count next.
LEMMA RowsStep ==
  ASSUME CycleTypeOK, OutboxInv, MemoryIsDisk, FiredMayFire, NextFollowsMemory,
         RowsFollowState, [Next]_vars
  PROVE  RowsFollowState'
<1> SUFFICES ASSUME NEW e \in Events, NEW c \in Channels,
                    row'[e][c].status # "none"
             PROVE  e[2] <= disk'.fires[e[1]]
  BY DEF RowsFollowState
<1>1. e[1] \in Rules /\ e[2] \in Int
  OBVIOUS
<1>2. disk.fires[e[1]] \in Int /\ disk'.fires[e[1]] \in Int
  <2>1. disk' \in State
    BY CycleTypeStep DEF CycleTypeOK
  <2> QED
    BY <1>1, <2>1 DEF CycleTypeOK, State
<1>3. disk.fires[e[1]] <= disk'.fires[e[1]]
  BY <1>1, DiskGrows
<1>4. CASE row[e][c].status # "none"
  BY <1>1, <1>2, <1>3, <1>4 DEF RowsFollowState
<1>5. CASE row[e][c].status = "none"
  <2>1. PICK r \in Rules : EnqueueAlert(r)
    BY <1>5, CycleKeepsRows DEF NoNewRows
  <2>2. e = <<r, memory.fires[r]>>
    BY <1>5, <2>1, EnqueueAlertStep, EnqueueRows DEF CycleTypeOK, outboxVars
  <2>3. memory = disk
    BY <2>1 DEF EnqueueAlert, MemoryIsDisk
  <2> QED
    BY <1>2, <1>3, <2>2, <2>3
<1> QED
  BY <1>4, <1>5

\* No iteration of the alert loop is skipped before delivery starts.
LEMMA AlertsStep ==
  ASSUME CycleTypeOK, AlertsHandled, [Next]_vars
  PROVE  AlertsHandled'
  BY DEF AlertsHandled, Next, Evaluate, EnqueueAlert, StartDelivery, DeliverStep,
         DeliveryDone, Record, Commit, Publish, Prune, Wait, RejectAlert, Abort, Crash,
         Restart, cycleVars, vars

\* The alerts the loop is done with stay stored until the cycle has committed.
LEMMA HandledStep ==
  ASSUME CycleTypeOK, OutboxInv, FiredMayFire, HandledAreStored, [Next]_vars
  PROVE  HandledAreStored'
<1>1. ASSUME NEW F \in SUBSET Rules, Evaluate(F)
      PROVE  HandledAreStored'
  BY <1>1 DEF Evaluate, HandledAreStored
<1>2. ASSUME NEW s \in Rules, EnqueueAlert(s)
      PROVE  HandledAreStored'
  <2> SUFFICES ASSUME NEW r \in fired \ (alerts \ {s}), NEW c \in Targets[r]
               PROVE  row'[<<r, memory.fires[r]>>][c].status # "none"
    BY <1>2 DEF EnqueueAlert, HandledAreStored
  <2>1. phase \in Working /\ r \in Rules /\ c \in Channels
    BY <1>2 DEF EnqueueAlert, Working, CycleTypeOK
  <2>2. <<r, memory.fires[r]>> \in Events
    BY <2>1, EventOfRule DEF FiredMayFire
  <2>3. CASE r = s
    BY <1>2, <2>1, <2>2, <2>3, EnqueueAlertStep, EnqueueRows DEF CycleTypeOK
  <2>4. CASE r # s
    <3>1. row[<<r, memory.fires[r]>>][c].status # "none"
      BY <2>1, <2>4 DEF HandledAreStored
    <3> QED
      BY <1>2, <2>1, <2>2, <3>1, EnqueueAlertStep, EnqueueRows
      DEF CycleTypeOK, outboxVars
  <2> QED
    BY <2>3, <2>4
<1>3. CASE StartDelivery \/ DeliverStep \/ DeliveryDone \/ Record \/ UNCHANGED vars
  <2>1. /\ UNCHANGED <<memory, fired, alerts>>
        /\ phase' \in Working => phase \in Working
    BY <1>3 DEF StartDelivery, DeliverStep, DeliveryDone, Record, Working, cycleVars, vars
  <2>2. NoRowsDeleted
    BY <1>3, LoopKeepsRows
    DEF StartDelivery, DeliverStep, DeliveryDone, Record, vars
  <2> SUFFICES ASSUME phase \in Working,
                      NEW r \in fired \ alerts, NEW c \in Targets[r]
               PROVE  row'[<<r, memory.fires[r]>>][c].status # "none"
    BY <2>1 DEF HandledAreStored
  <2>3. r \in Rules /\ c \in Channels
    BY DEF CycleTypeOK
  <2>4. <<r, memory.fires[r]>> \in Events
    BY <2>3, EventOfRule DEF FiredMayFire
  <2> QED
    BY <2>2, <2>3, <2>4 DEF HandledAreStored, NoRowsDeleted
<1>4. CASE \/ Commit \/ Publish \/ Prune \/ Wait \/ RejectAlert \/ Abort \/ Crash
           \/ Restart
  <2>1. phase' \notin Working
    BY <1>4 DEF Commit, Publish, Prune, Wait, RejectAlert, Abort, Crash, Restart, Working
  <2> QED
    BY <2>1 DEF HandledAreStored
<1> QED
  BY <1>1, <1>2, <1>3, <1>4 DEF Next

\* What is sent has a row, so its ordinal is on disk or comes next.
LEMMA MessagesStep ==
  ASSUME CycleTypeOK, OutboxInv, MemoryIsDisk, FiredMayFire, NextFollowsMemory,
         RowsFollowState, MessagesFollowState, [Next]_vars
  PROVE  MessagesFollowState'
<1> SUFFICES ASSUME NEW e \in Events, NEW c \in Channels, sends'[e][c] > 0
             PROVE  e[2] <= disk'.fires[e[1]]
  BY DEF MessagesFollowState
<1>1. e[1] \in Rules /\ e[2] \in Int
  OBVIOUS
<1>2. disk.fires[e[1]] \in Int /\ disk'.fires[e[1]] \in Int
  <2>1. disk' \in State
    BY CycleTypeStep DEF CycleTypeOK
  <2> QED
    BY <1>1, <2>1 DEF CycleTypeOK, State
<1>3. disk.fires[e[1]] <= disk'.fires[e[1]]
  BY <1>1, DiskGrows
<1>4. sends[e][c] \in Nat /\ sends'[e][c] \in Nat
  BY StepUsesOutbox, TypeStep DEF CycleTypeOK, OutboxTypeOK
<1>5. CASE sends[e][c] > 0
  BY <1>1, <1>2, <1>3, <1>5 DEF MessagesFollowState
<1>6. CASE ~(sends[e][c] > 0)
  <2>1. sends'[e][c] > sends[e][c]
    BY <1>4, <1>6
  <2>2. row[e][c].status = "pending"
    BY <2>1, StepUsesOutbox, SendsArePending
  <2> QED
    BY <1>1, <1>2, <1>3, <2>2 DEF RowsFollowState
<1> QED
  BY <1>5, <1>6

-----------------------------------------------------------------------------
(* Theorems *)

\* A first start satisfies the invariant.
LEMMA CycleInvInit == Init => CycleInv
<1> SUFFICES ASSUME Init PROVE CycleInv
  OBVIOUS
<1>1. OutboxInv /\ CycleTypeOK
  BY InvInit, CycleInitType DEF Init
<1>2. MemoryIsDisk /\ HistoryAtMostOneAhead
  BY DEF Init, EmptyState, MemoryIsDisk, HistoryAtMostOneAhead
<1>3. FiredMayFire /\ NextFollowsMemory /\ HandledAreStored /\ AlertsHandled
  BY DEF Init, FiredMayFire, NextFollowsMemory, HandledAreStored, AlertsHandled, Working
<1>4. RowsFollowState /\ MessagesFollowState
  BY DEF Init, OutboxInit, NoRow, RowsFollowState, MessagesFollowState
<1> QED
  BY <1>1, <1>2, <1>3, <1>4 DEF CycleInv

\* Every step of the cycle, an aborted or crashed one too, keeps the invariant.
LEMMA CycleInvStep == CycleInv /\ [Next]_vars => CycleInv'
<1> SUFFICES ASSUME CycleInv, [Next]_vars PROVE CycleInv'
  OBVIOUS
<1>1. OutboxInv'
  BY StepUsesOutbox, InvStep DEF CycleInv
<1>2. CycleTypeOK' /\ MemoryIsDisk' /\ HistoryAtMostOneAhead'
  BY CycleTypeStep, MemoryIsDiskStep, HistoryStep DEF CycleInv
<1>3. FiredMayFire' /\ NextFollowsMemory' /\ AlertsHandled'
  BY NextStep, AlertsStep DEF CycleInv
<1>4. RowsFollowState' /\ HandledAreStored' /\ MessagesFollowState'
  BY RowsStep, HandledStep, MessagesStep DEF CycleInv
<1> QED
  BY <1>1, <1>2, <1>3, <1>4 DEF CycleInv

\* The invariant of the cycle holds in every reachable state.
THEOREM CycleInvariant == Spec => []CycleInv
  BY CycleInvInit, CycleInvStep, PTL DEF Spec

\* The state of a cycle is well formed throughout.
THEOREM CycleTypeCorrect == Spec => []CycleTypeOK
<1>1. CycleInv => CycleTypeOK
  BY DEF CycleInv
<1> QED
  BY <1>1, CycleInvariant, PTL

\* Under the cycle the outbox behaves as specified on its own: enqueue, deliver
\* and prune never overlap, however cycles abort or crash.  So the daemon
\* delivers every alert at least once in the sense of ReliableDelivery.
THEOREM CycleUsesOutbox == Spec => OutboxSpec
<1>1. Init => OutboxInit
  BY DEF Init
<1>2. CycleInv /\ [Next]_vars => [OutboxNext]_outboxVars
  BY StepUsesOutbox DEF CycleInv
<1> QED
  BY <1>1, <1>2, CycleInvariant, PTL DEF Spec, OutboxSpec

\* No channel of the daemon is sent a delivery that is already acknowledged.
THEOREM CycleSendsNoDelivered == Spec => NoSendAfterDelivered
  BY CycleUsesOutbox, NoDeliveredIsSent, PTL

\* While the daemon runs, what it would restart from is what it runs with
\* (save before self.state = next_state), and the exporter serves no sample a
\* restart would forget (save before publish).
THEOREM MemoryAgreesWithDisk == Spec => []MemoryIsDisk
<1>1. CycleInv => MemoryIsDisk
  BY DEF CycleInv
<1> QED
  BY <1>1, CycleInvariant, PTL

\* However many cycles abort, the JSONL history is at most one step ahead of
\* the state file.
THEOREM HistoryIsBarelyAhead == Spec => []HistoryAtMostOneAhead
<1>1. CycleInv => HistoryAtMostOneAhead
  BY DEF CycleInv
<1> QED
  BY <1>1, CycleInvariant, PTL

\* A message on a channel is about a firing the state file counts or will count
\* next, so re-evaluation after a failure yields the same event id.
THEOREM MessagesAgreeWithState == Spec => []MessagesFollowState
<1>1. CycleInv => MessagesFollowState
  BY DEF CycleInv
<1> QED
  BY <1>1, CycleInvariant, PTL

\* When a save makes a firing permanent, a delivery to each channel of the rule
\* has been stored: no crash between enqueue and save loses an alert.
THEOREM NoFiringIsLost == Spec => CommittedFiringsAreStored
<1> DEFINE Stored == \A r \in Rules : disk'.fires[r] > disk.fires[r] =>
              \A c \in Targets[r] : row[<<r, disk.fires[r]>>][c].status # "none"
<1>1. ASSUME CycleInv, [Next]_vars PROVE Stored
  <2> SUFFICES ASSUME NEW r \in Rules, disk'.fires[r] > disk.fires[r],
                      NEW c \in Targets[r]
               PROVE  row[<<r, disk.fires[r]>>][c].status # "none"
    OBVIOUS
  <2>1. Commit /\ r \in fired
    BY <1>1, DiskGrows DEF CycleInv
  <2>2. memory = disk /\ alerts = {} /\ phase \in Working
    BY <1>1, <2>1 DEF CycleInv, MemoryIsDisk, AlertsHandled, Working, Commit
  <2> QED
    BY <1>1, <2>1, <2>2 DEF CycleInv, HandledAreStored
<1> QED
  BY <1>1, CycleInvariant, PTL DEF Spec, CommittedFiringsAreStored

=============================================================================
