---------------------------- MODULE AlertOutbox ----------------------------
(***************************************************************************)
(* The durable alert outbox of src/host_monitor/outbox.py: two SQLite      *)
(* tables, outbox_events and outbox_deliveries, and the delivery loop the  *)
(* daemon runs over them once per monitoring cycle.                        *)
(*                                                                         *)
(* Time is the `now` argument of the calls, which one cycle reads once and *)
(* passes to all of them.  It is kept relative to the present: wait is     *)
(* next_attempt_at - now clipped at 0 (0 means due), age is                *)
(* now - created_at clipped at Retention + 1 (older than the pruning       *)
(* horizon).  Tick lets the clock advance between two calls.               *)
(*                                                                         *)
(* Payloads are not modelled: an event is its event_id.  attempts is       *)
(* clipped at MaxExponent, the only value mark_failed distinguishes.       *)
(***************************************************************************)
EXTENDS Integers, FiniteSets

CONSTANTS
  Events,        \* event ids
  Channels,      \* notification channels
  DeadChannels,  \* channels whose send_one always raises AlertError
  Limit,         \* LIMIT of pending(): 100 in the code
  MaxDelay,      \* cap of the retry delay: 300 s in the code
  MaxExponent,   \* cap of the exponent of the delay: 8 in the code
  Retention,     \* prune horizon: 7 * 86400 s in the code
  MaxAbandoned   \* bound: delivery loops cut short by a crash or a SQLite error

ASSUME LimitsAssumption ==
  /\ DeadChannels \subseteq Channels
  /\ Limit \in Nat \ {0}
  /\ MaxDelay \in Nat \ {0}
  /\ MaxExponent \in Nat \ {0}
  /\ Retention \in Nat
  /\ MaxAbandoned \in Nat
  /\ \A a \in 0 .. MaxExponent : 2 ^ a \in Nat \ {0}

VARIABLES
  events,   \* rows of outbox_events
  age,      \* age of each of them
  row,      \* rows of outbox_deliveries; status "none" is no row
  call,     \* "idle", or "deliver" while deliver_pending runs its loop
  batch,    \* deliveries of the SELECT that the loop has not reached
  sending,  \* the delivery between send_one and its UPDATE
  sends,    \* history: successful send_one calls since the row was inserted
  lost,     \* history: successful sends whose UPDATE never committed
  abandoned \* history: delivery loops cut short, at most MaxAbandoned

outboxVars ==
  <<events, age, row, call, batch, sending, sends, lost, abandoned>>

Deliveries == Events \X Channels

Status == {"none", "pending", "delivered"}

Row == [status : Status, attempts : 0 .. MaxExponent, wait : 0 .. MaxDelay]

NoRow == [status |-> "none", attempts |-> 0, wait |-> 0]

FreshRow == [NoRow EXCEPT !.status = "pending"]

Outcome == {"sent", "failed"}

NotSending == [state |-> "nothing"]

Sending == {NotSending} \cup [state : Outcome, event : Events, channel : Channels]

OutboxTypeOK ==
  /\ events \subseteq Events
  /\ age \in [Events -> 0 .. Retention + 1]
  /\ row \in [Events -> [Channels -> Row]]
  /\ call \in {"idle", "deliver"}
  /\ batch \subseteq Deliveries
  /\ sending \in Sending
  /\ sends \in [Events -> [Channels -> Nat]]
  /\ lost \in [Events -> [Channels -> Nat]]
  /\ abandoned \in 0 .. MaxAbandoned

OutboxInit ==
  /\ events = {}
  /\ age = [e \in Events |-> 0]
  /\ row = [e \in Events |-> [c \in Channels |-> NoRow]]
  /\ call = "idle"
  /\ batch = {}
  /\ sending = NotSending
  /\ sends = [e \in Events |-> [c \in Channels |-> 0]]
  /\ lost = [e \in Events |-> [c \in Channels |-> 0]]
  /\ abandoned = 0

-----------------------------------------------------------------------------
(* Helpers *)

Lesser(a, b) == IF a < b THEN a ELSE b

\* Mutant of Backoff: the 300 s cap forgotten.
BackoffUncapped(attempts) == 2 ^ Lesser(attempts, MaxExponent)

\* delay = min(300.0, float(2 ** min(attempts, 8)))
Backoff(attempts) == Lesser(MaxDelay, 2 ^ Lesser(attempts, MaxExponent))

IsPending(d) == row[d[1]][d[2]].status = "pending"

\* Mutant of Due: the status test forgotten.
DueWhateverStatus ==
  {d \in Deliveries : row[d[1]][d[2]].status # "none" /\ row[d[1]][d[2]].wait = 0}

\* Mutant of Due: a failed delivery is never read again.
DueFirstAttempt ==
  {d \in Deliveries : IsPending(d) /\ row[d[1]][d[2]].attempts = 0}

\* WHERE d.status = 'pending' AND d.next_attempt_at <= ?
Due == {d \in Deliveries : IsPending(d) /\ row[d[1]][d[2]].wait = 0}

\* ORDER BY e.created_at ... LIMIT ?: no delivery left out belongs to an
\* older event than one that is taken.
OldestFirst(chosen) ==
  /\ Cardinality(chosen) = Lesser(Limit, Cardinality(Due))
  /\ \A d \in chosen, other \in Due \ chosen : age[d[1]] >= age[other[1]]

\* Mutant of Prunable: the NOT EXISTS clause forgotten.
PrunableByAge(e) == e \in events /\ age[e] > Retention

\* WHERE created_at < ? AND NOT EXISTS (... status != 'delivered')
Prunable(e) ==
  /\ e \in events
  /\ age[e] > Retention
  /\ \A c \in Channels : row[e][c].status # "pending"

-----------------------------------------------------------------------------
(* Operations *)

\* Mutant of Enqueue: INSERT OR REPLACE instead of INSERT OR IGNORE.
EnqueueReplacing(e, targets) ==
  /\ call = "idle"
  /\ targets # {}
  /\ events' = events \cup {e}
  /\ age' = [age EXCEPT ![e] = 0]
  /\ row' = [row EXCEPT ![e] = [c \in Channels |->
               IF c \in targets THEN FreshRow ELSE row[e][c]]]
  /\ UNCHANGED <<call, batch, sending, sends, lost, abandoned>>

\* One transaction inserts the event and its deliveries; INSERT OR IGNORE
\* leaves rows that exist as they are.  Without channels nothing is written.
Enqueue(e, targets) ==
  /\ call = "idle"
  /\ targets # {}
  /\ events' = events \cup {e}
  /\ age' = IF e \in events THEN age ELSE [age EXCEPT ![e] = 0]
  /\ row' = [row EXCEPT ![e] = [c \in Channels |->
               IF c \in targets /\ row[e][c].status = "none"
               THEN FreshRow ELSE row[e][c]]]
  /\ UNCHANGED <<call, batch, sending, sends, lost, abandoned>>

\* deliver_pending starts: pending() reads the whole batch before any send.
SelectPending ==
  /\ call = "idle"
  /\ call' = "deliver"
  /\ batch' \in {chosen \in SUBSET Due : OldestFirst(chosen)}
  /\ UNCHANGED <<events, age, row, sending, sends, lost, abandoned>>

\* The loop takes the next delivery of the oldest event and calls send_one.
Take(d, outcome) ==
  /\ call = "deliver"
  /\ sending = NotSending
  /\ d \in batch
  /\ \A other \in batch : age[d[1]] >= age[other[1]]
  /\ batch' = batch \ {d}
  /\ sending' = [state |-> outcome, event |-> d[1], channel |-> d[2]]
  /\ UNCHANGED <<events, age, row, call, lost, abandoned>>

SendOk(d) ==
  /\ d[2] \notin DeadChannels
  /\ Take(d, "sent")
  /\ sends' = [sends EXCEPT ![d[1]][d[2]] = @ + 1]

SendFails(d) ==
  /\ Take(d, "failed")
  /\ UNCHANGED sends

\* Mutant of MarkDelivered: WHERE event_id = ? without AND channel = ?.
MarkEventDelivered ==
  /\ sending.state = "sent"
  /\ row' = [row EXCEPT ![sending.event] = [c \in Channels |->
               IF @[c].status = "pending" THEN [@[c] EXCEPT !.status = "delivered"]
               ELSE @[c]]]
  /\ sending' = NotSending
  /\ UNCHANGED <<events, age, call, batch, sends, lost, abandoned>>

MarkDelivered ==
  /\ sending.state = "sent"
  /\ row' = [row EXCEPT ![sending.event][sending.channel].status = "delivered"]
  /\ sending' = NotSending
  /\ UNCHANGED <<events, age, call, batch, sends, lost, abandoned>>

\* The UPDATE sets attempts and next_attempt_at and leaves status alone.
MarkFailed ==
  /\ sending.state = "failed"
  /\ row' = [row EXCEPT ![sending.event][sending.channel] =
               LET attempts == Lesser(@.attempts + 1, MaxExponent)
               IN  [@ EXCEPT !.attempts = attempts, !.wait = Backoff(attempts)]]
  /\ sending' = NotSending
  /\ UNCHANGED <<events, age, call, batch, sends, lost, abandoned>>

FinishDelivery ==
  /\ call = "deliver"
  /\ batch = {}
  /\ sending = NotSending
  /\ call' = "idle"
  /\ UNCHANGED <<events, age, row, batch, sending, sends, lost, abandoned>>

\* The loop is abandoned: the process dies, or the UPDATE raises MonitorError.
\* The database keeps what was committed; a send without its UPDATE is lost.
AbandonDelivery ==
  /\ call = "deliver"
  /\ call' = "idle"
  /\ batch' = {}
  /\ sending' = NotSending
  /\ lost' = IF sending.state = "sent"
             THEN [lost EXCEPT ![sending.event][sending.channel] = @ + 1]
             ELSE lost
  /\ abandoned < MaxAbandoned
  /\ abandoned' = abandoned + 1
  /\ UNCHANGED <<events, age, row, sends>>

\* DELETE FROM outbox_events, with ON DELETE CASCADE on the deliveries.
PruneDelivered ==
  /\ call = "idle"
  /\ events' = {e \in events : ~Prunable(e)}
  /\ age' = [e \in Events |-> IF Prunable(e) THEN 0 ELSE age[e]]
  /\ row' = [e \in Events |->
               IF Prunable(e) THEN [c \in Channels |-> NoRow] ELSE row[e]]
  /\ sends' = [e \in Events |->
               IF Prunable(e) THEN [c \in Channels |-> 0] ELSE sends[e]]
  /\ lost' = [e \in Events |->
               IF Prunable(e) THEN [c \in Channels |-> 0] ELSE lost[e]]
  /\ UNCHANGED <<call, batch, sending, abandoned>>

Tick ==
  /\ call = "idle"
  /\ age' = [e \in Events |->
               IF e \in events THEN Lesser(age[e] + 1, Retention + 1) ELSE age[e]]
  /\ row' = [e \in Events |-> [c \in Channels |->
               [row[e][c] EXCEPT !.wait = IF @ > 0 THEN @ - 1 ELSE 0]]]
  /\ UNCHANGED <<events, call, batch, sending, sends, lost, abandoned>>

OutboxNext ==
  \/ \E e \in Events, targets \in SUBSET Channels : Enqueue(e, targets)
  \/ SelectPending
  \/ \E d \in Deliveries : SendOk(d) \/ SendFails(d)
  \/ MarkDelivered
  \/ MarkFailed
  \/ FinishDelivery
  \/ AbandonDelivery
  \/ PruneDelivered
  \/ Tick

OutboxSpec == OutboxInit /\ [][OutboxNext]_outboxVars

\* run_forever calls deliver_pending in cycle after cycle while time passes;
\* the loop itself never waits; a channel that is not dead does not refuse the
\* same delivery for ever.
OutboxFairness ==
  /\ SF_outboxVars(SelectPending)
  /\ SF_outboxVars(Tick)
  /\ WF_outboxVars(\E d \in Deliveries : SendOk(d) \/ SendFails(d))
  /\ WF_outboxVars(MarkDelivered \/ MarkFailed \/ FinishDelivery)
  /\ \A d \in Deliveries : SF_outboxVars(SendOk(d))

FairOutboxSpec == OutboxSpec /\ OutboxFairness

-----------------------------------------------------------------------------
(* Properties *)

\* The ledger of a delivery balances: every successful send is acknowledged
\* in the database, or its acknowledgement was lost with an abandoned loop, or
\* it is the one in flight.  A channel therefore hears of an event at most once
\* more than acknowledgements of it were lost, and a row says "delivered" only
\* if the message did go out (deliver_pending, mark_delivered).
Acknowledged(e, c) == IF row[e][c].status = "delivered" THEN 1 ELSE 0

InFlight(e, c) ==
  IF sending = [state |-> "sent", event |-> e, channel |-> c] THEN 1 ELSE 0

SendLedger ==
  \A e \in Events, c \in Channels :
    sends[e][c] = lost[e][c] + Acknowledged(e, c) + InFlight(e, c)

\* No send_one for a delivery the database already has as delivered: a retry
\* of one channel never repeats another channel that succeeded, across any
\* number of crashes and re-enqueued duplicates.
NoSendAfterDelivered ==
  [][\A e \in Events, c \in Channels :
       sends'[e][c] > sends[e][c] => row[e][c].status = "pending"]_outboxVars

\* prune_delivered forgets an event only when it is past the horizon and each
\* of its channels has been sent the message at least once.
PruneForgetsNothingOwed ==
  [][\A e \in events \ events' :
       /\ age[e] > Retention
       /\ \A c \in Channels : row[e][c].status # "none" => sends[e][c] > 0
     ]_outboxVars

\* A pending delivery of a channel that works is eventually delivered, however
\* many crashes occur and however long other channels stay dead, provided the
\* dead deliveries do not fill a whole batch (Limit).
HealthyChannelsDrain ==
  \A e \in Events, c \in Channels \ DeadChannels :
    row[e][c].status = "pending" ~> row[e][c].status # "pending"

-----------------------------------------------------------------------------
(* Refinement *)

\* The tables seen as obligations.
Abstract == INSTANCE ReliableDelivery WITH
  owed <- {d \in Deliveries : IsPending(d)},
  discharged <- {d \in Deliveries : row[d[1]][d[2]].status = "delivered"},
  transmitted <- {d \in Deliveries : sends[d[1]][d[2]] > 0}

\* The outbox implements at-least-once delivery: every call and every crash is
\* a step of ReliableDelivery or leaves its obligations unchanged.
ImplementsReliableDelivery == Abstract!Spec

=============================================================================
