------------------------- MODULE AlertOutboxProofs -------------------------
(***************************************************************************)
(* What holds of the alert outbox for every set of events and channels,    *)
(* every batch limit, delay cap and pruning horizon, and any number of     *)
(* abandoned delivery loops.                                               *)
(*                                                                         *)
(* The ledger of AlertOutbox is not inductive by itself: that a send adds  *)
(* one to it needs the delivery in the loop to be pending in the database, *)
(* and that is so because nothing but the loop changes a row between the   *)
(* SELECT and its UPDATE.  OutboxInv adds these two facts.                 *)
(***************************************************************************)
EXTENDS AlertOutbox, TLAPS

\* Outside deliver_pending nothing is left of a batch or of a send.
IdleIsClean == call = "idle" => batch = {} /\ sending = NotSending

\* What the loop has read and not reached is pending in the database.
BatchIsPending == \A d \in batch : IsPending(d)

\* The delivery between its send and its UPDATE is pending, and was taken out
\* of the batch.
SendingIsPending ==
  \A d \in Deliveries :
    sending.state # "nothing" /\ d = <<sending.event, sending.channel>>
      => IsPending(d) /\ d \notin batch

OutboxInv ==
  /\ OutboxTypeOK
  /\ IdleIsClean
  /\ BatchIsPending
  /\ SendingIsPending
  /\ SendLedger

USE LimitsAssumption

-----------------------------------------------------------------------------
(* Helpers *)

\* Backoff stays within the column's range: 1 to the cap of 300 seconds.
LEMMA BackoffRange ==
  ASSUME NEW a \in 0 .. MaxExponent
  PROVE  Backoff(a) \in 1 .. MaxDelay
<1>1. Lesser(a, MaxExponent) = a
  BY DEF Lesser
<1>2. 2 ^ a \in Nat \ {0}
  OBVIOUS
<1> QED
  BY <1>1, <1>2 DEF Backoff, Lesser

\* The record a failed delivery's row becomes.
LEMMA FailedRow ==
  ASSUME NEW r \in Row
  PROVE  LET attempts == Lesser(r.attempts + 1, MaxExponent)
         IN  [r EXCEPT !.attempts = attempts, !.wait = Backoff(attempts)] \in Row
<1> DEFINE attempts == Lesser(r.attempts + 1, MaxExponent)
<1>1. attempts \in 0 .. MaxExponent
  BY DEF Lesser, Row
<1>2. Backoff(attempts) \in 0 .. MaxDelay
  BY <1>1, BackoffRange
<1> HIDE DEF attempts
<1>3. [r EXCEPT !.attempts = attempts, !.wait = Backoff(attempts)] \in Row
  BY <1>1, <1>2 DEF Row
<1> QED
  BY <1>3 DEF attempts

\* What is in flight is a delivery or nothing.
LEMMA SendingCases ==
  ASSUME sending \in Sending
  PROVE  \/ sending = NotSending /\ sending.state = "nothing"
         \/ /\ sending.state \in {"sent", "failed"}
            /\ sending.event \in Events
            /\ sending.channel \in Channels
            /\ sending = [state |-> sending.state, event |-> sending.event,
                          channel |-> sending.channel]
  BY DEF Sending, NotSending, Outcome

-----------------------------------------------------------------------------
(* Type correctness *)

\* The empty database is well formed.
LEMMA InitType == OutboxInit => OutboxTypeOK
  BY DEF OutboxInit, OutboxTypeOK, Row, NoRow, Status, Sending

\* INSERT OR IGNORE adds well-formed rows.
LEMMA EnqueueType ==
  ASSUME OutboxTypeOK, NEW e \in Events, NEW targets \in SUBSET Channels,
         Enqueue(e, targets)
  PROVE  OutboxTypeOK'
<1>1. FreshRow \in Row
  BY DEF FreshRow, NoRow, Row, Status
<1>2. row' \in [Events -> [Channels -> Row]]
  BY <1>1 DEF OutboxTypeOK, Enqueue
<1> QED
  BY <1>2 DEF OutboxTypeOK, Enqueue

\* The SELECT yields known deliveries.
LEMMA SelectType == ASSUME OutboxTypeOK, SelectPending PROVE OutboxTypeOK'
  BY DEF OutboxTypeOK, SelectPending, Due

\* The loop takes known deliveries, and counts their sends.
LEMMA TakeType ==
  ASSUME OutboxTypeOK, NEW d \in Deliveries, SendOk(d) \/ SendFails(d)
  PROVE  OutboxTypeOK'
<1>1. d[1] \in Events /\ d[2] \in Channels
  BY DEF Deliveries
<1>2. sending' \in Sending
  BY <1>1 DEF SendOk, SendFails, Take, Sending, Outcome
<1>3. sends' \in [Events -> [Channels -> Nat]]
  <2>1. CASE SendOk(d)
    <3> DEFINE e == d[1]
               c == d[2]
    <3>1. sends[e] \in [Channels -> Nat] /\ sends[e][c] + 1 \in Nat
      BY <1>1 DEF OutboxTypeOK
    <3>2. sends' = [sends EXCEPT ![e] = [sends[e] EXCEPT ![c] = sends[e][c] + 1]]
      BY <2>1 DEF SendOk
    <3> HIDE DEF e, c
    <3> QED
      BY <3>1, <3>2 DEF OutboxTypeOK
  <2>2. CASE SendFails(d)
    BY <2>2 DEF OutboxTypeOK, SendFails
  <2> QED
    BY <2>1, <2>2
<1> QED
  BY <1>2, <1>3 DEF OutboxTypeOK, SendOk, SendFails, Take

\* mark_delivered keeps the row well formed.
LEMMA MarkDeliveredType == ASSUME OutboxTypeOK, MarkDelivered PROVE OutboxTypeOK'
<1> DEFINE e == sending.event
           c == sending.channel
<1>1. e \in Events /\ c \in Channels
  BY SendingCases DEF OutboxTypeOK, MarkDelivered
<1>2. [row[e][c] EXCEPT !.status = "delivered"] \in Row
  <2>1. row[e][c] \in Row
    BY <1>1 DEF OutboxTypeOK
  <2> HIDE DEF e, c
  <2> QED
    BY <2>1 DEF Row, Status
<1>3. row' \in [Events -> [Channels -> Row]]
  BY <1>1, <1>2 DEF OutboxTypeOK, MarkDelivered
<1> QED
  BY <1>3 DEF OutboxTypeOK, MarkDelivered, Sending

\* mark_failed keeps attempts and the retry delay in range.
LEMMA MarkFailedType == ASSUME OutboxTypeOK, MarkFailed PROVE OutboxTypeOK'
<1> DEFINE e == sending.event
           c == sending.channel
           attempts == Lesser(row[e][c].attempts + 1, MaxExponent)
           new == [row[e][c] EXCEPT !.attempts = attempts, !.wait = Backoff(attempts)]
<1>1. e \in Events /\ c \in Channels
  BY SendingCases DEF OutboxTypeOK, MarkFailed
<1>2. row[e][c] \in Row
  BY <1>1 DEF OutboxTypeOK
<1>3. new \in Row
  BY <1>2, FailedRow
<1>4. row' = [row EXCEPT ![e][c] = new]
  BY DEF MarkFailed
<1>5. row' \in [Events -> [Channels -> Row]]
  BY <1>1, <1>3, <1>4 DEF OutboxTypeOK
<1> QED
  BY <1>5 DEF OutboxTypeOK, MarkFailed, Sending

\* The end of the loop changes no table.
LEMMA FinishType == ASSUME OutboxTypeOK, FinishDelivery PROVE OutboxTypeOK'
  BY DEF OutboxTypeOK, FinishDelivery

\* A crash leaves well-formed tables behind.
LEMMA AbandonType == ASSUME OutboxTypeOK, AbandonDelivery PROVE OutboxTypeOK'
<1>1. lost' \in [Events -> [Channels -> Nat]]
  BY SendingCases DEF OutboxTypeOK, AbandonDelivery
<1> QED
  BY <1>1 DEF OutboxTypeOK, AbandonDelivery, Sending

\* Deleted rows are no rows.
LEMMA PruneType == ASSUME OutboxTypeOK, PruneDelivered PROVE OutboxTypeOK'
<1>1. NoRow \in Row
  BY DEF NoRow, Row, Status
<1> QED
  BY <1>1 DEF OutboxTypeOK, PruneDelivered

\* Time keeps ages and waits in range.
LEMMA TickType == ASSUME OutboxTypeOK, Tick PROVE OutboxTypeOK'
<1>1. age' \in [Events -> 0 .. Retention + 1]
  BY DEF OutboxTypeOK, Tick, Lesser
<1>2. row' \in [Events -> [Channels -> Row]]
  <2> DEFINE Later(r) == [r EXCEPT !.wait = IF r.wait > 0 THEN r.wait - 1 ELSE 0]
  <2>1. \A r \in Row : Later(r) \in Row
    BY DEF Row
  <2>2. row' = [e \in Events |-> [c \in Channels |-> Later(row[e][c])]]
    BY DEF Tick
  <2> HIDE DEF Later
  <2> QED
    BY <2>1, <2>2 DEF OutboxTypeOK
<1> QED
  BY <1>1, <1>2 DEF OutboxTypeOK, Tick

\* Every step of the outbox keeps its tables well formed.
LEMMA TypeStep == OutboxTypeOK /\ [OutboxNext]_outboxVars => OutboxTypeOK'
<1> SUFFICES ASSUME OutboxTypeOK, [OutboxNext]_outboxVars PROVE OutboxTypeOK'
  OBVIOUS
<1>1. ASSUME NEW e \in Events, NEW targets \in SUBSET Channels, Enqueue(e, targets)
      PROVE  OutboxTypeOK'
  BY <1>1, EnqueueType
<1>2. CASE SelectPending
  BY <1>2, SelectType
<1>3. ASSUME NEW d \in Deliveries, SendOk(d) \/ SendFails(d)
      PROVE  OutboxTypeOK'
  BY <1>3, TakeType
<1>4. CASE MarkDelivered
  BY <1>4, MarkDeliveredType
<1>5. CASE MarkFailed
  BY <1>5, MarkFailedType
<1>6. CASE FinishDelivery
  BY <1>6, FinishType
<1>7. CASE AbandonDelivery
  BY <1>7, AbandonType
<1>8. CASE PruneDelivered
  BY <1>8, PruneType
<1>9. CASE Tick
  BY <1>9, TickType
<1>10. CASE UNCHANGED outboxVars
  BY <1>10 DEF OutboxTypeOK, outboxVars
<1> QED
  BY <1>1, <1>2, <1>3, <1>4, <1>5, <1>6, <1>7, <1>8, <1>9, <1>10 DEF OutboxNext

\* The tables and the loop stay well formed whatever calls, crashes and channel
\* failures occur: retry delays within the cap, attempts within the exponent,
\* only known deliveries read and sent (enqueue, pending, mark_failed, prune).
THEOREM OutboxTypeCorrect == OutboxSpec => []OutboxTypeOK
  BY InitType, TypeStep, PTL DEF OutboxSpec

-----------------------------------------------------------------------------
(* The delivery loop *)

\* A delivery is the pair of its event and its channel.
LEMMA DeliveryParts ==
  ASSUME NEW d \in Deliveries
  PROVE  d[1] \in Events /\ d[2] \in Channels /\ d = <<d[1], d[2]>>
  BY DEF Deliveries

\* The three facts about the loop, which every step keeps.
LoopInv == IdleIsClean /\ BatchIsPending /\ SendingIsPending

\* Enqueue runs outside the loop.
LEMMA EnqueueLoop ==
  ASSUME OutboxTypeOK, LoopInv, NEW e \in Events, NEW targets \in SUBSET Channels,
         Enqueue(e, targets)
  PROVE  LoopInv'
<1>1. batch' = {} /\ sending' = NotSending
  BY DEF LoopInv, IdleIsClean, Enqueue
<1> QED
  BY <1>1 DEF LoopInv, IdleIsClean, BatchIsPending, SendingIsPending, NotSending

\* What the SELECT reads is pending.
LEMMA SelectLoop ==
  ASSUME OutboxTypeOK, LoopInv, SelectPending
  PROVE  LoopInv'
<1>1. \A d \in Deliveries : IsPending(d)' <=> IsPending(d)
  BY DEF SelectPending, IsPending
<1>2. batch' \subseteq Deliveries /\ \A d \in batch' : IsPending(d)
  BY DEF SelectPending, Due
<1>3. sending' = NotSending /\ call' = "deliver"
  BY DEF LoopInv, IdleIsClean, SelectPending
<1> QED
  BY <1>1, <1>2, <1>3
  DEF LoopInv, IdleIsClean, BatchIsPending, SendingIsPending, NotSending

\* The delivery that is sent was read as pending, and leaves the batch.
LEMMA TakeLoop ==
  ASSUME OutboxTypeOK, LoopInv, NEW d \in Deliveries, SendOk(d) \/ SendFails(d)
  PROVE  LoopInv'
<1>1. PICK outcome \in Outcome : Take(d, outcome)
  BY DEF SendOk, SendFails, Outcome
<1>2. \A other : IsPending(other)' <=> IsPending(other)
  BY <1>1 DEF Take, IsPending
<1>3. /\ call' = "deliver"
      /\ batch' = batch \ {d}
      /\ d = <<sending'.event, sending'.channel>>
      /\ IsPending(d)
  BY <1>1, DeliveryParts DEF Take, LoopInv, BatchIsPending
<1>4. BatchIsPending'
  BY <1>2, <1>3 DEF LoopInv, BatchIsPending
<1>5. SendingIsPending'
  BY <1>2, <1>3 DEF SendingIsPending
<1> QED
  BY <1>3, <1>4, <1>5 DEF LoopInv, IdleIsClean

\* A row other than that of the delivery in the loop is left alone by the loop.
LEMMA MarkLoop ==
  ASSUME OutboxTypeOK, LoopInv, MarkDelivered \/ MarkFailed
  PROVE  LoopInv'
<1> DEFINE e == sending.event
           c == sending.channel
<1>1. /\ e \in Events /\ c \in Channels
      /\ sending.state # "nothing"
  BY SendingCases DEF OutboxTypeOK, MarkDelivered, MarkFailed
<1>2. <<e, c>> \in Deliveries /\ <<e, c>> \notin batch
  BY <1>1 DEF Deliveries, LoopInv, SendingIsPending
<1>3. call = "deliver"
  BY <1>1 DEF OutboxTypeOK, LoopInv, IdleIsClean, NotSending
<1>4. batch' = batch /\ call' = call /\ sending' = NotSending
  BY DEF MarkDelivered, MarkFailed
<1>5. \E r : row' = [row EXCEPT ![e][c] = r]
  BY DEF MarkDelivered, MarkFailed
<1>6. ASSUME NEW d \in batch PROVE IsPending(d)'
  <2>1. d \in Deliveries /\ d # <<e, c>>
    BY <1>2 DEF OutboxTypeOK
  <2>2. row'[d[1]][d[2]] = row[d[1]][d[2]]
    BY <1>1, <1>5, <2>1, DeliveryParts DEF OutboxTypeOK
  <2> QED
    BY <2>2 DEF LoopInv, BatchIsPending, IsPending
<1> QED
  BY <1>3, <1>4, <1>6
  DEF LoopInv, IdleIsClean, BatchIsPending, SendingIsPending, NotSending

\* The loop leaves nothing behind, however it ends.
LEMMA EndOfLoop ==
  ASSUME OutboxTypeOK, LoopInv, FinishDelivery \/ AbandonDelivery
  PROVE  LoopInv'
<1>1. batch' = {} /\ sending' = NotSending
  BY DEF FinishDelivery, AbandonDelivery
<1> QED
  BY <1>1 DEF LoopInv, IdleIsClean, BatchIsPending, SendingIsPending, NotSending

\* Pruning and waiting happen outside the loop.
LEMMA IdleLoop ==
  ASSUME OutboxTypeOK, LoopInv, PruneDelivered \/ Tick
  PROVE  LoopInv'
<1>1. batch' = {} /\ sending' = NotSending
  BY DEF LoopInv, IdleIsClean, PruneDelivered, Tick
<1> QED
  BY <1>1 DEF LoopInv, IdleIsClean, BatchIsPending, SendingIsPending, NotSending

-----------------------------------------------------------------------------
(* What the UPDATEs and time do to the status column *)

\* The UPDATE of mark_failed leaves the status of every delivery alone.
LEMMA MarkFailedStatus ==
  ASSUME OutboxTypeOK, MarkFailed, NEW e \in Events, NEW c \in Channels
  PROVE  row'[e][c].status = row[e][c].status
<1> DEFINE f == sending.event
           g == sending.channel
<1>1. f \in Events /\ g \in Channels
  BY SendingCases DEF OutboxTypeOK, MarkFailed
<1>2. row[f][g] \in Row
  BY <1>1 DEF OutboxTypeOK
<1>3. \E new : new.status = row[f][g].status /\ row' = [row EXCEPT ![f][g] = new]
  <2> DEFINE attempts == Lesser(row[f][g].attempts + 1, MaxExponent)
             new == [row[f][g] EXCEPT !.attempts = attempts, !.wait = Backoff(attempts)]
  <2>1. row' = [row EXCEPT ![f][g] = new]
    BY DEF MarkFailed
  <2>2. new.status = row[f][g].status
    BY <1>2 DEF Row
  <2> QED
    BY <2>1, <2>2
<1> QED
  BY <1>1, <1>3 DEF OutboxTypeOK

\* The UPDATE of mark_delivered makes its delivery delivered and touches no other.
LEMMA MarkDeliveredStatus ==
  ASSUME OutboxTypeOK, MarkDelivered, NEW e \in Events, NEW c \in Channels
  PROVE  row'[e][c].status =
           IF e = sending.event /\ c = sending.channel THEN "delivered"
           ELSE row[e][c].status
<1>1. sending.event \in Events /\ sending.channel \in Channels
  BY SendingCases DEF OutboxTypeOK, MarkDelivered
<1>2. row[e][c] \in Row
  BY DEF OutboxTypeOK
<1> QED
  BY <1>1, <1>2 DEF OutboxTypeOK, MarkDelivered, Row

\* Time leaves the status of every delivery alone.
LEMMA TickStatus ==
  ASSUME OutboxTypeOK, Tick, NEW e \in Events, NEW c \in Channels
  PROVE  row'[e][c].status = row[e][c].status
<1>1. row[e][c] \in Row
  BY DEF OutboxTypeOK
<1> QED
  BY <1>1 DEF Tick, Row

-----------------------------------------------------------------------------
(* The ledger *)

\* The entry of one delivery in the ledger.
Balanced(e, c) == sends[e][c] = lost[e][c] + Acknowledged(e, c) + InFlight(e, c)

\* An enqueue changes no entry: it makes no row delivered, and none undelivered.
LEMMA EnqueueLedger ==
  ASSUME OutboxTypeOK, LoopInv, SendLedger,
         NEW e \in Events, NEW targets \in SUBSET Channels, Enqueue(e, targets)
  PROVE  SendLedger'
<1> SUFFICES ASSUME NEW f \in Events, NEW c \in Channels
             PROVE  Balanced(f, c)'
  BY DEF SendLedger, Balanced
<1>1. row'[f][c].status = "delivered" <=> row[f][c].status = "delivered"
  BY DEF OutboxTypeOK, Enqueue, FreshRow, NoRow
<1>2. Acknowledged(f, c)' = Acknowledged(f, c)
  BY <1>1 DEF Acknowledged
<1>3. UNCHANGED <<sends, lost, sending>>
  BY DEF Enqueue
<1> QED
  BY <1>2, <1>3 DEF SendLedger, Balanced, InFlight

\* A successful send is in flight; no other entry changes.
LEMMA TakeLedger ==
  ASSUME OutboxTypeOK, LoopInv, SendLedger,
         NEW d \in Deliveries, SendOk(d) \/ SendFails(d)
  PROVE  SendLedger'
<1> SUFFICES ASSUME NEW e \in Events, NEW c \in Channels
             PROVE  Balanced(e, c)'
  BY DEF SendLedger, Balanced
<1>1. d[1] \in Events /\ d[2] \in Channels /\ d = <<d[1], d[2]>>
  BY DeliveryParts
<1>2. Balanced(e, c) /\ InFlight(e, c) = 0
  BY DEF SendLedger, Balanced, SendOk, SendFails, Take, InFlight, NotSending
<1>3. Acknowledged(e, c)' = Acknowledged(e, c) /\ UNCHANGED lost
  BY DEF SendOk, SendFails, Take, Acknowledged
<1>4. sends[e][c] \in Nat /\ lost[e][c] \in Nat /\ Acknowledged(e, c) \in Nat
  BY DEF OutboxTypeOK, Acknowledged
<1>5. CASE SendOk(d) /\ e = d[1] /\ c = d[2]
  <2>1. sends'[e][c] = sends[e][c] + 1
    BY <1>5 DEF OutboxTypeOK, SendOk
  <2>2. InFlight(e, c)' = 1
    BY <1>5 DEF SendOk, Take, InFlight
  <2> QED
    BY <1>2, <1>3, <1>4, <2>1, <2>2 DEF Balanced
<1>6. CASE ~(SendOk(d) /\ e = d[1] /\ c = d[2])
  <2>1. sends'[e][c] = sends[e][c]
    BY <1>1, <1>6 DEF OutboxTypeOK, SendOk, SendFails
  <2>2. InFlight(e, c)' = 0
    BY <1>1, <1>6 DEF SendOk, SendFails, Take, InFlight
  <2> QED
    BY <1>2, <1>3, <1>4, <2>1, <2>2 DEF Balanced
<1> QED
  BY <1>5, <1>6

\* The send in flight becomes an acknowledgement.  This needs its row to have been
\* pending: otherwise one acknowledgement would stand for two sends.
LEMMA MarkDeliveredLedger ==
  ASSUME OutboxTypeOK, LoopInv, SendLedger, MarkDelivered
  PROVE  SendLedger'
<1> SUFFICES ASSUME NEW e \in Events, NEW c \in Channels
             PROVE  Balanced(e, c)'
  BY DEF SendLedger, Balanced
<1>1. /\ sending.event \in Events /\ sending.channel \in Channels
      /\ sending = [state |-> "sent", event |-> sending.event,
                    channel |-> sending.channel]
  BY SendingCases DEF OutboxTypeOK, MarkDelivered
<1>2. Balanced(e, c) /\ UNCHANGED <<sends, lost>>
  BY DEF SendLedger, Balanced, MarkDelivered
<1>3. InFlight(e, c)' = 0
  BY DEF MarkDelivered, InFlight, NotSending
<1>4. lost[e][c] \in Nat
  BY DEF OutboxTypeOK
<1>5. CASE e = sending.event /\ c = sending.channel
  <2>1. InFlight(e, c) = 1
    BY <1>1, <1>5 DEF InFlight
  <2>2. Acknowledged(e, c) = 0
    <3>1. <<e, c>> \in Deliveries
      BY DEF Deliveries
    <3>2. IsPending(<<e, c>>)
      BY <1>1, <1>5, <3>1 DEF LoopInv, SendingIsPending
    <3> QED
      BY <3>2 DEF IsPending, Acknowledged
  <2>3. row'[e][c].status = "delivered"
    BY <1>5, MarkDeliveredStatus
  <2>4. Acknowledged(e, c)' = 1
    BY <2>3 DEF Acknowledged
  <2> QED
    BY <1>2, <1>3, <1>4, <2>1, <2>2, <2>4 DEF Balanced
<1>6. CASE ~(e = sending.event /\ c = sending.channel)
  <2>1. InFlight(e, c) = 0
    BY <1>1, <1>6 DEF InFlight
  <2>2. row'[e][c].status = row[e][c].status
    BY <1>6, MarkDeliveredStatus
  <2>3. Acknowledged(e, c)' = Acknowledged(e, c)
    BY <2>2 DEF Acknowledged
  <2> QED
    BY <1>2, <1>3, <2>1, <2>3 DEF Balanced
<1> QED
  BY <1>5, <1>6

\* A failed send changes no entry.
LEMMA MarkFailedLedger ==
  ASSUME OutboxTypeOK, LoopInv, SendLedger, MarkFailed
  PROVE  SendLedger'
<1> SUFFICES ASSUME NEW e \in Events, NEW c \in Channels
             PROVE  Balanced(e, c)'
  BY DEF SendLedger, Balanced
<1>1. Balanced(e, c) /\ UNCHANGED <<sends, lost>>
  BY DEF SendLedger, Balanced, MarkFailed
<1>2. InFlight(e, c) = 0 /\ InFlight(e, c)' = 0
  BY DEF MarkFailed, InFlight, NotSending
<1> QED
  BY <1>1, <1>2, MarkFailedStatus DEF Balanced, Acknowledged

\* A crash turns the send in flight into a lost acknowledgement.
LEMMA AbandonLedger ==
  ASSUME OutboxTypeOK, LoopInv, SendLedger, AbandonDelivery
  PROVE  SendLedger'
<1> SUFFICES ASSUME NEW e \in Events, NEW c \in Channels
             PROVE  Balanced(e, c)'
  BY DEF SendLedger, Balanced
<1>1. Balanced(e, c) /\ UNCHANGED <<sends, row>>
  BY DEF SendLedger, Balanced, AbandonDelivery
<1>2. InFlight(e, c)' = 0
  BY DEF AbandonDelivery, InFlight, NotSending
<1>3. Acknowledged(e, c)' = Acknowledged(e, c)
  BY <1>1 DEF Acknowledged
<1>4. lost[e][c] \in Nat /\ Acknowledged(e, c) \in Nat
  BY DEF OutboxTypeOK, Acknowledged
<1>5. lost'[e][c] = lost[e][c] + InFlight(e, c)
  BY <1>4, SendingCases DEF OutboxTypeOK, AbandonDelivery, InFlight
<1> QED
  BY <1>1, <1>2, <1>3, <1>4, <1>5 DEF Balanced, InFlight

\* Pruned entries are cleared as a whole.
LEMMA PruneLedger ==
  ASSUME OutboxTypeOK, LoopInv, SendLedger, PruneDelivered
  PROVE  SendLedger'
<1> SUFFICES ASSUME NEW e \in Events, NEW c \in Channels
             PROVE  Balanced(e, c)'
  BY DEF SendLedger, Balanced
<1>1. sending = NotSending /\ sending' = NotSending
  BY DEF LoopInv, IdleIsClean, PruneDelivered
<1>2. InFlight(e, c) = 0 /\ InFlight(e, c)' = 0
  BY <1>1 DEF InFlight, NotSending
<1>3. CASE Prunable(e)
  <2>1. sends'[e][c] = 0 /\ lost'[e][c] = 0 /\ row'[e][c].status = "none"
    BY <1>3 DEF PruneDelivered, NoRow
  <2> QED
    BY <1>2, <2>1 DEF Balanced, Acknowledged
<1>4. CASE ~Prunable(e)
  <2>1. sends'[e] = sends[e] /\ lost'[e] = lost[e] /\ row'[e] = row[e]
    BY <1>4 DEF PruneDelivered
  <2> QED
    BY <1>2, <2>1 DEF SendLedger, Balanced, Acknowledged
<1> QED
  BY <1>3, <1>4

\* Time changes no entry.
LEMMA TickLedger ==
  ASSUME OutboxTypeOK, LoopInv, SendLedger, Tick
  PROVE  SendLedger'
<1> SUFFICES ASSUME NEW e \in Events, NEW c \in Channels
             PROVE  Balanced(e, c)'
  BY DEF SendLedger, Balanced
<1>1. UNCHANGED <<sends, lost, sending>>
  BY DEF Tick
<1> QED
  BY <1>1, TickStatus DEF SendLedger, Balanced, Acknowledged, InFlight

\* The strengthened invariant is inductive.
LEMMA InvStep == OutboxInv /\ [OutboxNext]_outboxVars => OutboxInv'
<1> SUFFICES ASSUME OutboxTypeOK, LoopInv, SendLedger, [OutboxNext]_outboxVars
             PROVE  LoopInv' /\ SendLedger'
  BY TypeStep DEF OutboxInv, LoopInv
<1>1. ASSUME NEW e \in Events, NEW targets \in SUBSET Channels, Enqueue(e, targets)
      PROVE  LoopInv' /\ SendLedger'
  BY <1>1, EnqueueLoop, EnqueueLedger
<1>2. CASE SelectPending
  <2>1. UNCHANGED <<row, sending, sends, lost>>
    BY <1>2 DEF SelectPending
  <2> QED
    BY <1>2, <2>1, SelectLoop DEF SendLedger, Acknowledged, InFlight
<1>3. ASSUME NEW d \in Deliveries, SendOk(d) \/ SendFails(d)
      PROVE  LoopInv' /\ SendLedger'
  BY <1>3, TakeLoop, TakeLedger
<1>4. CASE MarkDelivered
  BY <1>4, MarkLoop, MarkDeliveredLedger
<1>5. CASE MarkFailed
  BY <1>5, MarkLoop, MarkFailedLedger
<1>6. CASE FinishDelivery
  <2>1. UNCHANGED <<row, sending, sends, lost>>
    BY <1>6 DEF FinishDelivery
  <2> QED
    BY <1>6, <2>1, EndOfLoop DEF SendLedger, Acknowledged, InFlight
<1>7. CASE AbandonDelivery
  BY <1>7, EndOfLoop, AbandonLedger
<1>8. CASE PruneDelivered
  BY <1>8, IdleLoop, PruneLedger
<1>9. CASE Tick
  BY <1>9, IdleLoop, TickLedger
<1>10. CASE UNCHANGED outboxVars
  <2>1. UNCHANGED <<row, call, batch, sending, sends, lost>>
    BY <1>10 DEF outboxVars
  <2> QED
    BY <2>1 DEF LoopInv, IdleIsClean, BatchIsPending, SendingIsPending, IsPending,
                SendLedger, Acknowledged, InFlight
<1> QED
  BY <1>1, <1>2, <1>3, <1>4, <1>5, <1>6, <1>7, <1>8, <1>9, <1>10 DEF OutboxNext

\* It holds of the empty database.
LEMMA InvInit == OutboxInit => OutboxInv
<1> SUFFICES ASSUME OutboxInit PROVE OutboxInv
  OBVIOUS
<1>1. OutboxTypeOK
  BY InitType
<1>2. IdleIsClean /\ BatchIsPending /\ SendingIsPending
  BY DEF OutboxInit, IdleIsClean, BatchIsPending, SendingIsPending, NotSending
<1>3. SendLedger
  BY DEF OutboxInit, SendLedger, Acknowledged, InFlight, NoRow, NotSending
<1> QED
  BY <1>1, <1>2, <1>3 DEF OutboxInv

\* The inductive invariant holds in every state of the outbox: what
\* deliver_pending has read is what the database still says, at every point of
\* its loop.
THEOREM OutboxInvariant == OutboxSpec => []OutboxInv
  BY InvInit, InvStep, PTL DEF OutboxSpec

\* The ledger balances in every state: a channel hears of an event at most once
\* more than acknowledgements of it were lost (deliver_pending between send_one
\* and mark_delivered), for any number of crashes and re-enqueued duplicates.
THEOREM LedgerBalances == OutboxSpec => []SendLedger
<1>1. OutboxInv => SendLedger
  BY DEF OutboxInv
<1> QED
  BY <1>1, OutboxInvariant, PTL

\* A step counts a send only of a delivery the database has as pending.
LEMMA SendsArePending ==
  ASSUME OutboxInv, [OutboxNext]_outboxVars,
         NEW e \in Events, NEW c \in Channels, sends'[e][c] > sends[e][c]
  PROVE  row[e][c].status = "pending"
<1>1. sends[e][c] \in Nat
  BY DEF OutboxInv, OutboxTypeOK
<1>2. sends' # sends
  BY <1>1
<1>3. CASE PruneDelivered
  <2>1. sends'[e][c] \in {0, sends[e][c]}
    BY <1>3 DEF PruneDelivered
  <2> QED
    BY <1>1, <2>1
<1>4. ASSUME NEW d \in Deliveries, SendOk(d)
      PROVE  row[e][c].status = "pending"
  <2>1. d[1] = e /\ d[2] = c
    BY <1>1, <1>4, DeliveryParts DEF OutboxInv, OutboxTypeOK, SendOk
  <2>2. IsPending(d)
    BY <1>4 DEF OutboxInv, BatchIsPending, SendOk, Take
  <2> QED
    BY <2>1, <2>2 DEF IsPending
<1> QED
  BY <1>2, <1>3, <1>4
  DEF OutboxNext, Enqueue, SelectPending, SendFails, MarkDelivered, MarkFailed,
      FinishDelivery, AbandonDelivery, Tick, outboxVars

\* send_one is called only for deliveries the database has as pending.
THEOREM NoDeliveredIsSent == OutboxSpec => NoSendAfterDelivered
<1>1. ASSUME OutboxInv, [OutboxNext]_outboxVars
      PROVE  \A e \in Events, c \in Channels :
               sends'[e][c] > sends[e][c] => row[e][c].status = "pending"
  BY <1>1, SendsArePending
<1> QED
  BY <1>1, OutboxInvariant, PTL DEF OutboxSpec, NoSendAfterDelivered

\* prune_delivered never deletes an event that a channel is still owed or has
\* not been sent.
THEOREM PruneKeepsWhatIsOwed == OutboxSpec => PruneForgetsNothingOwed
<1> DEFINE NothingOwed ==
      \A e \in events \ events' :
        /\ age[e] > Retention
        /\ \A c \in Channels : row[e][c].status # "none" => sends[e][c] > 0
<1>1. ASSUME OutboxInv, [OutboxNext]_outboxVars
      PROVE  NothingOwed
  <2> SUFFICES ASSUME NEW e \in events, e \notin events'
               PROVE  /\ age[e] > Retention
                      /\ \A c \in Channels : row[e][c].status # "none" => sends[e][c] > 0
    OBVIOUS
  <2>1. PruneDelivered /\ Prunable(e)
    BY <1>1
    DEF OutboxNext, Enqueue, SelectPending, SendOk, SendFails, Take, MarkDelivered,
        MarkFailed, FinishDelivery, AbandonDelivery, Tick, PruneDelivered, outboxVars
  <2>2. age[e] > Retention
    BY <2>1 DEF Prunable
  <2>3. ASSUME NEW c \in Channels, row[e][c].status # "none"
        PROVE  sends[e][c] > 0
    <3>1. e \in Events /\ row[e][c] \in Row
      BY <1>1 DEF OutboxInv, OutboxTypeOK
    <3>2. row[e][c].status = "delivered"
      BY <2>1, <2>3, <3>1 DEF Prunable, Row, Status
    <3>3. sends[e][c] = lost[e][c] + 1 + InFlight(e, c)
      BY <1>1, <3>1, <3>2 DEF OutboxInv, SendLedger, Acknowledged
    <3>4. lost[e][c] \in Nat /\ InFlight(e, c) \in Nat
      BY <1>1, <3>1 DEF OutboxInv, OutboxTypeOK, InFlight
    <3> QED
      BY <3>3, <3>4
  <2> QED
    BY <2>2, <2>3
<1> QED
  BY <1>1, OutboxInvariant, PTL DEF OutboxSpec, PruneForgetsNothingOwed

-----------------------------------------------------------------------------
(* Refinement of ReliableDelivery *)

\* The tables as obligations, as Abstract substitutes them.
Owed == {d \in Deliveries : IsPending(d)}

Discharged == {d \in Deliveries : row[d[1]][d[2]].status = "delivered"}

Transmitted == {d \in Deliveries : sends[d[1]][d[2]] > 0}

\* An enqueue is an Accept: deliveries that exist keep their status.
LEMMA EnqueueAccepts ==
  ASSUME OutboxInv, NEW e \in Events, NEW targets \in SUBSET Channels,
         Enqueue(e, targets)
  PROVE  /\ Owed' = Owed \cup (({e} \X targets) \ Discharged)
         /\ UNCHANGED <<Discharged, Transmitted>>
<1>1. ASSUME NEW d \in Deliveries
      PROVE  /\ IsPending(d)' <=> IsPending(d) \/ (d \in {e} \X targets /\ d \notin Discharged)
             /\ row'[d[1]][d[2]].status = "delivered" <=> row[d[1]][d[2]].status = "delivered"
  <2>1. d[1] \in Events /\ d[2] \in Channels /\ d = <<d[1], d[2]>>
    BY DeliveryParts
  <2>2. row[d[1]][d[2]].status \in Status
    BY <2>1 DEF OutboxInv, OutboxTypeOK, Row
  <2>3. d \in {e} \X targets <=> d[1] = e /\ d[2] \in targets
    BY <2>1
  <2>4. row'[d[1]][d[2]] = IF d[1] = e /\ d[2] \in targets /\ row[d[1]][d[2]].status = "none"
                           THEN FreshRow ELSE row[d[1]][d[2]]
    BY <2>1 DEF OutboxInv, OutboxTypeOK, Enqueue
  <2> QED
    BY <2>2, <2>3, <2>4 DEF IsPending, Discharged, FreshRow, NoRow, Status
<1>2. {e} \X targets \subseteq Deliveries
  BY DEF Deliveries
<1>3. UNCHANGED sends
  BY DEF Enqueue
<1> QED
  BY <1>1, <1>2, <1>3 DEF Owed, Discharged, Transmitted

\* A successful send is a Transmit.
LEMMA SendTransmits ==
  ASSUME OutboxInv, NEW d \in Deliveries, SendOk(d)
  PROVE  /\ d \in Owed
         /\ Transmitted' = Transmitted \cup {d}
         /\ UNCHANGED <<Owed, Discharged>>
<1>1. d \in Owed
  BY DEF OutboxInv, BatchIsPending, SendOk, Take, Owed
<1>2. ASSUME NEW o \in Deliveries
      PROVE  sends'[o[1]][o[2]] > 0 <=> sends[o[1]][o[2]] > 0 \/ o = d
  <2>1. /\ o[1] \in Events /\ o[2] \in Channels /\ o = <<o[1], o[2]>>
        /\ d[1] \in Events /\ d[2] \in Channels /\ d = <<d[1], d[2]>>
    BY DeliveryParts
  <2>2. sends[o[1]][o[2]] \in Nat
    BY <2>1 DEF OutboxInv, OutboxTypeOK
  <2>3. sends'[o[1]][o[2]] = IF o[1] = d[1] /\ o[2] = d[2]
                             THEN sends[o[1]][o[2]] + 1 ELSE sends[o[1]][o[2]]
    BY <2>1 DEF OutboxInv, OutboxTypeOK, SendOk
  <2> QED
    BY <2>1, <2>2, <2>3
<1>3. UNCHANGED row
  BY DEF SendOk, Take
<1> QED
  BY <1>1, <1>2, <1>3 DEF Owed, Discharged, Transmitted, IsPending

\* mark_delivered is a Discharge of what was transmitted.
LEMMA MarkDischarges ==
  ASSUME OutboxInv, MarkDelivered
  PROVE  \E d \in Events \X Channels :
           /\ d \in Owed \cap Transmitted
           /\ Owed' = Owed \ {d}
           /\ Discharged' = Discharged \cup {d}
           /\ UNCHANGED Transmitted
<1> DEFINE e == sending.event
           c == sending.channel
           d == <<e, c>>
<1>1. /\ e \in Events /\ c \in Channels
      /\ sending = [state |-> "sent", event |-> e, channel |-> c]
  BY SendingCases DEF OutboxInv, OutboxTypeOK, MarkDelivered
<1>2. d \in Deliveries
  BY <1>1 DEF Deliveries
<1>3. d \in Owed
  BY <1>1, <1>2 DEF OutboxInv, SendingIsPending, Owed
<1>4. sends[e][c] > 0
  <2>1. InFlight(e, c) = 1
    BY <1>1 DEF InFlight
  <2>2. lost[e][c] \in Nat /\ Acknowledged(e, c) \in Nat
    BY <1>1 DEF OutboxInv, OutboxTypeOK, Acknowledged
  <2> QED
    BY <1>1, <2>1, <2>2 DEF OutboxInv, SendLedger
<1>5. d \in Transmitted
  BY <1>2, <1>4 DEF Transmitted
<1>6. ASSUME NEW o \in Deliveries
      PROVE  row'[o[1]][o[2]].status = IF o = d THEN "delivered"
                                                ELSE row[o[1]][o[2]].status
  <2>1. o[1] \in Events /\ o[2] \in Channels /\ o = <<o[1], o[2]>>
    BY DeliveryParts
  <2>2. row[e][c] \in Row
    BY <1>1 DEF OutboxInv, OutboxTypeOK
  <2>3. row' = [row EXCEPT ![e][c].status = "delivered"]
    BY DEF MarkDelivered
  <2>4. CASE o[1] = e /\ o[2] = c
    BY <1>1, <2>1, <2>2, <2>3, <2>4 DEF OutboxInv, OutboxTypeOK, Row
  <2>5. CASE ~(o[1] = e /\ o[2] = c)
    BY <1>1, <2>1, <2>3, <2>5 DEF OutboxInv, OutboxTypeOK
  <2> QED
    BY <2>1, <2>4, <2>5
<1>7. UNCHANGED sends
  BY DEF MarkDelivered
<1> HIDE DEF d
<1>8. /\ Owed' = Owed \ {d}
      /\ Discharged' = Discharged \cup {d}
      /\ UNCHANGED Transmitted
  BY <1>2, <1>6, <1>7 DEF Owed, Discharged, Transmitted, IsPending
<1>9. d \in Events \X Channels
  BY <1>2 DEF Deliveries
<1> QED
  BY <1>3, <1>5, <1>8, <1>9

\* prune_delivered is a Forget of the prunable events.
LEMMA PruneForgets ==
  ASSUME OutboxInv, PruneDelivered
  PROVE  \E E \in SUBSET Events :
           /\ \A e \in E : ({e} \X Channels) \cap Owed = {}
           /\ Discharged' = Discharged \ (E \X Channels)
           /\ Transmitted' = Transmitted \ (E \X Channels)
           /\ UNCHANGED Owed
<1> DEFINE E == {e \in Events : Prunable(e)}
<1>1. ASSUME NEW o \in Deliveries
      PROVE  /\ o[1] \in E => /\ row[o[1]][o[2]].status # "pending"
                              /\ row'[o[1]][o[2]].status = "none"
                              /\ sends'[o[1]][o[2]] = 0
             /\ o[1] \notin E => /\ row'[o[1]] = row[o[1]]
                                 /\ sends'[o[1]] = sends[o[1]]
             /\ o \in E \X Channels <=> o[1] \in E
  <2>1. o[1] \in Events /\ o[2] \in Channels /\ o = <<o[1], o[2]>>
    BY DeliveryParts
  <2>2. o[1] \in E => row[o[1]][o[2]].status # "pending"
    BY <2>1 DEF Prunable
  <2>3. o[1] \in E => row'[o[1]] = [c \in Channels |-> NoRow]
    BY <2>1 DEF PruneDelivered
  <2>4. o[1] \in E => sends'[o[1]] = [c \in Channels |-> 0]
    BY <2>1 DEF PruneDelivered
  <2>5. o[1] \notin E => row'[o[1]] = row[o[1]] /\ sends'[o[1]] = sends[o[1]]
    BY <2>1 DEF PruneDelivered
  <2>6. o \in E \X Channels <=> o[1] \in E
    BY <2>1
  <2> HIDE DEF E
  <2> QED
    BY <2>1, <2>2, <2>3, <2>4, <2>5, <2>6 DEF NoRow
<1>2. E \in SUBSET Events
  OBVIOUS
<1> HIDE DEF E
<1>3. \A e \in E : ({e} \X Channels) \cap Owed = {}
  <2> SUFFICES ASSUME NEW o \in Owed, o[1] \in E PROVE FALSE
    BY DeliveryParts DEF Owed
  <2> QED
    BY <1>1 DEF Owed, IsPending
<1>4. /\ Discharged' = Discharged \ (E \X Channels)
      /\ Transmitted' = Transmitted \ (E \X Channels)
      /\ UNCHANGED Owed
  BY <1>1 DEF Owed, Discharged, Transmitted, IsPending
<1> QED
  BY <1>2, <1>3, <1>4

\* The other steps of the outbox change no obligation.
LEMMA OthersStutter ==
  ASSUME OutboxInv,
         \/ SelectPending
         \/ \E d \in Deliveries : SendFails(d)
         \/ MarkFailed
         \/ FinishDelivery
         \/ AbandonDelivery
         \/ Tick
         \/ UNCHANGED outboxVars
  PROVE  UNCHANGED <<Owed, Discharged, Transmitted>>
<1>1. UNCHANGED sends
  BY DEF SelectPending, SendFails, MarkFailed, FinishDelivery, AbandonDelivery, Tick,
         outboxVars
<1>2. ASSUME NEW d \in Deliveries
      PROVE  row'[d[1]][d[2]].status = row[d[1]][d[2]].status
  <2>1. d[1] \in Events /\ d[2] \in Channels
    BY DeliveryParts
  <2>2. row[d[1]][d[2]] \in Row
    BY <2>1 DEF OutboxInv, OutboxTypeOK
  <2>3. CASE MarkFailed
    <3> DEFINE e == sending.event
               c == sending.channel
               attempts == Lesser(row[e][c].attempts + 1, MaxExponent)
               new == [row[e][c] EXCEPT !.attempts = attempts, !.wait = Backoff(attempts)]
    <3>1. e \in Events /\ c \in Channels
      BY <2>3, SendingCases DEF OutboxInv, OutboxTypeOK, MarkFailed
    <3>2. row[e][c] \in Row /\ row' = [row EXCEPT ![e][c] = new]
      BY <2>3, <3>1 DEF OutboxInv, OutboxTypeOK, MarkFailed
    <3>3. new.status = row[e][c].status
      BY <3>2 DEF Row
    <3> HIDE DEF e, c, new
    <3> QED
      BY <2>1, <3>1, <3>2, <3>3 DEF OutboxInv, OutboxTypeOK
  <2>4. CASE Tick
    BY <2>1, <2>2, <2>4 DEF Tick, Row
  <2>5. CASE UNCHANGED row
    BY <2>5
  <2> QED
    BY <2>3, <2>4, <2>5
    DEF SelectPending, SendFails, Take, FinishDelivery, AbandonDelivery, outboxVars
<1> QED
  BY <1>1, <1>2 DEF Owed, Discharged, Transmitted, IsPending

\* Every step of the outbox is a step of ReliableDelivery or a stutter.
LEMMA StepRefines ==
  ASSUME OutboxInv, [OutboxNext]_outboxVars
  PROVE  [Abstract!Next]_(Abstract!deliveryVars)
<1> USE DEF Owed, Discharged, Transmitted
<1>1. ASSUME NEW e \in Events, NEW targets \in SUBSET Channels, Enqueue(e, targets)
      PROVE  Abstract!Next
  <2>1. /\ Owed' = Owed \cup (({e} \X targets) \ Discharged)
        /\ UNCHANGED <<Discharged, Transmitted>>
    BY <1>1, EnqueueAccepts
  <2>2. Abstract!Accept(e)
    BY <2>1 DEF Abstract!Accept
  <2> QED
    BY <2>2 DEF Abstract!Next
<1>2. ASSUME NEW d \in Deliveries, SendOk(d)
      PROVE  Abstract!Next
  BY <1>2, SendTransmits DEF Abstract!Next, Abstract!Transmit, Deliveries
<1>3. CASE MarkDelivered
  BY <1>3, MarkDischarges DEF Abstract!Next, Abstract!Discharge
<1>4. CASE PruneDelivered
  BY <1>4, PruneForgets DEF Abstract!Next, Abstract!Forget, Abstract!Of
<1>5. CASE \/ SelectPending
           \/ \E d \in Deliveries : SendFails(d)
           \/ MarkFailed
           \/ FinishDelivery
           \/ AbandonDelivery
           \/ Tick
           \/ UNCHANGED outboxVars
  BY <1>5, OthersStutter DEF Abstract!deliveryVars
<1> QED
  BY <1>1, <1>2, <1>3, <1>4, <1>5 DEF OutboxNext

\* The outbox implements at-least-once delivery: an obligation is discharged
\* only after a transmission, is not transmitted afterwards, and is forgotten
\* only with its event, when the event has none left (outbox.py as a whole).
THEOREM OutboxRefines == OutboxSpec => ImplementsReliableDelivery
<1>1. OutboxInit => Abstract!Init
  BY DEF OutboxInit, Abstract!Init, IsPending, NoRow, Deliveries
<1>2. ASSUME OutboxInv, [OutboxNext]_outboxVars
      PROVE  [Abstract!Next]_(Abstract!deliveryVars)
  BY <1>2, StepRefines
<1> QED
  BY <1>1, <1>2, OutboxInvariant, PTL
  DEF OutboxSpec, ImplementsReliableDelivery, Abstract!Spec

=============================================================================
