---------------------------- MODULE RvxSnapshots ----------------------------
(***************************************************************************)
(* RvxSnapshotBuffer of src/host_monitor/rvx_snapshots.py: the bounded,    *)
(* process-local buffer of encoded snapshots and its cursor pages, pulled  *)
(* by one consumer over HTTP.  Captures run in the monitor thread, pages   *)
(* are assembled in worker threads, each under the buffer's lock; a page   *)
(* reaches the consumer later than it was made, or never.                  *)
(*                                                                         *)
(* A snapshot is its sequence number and its encoded size.  start, the     *)
(* total size of the snapshots before it in the session, is carried along  *)
(* so that the bytes of a stretch of the buffer are a difference.          *)
(*                                                                         *)
(* The consumer (an RVX server) is outside this repository.  It is modelled*)
(* from docs/rvx_snapshots.md: it advances to next_sequence and starts     *)
(* over when the session id changes.                                       *)
(***************************************************************************)
EXTENDS Integers, Sequences

CONSTANTS
  Capacity,          \* capacity
  MaxBufferBytes,    \* max_buffer_bytes
  MaxSnapshotBytes,  \* MAX_SNAPSHOT_BYTES
  MaxPageBytes,      \* MAX_PAGE_BYTES
  PageOverhead,      \* bytes reserved for the envelope of a page: 4096
  Limit,             \* the limit the consumer asks for, 1 .. MAX_HISTORY_LIMIT
  Sizes,             \* encoded sizes of the states captured
  MaxSequence,       \* 2^63 - 1: the sequence is exhausted
  MaxSessions        \* bound: starts of the producer

ASSUME BufferAssumption ==
  /\ Capacity \in Nat \ {0}
  /\ MaxBufferBytes \in Nat \ {0}
  /\ MaxSnapshotBytes \in Nat \ {0}
  /\ MaxPageBytes \in Nat
  /\ PageOverhead \in Nat
  /\ PageOverhead + MaxSnapshotBytes + 1 <= MaxPageBytes
  /\ Limit \in Nat \ {0}
  /\ Sizes \subseteq Nat \ {0}
  /\ MaxSequence \in Nat
  /\ MaxSessions \in Nat \ {0}

VARIABLES
  session,       \* session_id: a fresh one in each process
  snapshots,     \* _snapshots
  nextSequence,  \* _next_sequence
  bufferBytes,   \* _buffer_bytes
  captureError,  \* whether _capture_error is set
  exchange,      \* the consumer's request, or the response to it
  known,         \* the session the consumer follows, 0 for none
  cursor,        \* the after of its next request
  received,      \* history: sequences it was sent in that session
  gaps           \* history: sequences it was told are dropped

bufferVars == <<session, snapshots, nextSequence, bufferBytes, captureError>>

consumerVars == <<exchange, known, cursor, received, gaps>>

vars == <<bufferVars, consumerVars>>

Snapshot == [sequence : Nat, size : Nat \ {0}, start : Nat]

Silence == [kind |-> "none"]

\* dropped is dropped_before, with 0 for None; snapshots the sequences returned.
Page == [kind : {"page"}, session : 1 .. MaxSessions, next : Nat,
         dropped : Nat, snapshots : SUBSET Nat]

Exchange ==
  {Silence} \cup [kind : {"request"}, after : Nat]
            \cup [kind : {"400", "503"}] \cup Page

TypeOK ==
  /\ session \in 1 .. MaxSessions
  /\ snapshots \in Seq(Snapshot)
  /\ nextSequence \in 0 .. MaxSequence
  /\ bufferBytes \in 0 .. MaxBufferBytes
  /\ captureError \in BOOLEAN
  /\ exchange \in Exchange
  /\ known \in 0 .. MaxSessions
  /\ cursor \in Nat
  /\ received \subseteq Nat
  /\ gaps \subseteq Nat

Init ==
  /\ session = 1
  /\ snapshots = <<>>
  /\ nextSequence = 0
  /\ bufferBytes = 0
  /\ captureError = FALSE
  /\ exchange = Silence
  /\ known = 0
  /\ cursor = 0
  /\ received = {}
  /\ gaps = {}

-----------------------------------------------------------------------------
(* The buffer *)

Lesser(a, b) == IF a < b THEN a ELSE b

Greater(a, b) == IF a > b THEN a ELSE b

LastOf(s) == s[Len(s)]

\* Bytes of the snapshots first .. last of s.
Bytes(s, first, last) ==
  IF first > last THEN 0 ELSE s[last].start + s[last].size - s[first].start

\* Where the next snapshot starts.
End(s) == IF s = <<>> THEN 0 ELSE LastOf(s).start + LastOf(s).size

\* The while loop pops from the left until both bounds hold.
Fits(s, dropped) ==
  /\ Len(s) - dropped <= Capacity
  /\ Bytes(s, dropped + 1, Len(s)) <= MaxBufferBytes

\* Mutant of Evicted: an `if` instead of the `while`.
EvictedOne(s) == IF Fits(s, 0) THEN 0 ELSE 1

\* Mutant of Evicted: at the bound, the whole buffer goes.
EvictedAll(s) == IF Fits(s, 0) THEN 0 ELSE Len(s)

Evicted(s) ==
  CHOOSE k \in 0 .. Len(s) : Fits(s, k) /\ \A j \in 0 .. k - 1 : ~Fits(s, j)

\* A valid state of this encoded size is captured.
Capture(size) ==
  /\ size <= Lesser(MaxSnapshotBytes, MaxBufferBytes)
  /\ nextSequence < MaxSequence
  /\ LET new == [sequence |-> nextSequence, size |-> size, start |-> End(snapshots)]
         all == Append(snapshots, new)
         k == Evicted(all)
     IN  /\ snapshots' = SubSeq(all, k + 1, Len(all))
         /\ bufferBytes' = bufferBytes + size - Bytes(all, 1, k)
  /\ nextSequence' = nextSequence + 1
  /\ captureError' = FALSE
  /\ UNCHANGED <<session, consumerVars>>

\* Invalid state, oversized snapshot or exhausted sequence: nothing is stored
\* and reads answer 503 until a capture succeeds.
CaptureFails ==
  /\ captureError' = TRUE
  /\ UNCHANGED <<session, snapshots, nextSequence, bufferBytes, consumerVars>>

\* The process restarts; a request on its way is not answered.
Restart ==
  /\ session < MaxSessions
  /\ session' = session + 1
  /\ snapshots' = <<>>
  /\ nextSequence' = 0
  /\ bufferBytes' = 0
  /\ captureError' = FALSE
  /\ exchange' = IF exchange.kind = "request" THEN Silence ELSE exchange
  /\ UNCHANGED <<known, cursor, received, gaps>>

-----------------------------------------------------------------------------
(* history *)

Oldest == IF snapshots = <<>> THEN nextSequence ELSE snapshots[1].sequence

\* Mutant of Skipped: one snapshot too few is left out, so that the page begins
\* with the last one the consumer has.
SkippedShort(after) == Greater(0, after - Oldest - 1)

\* start = max(0, after - oldest)
Skipped(after) == Greater(0, after - Oldest)

\* islice(self._snapshots, start, start + limit)
Window(after) == Skipped(after) + 1 .. Lesser(Skipped(after) + Limit, Len(snapshots))

\* The loop stops before the first snapshot that would overflow the page.
FitsPage(after, i) ==
  LET first == Skipped(after) + 1
  IN  PageOverhead + Bytes(snapshots, first, i) + (i - first + 1) <= MaxPageBytes

Selected(after) == {i \in Window(after) : FitsPage(after, i)}

\* Mutant of NextAfter: the page advances by the whole window, as if the byte
\* bound had not cut it short.
NextAfterWindow(after) ==
  IF Window(after) # {}
  THEN snapshots[Lesser(Skipped(after) + Limit, Len(snapshots))].sequence + 1
  ELSE Greater(after, Oldest)

\* Mutant of NextAfter: next_sequence names the last snapshot returned.
NextAfterInclusive(after) ==
  IF Selected(after) # {}
  THEN snapshots[CHOOSE i \in Selected(after) :
                   \A j \in Selected(after) : j <= i].sequence
  ELSE Greater(after, Oldest)

\* selected[-1].sequence + 1 if selected else max(after, oldest)
NextAfter(after) ==
  IF Selected(after) # {}
  THEN snapshots[CHOOSE i \in Selected(after) :
                   \A j \in Selected(after) : j <= i].sequence + 1
  ELSE Greater(after, Oldest)

PageFor(after) ==
  [kind |-> "page", session |-> session, next |-> NextAfter(after),
   dropped |-> IF after < Oldest THEN Oldest ELSE 0,
   snapshots |-> {snapshots[i].sequence : i \in Selected(after)}]

\* A worker thread answers the request under the lock.
Serve ==
  /\ exchange.kind = "request"
  /\ exchange' = IF captureError THEN [kind |-> "503"]
                 ELSE IF exchange.after > nextSequence THEN [kind |-> "400"]
                 ELSE PageFor(exchange.after)
  /\ UNCHANGED <<bufferVars, known, cursor, received, gaps>>

-----------------------------------------------------------------------------
(* The consumer *)

Ask ==
  /\ exchange = Silence
  /\ exchange' = [kind |-> "request", after |-> cursor]
  /\ UNCHANGED <<bufferVars, known, cursor, received, gaps>>

\* The request or its response is lost.
Lose ==
  /\ exchange # Silence
  /\ exchange.kind # "503"
  /\ exchange' = Silence
  /\ UNCHANGED <<bufferVars, known, cursor, received, gaps>>

\* 503: ask again later.
TryLater ==
  /\ exchange.kind = "503"
  /\ exchange' = Silence
  /\ UNCHANGED <<bufferVars, known, cursor, received, gaps>>

StartOver(s) ==
  /\ known' = s
  /\ cursor' = 0
  /\ received' = {}
  /\ gaps' = {}

\* Mutant of ApplyPage: the consumer does not look at the session id.
ApplyPageOfAnySession ==
  /\ exchange.kind = "page"
  /\ known' = exchange.session
  /\ cursor' = exchange.next
  /\ received' = received \cup exchange.snapshots
  /\ gaps' = gaps \cup (cursor .. exchange.dropped - 1)
  /\ exchange' = Silence
  /\ UNCHANGED bufferVars

ApplyPage ==
  /\ exchange.kind = "page"
  /\ IF exchange.session # known
     THEN StartOver(exchange.session)
     ELSE /\ cursor' = exchange.next
          /\ received' = received \cup exchange.snapshots
          /\ gaps' = gaps \cup (cursor .. exchange.dropped - 1)
          /\ UNCHANGED known
  /\ exchange' = Silence
  /\ UNCHANGED bufferVars

\* The cursor is beyond the producer's sequence: read the descriptor again.
ApplyRefusal ==
  /\ exchange.kind = "400"
  /\ StartOver(session)
  /\ exchange' = Silence
  /\ UNCHANGED bufferVars

Next ==
  \/ \E size \in Sizes : Capture(size)
  \/ CaptureFails
  \/ Restart
  \/ Ask
  \/ Serve
  \/ Lose
  \/ TryLater
  \/ ApplyPage
  \/ ApplyRefusal

Spec == Init /\ [][Next]_vars

\* The consumer keeps polling; the network may lose exchanges for ever, but not
\* every request nor every response.
Fairness ==
  /\ WF_vars(Ask \/ TryLater)
  /\ SF_vars(Serve)
  /\ SF_vars(ApplyPage \/ ApplyRefusal)

FairSpec == Spec /\ Fairness

-----------------------------------------------------------------------------
(* Properties *)

\* The buffer holds the newest stretch of the session without a hole, within
\* both bounds, with exact byte accounting; once something was captured it is
\* never empty, so that latest always has an answer.
BufferIsNewestStretch ==
  /\ \A i \in 1 .. Len(snapshots) :
       snapshots[i].sequence = nextSequence - Len(snapshots) + i - 1
  /\ Len(snapshots) <= Capacity
  /\ bufferBytes <= MaxBufferBytes
  /\ bufferBytes = Bytes(snapshots, 1, Len(snapshots))
  /\ nextSequence > 0 => snapshots # <<>>

\* Every snapshot before the consumer's cursor was received or reported as
\* dropped: pages "never advance past unreturned snapshots", whatever captures,
\* evictions and restarts happen between a page and its use.
NothingSkippedSilently == 0 .. cursor - 1 \subseteq received \cup gaps

\* No snapshot is reported as dropped that was received, or could still be.
GapsAreReal ==
  /\ received \cap gaps = {}
  /\ known = session => \A s \in gaps : s < Oldest

\* The consumer's cursor is never refused within a session, what it received is
\* behind it, and no page on its way to the consumer brings a snapshot that an
\* earlier page of the same session has brought.
CursorStaysValid ==
  /\ known = session => cursor <= nextSequence
  /\ received \subseteq 0 .. cursor - 1
  /\ exchange.kind = "page" /\ exchange.session = known =>
       exchange.snapshots \cap received = {}

\* While captures succeed in the end, the consumer learns of every snapshot, by
\* receiving it or as a gap, unless the producer starts a new session.
ConsumerCatchesUp ==
  <>[](~captureError) =>
    \A s \in 0 .. MaxSequence - 1, i \in 1 .. MaxSessions :
      (session = i /\ s < nextSequence) ~>
        (session # i \/ (known = i /\ s \in received \cup gaps))

=============================================================================
