------------------------ MODULE RvxSnapshotsProofs ------------------------
(***************************************************************************)
(* What holds of the snapshot buffer and its consumer for any capacity,    *)
(* byte bounds, page limit, snapshot sizes and number of restarts.         *)
(*                                                                         *)
(* The properties speak of the buffer at one end and of the consumer's     *)
(* cursor at the other; what joins them is the page on its way, which the  *)
(* buffer outruns while it travels (PageContinues).  The exact byte        *)
(* accounting rests on each snapshot starting where the one before it      *)
(* ended (Adjoined): so the bytes of a stretch are a difference, and grow  *)
(* with it.  That Evicted and NextAfter choose what they are meant to rests*)
(* on the existence of least and greatest elements.                        *)
(***************************************************************************)
EXTENDS RvxSnapshots, SequenceTheorems, WellFoundedInduction, TLAPS

\* Each snapshot of s starts where the one before it ends.
Adjoined(s) ==
  /\ \A i \in 1 .. Len(s) - 1 : s[i + 1].start = s[i].start + s[i].size
  /\ \A i, j \in 1 .. Len(s) : i < j => s[i].start + s[i].size <= s[j].start

StartsAdjoin == Adjoined(snapshots)

\* The consumer's bookkeeping stays behind its cursor.
BehindCursor ==
  /\ received \subseteq 0 .. cursor - 1
  /\ gaps \subseteq 0 .. cursor - 1
  /\ received \cap gaps = {}
  /\ 0 .. cursor - 1 \subseteq received \cup gaps

\* It never follows a session that has not begun, and what it knows of the
\* current one is true.
KnowsTheSession ==
  /\ known <= session
  /\ known = session =>
       /\ cursor <= nextSequence
       /\ \A s \in gaps : s < Oldest

\* The request on its way asks for what comes after the cursor.
RequestIsCursor ==
  exchange.kind = "request" => exchange.after = cursor

\* The page on its way continues at the cursor: it leaves out no snapshot but
\* those it reports as dropped, and of the current session these are gone.
PageContinues ==
  exchange.kind = "page" =>
    LET p == exchange IN
    /\ p.session <= session
    /\ p.next >= cursor
    /\ p.dropped <= p.next
    /\ p.snapshots \subseteq cursor .. p.next - 1
    /\ \A s \in p.snapshots : s >= p.dropped
    /\ cursor .. p.next - 1 \subseteq p.snapshots \cup (cursor .. p.dropped - 1)
    /\ p.session = session => p.next <= nextSequence /\ p.dropped <= Oldest

\* The inductive invariant.
SnapshotInv ==
  /\ TypeOK
  /\ BufferIsNewestStretch
  /\ StartsAdjoin
  /\ BehindCursor
  /\ KnowsTheSession
  /\ RequestIsCursor
  /\ PageContinues

\* A set of numbers that is not empty has a least element.
LEMMA LeastExists ==
  ASSUME NEW T, T \subseteq Nat, T # {}
  PROVE  \E x \in T : \A y \in T : x <= y
<1> DEFINE R == {ss \in Nat \X Nat : ss[1] < ss[2]}
<1>1. OpToRel(<, Nat) = R
  BY Zenon DEF OpToRel
<1>2. IsWellFoundedOn(OpToRel(<, Nat), Nat)
  BY NatLessThanWellFounded
<1>3. IsWellFoundedOn(R, Nat)
  BY <1>1, <1>2
<1>4. PICK x \in T : \A y \in T : ~ (<<y, x>> \in R)
  BY <1>3, WFMin
<1>5. ASSUME NEW y \in T
      PROVE  x <= y
  <2>1. x \in Nat /\ y \in Nat
    OBVIOUS
  <2>2. <<y, x>> \notin R
    BY <1>4
  <2>3. ~(y < x)
    BY <2>1, <2>2
  <2> QED
    BY <2>1, <2>3
<1> QED
  BY <1>5

\* A bounded one has a greatest.
LEMMA GreatestExists ==
  ASSUME NEW n \in Nat, NEW T, T \subseteq 0 .. n, T # {}
  PROVE  \E x \in T : \A y \in T : y <= x
<1> DEFINE U == {n - y : y \in T}
<1>1. U \subseteq Nat /\ U # {}
  <2>1. \A y \in T : n - y \in Nat
    OBVIOUS
  <2>2. PICK y \in T : TRUE
    OBVIOUS
  <2>3. n - y \in U
    OBVIOUS
  <2> QED
    BY <2>1, <2>3
<1>2. PICK u \in U : \A y \in U : u <= y
  <2> HIDE DEF U
  <2> QED
    BY <1>1, LeastExists
<1>3. PICK x \in T : u = n - x
  OBVIOUS
<1>4. ASSUME NEW y \in T
      PROVE  y <= x
  <2>1. n - y \in U
    OBVIOUS
  <2>2. n - x <= n - y
    BY <1>2, <1>3, <2>1
  <2>3. x \in 0 .. n /\ y \in 0 .. n
    OBVIOUS
  <2> QED
    BY <2>2, <2>3
<1> QED
  BY <1>4

-----------------------------------------------------------------------------
(* The buffer *)

USE BufferAssumption

\* A snapshot that starts at the end of the buffer adjoins it.
LEMMA AppendAdjoins ==
  ASSUME NEW s \in Seq(Snapshot), Adjoined(s),
         NEW new \in Snapshot, new.start = End(s)
  PROVE  Adjoined(Append(s, new))
<1> DEFINE t == Append(s, new)
<1>1. /\ t \in Seq(Snapshot) /\ Len(t) = Len(s) + 1 /\ t[Len(s) + 1] = new
      /\ \A i \in 1 .. Len(s) : t[i] = s[i]
      /\ Len(s) \in Nat
      /\ s = <<>> <=> Len(s) = 0
  BY AppendProperties
<1> HIDE DEF t
<1>2. \A i \in 1 .. Len(s) : s[i].start \in Nat /\ s[i].size \in Nat
  <2>1. \A i \in 1 .. Len(s) : s[i] \in Snapshot
    OBVIOUS
  <2> QED
    BY <2>1 DEF Snapshot
<1>3. Len(s) # 0 => new.start = s[Len(s)].start + s[Len(s)].size
  BY <1>1 DEF End, LastOf
<1>4. ASSUME NEW i \in 1 .. Len(s)
      PROVE  s[i].start + s[i].size <= new.start
  <2>1. i = Len(s) \/ i < Len(s)
    BY <1>1
  <2>2. Len(s) \in 1 .. Len(s) /\ Len(s) # 0
    BY <1>1
  <2>3. i < Len(s) => s[i].start + s[i].size <= s[Len(s)].start
    BY <2>2 DEF Adjoined
  <2> QED
    BY <1>2, <1>3, <2>1, <2>2, <2>3
<1>5. ASSUME NEW i \in 1 .. Len(t) - 1
      PROVE  t[i + 1].start = t[i].start + t[i].size
  <2>1. i \in 1 .. Len(s)
    BY <1>1
  <2>2. CASE i = Len(s)
    BY <1>1, <1>3, <2>1, <2>2
  <2>3. CASE i # Len(s)
    <3>1. i \in 1 .. Len(s) - 1 /\ i + 1 \in 1 .. Len(s)
      BY <1>1, <2>1, <2>3
    <3> QED
      BY <1>1, <2>1, <3>1 DEF Adjoined
  <2> QED
    BY <2>2, <2>3
<1>6. ASSUME NEW i \in 1 .. Len(t), NEW j \in 1 .. Len(t), i < j
      PROVE  t[i].start + t[i].size <= t[j].start
  <2>1. i \in 1 .. Len(s)
    BY <1>1, <1>6
  <2>2. CASE j = Len(s) + 1
    BY <1>1, <1>4, <2>1, <2>2
  <2>3. CASE j # Len(s) + 1
    <3>1. j \in 1 .. Len(s)
      BY <1>1, <2>3
    <3> QED
      BY <1>1, <1>6, <2>1, <3>1 DEF Adjoined
  <2> QED
    BY <2>2, <2>3
<1> QED
  BY <1>5, <1>6 DEF t, Adjoined

\* What is left when snapshots are popped from the left.
LEMMA SuffixAdjoins ==
  ASSUME NEW s \in Seq(Snapshot), Adjoined(s), NEW k \in 0 .. Len(s)
  PROVE  LET t == SubSeq(s, k + 1, Len(s))
         IN  /\ t \in Seq(Snapshot)
             /\ Len(t) = Len(s) - k
             /\ \A i \in 1 .. Len(t) : t[i] = s[k + i]
             /\ Adjoined(t)
<1> DEFINE t == SubSeq(s, k + 1, Len(s))
<1>1. Len(s) \in Nat /\ k \in Nat /\ k <= Len(s)
  OBVIOUS
<1>2. /\ t \in Seq(Snapshot)
      /\ Len(t) = Len(s) - k
      /\ \A i \in 1 .. Len(t) : t[i] = s[k + i]
  <2>1. \A i \in k + 1 .. Len(s) : s[i] \in Snapshot
    BY <1>1
  <2>2. /\ t \in Seq(Snapshot)
        /\ Len(t) = IF k + 1 <= Len(s) THEN Len(s) - (k + 1) + 1 ELSE 0
        /\ \A i \in 1 .. Len(s) - (k + 1) + 1 : t[i] = s[(k + 1) + i - 1]
    BY <1>1, <2>1, SubSeqProperties
  <2> HIDE DEF t
  <2>3. Len(t) = Len(s) - k
    BY <1>1, <2>2
  <2>4. ASSUME NEW i \in 1 .. Len(t)
        PROVE  t[i] = s[k + i]
    <3>1. i \in 1 .. Len(s) - (k + 1) + 1 /\ (k + 1) + i - 1 = k + i
      BY <1>1, <2>3
    <3> QED
      BY <2>2, <3>1
  <2> QED
    BY <2>2, <2>3, <2>4
<1> HIDE DEF t
<1>3. ASSUME NEW i \in 1 .. Len(t) - 1
      PROVE  t[i + 1].start = t[i].start + t[i].size
  <2>1. /\ i \in 1 .. Len(t) /\ i + 1 \in 1 .. Len(t)
        /\ k + i \in 1 .. Len(s) - 1 /\ k + (i + 1) = (k + i) + 1
    BY <1>1, <1>2
  <2> QED
    BY <1>2, <2>1 DEF Adjoined
<1>4. ASSUME NEW i \in 1 .. Len(t), NEW j \in 1 .. Len(t), i < j
      PROVE  t[i].start + t[i].size <= t[j].start
  <2>1. k + i \in 1 .. Len(s) /\ k + j \in 1 .. Len(s) /\ k + i < k + j
    BY <1>1, <1>2, <1>4
  <2> QED
    BY <1>2, <2>1 DEF Adjoined
<1> QED
  BY <1>2, <1>3, <1>4 DEF t, Adjoined

\* A snapshot that fits into the buffer alone is never evicted by its own
\* capture, and what is left fits.
LEMMA EvictedFits ==
  ASSUME NEW s \in Seq(Snapshot), s # <<>>, LastOf(s).size <= MaxBufferBytes
  PROVE  /\ Evicted(s) \in 0 .. Len(s) - 1
         /\ Fits(s, Evicted(s))
<1> DEFINE T == {k \in 0 .. Len(s) : Fits(s, k)}
<1>1. Len(s) \in Nat /\ Len(s) # 0
  OBVIOUS
<1>2. Fits(s, Len(s) - 1)
  <2>1. LastOf(s) \in Snapshot
    BY <1>1 DEF LastOf
  <2>2. Bytes(s, Len(s), Len(s)) = LastOf(s).size
    BY <1>1, <2>1 DEF Bytes, LastOf, Snapshot
  <2>3. Len(s) - (Len(s) - 1) = 1 /\ (Len(s) - 1) + 1 = Len(s)
    BY <1>1
  <2> QED
    BY <2>2, <2>3 DEF Fits
<1>3. Len(s) - 1 \in T
  BY <1>1, <1>2
<1>4. T \subseteq Nat
  OBVIOUS
<1>5. PICK m \in T : \A y \in T : m <= y
  <2> HIDE DEF T
  <2> QED
    BY <1>3, <1>4, LeastExists
<1>6. m \in 0 .. Len(s) /\ Fits(s, m) /\ \A j \in 0 .. m - 1 : ~Fits(s, j)
  <2>1. m \in 0 .. Len(s) /\ Fits(s, m)
    OBVIOUS
  <2>2. ASSUME NEW j \in 0 .. m - 1
        PROVE  ~Fits(s, j)
    <3>1. j \in 0 .. Len(s) /\ ~(m <= j)
      BY <1>1, <2>1
    <3> QED
      BY <1>5, <3>1
  <2> QED
    BY <2>1, <2>2
<1> HIDE DEF T
<1>7. /\ Evicted(s) \in 0 .. Len(s) /\ Fits(s, Evicted(s))
      /\ \A j \in 0 .. Evicted(s) - 1 : ~Fits(s, j)
  BY <1>6 DEF Evicted
<1>8. Evicted(s) # Len(s)
  <2> SUFFICES ASSUME Evicted(s) = Len(s) PROVE FALSE
    OBVIOUS
  <2>1. Len(s) - 1 \in 0 .. Evicted(s) - 1
    BY <1>1
  <2> QED
    BY <1>2, <1>7, <2>1
<1> QED
  BY <1>1, <1>7, <1>8

\* What the invariant says of the buffer, with Oldest spelt out.
LEMMA BufferFacts ==
  ASSUME TypeOK, BufferIsNewestStretch
  PROVE  /\ Len(snapshots) \in Nat
         /\ snapshots = <<>> <=> Len(snapshots) = 0
         /\ nextSequence \in Nat
         /\ Oldest = nextSequence - Len(snapshots)
         /\ Oldest \in Nat
         /\ \A i \in 1 .. Len(snapshots) :
              /\ snapshots[i] \in Snapshot
              /\ snapshots[i].sequence = Oldest + i - 1
              /\ snapshots[i].sequence \in Nat
              /\ snapshots[i].start \in Nat
              /\ snapshots[i].size \in Nat \ {0}
<1>1. /\ Len(snapshots) \in Nat
      /\ snapshots = <<>> <=> Len(snapshots) = 0
      /\ nextSequence \in Nat
  BY DEF TypeOK
<1>2. \A i \in 1 .. Len(snapshots) : snapshots[i] \in Snapshot
  BY DEF TypeOK
<1>3. \A i \in 1 .. Len(snapshots) :
        /\ snapshots[i].sequence \in Nat
        /\ snapshots[i].start \in Nat
        /\ snapshots[i].size \in Nat \ {0}
  BY <1>2 DEF Snapshot
<1>4. \A i \in 1 .. Len(snapshots) :
        snapshots[i].sequence = nextSequence - Len(snapshots) + i - 1
  BY DEF BufferIsNewestStretch
<1>5. Oldest = nextSequence - Len(snapshots) /\ Oldest \in Nat
  <2>1. CASE snapshots = <<>>
    BY <1>1, <2>1 DEF Oldest
  <2>2. CASE snapshots # <<>>
    <3>1. 1 \in 1 .. Len(snapshots)
      BY <1>1, <2>2
    <3>2. snapshots[1].sequence = nextSequence - Len(snapshots)
      BY <1>1, <1>4, <3>1
    <3> QED
      BY <1>3, <2>2, <3>1, <3>2 DEF Oldest
  <2> QED
    BY <2>1, <2>2
<1> QED
  BY <1>1, <1>2, <1>3, <1>4, <1>5

\* A capture: the byte count stays exact over append and eviction, and the
\* buffer still is the newest stretch of the session.
LEMMA CaptureKeepsBuffer ==
  ASSUME SnapshotInv, NEW size \in Sizes, Capture(size)
  PROVE  /\ snapshots' \in Seq(Snapshot)
         /\ nextSequence' \in 0 .. MaxSequence
         /\ bufferBytes' \in 0 .. MaxBufferBytes
         /\ BufferIsNewestStretch'
         /\ StartsAdjoin'
         /\ nextSequence' - Len(snapshots') >= Oldest
<1> DEFINE new == [sequence |-> nextSequence, size |-> size, start |-> End(snapshots)]
           all == Append(snapshots, new)
           k == Evicted(all)
           n == Len(snapshots)
<1>1. /\ snapshots' = SubSeq(all, k + 1, Len(all))
      /\ bufferBytes' = bufferBytes + size - Bytes(all, 1, k)
      /\ nextSequence' = nextSequence + 1
      /\ nextSequence < MaxSequence
      /\ size <= MaxBufferBytes
      /\ size \in Nat \ {0}
  BY DEF Capture, Lesser
<1>2. /\ TypeOK /\ BufferIsNewestStretch /\ Adjoined(snapshots) /\ snapshots \in Seq(Snapshot)
      /\ nextSequence \in 0 .. MaxSequence
  BY DEF SnapshotInv, StartsAdjoin, TypeOK
<1>3. /\ n \in Nat
      /\ snapshots = <<>> <=> n = 0
      /\ Oldest = nextSequence - n
      /\ Oldest \in Nat /\ nextSequence \in Nat
      /\ \A i \in 1 .. n : /\ snapshots[i].sequence = Oldest + i - 1
                          /\ snapshots[i].start \in Nat
                          /\ snapshots[i].size \in Nat \ {0}
  BY <1>2, BufferFacts
<1>4. /\ End(snapshots) \in Nat
      /\ bufferBytes = End(snapshots) - (IF n = 0 THEN 0 ELSE snapshots[1].start)
  <2>0. bufferBytes = Bytes(snapshots, 1, n)
    BY <1>2 DEF BufferIsNewestStretch
  <2>1. CASE n = 0
    BY <1>3, <2>0, <2>1 DEF End, Bytes
  <2>2. CASE n # 0
    <3>1. n \in 1 .. n /\ ~(1 > n)
      BY <1>3, <2>2
    <3>2. End(snapshots) = snapshots[n].start + snapshots[n].size
      BY <1>3, <2>2 DEF End, LastOf
    <3> QED
      BY <1>3, <2>0, <2>2, <3>1, <3>2 DEF Bytes
  <2> QED
    BY <2>1, <2>2
<1>5. new \in Snapshot /\ new.start = End(snapshots) /\ new.size = size /\ new.sequence = nextSequence
  BY <1>1, <1>3, <1>4 DEF Snapshot
<1> HIDE DEF new
<1>6. /\ all \in Seq(Snapshot) /\ all # <<>> /\ Len(all) = n + 1 /\ all[n + 1] = new
      /\ \A i \in 1 .. n : all[i] = snapshots[i]
  BY <1>2, <1>5, AppendProperties
<1>7. Adjoined(all)
  BY <1>2, <1>5, AppendAdjoins
<1> HIDE DEF all
<1>8. k \in 0 .. n /\ Fits(all, k)
  <2>1. LastOf(all).size <= MaxBufferBytes
    BY <1>1, <1>5, <1>6 DEF LastOf
  <2>2. Evicted(all) \in 0 .. Len(all) - 1 /\ Fits(all, Evicted(all))
    BY <1>6, <2>1, EvictedFits
  <2> QED
    BY <1>3, <1>6, <2>2
<1> HIDE DEF k
<1>9. /\ snapshots' \in Seq(Snapshot)
      /\ Len(snapshots') = n + 1 - k
      /\ \A i \in 1 .. Len(snapshots') : snapshots'[i] = all[k + i]
      /\ Adjoined(snapshots')
  <2>1. k \in 0 .. Len(all)
    BY <1>3, <1>6, <1>8
  <2> QED
    BY <1>1, <1>6, <1>7, <2>1, SuffixAdjoins
<1>10. /\ all[k + 1].start \in Nat
       /\ all[1].start = IF n = 0 THEN End(snapshots) ELSE snapshots[1].start
       /\ all[1].start \in Nat
  <2>1. k + 1 \in 1 .. n + 1 /\ 1 \in 1 .. n + 1
    BY <1>3, <1>8
  <2>2. all[k + 1] \in Snapshot /\ all[1] \in Snapshot
    BY <1>6, <2>1
  <2>3. n # 0 => 1 \in 1 .. n
    BY <1>3
  <2> QED
    BY <1>5, <1>6, <2>2, <2>3 DEF Snapshot
<1>11. Bytes(all, 1, k) = all[k + 1].start - all[1].start
  <2>1. CASE k = 0
    BY <1>10, <2>1 DEF Bytes
  <2>2. CASE k # 0
    <3>1. k \in 1 .. Len(all) - 1 /\ ~(1 > k)
      BY <1>3, <1>6, <1>8, <2>2
    <3>2. all[k + 1].start = all[k].start + all[k].size
      BY <1>7, <3>1 DEF Adjoined
    <3>3. Bytes(all, 1, k) = all[k].start + all[k].size - all[1].start
      BY <3>1 DEF Bytes
    <3>4. all[k].start \in Nat /\ all[k].size \in Nat
      <4>1. all[k] \in Snapshot
        BY <1>6, <3>1
      <4> QED
        BY <4>1 DEF Snapshot
    <3> QED
      BY <1>10, <3>2, <3>3, <3>4
  <2> QED
    BY <2>1, <2>2
<1>12. bufferBytes' = new.start + new.size - all[k + 1].start
  <2>1. n = 0 => End(snapshots) = 0
    BY <1>3 DEF End
  <2>2. bufferBytes = End(snapshots) - all[1].start
    BY <1>4, <1>10, <2>1
  <2>3. bufferBytes' = (End(snapshots) - all[1].start) + size - (all[k + 1].start - all[1].start)
    BY <1>1, <1>11, <2>2
  <2>4. \A a, b, c, d \in Nat : (a - b) + c - (d - b) = a + c - d
    OBVIOUS
  <2>5. /\ End(snapshots) \in Nat /\ all[1].start \in Nat /\ all[k + 1].start \in Nat
        /\ size \in Nat
    BY <1>1, <1>4, <1>10
  <2>6. bufferBytes' = End(snapshots) + size - all[k + 1].start
    BY <2>3, <2>4, <2>5
  <2> QED
    BY <1>5, <2>6
<1>13. bufferBytes' = Bytes(all, k + 1, Len(all))
  <2>1. ~(k + 1 > Len(all))
    BY <1>3, <1>6, <1>8
  <2> QED
    BY <1>6, <1>12, <2>1 DEF Bytes
<1>14. bufferBytes' = Bytes(snapshots', 1, Len(snapshots'))
  <2>1. /\ 1 \in 1 .. Len(snapshots') /\ Len(snapshots') \in 1 .. Len(snapshots')
        /\ ~(1 > Len(snapshots')) /\ k + Len(snapshots') = n + 1
    BY <1>3, <1>8, <1>9
  <2>2. snapshots'[1] = all[k + 1] /\ snapshots'[Len(snapshots')] = new
    BY <1>6, <1>9, <2>1
  <2> QED
    BY <1>12, <2>1, <2>2 DEF Bytes
<1>15. bufferBytes' \in 0 .. MaxBufferBytes
  <2>1. bufferBytes' <= MaxBufferBytes
    BY <1>8, <1>13 DEF Fits
  <2>2. all[k + 1].start <= new.start + new.size
    <3>1. CASE k = n
      BY <1>1, <1>4, <1>5, <1>6, <3>1
    <3>2. CASE k # n
      <4>1. k + 1 \in 1 .. Len(all) /\ n + 1 \in 1 .. Len(all) /\ k + 1 < n + 1
        BY <1>3, <1>6, <1>8, <3>2
      <4>2. all[k + 1].start + all[k + 1].size <= all[n + 1].start
        BY <1>7, <4>1 DEF Adjoined
      <4>3. all[k + 1].size \in Nat
        <5>1. all[k + 1] \in Snapshot
          BY <1>6, <4>1
        <5> QED
          BY <5>1 DEF Snapshot
      <4>4. \A a, b, c, d \in Nat : a + b <= c => a <= c + d
        OBVIOUS
      <4>5. new.start \in Nat /\ new.size \in Nat /\ all[n + 1].start = new.start
        BY <1>1, <1>4, <1>5, <1>6
      <4> QED
        BY <1>10, <4>2, <4>3, <4>4, <4>5
    <3> QED
      BY <3>1, <3>2
  <2>3. new.start \in Nat /\ new.size \in Nat /\ all[k + 1].start \in Nat
    BY <1>1, <1>4, <1>5, <1>10
  <2>4. \A a, b, c \in Nat : c <= a + b => a + b - c \in Nat
    OBVIOUS
  <2>5. bufferBytes' \in Nat
    BY <1>12, <2>2, <2>3, <2>4
  <2> QED
    BY <2>1, <2>5
<1>16. ASSUME NEW i \in 1 .. Len(snapshots')
       PROVE  snapshots'[i].sequence = nextSequence' - Len(snapshots') + i - 1
  <2>1. k + i \in 1 .. n + 1 /\ k + i \in Nat
    BY <1>3, <1>8, <1>9
  <2>2. CASE k + i = n + 1
    <3>1. snapshots'[i].sequence = nextSequence
      BY <1>5, <1>6, <1>9, <2>2
    <3>2. nextSequence' - Len(snapshots') + i - 1 = nextSequence
      <4>1. Len(snapshots') = i /\ i \in Nat
        BY <1>3, <1>8, <1>9, <2>2
      <4>2. nextSequence' = nextSequence + 1 /\ nextSequence \in Nat
        BY <1>1, <1>3
      <4> QED
        BY <4>1, <4>2
    <3> QED
      BY <3>1, <3>2
  <2>3. CASE k + i # n + 1
    <3>1. k + i \in 1 .. n
      BY <1>3, <2>1, <2>3
    <3>2. snapshots'[i].sequence = Oldest + (k + i) - 1
      BY <1>3, <1>6, <1>9, <3>1
    <3>3. nextSequence' - Len(snapshots') + i - 1 = Oldest + (k + i) - 1
      <4>1. /\ nextSequence' = nextSequence + 1 /\ Len(snapshots') = n + 1 - k
            /\ Oldest = nextSequence - n /\ n \in Nat /\ k \in Nat /\ i \in Nat
            /\ nextSequence \in Nat
        BY <1>1, <1>3, <1>8, <1>9
      <4> HIDE DEF n
      <4> QED
        BY <4>1
    <3> QED
      BY <3>2, <3>3
  <2> QED
    BY <2>2, <2>3
<1>17. BufferIsNewestStretch'
  <2>1. Len(snapshots') <= Capacity
    BY <1>3, <1>6, <1>8, <1>9 DEF Fits
  <2>2. snapshots' # <<>>
    BY <1>3, <1>8, <1>9
  <2> QED
    BY <1>14, <1>15, <1>16, <2>1, <2>2 DEF BufferIsNewestStretch
<1>18. nextSequence' - Len(snapshots') >= Oldest
  BY <1>1, <1>3, <1>8, <1>9
<1> QED
  BY <1>1, <1>2, <1>9, <1>15, <1>17, <1>18 DEF StartsAdjoin

-----------------------------------------------------------------------------
(* The buffer and the consumer *)

\* The fields of a page.
LEMMA PageParts ==
  ASSUME NEW p \in Exchange, p.kind = "page"
  PROVE  /\ p \in Page
         /\ p.session \in 1 .. MaxSessions /\ p.next \in Nat
         /\ p.dropped \in Nat /\ p.snapshots \subseteq Nat
<1>1. p \in Page
  BY DEF Exchange, Silence
<1> QED
  BY <1>1 DEF Page

\* Steps of the buffer that lose nothing but what Oldest says are unseen by the
\* consumer.
LEMMA ConsumerUnaware ==
  ASSUME SnapshotInv, UNCHANGED <<session, consumerVars>>,
         TypeOK', nextSequence' >= nextSequence, Oldest' >= Oldest, Oldest' \in Nat
  PROVE  BehindCursor' /\ KnowsTheSession' /\ RequestIsCursor' /\ PageContinues'
<1> USE DEF consumerVars
<1>0. /\ TypeOK /\ nextSequence \in Nat /\ nextSequence' \in Nat /\ Oldest \in Nat
      /\ cursor \in Nat /\ gaps \subseteq Nat /\ exchange \in Exchange
  BY BufferFacts DEF SnapshotInv, TypeOK
<1>1. BehindCursor' /\ RequestIsCursor'
  BY DEF SnapshotInv, BehindCursor, RequestIsCursor
<1>2. KnowsTheSession'
  BY <1>0 DEF SnapshotInv, KnowsTheSession
<1>3. PageContinues'
  <2> SUFFICES ASSUME exchange.kind = "page", exchange.session = session
               PROVE  exchange.next <= nextSequence' /\ exchange.dropped <= Oldest'
    BY DEF SnapshotInv, PageContinues
  <2>1. exchange.next \in Nat /\ exchange.dropped \in Nat
    BY <1>0, PageParts
  <2>2. exchange.next <= nextSequence /\ exchange.dropped <= Oldest
    BY DEF SnapshotInv, PageContinues
  <2> QED
    BY <1>0, <2>1, <2>2
<1> QED
  BY <1>1, <1>2, <1>3

\* A capture while the consumer waits, or a page travels: what the page says is
\* dropped stays dropped, and its cursor stays within the session.
LEMMA CaptureKeeps ==
  ASSUME SnapshotInv, NEW size \in Sizes, Capture(size)
  PROVE  SnapshotInv'
<1>1. /\ snapshots' \in Seq(Snapshot)
      /\ nextSequence' \in 0 .. MaxSequence
      /\ bufferBytes' \in 0 .. MaxBufferBytes
      /\ BufferIsNewestStretch'
      /\ StartsAdjoin'
      /\ nextSequence' - Len(snapshots') >= Oldest
  BY CaptureKeepsBuffer
<1>2. UNCHANGED <<session, consumerVars>> /\ captureError' = FALSE /\ nextSequence' = nextSequence + 1
  BY DEF Capture
<1>3. TypeOK'
  BY <1>1, <1>2 DEF SnapshotInv, TypeOK, consumerVars
<1>4. Oldest' = nextSequence' - Len(snapshots') /\ Oldest' \in Nat
  <2>1. snapshots' = <<>> <=> Len(snapshots') = 0
    BY <1>1
  <2>2. snapshots' # <<>> => snapshots'[1].sequence = nextSequence' - Len(snapshots')
                             /\ snapshots'[1] \in Snapshot
    <3> SUFFICES ASSUME snapshots' # <<>>
                 PROVE  /\ snapshots'[1].sequence = nextSequence' - Len(snapshots')
                        /\ snapshots'[1] \in Snapshot
      OBVIOUS
    <3>1. 1 \in 1 .. Len(snapshots') /\ Len(snapshots') \in Nat
      BY <1>1, <2>1
    <3>2. snapshots'[1].sequence = nextSequence' - Len(snapshots') + 1 - 1
      BY <1>1, <3>1 DEF BufferIsNewestStretch
    <3> QED
      BY <1>1, <3>1, <3>2
  <2> QED
    BY <1>1, <2>1, <2>2 DEF Oldest, Snapshot
<1>5. nextSequence' >= nextSequence
  BY <1>2 DEF SnapshotInv, TypeOK
<1>6. BehindCursor' /\ KnowsTheSession' /\ RequestIsCursor' /\ PageContinues'
  BY <1>1, <1>2, <1>3, <1>4, <1>5, ConsumerUnaware
<1> QED
  BY <1>1, <1>3, <1>6 DEF SnapshotInv

\* A failed capture changes no snapshot.
LEMMA CaptureFailsKeeps ==
  ASSUME SnapshotInv, CaptureFails
  PROVE  SnapshotInv'
BY DEF CaptureFails, consumerVars, SnapshotInv, TypeOK, BufferIsNewestStretch, StartsAdjoin,
       BehindCursor, KnowsTheSession, RequestIsCursor, PageContinues, Oldest

\* A restart: what the consumer knows is of an older session then.
LEMMA RestartKeeps ==
  ASSUME SnapshotInv, Restart
  PROVE  SnapshotInv'
<1> USE DEF Restart
<1>0. /\ TypeOK /\ BehindCursor /\ KnowsTheSession /\ RequestIsCursor /\ PageContinues
      /\ session \in Nat /\ known \in Nat
      /\ session' = session + 1 /\ known' = known /\ snapshots' = <<>>
      /\ exchange \in Exchange
  BY DEF SnapshotInv, TypeOK
<1>1. exchange' \in Exchange /\ (exchange' = exchange \/ exchange' = Silence)
  BY <1>0 DEF Exchange
<1>2. TypeOK'
  <2>1. <<>> \in Seq(Snapshot) /\ 0 \in 0 .. MaxSequence /\ 0 \in 0 .. MaxBufferBytes
    OBVIOUS
  <2>2. session' \in 1 .. MaxSessions
    BY <1>0 DEF TypeOK
  <2> QED
    BY <1>0, <1>1, <2>1, <2>2 DEF TypeOK
<1>3. BufferIsNewestStretch' /\ StartsAdjoin'
  BY <1>0 DEF BufferIsNewestStretch, StartsAdjoin, Adjoined, Bytes
<1>4. BehindCursor' /\ KnowsTheSession'
  BY <1>0 DEF BehindCursor, KnowsTheSession
<1>5. RequestIsCursor' /\ PageContinues'
  <2>1. CASE exchange' = Silence
    BY <2>1 DEF Silence, RequestIsCursor, PageContinues
  <2>2. CASE exchange' = exchange
    <3>1. RequestIsCursor'
      BY <1>0, <2>2 DEF RequestIsCursor
    <3>2. PageContinues'
      <4> SUFFICES ASSUME exchange.kind = "page"
                   PROVE  exchange.session <= session /\ exchange.session \in Nat
        BY <1>0, <2>2 DEF PageContinues
      <4> QED
        BY <1>0, PageParts DEF PageContinues
    <3> QED
      BY <3>1, <3>2
  <2> QED
    BY <1>1, <2>1, <2>2
<1> QED
  BY <1>2, <1>3, <1>4, <1>5 DEF SnapshotInv

\* A page is a stretch that begins at the cursor, or at the oldest snapshot if
\* the cursor is older; the byte bound may cut it short but leaves no hole.
LEMMA ServeKeeps ==
  ASSUME SnapshotInv, Serve
  PROVE  SnapshotInv'
<1> USE DEF Serve
<1> DEFINE a == exchange.after
           first == Skipped(a) + 1
           n == Len(snapshots)
<1>0. /\ TypeOK /\ BufferIsNewestStretch /\ Adjoined(snapshots) /\ a = cursor /\ a \in Nat
      /\ UNCHANGED <<bufferVars, known, cursor, received, gaps>>
      /\ session \in 1 .. MaxSessions
  BY DEF SnapshotInv, RequestIsCursor, TypeOK, StartsAdjoin
<1>1. /\ n \in Nat /\ nextSequence \in Nat /\ Oldest \in Nat /\ Oldest = nextSequence - n
      /\ \A i \in 1 .. n : /\ snapshots[i].sequence = Oldest + i - 1
                          /\ snapshots[i].start \in Nat
                          /\ snapshots[i].size \in Nat \ {0}
  BY <1>0, BufferFacts
<1>2. ASSUME exchange' \in Exchange, exchange'.kind # "request", PageContinues'
      PROVE  SnapshotInv'
  <2>1. TypeOK'
    BY <1>0, <1>2 DEF TypeOK, bufferVars
  <2>2. BufferIsNewestStretch' /\ StartsAdjoin' /\ BehindCursor' /\ KnowsTheSession' /\ RequestIsCursor'
    BY <1>0, <1>2 DEF SnapshotInv, BufferIsNewestStretch, StartsAdjoin, BehindCursor,
                      KnowsTheSession, RequestIsCursor, bufferVars, Oldest
  <2> QED
    BY <1>2, <2>1, <2>2 DEF SnapshotInv
<1>3. CASE captureError \/ a > nextSequence
  <2>1. exchange'.kind \in {"400", "503"} /\ exchange' \in Exchange
    BY <1>3 DEF Exchange
  <2> QED
    BY <1>2, <2>1 DEF PageContinues
<1>4. CASE ~(captureError \/ a > nextSequence)
  <2>1. exchange' = PageFor(a) /\ a <= nextSequence
    BY <1>0, <1>1, <1>4
  <2>2. /\ first \in Nat /\ first >= 1 /\ Oldest + first - 1 = Greater(a, Oldest)
        /\ Greater(a, Oldest) >= a /\ Greater(a, Oldest) >= Oldest
        /\ Greater(a, Oldest) \in {a, Oldest}
        /\ a >= Oldest => Greater(a, Oldest) = a
        /\ a < Oldest => Greater(a, Oldest) = Oldest
    BY <1>0, <1>1 DEF Skipped, Greater
  <2> DEFINE S == Selected(a)
             top == NextAfter(a)
             lost == IF a < Oldest THEN Oldest ELSE 0
             sent == {snapshots[i].sequence : i \in S}
  <2>3. /\ S \subseteq first .. n /\ S \subseteq 1 .. n
        /\ \A i \in S : snapshots[i].sequence = Oldest + i - 1
    <3>1. S \subseteq first .. n
      <4> SUFFICES ASSUME NEW i \in Window(a) PROVE i \in first .. n
        BY DEF Selected
      <4>1. Lesser(Skipped(a) + Limit, n) \in Int /\ Lesser(Skipped(a) + Limit, n) <= n
        BY <1>0, <1>1 DEF Lesser, Skipped, Greater
      <4>2. i \in first .. Lesser(Skipped(a) + Limit, n)
        BY DEF Window
      <4> HIDE DEF first, n
      <4> QED
        BY <1>1, <2>2, <4>1, <4>2
    <3>2. S \subseteq 1 .. n
      BY <1>1, <2>2, <3>1
    <3> HIDE DEF S
    <3> QED
      BY <1>1, <3>1, <3>2
  <2>4. /\ top >= a /\ top \in Nat /\ top <= nextSequence /\ lost <= top
        /\ \A x \in Nat : x \in sent <=> (Greater(a, Oldest) <= x /\ x < top)
    <3>1. CASE S = {}
      <4>1. top = Greater(a, Oldest)
        BY <3>1 DEF NextAfter
      <4>2. sent = {}
        BY <3>1
      <4> HIDE DEF S, top, sent
      <4> QED
        BY <1>0, <1>1, <2>1, <2>2, <4>1, <4>2
    <3>2. CASE S # {}
      <4> DEFINE m == CHOOSE i \in S : \A j \in S : j <= i
      <4>1. \E i \in S : \A j \in S : j <= i
        <5>1. S \subseteq 0 .. n
          BY <1>1, <2>3
        <5> HIDE DEF S
        <5> QED
          BY <1>1, <3>2, <5>1, GreatestExists
      <4>2. m \in S /\ \A j \in S : j <= m
        <5> HIDE DEF S
        <5> QED
          BY <4>1
      <4>3. top = snapshots[m].sequence + 1
        BY <3>2 DEF NextAfter
      <4>4. ASSUME NEW i \in first .. m
            PROVE  i \in S
        <5>1. /\ m \in Window(a) /\ FitsPage(a, m) /\ m \in first .. n
              /\ i \in 1 .. n /\ m \in 1 .. n /\ first \in 1 .. n
          <6>1. m \in Window(a) /\ FitsPage(a, m)
            BY <4>2 DEF Selected
          <6>2. m \in first .. n /\ m \in 1 .. n
            BY <2>3, <4>2
          <6> HIDE DEF first, m, n
          <6> QED
            BY <1>1, <2>2, <6>1, <6>2
        <5>2. i \in Window(a)
          <6>1. Window(a) = first .. Lesser(Skipped(a) + Limit, n)
            BY DEF Window
          <6>2. Lesser(Skipped(a) + Limit, n) \in Int
            BY <1>0, <1>1 DEF Lesser, Skipped, Greater
          <6> HIDE DEF first, m, n
          <6> QED
            BY <5>1, <6>1, <6>2
        <5>3. snapshots[i].start + snapshots[i].size <= snapshots[m].start + snapshots[m].size
          <6>1. i = m \/ i < m
            BY <5>1
          <6>2. i < m => snapshots[i].start + snapshots[i].size <= snapshots[m].start
            BY <1>0, <5>1 DEF Adjoined
          <6>3. /\ snapshots[i].start \in Nat /\ snapshots[i].size \in Nat
                /\ snapshots[m].start \in Nat /\ snapshots[m].size \in Nat
            <7> HIDE DEF m, first
            <7> QED
              BY <1>1, <5>1
          <6> HIDE DEF m, first
          <6> QED
            BY <6>1, <6>2, <6>3
        <5>4. FitsPage(a, i)
          <6>1. ~(first > i) /\ ~(first > m)
            BY <5>1
          <6>2. /\ Bytes(snapshots, first, i)
                     = snapshots[i].start + snapshots[i].size - snapshots[first].start
                /\ Bytes(snapshots, first, m)
                     = snapshots[m].start + snapshots[m].size - snapshots[first].start
            BY <6>1 DEF Bytes
          <6>3. PageOverhead + Bytes(snapshots, first, m) + (m - first + 1) <= MaxPageBytes
            BY <5>1 DEF FitsPage
          <6>4. PageOverhead + Bytes(snapshots, first, i) + (i - first + 1) <= MaxPageBytes
            <7>1. /\ snapshots[i].start \in Nat /\ snapshots[i].size \in Nat
                  /\ snapshots[m].start \in Nat /\ snapshots[m].size \in Nat
                  /\ snapshots[first].start \in Nat
                  /\ i <= m /\ i \in Nat /\ m \in Nat /\ first \in Nat
              <8> HIDE DEF m, first
              <8> QED
                BY <1>1, <2>2, <5>1
            <7> HIDE DEF m, first
            <7> QED
              BY <5>3, <6>2, <6>3, <7>1
          <6> QED
            BY <6>4 DEF FitsPage
        <5> QED
          BY <5>2, <5>4 DEF Selected
      <4>5. m \in first .. n /\ m \in Nat /\ top = Oldest + m
        <5>1. m \in first .. n /\ snapshots[m].sequence = Oldest + m - 1
          BY <2>3, <4>2
        <5> HIDE DEF m, first, top
        <5> QED
          BY <1>1, <2>2, <4>3, <5>1
      <4>6. ASSUME NEW x \in Nat
            PROVE  x \in sent <=> (Greater(a, Oldest) <= x /\ x < top)
        <5>1. ASSUME x \in sent
              PROVE  Greater(a, Oldest) <= x /\ x < top
          <6>1. PICK i \in S : x = snapshots[i].sequence
            BY <5>1
          <6>2. i \in first .. n /\ x = Oldest + i - 1 /\ i <= m
            BY <2>3, <4>2, <6>1
          <6> HIDE DEF S, m, first, top
          <6> QED
            BY <1>1, <2>2, <4>5, <6>2
        <5>2. ASSUME Greater(a, Oldest) <= x, x < top
              PROVE  x \in sent
          <6>1. x - Oldest + 1 \in first .. m /\ Oldest + (x - Oldest + 1) - 1 = x
            <7> HIDE DEF m, first, top
            <7> QED
              BY <1>0, <1>1, <2>2, <4>5, <5>2
          <6>2. x - Oldest + 1 \in S
            BY <4>4, <6>1
          <6>3. snapshots[x - Oldest + 1].sequence = x
            BY <2>3, <6>1, <6>2
          <6> HIDE DEF S
          <6> QED
            BY <6>2, <6>3
        <5> QED
          BY <5>1, <5>2
      <4>7. /\ top >= a /\ top \in Nat /\ top <= nextSequence /\ lost <= top
        <5> HIDE DEF m, first, top, n, a
        <5> QED
          BY <1>0, <1>1, <2>1, <2>2, <4>5
      <4> HIDE DEF m, first, top, sent, S
      <4> QED
        BY <4>6, <4>7
    <3> QED
      BY <3>1, <3>2
  <2>5. /\ exchange'.kind = "page" /\ exchange'.session = session
        /\ exchange'.next = top /\ exchange'.dropped = lost /\ exchange'.snapshots = sent
    BY <2>1 DEF PageFor
  <2>6. sent \subseteq Nat
    <3> HIDE DEF S
    <3> QED
      BY <1>1, <2>3
  <2>7. exchange' \in Exchange
    <3> HIDE DEF sent, top, lost
    <3>1. lost \in Nat
      BY <1>1 DEF lost
    <3>2. exchange' = [kind |-> "page", session |-> session, next |-> top,
                       dropped |-> lost, snapshots |-> sent]
      BY <2>1 DEF PageFor, top, lost, sent
    <3>3. top \in Nat /\ sent \in SUBSET Nat
      BY <2>4, <2>6
    <3>4. exchange' \in Page
      <4> HIDE DEF Serve
      <4> QED
        BY <1>0, <3>1, <3>2, <3>3 DEF Page
    <3> QED
      BY <3>4 DEF Exchange
  <2>8. PageContinues'
    <3> HIDE DEF sent, top, S, first, n
    <3>1. /\ lost <= top /\ top >= cursor /\ lost <= Oldest /\ top <= nextSequence
      BY <1>0, <1>1, <2>4
    <3>2. sent \subseteq cursor .. top - 1 /\ \A x \in sent : x >= lost
      BY <1>0, <1>1, <2>2, <2>4, <2>6
    <3>3. cursor .. top - 1 \subseteq sent \cup (cursor .. lost - 1)
      <4> SUFFICES ASSUME NEW x \in cursor .. top - 1, x \notin sent
                   PROVE  x \in cursor .. lost - 1
        OBVIOUS
      <4>1. x \in Nat /\ x < Greater(a, Oldest)
        BY <1>0, <1>1, <2>2, <2>4
      <4> QED
        BY <1>0, <1>1, <2>2, <4>1
    <3>4. cursor' = cursor /\ session' = session /\ nextSequence' = nextSequence /\ Oldest' = Oldest
      BY <1>0 DEF bufferVars, Oldest
    <3>5. session <= session
      BY <1>0
    <3> HIDE DEF lost, Serve
    <3> QED
      BY <2>5, <3>1, <3>2, <3>3, <3>4, <3>5 DEF PageContinues
  <2> QED
    BY <1>2, <2>5, <2>7, <2>8
<1> QED
  BY <1>3, <1>4

\* The consumer asks, or a request or refusal is lost or answered with 503.
LEMMA EmptyHanded ==
  ASSUME SnapshotInv, UNCHANGED <<bufferVars, known, cursor, received, gaps>>,
         \/ exchange' = Silence
         \/ exchange' = [kind |-> "request", after |-> cursor]
  PROVE  SnapshotInv'
<1>1. exchange' \in Exchange
  BY DEF Exchange, SnapshotInv, TypeOK
<1>2. exchange'.kind # "page" /\ (exchange'.kind = "request" => exchange'.after = cursor)
  BY DEF Silence
<1> QED
  BY <1>1, <1>2 DEF SnapshotInv, TypeOK, BufferIsNewestStretch, StartsAdjoin,
       BehindCursor, KnowsTheSession, RequestIsCursor, PageContinues, Oldest, bufferVars

\* The consumer starts over in a session that has begun.
LEMMA StartOverKeeps ==
  ASSUME SnapshotInv, NEW s \in 1 .. session, StartOver(s), exchange' = Silence,
         UNCHANGED bufferVars
  PROVE  SnapshotInv'
<1>0. session \in 1 .. MaxSessions /\ nextSequence \in Nat
  BY DEF SnapshotInv, TypeOK
<1>1. known' \in 0 .. MaxSessions /\ known' = s /\ cursor' = 0 /\ received' = {} /\ gaps' = {}
  BY <1>0 DEF StartOver
<1>2. exchange' \in Exchange /\ exchange'.kind = "none"
  BY DEF Silence, Exchange
<1>3. TypeOK' /\ BufferIsNewestStretch' /\ StartsAdjoin'
  BY <1>1, <1>2 DEF SnapshotInv, TypeOK, BufferIsNewestStretch, StartsAdjoin, bufferVars
<1>4. BehindCursor' /\ KnowsTheSession'
  BY <1>0, <1>1 DEF BehindCursor, KnowsTheSession, bufferVars
<1>5. RequestIsCursor' /\ PageContinues'
  BY <1>2 DEF RequestIsCursor, PageContinues
<1> QED
  BY <1>3, <1>4, <1>5 DEF SnapshotInv

\* The consumer applies a page, maybe long after it was made.
LEMMA ApplyPageKeeps ==
  ASSUME SnapshotInv, ApplyPage
  PROVE  SnapshotInv'
<1> USE DEF ApplyPage
<1> DEFINE p == exchange
<1>1. /\ p.session \in 1 .. MaxSessions /\ p.next \in Nat /\ p.dropped \in Nat
      /\ p.snapshots \subseteq Nat
  BY PageParts DEF SnapshotInv, TypeOK
<1>2. /\ p.session <= session
      /\ p.next >= cursor
      /\ p.dropped <= p.next
      /\ p.snapshots \subseteq cursor .. p.next - 1
      /\ \A s \in p.snapshots : s >= p.dropped
      /\ cursor .. p.next - 1 \subseteq p.snapshots \cup (cursor .. p.dropped - 1)
      /\ p.session = session => p.next <= nextSequence /\ p.dropped <= Oldest
  BY DEF SnapshotInv, PageContinues
<1>3. /\ cursor \in Nat /\ received \subseteq Nat /\ gaps \subseteq Nat
      /\ Oldest \in Nat /\ session \in 1 .. MaxSessions /\ nextSequence \in Nat
  BY BufferFacts DEF SnapshotInv, TypeOK
<1>4. CASE p.session # known
  <2>1. p.session \in 1 .. session
    BY <1>1, <1>2, <1>3
  <2> QED
    BY <1>4, <2>1, StartOverKeeps
<1>5. CASE p.session = known
  <2>1. /\ cursor' = p.next /\ received' = received \cup p.snapshots
        /\ gaps' = gaps \cup (cursor .. p.dropped - 1) /\ known' = known
        /\ exchange' = Silence /\ UNCHANGED bufferVars
    BY <1>5
  <2>2. exchange' \in Exchange /\ exchange'.kind = "none"
    BY <2>1 DEF Silence, Exchange
  <2>3. TypeOK'
    <3>1. cursor .. p.dropped - 1 \subseteq Nat
      BY <1>1, <1>3
    <3>2. cursor' \in Nat /\ received' \subseteq Nat /\ gaps' \subseteq Nat
      BY <1>1, <1>3, <2>1, <3>1
    <3> QED
      BY <2>1, <2>2, <3>2 DEF SnapshotInv, TypeOK, bufferVars
  <2>4. BufferIsNewestStretch' /\ StartsAdjoin'
    BY <2>1 DEF SnapshotInv, BufferIsNewestStretch, StartsAdjoin, bufferVars
  <2>5. /\ received \subseteq 0 .. cursor - 1 /\ gaps \subseteq 0 .. cursor - 1
        /\ received \cap gaps = {} /\ 0 .. cursor - 1 \subseteq received \cup gaps
    BY DEF SnapshotInv, BehindCursor
  <2>6. BehindCursor'
    <3> HIDE DEF p, ApplyPage
    <3>0. 0 .. cursor - 1 \subseteq 0 .. p.next - 1 /\ cursor .. p.next - 1 \subseteq 0 .. p.next - 1
      BY <1>1, <1>2, <1>3
    <3>1. received \cup p.snapshots \subseteq 0 .. p.next - 1
      BY <1>2, <2>5, <3>0
    <3>2. gaps \cup (cursor .. p.dropped - 1) \subseteq 0 .. p.next - 1
      <4>1. cursor .. p.dropped - 1 \subseteq cursor .. p.next - 1
        BY <1>1, <1>2, <1>3
      <4> QED
        BY <2>5, <3>0, <4>1
    <3>3. (received \cup p.snapshots) \cap (gaps \cup (cursor .. p.dropped - 1)) = {}
      <4> SUFFICES ASSUME NEW x \in received \cup p.snapshots,
                          x \in gaps \cup (cursor .. p.dropped - 1)
                   PROVE  FALSE
        OBVIOUS
      <4>1. CASE x \in received
        <5>1. x \in 0 .. cursor - 1
          BY <2>5, <4>1
        <5> QED
          BY <1>1, <1>3, <2>5, <4>1, <5>1
      <4>2. CASE x \in p.snapshots
        <5>1. x \in cursor .. p.next - 1 /\ x >= p.dropped
          BY <1>2, <4>2
        <5>2. x \notin gaps
          BY <1>1, <1>3, <2>5, <5>1
        <5> QED
          BY <1>1, <1>3, <5>1, <5>2
      <4> QED
        BY <4>1, <4>2
    <3>4. 0 .. p.next - 1 \subseteq (received \cup p.snapshots) \cup (gaps \cup (cursor .. p.dropped - 1))
      BY <1>1, <1>2, <1>3, <2>5
    <3> QED
      BY <2>1, <3>1, <3>2, <3>3, <3>4 DEF BehindCursor
  <2>7. KnowsTheSession'
    <3>1. known <= session
      BY <1>2, <1>5
    <3>2. known = session => \A s \in gaps : s < Oldest
      BY DEF SnapshotInv, KnowsTheSession
    <3>3. known = session => p.next <= nextSequence /\ p.dropped <= Oldest
      BY <1>2, <1>5
    <3>4. known = session => \A s \in gaps' : s < Oldest
      <4> HIDE DEF p
      <4> QED
        BY <1>1, <1>3, <2>1, <3>2, <3>3
    <3>5. session' = session /\ nextSequence' = nextSequence /\ Oldest' = Oldest
      BY <2>1 DEF bufferVars, Oldest
    <3> QED
      BY <2>1, <3>1, <3>3, <3>4, <3>5 DEF KnowsTheSession
  <2>8. RequestIsCursor' /\ PageContinues'
    BY <2>2 DEF RequestIsCursor, PageContinues
  <2> QED
    BY <2>3, <2>4, <2>6, <2>7, <2>8 DEF SnapshotInv
<1> QED
  BY <1>4, <1>5

\* An empty buffer and a consumer that knows no session.
LEMMA InitHolds == Init => SnapshotInv
<1> SUFFICES ASSUME Init PROVE SnapshotInv
  OBVIOUS
<1> USE DEF Init
<1>1. TypeOK
  <2>1. <<>> \in Seq(Snapshot) /\ 0 \in 0 .. MaxSequence /\ 0 \in 0 .. MaxBufferBytes
        /\ 1 \in 1 .. MaxSessions /\ 0 \in 0 .. MaxSessions /\ Silence \in Exchange
    BY DEF Exchange
  <2> QED
    BY <2>1 DEF TypeOK
<1>2. BufferIsNewestStretch /\ StartsAdjoin
  BY DEF BufferIsNewestStretch, StartsAdjoin, Adjoined, Bytes
<1>3. BehindCursor /\ KnowsTheSession /\ RequestIsCursor /\ PageContinues
  BY DEF BehindCursor, KnowsTheSession, RequestIsCursor, PageContinues, Silence
<1> QED
  BY <1>1, <1>2, <1>3 DEF SnapshotInv

\* The invariant is inductive.
LEMMA NextKeeps ==
  ASSUME SnapshotInv, [Next]_vars
  PROVE  SnapshotInv'
<1>1. ASSUME NEW size \in Sizes, Capture(size)
      PROVE  SnapshotInv'
  BY <1>1, CaptureKeeps
<1>2. CASE CaptureFails
  BY <1>2, CaptureFailsKeeps
<1>3. CASE Restart
  BY <1>3, RestartKeeps
<1>4. CASE Ask
  BY <1>4, EmptyHanded DEF Ask
<1>5. CASE Serve
  BY <1>5, ServeKeeps
<1>6. CASE Lose
  BY <1>6, EmptyHanded DEF Lose
<1>7. CASE TryLater
  BY <1>7, EmptyHanded DEF TryLater
<1>8. CASE ApplyPage
  BY <1>8, ApplyPageKeeps
<1>9. CASE ApplyRefusal
  <2>1. session \in 1 .. session
    BY DEF SnapshotInv, TypeOK
  <2> QED
    BY <1>9, <2>1, StartOverKeeps DEF ApplyRefusal
<1>10. CASE UNCHANGED vars
  BY <1>10 DEF vars, bufferVars, consumerVars, SnapshotInv, TypeOK, BufferIsNewestStretch,
               StartsAdjoin, BehindCursor, KnowsTheSession, RequestIsCursor, PageContinues, Oldest
<1> QED
  BY <1>1, <1>2, <1>3, <1>4, <1>5, <1>6, <1>7, <1>8, <1>9, <1>10 DEF Next

\* It holds in every reachable state.
LEMMA InvariantHolds == Spec => []SnapshotInv
<1>1. Init => SnapshotInv
  BY InitHolds
<1>2. SnapshotInv /\ [Next]_vars => SnapshotInv'
  BY NextKeeps
<1> QED
  BY <1>1, <1>2, PTL DEF Spec

-----------------------------------------------------------------------------
(* The theorems *)

\* Type correctness; bufferBytes never goes below zero.
THEOREM TypeCorrect == Spec => []TypeOK
<1>1. SnapshotInv => TypeOK
  BY DEF SnapshotInv
<1> QED
  BY <1>1, InvariantHolds, PTL

\* The buffer holds the newest snapshots of the session without a hole, within
\* both bounds and with exact accounting, and is not empty after a capture.
THEOREM BufferKeepsNewest == Spec => []BufferIsNewestStretch
<1>1. SnapshotInv => BufferIsNewestStretch
  BY DEF SnapshotInv
<1> QED
  BY <1>1, InvariantHolds, PTL

\* The consumer's cursor passes no snapshot that it was neither sent nor told
\* is dropped.
THEOREM PagesSkipNothing == Spec => []NothingSkippedSilently
<1>1. SnapshotInv => NothingSkippedSilently
  BY DEF SnapshotInv, BehindCursor, NothingSkippedSilently
<1> QED
  BY <1>1, InvariantHolds, PTL

\* Nothing is reported as dropped that was sent or could still be.
THEOREM ReportedGapsAreReal == Spec => []GapsAreReal
<1>1. SnapshotInv => GapsAreReal
  BY DEF SnapshotInv, BehindCursor, KnowsTheSession, GapsAreReal
<1> QED
  BY <1>1, InvariantHolds, PTL

\* Within a session no cursor is refused, and no page brings a snapshot that the
\* consumer has received: pages continue at the cursor, and what was received is
\* behind it.
THEOREM CursorIsNeverRefused == Spec => []CursorStaysValid
<1>1. SnapshotInv => CursorStaysValid
  <2> SUFFICES ASSUME SnapshotInv PROVE CursorStaysValid
    OBVIOUS
  <2>1. (known = session => cursor <= nextSequence) /\ received \subseteq 0 .. cursor - 1
    BY DEF SnapshotInv, BehindCursor, KnowsTheSession
  <2>2. ASSUME exchange.kind = "page"
        PROVE  exchange.snapshots \cap received = {}
    <3>1. exchange.snapshots \subseteq cursor .. exchange.next - 1
      BY <2>2 DEF SnapshotInv, PageContinues
    <3>2. cursor \in Nat
      BY DEF SnapshotInv, TypeOK
    <3> QED
      BY <2>1, <3>1, <3>2
  <2> QED
    BY <2>1, <2>2 DEF CursorStaysValid
<1> QED
  BY <1>1, InvariantHolds, PTL

===========================================================================
