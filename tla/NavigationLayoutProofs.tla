----------------------- MODULE NavigationLayoutProofs -----------------------
(***************************************************************************)
(* The layout of the pages, for any definition, pages, sections and        *)
(* panels, any limits, and any number of changes in this and other tabs.   *)
(*                                                                         *)
(* Whole says of a list of sections that it holds a set of pages: each in  *)
(* one section, once.  Every setter of the store is one or two changes of  *)
(* such a list (a section added or removed, pages added to a section, a    *)
(* page taken out of all), and each of these keeps it whole for the pages  *)
(* that are there afterwards.  Sound adds what else the setters rely on:   *)
(* lists without repetitions, and a page in use that is visible, so that   *)
(* normalize never has to show a page again.  That is inductive together   *)
(* with the place of every panel (OnPages), and normalize changes nothing  *)
(* about sound preferences but what the limits cut off.                    *)
(*                                                                         *)
(* The copy of another tab is Sound too, but may be an old one.  A         *)
(* document with fields of both is Loose: each field is in order, but the  *)
(* sections may hold pages that are gone, or lack some.  Normalize makes   *)
(* it sound.                                                               *)
(*                                                                         *)
(* What accumulates over a list is a recursive function.  Recursion says   *)
(* that such functions exist, and Induction goes along them: the rule of   *)
(* induction for one set of numbers, from the least number not in it.      *)
(***************************************************************************)
EXTENDS NavigationLayout, SequenceTheorems, FiniteSetTheorems,
        WellFoundedInduction, TLAPS

-----------------------------------------------------------------------------
(* Natural numbers, recursion and lists *)

\* A set of numbers that is not empty has a least element.
LEMMA LeastExists ==
  ASSUME NEW T, T \subseteq Nat, T # {}
  PROVE  \E x \in T : \A y \in T : x <= y
<1> DEFINE R == {ss \in Nat \X Nat : ss[1] < ss[2]}
<1>1. OpToRel(<, Nat) = R
  BY Zenon DEF OpToRel
<1>2. IsWellFoundedOn(OpToRel(<, Nat), Nat)
  BY NatLessThanWellFounded
<1>3. IsWellFoundedOn(R, Nat)
  BY <1>1, <1>2
<1>4. PICK x \in T : \A y \in T : ~ (<<y, x>> \in R)
  BY <1>3, WFMin
<1>5. ASSUME NEW y \in T
      PROVE  x <= y
  <2>1. x \in Nat /\ y \in Nat
    OBVIOUS
  <2>2. <<y, x>> \notin R
    BY <1>4
  <2>3. ~(y < x)
    BY <2>1, <2>2
  <2> QED
    BY <2>1, <2>3
<1> QED
  BY <1>5

\* Induction up to m, for a set of numbers.
LEMMA Induction ==
  ASSUME NEW m \in Nat, NEW T, 0 \in T,
         \A n \in 0 .. m - 1 : n \in T => n + 1 \in T
  PROVE  0 .. m \subseteq T
<1> DEFINE U == (0 .. m) \ T
<1>1. ASSUME U # {}
      PROVE  FALSE
  <2>1. U \subseteq Nat
    OBVIOUS
  <2>2. PICK x \in U : \A y \in U : x <= y
    <3> HIDE DEF U
    <3> QED
      BY <1>1, <2>1, LeastExists
  <2>3. x \in 0 .. m /\ x # 0
    OBVIOUS
  <2>4. x - 1 \in 0 .. m - 1 /\ x - 1 \in 0 .. m /\ ~(x <= x - 1)
    BY <2>3
  <2>5. x - 1 \in T
    BY <2>2, <2>4
  <2>6. (x - 1) + 1 \in T
    BY <2>4, <2>5
  <2>7. (x - 1) + 1 = x
    BY <2>3
  <2> QED
    BY <2>6, <2>7
<1> QED
  BY <1>1

-----------------------------------------------------------------------------
(* Sequences. *)

\* What ToSet says of a sequence.
LEMMA ToSetSeq ==
  ASSUME NEW S, NEW s \in Seq(S)
  PROVE  /\ ToSet(s) \subseteq S
         /\ \A x : x \in ToSet(s) <=> \E i \in 1 .. Len(s) : s[i] = x
         /\ \A i \in 1 .. Len(s) : s[i] \in ToSet(s)
         /\ ToSet(s) = {} <=> s = <<>>
<1>1. Len(s) \in Nat /\ DOMAIN s = 1 .. Len(s)
  BY LenProperties
<1>2. \A x : x \in ToSet(s) <=> \E i \in 1 .. Len(s) : s[i] = x
  BY <1>1 DEF ToSet
<1>3. \A i \in 1 .. Len(s) : s[i] \in S /\ s[i] \in ToSet(s)
  BY <1>2, ElementOfSeq
<1>4. ToSet(s) \subseteq S
  BY <1>2, <1>3
<1>5. CASE s = <<>>
  <2>1. Len(s) = 0
    BY <1>5, EmptySeq
  <2>2. ToSet(s) = {}
    BY <1>2, <2>1
  <2> QED
    BY <1>2, <1>3, <1>4, <1>5, <2>2
<1>6. CASE s # <<>>
  <2>1. Len(s) \in Nat \ {0}
    BY <1>6, EmptySeq
  <2>2. 1 \in 1 .. Len(s)
    BY <2>1
  <2> QED
    BY <1>2, <1>3, <1>4, <1>6, <2>2
<1> QED
  BY <1>5, <1>6

\* An injective sequence in terms of its length.
LEMMA InjectiveSeq ==
  ASSUME NEW S, NEW s \in Seq(S)
  PROVE  IsInjective(s) <=>
           \A i, j \in 1 .. Len(s) : s[i] = s[j] => i = j
  BY LenProperties DEF IsInjective

\* Appending: what is in the result, and when it is injective.
LEMMA AppendSet ==
  ASSUME NEW S, NEW s \in Seq(S), NEW e \in S
  PROVE  /\ Append(s, e) \in Seq(S)
         /\ ToSet(Append(s, e)) = ToSet(s) \cup {e}
         /\ IsInjective(s) /\ e \notin ToSet(s) => IsInjective(Append(s, e))
<1> DEFINE a == Append(s, e)
<1>1. /\ a \in Seq(S) /\ Len(s) \in Nat /\ Len(a) = Len(s) + 1
      /\ \A i \in 1 .. Len(s) : a[i] = s[i]
      /\ a[Len(s) + 1] = e
  BY AppendProperties, LenProperties
<1> HIDE DEF a
<1>2. \A i : i \in 1 .. Len(a) <=> i \in 1 .. Len(s) \/ i = Len(s) + 1
  BY <1>1
<1>3. ToSet(a) = ToSet(s) \cup {e}
  <2>1. ASSUME NEW x
        PROVE  x \in ToSet(a) <=> x \in ToSet(s) \cup {e}
    <3>1. x \in ToSet(a) <=> \E i \in 1 .. Len(a) : a[i] = x
      BY <1>1, ToSetSeq
    <3>2. x \in ToSet(s) <=> \E i \in 1 .. Len(s) : s[i] = x
      BY ToSetSeq
    <3> QED
      BY <1>1, <1>2, <3>1, <3>2
  <2> QED
    BY <2>1
<1>4. ASSUME IsInjective(s), e \notin ToSet(s)
      PROVE  IsInjective(a)
  <2>1. \A i \in 1 .. Len(s) : s[i] # e
    BY <1>4, ToSetSeq
  <2>2. \A i, j \in 1 .. Len(s) : s[i] = s[j] => i = j
    BY <1>4, InjectiveSeq
  <2>3. \A i, j \in 1 .. Len(a) : a[i] = a[j] => i = j
    BY <1>1, <1>2, <2>1, <2>2
  <2> QED
    BY <1>1, <2>3, InjectiveSeq
<1> QED
  BY <1>1, <1>3, <1>4 DEF a

\* Concatenation.
LEMMA ConcatSet ==
  ASSUME NEW S, NEW s \in Seq(S), NEW t \in Seq(S)
  PROVE  /\ s \o t \in Seq(S)
         /\ ToSet(s \o t) = ToSet(s) \cup ToSet(t)
         /\ IsInjective(s) /\ IsInjective(t) /\ ToSet(s) \cap ToSet(t) = {} =>
              IsInjective(s \o t)
<1> DEFINE a == s \o t
<1>1. /\ a \in Seq(S) /\ Len(s) \in Nat /\ Len(t) \in Nat
      /\ Len(a) = Len(s) + Len(t)
      /\ \A i \in 1 .. Len(s) + Len(t) :
           a[i] = IF i <= Len(s) THEN s[i] ELSE t[i - Len(s)]
  BY ConcatProperties, LenProperties
<1> HIDE DEF a
<1>2. /\ \A i \in 1 .. Len(s) : i \in 1 .. Len(a) /\ a[i] = s[i]
      /\ \A i \in 1 .. Len(t) : /\ i + Len(s) \in 1 .. Len(a)
                                /\ a[i + Len(s)] = t[i]
      /\ \A i \in 1 .. Len(a) : \/ i \in 1 .. Len(s)
                                \/ /\ ~(i <= Len(s))
                                   /\ i - Len(s) \in 1 .. Len(t)
  <2>1. \A i \in 1 .. Len(s) : i \in 1 .. Len(a) /\ a[i] = s[i]
    BY <1>1
  <2>2. ASSUME NEW i \in 1 .. Len(t)
        PROVE  /\ i + Len(s) \in 1 .. Len(a)
               /\ a[i + Len(s)] = t[i]
    <3>1. /\ i + Len(s) \in 1 .. Len(a) /\ ~(i + Len(s) <= Len(s))
          /\ (i + Len(s)) - Len(s) = i
      BY <1>1
    <3> QED
      BY <1>1, <3>1
  <2>3. \A i \in 1 .. Len(a) : \/ i \in 1 .. Len(s)
                               \/ /\ ~(i <= Len(s))
                                  /\ i - Len(s) \in 1 .. Len(t)
    BY <1>1
  <2> QED
    BY <2>1, <2>2, <2>3
<1>3. ToSet(a) = ToSet(s) \cup ToSet(t)
  <2>1. ASSUME NEW x
        PROVE  x \in ToSet(a) <=> x \in ToSet(s) \cup ToSet(t)
    <3>1. x \in ToSet(a) <=> \E i \in 1 .. Len(a) : a[i] = x
      BY <1>1, ToSetSeq
    <3>2. x \in ToSet(s) <=> \E i \in 1 .. Len(s) : s[i] = x
      BY ToSetSeq
    <3>3. x \in ToSet(t) <=> \E i \in 1 .. Len(t) : t[i] = x
      BY ToSetSeq
    <3>4. ASSUME NEW i \in 1 .. Len(a), a[i] = x
          PROVE  x \in ToSet(s) \cup ToSet(t)
      <4>1. CASE i \in 1 .. Len(s)
        BY <1>2, <3>2, <3>4, <4>1
      <4>2. CASE ~(i <= Len(s)) /\ i - Len(s) \in 1 .. Len(t)
        <5>1. a[i] = t[i - Len(s)]
          BY <1>1, <4>2
        <5> QED
          BY <3>3, <3>4, <4>2, <5>1
      <4> QED
        BY <1>2, <4>1, <4>2
    <3> QED
      BY <1>2, <3>1, <3>2, <3>3, <3>4
  <2> QED
    BY <2>1
<1>4. ASSUME IsInjective(s), IsInjective(t), ToSet(s) \cap ToSet(t) = {}
      PROVE  IsInjective(a)
  <2>1. ASSUME NEW i \in 1 .. Len(a), NEW j \in 1 .. Len(a), a[i] = a[j]
        PROVE  i = j
    <3>1. /\ \A k, l \in 1 .. Len(s) : s[k] = s[l] => k = l
          /\ \A k, l \in 1 .. Len(t) : t[k] = t[l] => k = l
      BY <1>4, InjectiveSeq
    <3>2. \A k \in 1 .. Len(s), l \in 1 .. Len(t) : s[k] # t[l]
      BY <1>4, ToSetSeq
    <3>3. CASE i <= Len(s) /\ j <= Len(s)
      BY <1>1, <2>1, <3>1, <3>3
    <3>4. CASE ~(i <= Len(s)) /\ ~(j <= Len(s))
      <4>1. i - Len(s) \in 1 .. Len(t) /\ j - Len(s) \in 1 .. Len(t)
        BY <1>1, <3>4
      <4>2. t[i - Len(s)] = t[j - Len(s)]
        BY <1>1, <2>1, <3>4
      <4>3. i - Len(s) = j - Len(s)
        BY <3>1, <4>1, <4>2
      <4> QED
        BY <1>1, <4>3
    <3>5. CASE i <= Len(s) /\ ~(j <= Len(s))
      <4>1. i \in 1 .. Len(s) /\ j - Len(s) \in 1 .. Len(t)
        BY <1>1, <3>5
      <4>2. s[i] = t[j - Len(s)]
        BY <1>1, <2>1, <3>5
      <4> QED
        BY <3>2, <4>1, <4>2
    <3>6. CASE ~(i <= Len(s)) /\ j <= Len(s)
      <4>1. j \in 1 .. Len(s) /\ i - Len(s) \in 1 .. Len(t)
        BY <1>1, <3>6
      <4>2. s[j] = t[i - Len(s)]
        BY <1>1, <2>1, <3>6
      <4> QED
        BY <3>2, <4>1, <4>2
    <3> QED
      BY <3>3, <3>4, <3>5, <3>6
  <2> QED
    BY <1>1, <2>1, InjectiveSeq
<1> QED
  BY <1>1, <1>3, <1>4 DEF a

\* Removing the i-th element.
LEMMA RemoveAtSeq ==
  ASSUME NEW S, NEW s \in Seq(S), NEW i \in 1 .. Len(s)
  PROVE  /\ RemoveAt(s, i) \in Seq(S)
         /\ Len(RemoveAt(s, i)) = Len(s) - 1
         /\ \A k \in 1 .. Len(s) - 1 :
              RemoveAt(s, i)[k] = IF k < i THEN s[k] ELSE s[k + 1]
<1> DEFINE u == SubSeq(s, 1, i - 1)
           v == SubSeq(s, i + 1, Len(s))
<1>1. Len(s) \in Nat /\ i \in Int
  BY LenProperties
<1>2. /\ u \in Seq(S) /\ Len(u) = i - 1
      /\ \A k \in 1 .. i - 1 : u[k] = s[k]
  <2>1. \A k \in 1 .. i - 1 : s[k] \in S
    BY <1>1, ElementOfSeq
  <2>2. /\ u \in Seq(S)
        /\ Len(u) = IF 1 <= i - 1 THEN (i - 1) - 1 + 1 ELSE 0
        /\ \A k \in 1 .. (i - 1) - 1 + 1 : u[k] = s[1 + k - 1]
    <3> HIDE DEF u
    <3>1. 1 \in Int /\ i - 1 \in Int
      BY <1>1
    <3> QED
      BY <2>1, <3>1, SubSeqProperties DEF u
  <2> HIDE DEF u
  <2>3. \A k \in 1 .. i - 1 : 1 + k - 1 = k /\ k \in 1 .. (i - 1) - 1 + 1
    BY <1>1
  <2> QED
    BY <1>1, <2>2, <2>3
<1>3. /\ v \in Seq(S) /\ Len(v) = Len(s) - i
      /\ \A k \in 1 .. Len(s) - i : v[k] = s[i + k]
  <2>1. \A k \in i + 1 .. Len(s) : s[k] \in S
    BY <1>1, ElementOfSeq
  <2>2. /\ v \in Seq(S)
        /\ Len(v) = IF i + 1 <= Len(s) THEN Len(s) - (i + 1) + 1 ELSE 0
        /\ \A k \in 1 .. Len(s) - (i + 1) + 1 : v[k] = s[(i + 1) + k - 1]
    <3> HIDE DEF v
    <3>1. i + 1 \in Int /\ Len(s) \in Int
      BY <1>1
    <3> QED
      BY <2>1, <3>1, SubSeqProperties DEF v
  <2> HIDE DEF v
  <2>3. \A k \in 1 .. Len(s) - i :
          (i + 1) + k - 1 = i + k /\ k \in 1 .. Len(s) - (i + 1) + 1
    BY <1>1
  <2> QED
    BY <1>1, <2>2, <2>3
<1> HIDE DEF u, v
<1>4. RemoveAt(s, i) = u \o v
  BY DEF RemoveAt, u, v
<1>5. /\ u \o v \in Seq(S) /\ Len(u \o v) = (i - 1) + (Len(s) - i)
      /\ \A k \in 1 .. (i - 1) + (Len(s) - i) :
           (u \o v)[k] = IF k <= i - 1 THEN u[k] ELSE v[k - (i - 1)]
  <2>1. /\ u \o v \in Seq(S) /\ Len(u \o v) = Len(u) + Len(v)
        /\ \A k \in 1 .. Len(u) + Len(v) :
             (u \o v)[k] = IF k <= Len(u) THEN u[k] ELSE v[k - Len(u)]
    BY <1>2, <1>3, ConcatProperties
  <2>2. Len(u) = i - 1 /\ Len(v) = Len(s) - i
    BY <1>2, <1>3
  <2> QED
    BY <2>1, <2>2, Zenon
<1>6. (i - 1) + (Len(s) - i) = Len(s) - 1
  BY <1>1
<1>7. ASSUME NEW k \in 1 .. Len(s) - 1
      PROVE  (u \o v)[k] = IF k < i THEN s[k] ELSE s[k + 1]
  <2>1. CASE k < i
    <3>1. k \in 1 .. i - 1 /\ k <= i - 1
      BY <1>1, <2>1
    <3> QED
      BY <1>2, <1>5, <1>6, <2>1, <3>1
  <2>2. CASE ~(k < i)
    <3>1. ~(k <= i - 1) /\ k - (i - 1) \in 1 .. Len(s) - i
          /\ i + (k - (i - 1)) = k + 1
      BY <1>1, <2>2
    <3> QED
      BY <1>3, <1>5, <1>6, <2>2, <3>1
  <2> QED
    BY <2>1, <2>2
<1> QED
  BY <1>4, <1>5, <1>6, <1>7

\* Putting an element at position i.
LEMMA InsertAtSeq ==
  ASSUME NEW S, NEW s \in Seq(S), NEW i \in 1 .. Len(s) + 1, NEW e \in S
  PROVE  /\ InsertAt(s, i, e) \in Seq(S)
         /\ Len(InsertAt(s, i, e)) = Len(s) + 1
         /\ \A k \in 1 .. Len(s) + 1 :
              InsertAt(s, i, e)[k] =
                IF k < i THEN s[k] ELSE IF k = i THEN e ELSE s[k - 1]
<1> DEFINE u == SubSeq(s, 1, i - 1)
           v == SubSeq(s, i, Len(s))
           w == Append(u, e)
<1>1. Len(s) \in Nat /\ i \in Int
  BY LenProperties
<1>2. /\ u \in Seq(S) /\ Len(u) = i - 1
      /\ \A k \in 1 .. i - 1 : u[k] = s[k]
  <2>1. \A k \in 1 .. i - 1 : s[k] \in S
    BY <1>1, ElementOfSeq
  <2>2. /\ u \in Seq(S)
        /\ Len(u) = IF 1 <= i - 1 THEN (i - 1) - 1 + 1 ELSE 0
        /\ \A k \in 1 .. (i - 1) - 1 + 1 : u[k] = s[1 + k - 1]
    <3> HIDE DEF u
    <3>1. 1 \in Int /\ i - 1 \in Int
      BY <1>1
    <3> QED
      BY <2>1, <3>1, SubSeqProperties DEF u
  <2> HIDE DEF u
  <2>3. \A k \in 1 .. i - 1 : 1 + k - 1 = k /\ k \in 1 .. (i - 1) - 1 + 1
    BY <1>1
  <2> QED
    BY <1>1, <2>2, <2>3
<1>3. /\ v \in Seq(S) /\ Len(v) = (Len(s) + 1) - i
      /\ \A k \in 1 .. (Len(s) + 1) - i : v[k] = s[(i + k) - 1]
  <2>1. \A k \in i .. Len(s) : s[k] \in S
    BY <1>1, ElementOfSeq
  <2>2. /\ v \in Seq(S)
        /\ Len(v) = IF i <= Len(s) THEN Len(s) - i + 1 ELSE 0
        /\ \A k \in 1 .. Len(s) - i + 1 : v[k] = s[i + k - 1]
    <3> HIDE DEF v
    <3>1. i \in Int /\ Len(s) \in Int
      BY <1>1
    <3> QED
      BY <2>1, <3>1, SubSeqProperties DEF v
  <2> HIDE DEF v
  <2>3. \A k \in 1 .. (Len(s) + 1) - i :
          i + k - 1 = (i + k) - 1 /\ k \in 1 .. Len(s) - i + 1
    BY <1>1
  <2> QED
    BY <1>1, <2>2, <2>3
<1> HIDE DEF u, v
<1>4. /\ w \in Seq(S) /\ Len(w) = i /\ w[i] = e
      /\ \A k \in 1 .. i - 1 : w[k] = u[k]
  <2>1. (i - 1) + 1 = i
    BY <1>1
  <2> QED
    BY <1>2, <2>1, AppendProperties
<1>5. w = u \o <<e>>
  BY <1>2, AppendIsConcat
<1> HIDE DEF w
<1>6. InsertAt(s, i, e) = w \o v
  BY <1>5 DEF InsertAt, u, v
<1>7. /\ w \o v \in Seq(S) /\ Len(w \o v) = i + ((Len(s) + 1) - i)
      /\ \A k \in 1 .. i + ((Len(s) + 1) - i) :
           (w \o v)[k] = IF k <= i THEN w[k] ELSE v[k - i]
  BY <1>3, <1>4, ConcatProperties
<1>8. i + ((Len(s) + 1) - i) = Len(s) + 1
  BY <1>1
<1>9. ASSUME NEW k \in 1 .. Len(s) + 1
      PROVE  (w \o v)[k] = IF k < i THEN s[k] ELSE IF k = i THEN e ELSE s[k - 1]
  <2>1. CASE k < i
    <3>1. k \in 1 .. i - 1 /\ k <= i
      BY <1>1, <2>1
    <3> QED
      BY <1>2, <1>4, <1>7, <1>8, <2>1, <3>1
  <2>2. CASE k = i
    <3>1. k <= i /\ ~(k < i)
      BY <1>1, <2>2
    <3> QED
      BY <1>4, <1>7, <1>8, <2>2, <3>1
  <2>3. CASE ~(k <= i)
    <3>1. k - i \in 1 .. (Len(s) + 1) - i /\ (i + (k - i)) - 1 = k - 1
          /\ ~(k < i) /\ k # i
      BY <1>1, <2>3
    <3> QED
      BY <1>3, <1>7, <1>8, <2>3, <3>1
  <2>4. k < i \/ k = i \/ ~(k <= i)
    BY <1>1
  <2> QED
    BY <2>1, <2>2, <2>3, <2>4
<1> QED
  BY <1>6, <1>7, <1>8, <1>9

\* What is in a sequence with an element put into it, and when it is injective.
LEMMA InsertAtSet ==
  ASSUME NEW S, NEW s \in Seq(S), NEW i \in 1 .. Len(s) + 1, NEW e \in S
  PROVE  /\ InsertAt(s, i, e) \in Seq(S)
         /\ ToSet(InsertAt(s, i, e)) = ToSet(s) \cup {e}
         /\ IsInjective(s) /\ e \notin ToSet(s) =>
              IsInjective(InsertAt(s, i, e))
<1> DEFINE a == InsertAt(s, i, e)
<1>1. /\ a \in Seq(S) /\ Len(s) \in Nat /\ Len(a) = Len(s) + 1
      /\ \A k \in 1 .. Len(s) + 1 :
           a[k] = IF k < i THEN s[k] ELSE IF k = i THEN e ELSE s[k - 1]
  BY InsertAtSeq, LenProperties
<1> HIDE DEF a
<1>2. \A k \in 1 .. Len(a) :
        \/ k = i /\ a[k] = e
        \/ k < i /\ k \in 1 .. Len(s) /\ a[k] = s[k]
        \/ k > i /\ k - 1 \in 1 .. Len(s) /\ a[k] = s[k - 1]
  <2> TAKE k \in 1 .. Len(a)
  <2>1. k \in 1 .. Len(s) + 1 /\ ~(i < i)
    BY <1>1
  <2>5. a[k] = IF k < i THEN s[k] ELSE IF k = i THEN e ELSE s[k - 1]
    BY <1>1, <2>1
  <2>2. CASE k < i
    <3>1. k \in 1 .. Len(s)
      BY <1>1, <2>2
    <3> QED
      BY <2>5, <2>2, <3>1
  <2>3. CASE k = i
    <3>1. ~(k < i)
      BY <2>1, <2>3
    <3> QED
      BY <2>5, <2>3, <3>1
  <2>4. CASE k > i
    <3>1. k - 1 \in 1 .. Len(s) /\ ~(k < i) /\ k # i
      BY <1>1, <2>4
    <3> QED
      BY <1>1, <2>1, <2>4, <3>1
  <2> QED
    BY <1>1, <2>2, <2>3, <2>4
<1>3. ToSet(a) = ToSet(s) \cup {e}
  <2>1. ASSUME NEW x
        PROVE  x \in ToSet(a) <=> x \in ToSet(s) \cup {e}
    <3>1. x \in ToSet(a) <=> \E k \in 1 .. Len(a) : a[k] = x
      BY <1>1, ToSetSeq
    <3>2. x \in ToSet(s) <=> \E k \in 1 .. Len(s) : s[k] = x
      BY ToSetSeq
    <3>3. x \in ToSet(a) => x \in ToSet(s) \cup {e}
      BY <1>2, <3>1, <3>2
    <3>4. ASSUME NEW k \in 1 .. Len(s), s[k] = x
          PROVE  x \in ToSet(a)
      <4>1. CASE k < i
        BY <1>1, <3>1, <3>4, <4>1
      <4>2. CASE ~(k < i)
        <5>1. /\ k + 1 \in 1 .. Len(a) /\ ~(k + 1 < i) /\ k + 1 # i
              /\ (k + 1) - 1 = k
          BY <1>1, <4>2
        <5>2. a[k + 1] = s[k]
          BY <1>1, <5>1
        <5> QED
          BY <3>1, <3>4, <5>1, <5>2
      <4> QED
        BY <4>1, <4>2
    <3>5. e \in ToSet(a)
      <4>1. i \in 1 .. Len(a) /\ ~(i < i)
        BY <1>1
      <4>2. a[i] = e
        BY <1>1, <4>1
      <4> QED
        BY <1>1, <4>1, <4>2, ToSetSeq
    <3> QED
      BY <3>2, <3>3, <3>4, <3>5
  <2> QED
    BY <2>1
<1>4. ASSUME IsInjective(s), e \notin ToSet(s)
      PROVE  IsInjective(a)
  <2>1. \A k \in 1 .. Len(s) : s[k] # e
    BY <1>4, ToSetSeq
  <2>2. \A k, l \in 1 .. Len(s) : s[k] = s[l] => k = l
    BY <1>4, InjectiveSeq
  <2>3. ASSUME NEW k \in 1 .. Len(a), NEW l \in 1 .. Len(a), a[k] = a[l]
        PROVE  k = l
    <3>1. CASE k = i \/ l = i
      <4>1. a[i] = e
        <5>1. i \in 1 .. Len(s) + 1 /\ ~(i < i)
          BY <1>1
        <5> QED
          BY <1>1, <5>1
      <4>2. \A m \in 1 .. Len(a) : m # i => a[m] # e
        BY <1>2, <2>1
      <4> QED
        BY <2>3, <3>1, <4>1, <4>2
    <3>2. CASE k < i /\ l < i
      BY <1>1, <1>2, <2>2, <2>3, <3>2
    <3>3. CASE k < i /\ l > i
      <4>1. s[k] = s[l - 1] /\ k \in 1 .. Len(s) /\ l - 1 \in 1 .. Len(s)
        BY <1>1, <2>3, <3>3
      <4>2. k = l - 1
        BY <2>2, <4>1
      <4> QED
        BY <3>3, <4>2
    <3>4. CASE k > i /\ l < i
      <4>1. s[k - 1] = s[l] /\ l \in 1 .. Len(s) /\ k - 1 \in 1 .. Len(s)
        BY <1>1, <2>3, <3>4
      <4>2. k - 1 = l
        BY <2>2, <4>1
      <4> QED
        BY <3>4, <4>2
    <3>5. CASE k > i /\ l > i
      <4>1. s[k - 1] = s[l - 1] /\ l - 1 \in 1 .. Len(s) /\ k - 1 \in 1 .. Len(s)
        BY <1>1, <2>3, <3>5
      <4>2. k - 1 = l - 1
        BY <2>2, <4>1
      <4> QED
        BY <4>2
    <3> QED
      BY <3>1, <3>2, <3>3, <3>4, <3>5
  <2> QED
    BY <1>1, <2>3, InjectiveSeq
<1> QED
  BY <1>1, <1>3, <1>4 DEF a

\* The least position in a set of positions, or 0, as SelectInSeq gives it.
LEMMA FirstPosition ==
  ASSUME NEW n \in Nat, NEW I, I \subseteq 1 .. n, NEW i,
         i = IF I # {} THEN Min(I) ELSE 0
  PROVE  /\ i \in 0 .. n
         /\ i = 0 <=> I = {}
         /\ i # 0 => i \in I
<1>1. CASE I = {}
  BY <1>1
<1>2. CASE I # {}
  <2>1. I \subseteq Nat
    OBVIOUS
  <2>2. \E x \in I : \A y \in I : x <= y
    BY <1>2, <2>1, LeastExists
  <2>3. Min(I) \in I
    BY <2>2 DEF Min
  <2>4. i = Min(I)
    BY <1>2
  <2>5. i \in I
    BY <2>3, <2>4
  <2>6. i \in 1 .. n
    BY <2>5
  <2> QED
    BY <1>2, <2>5, <2>6
<1> QED
  BY <1>1, <1>2

\* f is z at 0, and after it st of the value before.
Steps(f, m, z, st) == f[0] = z /\ \A k \in 1 .. m : f[k] = st[<<f[k - 1], k>>]

\* A function on 0 .. m can be defined by recursion: z at 0, and st of its
\* value before at the others.
LEMMA Recursion ==
  ASSUME NEW D, NEW z \in D, NEW m \in Nat, NEW st \in [D \X (1 .. m) -> D]
  PROVE  \E f \in [0 .. m -> D] : Steps(f, m, z, st)
<1> DEFINE F(f, n) == /\ f \in [0 .. n -> D] /\ f[0] = z
                      /\ \A k \in 1 .. n : f[k] = st[<<f[k - 1], k>>]
           Done == {n \in 0 .. m : \E f : F(f, n)}
<1>1. 0 \in Done
  <2> DEFINE g == [k \in 0 .. 0 |-> z]
  <2>1. F(g, 0)
    OBVIOUS
  <2>2. 0 \in 0 .. m
    OBVIOUS
  <2> HIDE DEF F, g
  <2> QED
    BY <2>1, <2>2
<1>2. ASSUME NEW n \in 0 .. m - 1, n \in Done
      PROVE  n + 1 \in Done
  <2>1. PICK g : F(g, n)
    BY <1>2
  <2> DEFINE e == st[<<g[n], n + 1>>]
             h == [k \in 0 .. n + 1 |-> IF k <= n THEN g[k] ELSE e]
  <2>2. g[n] \in D /\ n + 1 \in 1 .. m
    BY <2>1
  <2>3. e \in D
    BY <2>2
  <2>4. \A k \in 0 .. n : h[k] = g[k]
    OBVIOUS
  <2>5. h[n + 1] = e
    OBVIOUS
  <2>6. h \in [0 .. n + 1 -> D]
    <3> HIDE DEF e
    <3> QED
      BY <2>1, <2>3
  <2> HIDE DEF h
  <2>7. h[0] = z
    BY <2>1, <2>4
  <2>8. ASSUME NEW k \in 1 .. n + 1
        PROVE  h[k] = st[<<h[k - 1], k>>]
    <3>1. CASE k \in 1 .. n
      <4>1. k \in 0 .. n /\ k - 1 \in 0 .. n
        BY <3>1
      <4> QED
        BY <2>1, <2>4, <3>1, <4>1
    <3>2. CASE k = n + 1
      <4>1. k - 1 = n /\ n \in 0 .. n
        BY <3>2
      <4> QED
        BY <2>4, <2>5, <3>2, <4>1
    <3> QED
      BY <3>1, <3>2
  <2>9. F(h, n + 1)
    BY <2>6, <2>7, <2>8
  <2>10. n + 1 \in 0 .. m
    OBVIOUS
  <2> HIDE DEF F
  <2> QED
    BY <2>9, <2>10
<1>3. m \in Done
  <2> HIDE DEF Done
  <2>1. 0 .. m \subseteq Done
    BY <1>1, <1>2, Induction
  <2> QED
    BY <2>1
<1> QED
  BY <1>3 DEF Steps

-----------------------------------------------------------------------------
(* Filtering a list *)

\* The function by which Only is defined exists.
LEMMA OnlySteps ==
  ASSUME NEW S, NEW s \in Seq(S), NEW T
  PROVE  \E f : /\ Only(s, T) = f[Len(s)]
                /\ f[0] = <<>>
                /\ \A n \in 1 .. Len(s) :
                     f[n] = IF s[n] \in T THEN Append(f[n - 1], s[n])
                            ELSE f[n - 1]
<1> DEFINE St(v, k) == IF s[k] \in T THEN Append(v, s[k]) ELSE v
           R(f) == [k \in 0 .. Len(s) |-> IF k = 0 THEN <<>> ELSE St(f[k - 1], k)]
           r == CHOOSE f : f = R(f)
           D == Seq(S)
           st == [x \in D \X (1 .. Len(s)) |-> St(x[1], x[2])]
<1>1. Len(s) \in Nat
  BY LenProperties
<1>2. Only(s, T) = r[Len(s)]
  BY Zenon DEF Only
<1>3. \A v \in D, k \in 1 .. Len(s) : St(v, k) \in D
  BY ElementOfSeq, AppendProperties
<1>4. <<>> \in D
  BY EmptySeq
<1> HIDE DEF St, D
<1>5. st \in [D \X (1 .. Len(s)) -> D]
  BY <1>3
<1>6. \A v \in D, k \in 1 .. Len(s) : st[<<v, k>>] = St(v, k)
  OBVIOUS
<1> HIDE DEF st
<1>7. PICK g \in [0 .. Len(s) -> D] : Steps(g, Len(s), <<>>, st)
  BY <1>1, <1>4, <1>5, Recursion, Zenon
<1>8. ASSUME NEW k \in 0 .. Len(s)
      PROVE  g[k] = IF k = 0 THEN <<>> ELSE St(g[k - 1], k)
  <2>1. CASE k \in 1 .. Len(s)
    <3>1. k - 1 \in 0 .. Len(s) /\ k # 0
      BY <1>1, <2>1
    <3>2. g[k - 1] \in D
      BY <1>7, <3>1
    <3> QED
      BY <1>6, <1>7, <2>1, <3>1, <3>2 DEF Steps
  <2> QED
    BY <1>1, <1>7, <2>1 DEF Steps
<1>9. g = R(g)
  BY <1>7, <1>8
<1>10. r = R(r)
  <2>1. \E f : f = R(f)
    BY <1>9, Zenon
  <2> QED
    BY <2>1, Zenon
<1> HIDE DEF r
<1>11. r[0] = <<>>
  <2>1. R(r)[0] = <<>>
    BY <1>1
  <2> QED
    BY <1>10, <2>1, Zenon
<1>12. ASSUME NEW n \in 1 .. Len(s)
       PROVE  r[n] = St(r[n - 1], n)
  <2>1. n \in 0 .. Len(s) /\ n # 0
    BY <1>1
  <2>2. R(r)[n] = St(r[n - 1], n)
    BY <2>1
  <2> QED
    BY <1>10, <2>2, Zenon
<1> QED
  BY <1>2, <1>11, <1>12, Zenon DEF St

\* What the accumulation of Only has kept after n elements.
LEMMA OnlyKeeps ==
  ASSUME NEW S, NEW s \in Seq(S), NEW T, NEW f,
         f[0] = <<>>,
         \A n \in 1 .. Len(s) :
           f[n] = IF s[n] \in T THEN Append(f[n - 1], s[n]) ELSE f[n - 1],
         NEW n \in 0 .. Len(s)
  PROVE  /\ f[n] \in Seq(S)
         /\ \A x : x \in ToSet(f[n]) <=>
                     x \in T /\ \E i \in 1 .. n : s[i] = x
         /\ IsInjective(s) => IsInjective(f[n])
         /\ ToSet(s) \subseteq T => f[n] = SubSeq(s, 1, n)
<1> DEFINE Good(m) ==
             /\ f[m] \in Seq(S)
             /\ \A x : x \in ToSet(f[m]) <=>
                         x \in T /\ \E i \in 1 .. m : s[i] = x
             /\ IsInjective(s) => IsInjective(f[m])
             /\ ToSet(s) \subseteq T => f[m] = SubSeq(s, 1, m)
           Done == {m \in 0 .. Len(s) : Good(m)}
<1>1. Len(s) \in Nat
  BY LenProperties
<1>2. 0 \in Done
  <2>1. <<>> \in Seq(S) /\ ToSet(<<>>) = {}
    BY EmptySeq, ToSetSeq
  <2>2. IsInjective(<<>>)
    BY DEF IsInjective
  <2>3. SubSeq(s, 1, 0) = <<>>
    BY SubSeqEmpty
  <2>4. 1 .. 0 = {}
    OBVIOUS
  <2>5. Good(0)
    BY <2>1, <2>2, <2>3, <2>4
  <2>6. 0 \in 0 .. Len(s)
    BY <1>1
  <2> HIDE DEF Good
  <2> QED
    BY <2>5, <2>6
<1>3. ASSUME NEW m \in 0 .. Len(s) - 1, m \in Done
      PROVE  m + 1 \in Done
  <2>1. Good(m)
    BY <1>3
  <2>2. /\ m + 1 \in 1 .. Len(s) /\ m + 1 \in 0 .. Len(s) /\ (m + 1) - 1 = m
        /\ \A i : i \in 1 .. m + 1 <=> i \in 1 .. m \/ i = m + 1
    BY <1>1
  <2>3. s[m + 1] \in S
    BY <2>2, ElementOfSeq
  <2>4. f[m + 1] = IF s[m + 1] \in T THEN Append(f[m], s[m + 1]) ELSE f[m]
    BY <2>2
  <2>5. CASE s[m + 1] \in T
    <3>1. f[m + 1] = Append(f[m], s[m + 1])
      BY <2>4, <2>5
    <3>2. /\ f[m + 1] \in Seq(S)
          /\ ToSet(f[m + 1]) = ToSet(f[m]) \cup {s[m + 1]}
          /\ IsInjective(f[m]) /\ s[m + 1] \notin ToSet(f[m]) =>
               IsInjective(f[m + 1])
      BY <2>1, <2>3, <3>1, AppendSet
    <3>3. \A x : x \in ToSet(f[m + 1]) <=>
                   x \in T /\ \E i \in 1 .. m + 1 : s[i] = x
      BY <2>1, <2>2, <2>5, <3>2
    <3>4. ASSUME IsInjective(s)
          PROVE  IsInjective(f[m + 1])
      <4>1. \A i \in 1 .. m : s[i] # s[m + 1]
        <5>1. \A i \in 1 .. m : i \in 1 .. Len(s) /\ i # m + 1
          BY <1>1
        <5> QED
          BY <2>2, <3>4, <5>1, InjectiveSeq
      <4>2. s[m + 1] \notin ToSet(f[m])
        BY <2>1, <4>1
      <4> QED
        BY <2>1, <3>2, <3>4, <4>2
    <3>5. ASSUME ToSet(s) \subseteq T
          PROVE  f[m + 1] = SubSeq(s, 1, m + 1)
      <4>1. 1 \in 1 .. Len(s) /\ m + 1 \in 1 .. Len(s)
        BY <1>1, <2>2
      <4>2. SubSeq(s, 1, m + 1) = SubSeq(s, 1, (m + 1) - 1) \o <<s[m + 1]>>
        BY <4>1, SubSeqRecursiveSecond
      <4>3. SubSeq(s, 1, m + 1) = f[m] \o <<s[m + 1]>>
        BY <2>1, <2>2, <3>5, <4>2
      <4> QED
        BY <2>1, <2>3, <3>1, <4>3, AppendIsConcat
    <3>6. Good(m + 1)
      BY <3>2, <3>3, <3>4, <3>5
    <3> QED
      BY <2>2, <3>6
  <2>6. CASE s[m + 1] \notin T
    <3>1. f[m + 1] = f[m]
      BY <2>4, <2>6
    <3>2. \A x : x \in ToSet(f[m + 1]) <=>
                   x \in T /\ \E i \in 1 .. m + 1 : s[i] = x
      BY <2>1, <2>2, <2>6, <3>1
    <3>3. ~(ToSet(s) \subseteq T)
      BY <2>2, <2>6, ToSetSeq
    <3>4. Good(m + 1)
      BY <2>1, <3>1, <3>2, <3>3
    <3> QED
      BY <2>2, <3>4
  <2> QED
    BY <2>5, <2>6
<1>4. n \in Done
  <2> HIDE DEF Done
  <2> QED
    BY <1>1, <1>2, <1>3, Induction
<1> QED
  BY <1>4

\* What Only returns.
LEMMA OnlyResult ==
  ASSUME NEW S, NEW s \in Seq(S), NEW T
  PROVE  /\ Only(s, T) \in Seq(S)
         /\ ToSet(Only(s, T)) = ToSet(s) \cap T
         /\ IsInjective(s) => IsInjective(Only(s, T))
         /\ ToSet(s) \subseteq T => Only(s, T) = s
<1>1. PICK f : /\ Only(s, T) = f[Len(s)]
               /\ f[0] = <<>>
               /\ \A n \in 1 .. Len(s) :
                    f[n] = IF s[n] \in T THEN Append(f[n - 1], s[n])
                           ELSE f[n - 1]
  BY OnlySteps
<1>2. Len(s) \in 0 .. Len(s)
  BY LenProperties
<1>3. /\ Only(s, T) \in Seq(S)
      /\ \A x : x \in ToSet(Only(s, T)) <=>
                  x \in T /\ \E i \in 1 .. Len(s) : s[i] = x
      /\ IsInjective(s) => IsInjective(Only(s, T))
      /\ ToSet(s) \subseteq T => Only(s, T) = SubSeq(s, 1, Len(s))
  <2>1. \A n \in 0 .. Len(s) :
          /\ f[n] \in Seq(S)
          /\ \A x : x \in ToSet(f[n]) <=>
                      x \in T /\ \E i \in 1 .. n : s[i] = x
          /\ IsInjective(s) => IsInjective(f[n])
          /\ ToSet(s) \subseteq T => f[n] = SubSeq(s, 1, n)
    BY <1>1, OnlyKeeps, Zenon
  <2> QED
    BY <1>1, <1>2, <2>1, Zenon
<1>4. ToSet(Only(s, T)) = ToSet(s) \cap T
  BY <1>3, ToSetSeq
<1>5. SubSeq(s, 1, Len(s)) = s
  BY SubSeqFull
<1> QED
  BY <1>3, <1>4, <1>5

\* A list without an element.
LEMMA WithoutResult ==
  ASSUME NEW S, NEW s \in Seq(S), NEW x
  PROVE  /\ Without(s, x) \in Seq(S)
         /\ ToSet(Without(s, x)) = ToSet(s) \ {x}
         /\ IsInjective(s) => IsInjective(Without(s, x))
<1>1. ToSet(s) \cap (ToSet(s) \ {x}) = ToSet(s) \ {x}
  OBVIOUS
<1> QED
  BY <1>1, OnlyResult DEF Without

-----------------------------------------------------------------------------
(* Sections that hold pages: adding and removing a section *)

SectionNames ==
  {Navigation[i].section : i \in DOMAIN Navigation} \cup NewSections

Section == [id : SectionNames, placement : Placements, pages : Seq(Pages)]

\* The sections hold the pages V: each in one section, and once.
Whole(sections, V) ==
  /\ sections \in Seq(Section)
  /\ \A i, j \in 1 .. Len(sections) : sections[i].id = sections[j].id => i = j
  /\ \A i \in 1 .. Len(sections) : IsInjective(sections[i].pages)
  /\ \A i, j \in 1 .. Len(sections) :
       i # j => ToSet(sections[i].pages) \cap ToSet(sections[j].pages) = {}
  /\ \A p : p \in V <=> \E i \in 1 .. Len(sections) : p \in ToSet(sections[i].pages)

\* All positions but one.
Others(n, i) == (1 .. n) \ {i}

\* t has at the positions D what s has at the positions E, in another order.
Renumbered(t, s, D, E) ==
  \E g \in [D -> E] :
    /\ \A k, l \in D : g[k] = g[l] => k = l
    /\ \A m \in E : \E k \in D : g[k] = m
    /\ \A k \in D : t[k] = s[g[k]]

\* What the proofs use of it.
LEMMA RenumberedFacts ==
  ASSUME NEW t, NEW s, NEW D, NEW E, Renumbered(t, s, D, E)
  PROVE  /\ \E g \in [D -> E] :
              /\ \A k \in D : g[k] \in E /\ t[k] = s[g[k]]
              /\ \A k, l \in D : g[k] = g[l] => k = l
         /\ \A k \in D : \E m \in E : t[k] = s[m]
         /\ \A m \in E : \E k \in D : t[k] = s[m]
<1>1. PICK g \in [D -> E] : /\ \A k, l \in D : g[k] = g[l] => k = l
                            /\ \A m \in E : \E k \in D : g[k] = m
                            /\ \A k \in D : t[k] = s[g[k]]
  BY DEF Renumbered
<1>2. \A k \in D : g[k] \in E /\ t[k] = s[g[k]]
  BY <1>1
<1>3. \A m \in E : \E k \in D : t[k] = s[m]
  BY <1>1
<1> QED
  BY <1>1, <1>2, <1>3

\* Removing the i-th element renumbers the others.
LEMMA RemoveAtRenumbers ==
  ASSUME NEW S, NEW s \in Seq(S), NEW i \in 1 .. Len(s)
  PROVE  LET t == RemoveAt(s, i) IN
         /\ t \in Seq(S) /\ Len(t) = Len(s) - 1
         /\ Renumbered(t, s, 1 .. Len(t), Others(Len(s), i))
<1> DEFINE t == RemoveAt(s, i)
           g == [k \in 1 .. Len(t) |-> IF k < i THEN k ELSE k + 1]
<1>1. /\ t \in Seq(S) /\ Len(s) \in Nat /\ Len(t) = Len(s) - 1
      /\ \A k \in 1 .. Len(s) - 1 : t[k] = IF k < i THEN s[k] ELSE s[k + 1]
  BY RemoveAtSeq, LenProperties
<1> HIDE DEF t
<1>2. \A k \in 1 .. Len(t) : /\ k < i => k \in Others(Len(s), i)
                             /\ ~(k < i) => k + 1 \in Others(Len(s), i)
  BY <1>1 DEF Others
<1>3. g \in [1 .. Len(t) -> Others(Len(s), i)]
  BY <1>2
<1>4. \A k \in 1 .. Len(t) : t[k] = s[g[k]]
  BY <1>1
<1>5. \A k, l \in 1 .. Len(t) : g[k] = g[l] => k = l
  BY <1>1
<1>6. ASSUME NEW m \in Others(Len(s), i)
      PROVE  \E k \in 1 .. Len(t) : g[k] = m
  <2>1. CASE m < i
    <3>1. m \in 1 .. Len(t) /\ g[m] = m
      BY <1>1, <2>1 DEF Others
    <3> QED
      BY <3>1
  <2>2. CASE ~(m < i)
    <3>1. m - 1 \in 1 .. Len(t) /\ ~(m - 1 < i) /\ (m - 1) + 1 = m
      BY <1>1, <2>2 DEF Others
    <3>2. g[m - 1] = m
      BY <3>1
    <3> QED
      BY <3>1, <3>2
  <2> QED
    BY <2>1, <2>2
<1> HIDE DEF g
<1>7. Renumbered(t, s, 1 .. Len(t), Others(Len(s), i))
  BY <1>3, <1>4, <1>5, <1>6 DEF Renumbered
<1> QED
  BY <1>1, <1>7 DEF t

\* And so does putting an element at position i.
LEMMA InsertAtRenumbers ==
  ASSUME NEW S, NEW s \in Seq(S), NEW i \in 1 .. Len(s) + 1, NEW e \in S
  PROVE  LET t == InsertAt(s, i, e) IN
         /\ t \in Seq(S) /\ Len(t) = Len(s) + 1 /\ i \in 1 .. Len(t) /\ t[i] = e
         /\ Renumbered(t, s, Others(Len(t), i), 1 .. Len(s))
<1> DEFINE t == InsertAt(s, i, e)
           g == [k \in Others(Len(t), i) |-> IF k < i THEN k ELSE k - 1]
<1>1. /\ t \in Seq(S) /\ Len(s) \in Nat /\ Len(t) = Len(s) + 1
      /\ \A k \in 1 .. Len(s) + 1 :
           t[k] = IF k < i THEN s[k] ELSE IF k = i THEN e ELSE s[k - 1]
  <2>1. Len(s) \in Nat
    BY LenProperties
  <2>2. t \in Seq(S) /\ Len(t) = Len(s) + 1
    BY InsertAtSeq
  <2>3. \A k \in 1 .. Len(s) + 1 :
          t[k] = IF k < i THEN s[k] ELSE IF k = i THEN e ELSE s[k - 1]
    <3>1. LET u == InsertAt(s, i, e) IN
          \A k \in 1 .. Len(s) + 1 :
            u[k] = IF k < i THEN s[k] ELSE IF k = i THEN e ELSE s[k - 1]
      BY ONLY InsertAtSeq, s \in Seq(S), i \in 1 .. Len(s) + 1, e \in S
    <3> QED
      BY <3>1
  <2> QED
    BY <2>1, <2>2, <2>3
<1> HIDE DEF t
<1>2. \A k \in Others(Len(t), i) : /\ k < i => k \in 1 .. Len(s)
                                   /\ ~(k < i) => k - 1 \in 1 .. Len(s)
  BY <1>1 DEF Others
<1>3. g \in [Others(Len(t), i) -> 1 .. Len(s)]
  BY <1>2
<1>4. \A k \in Others(Len(t), i) : t[k] = s[g[k]]
  BY <1>1 DEF Others
<1>5. \A k, l \in Others(Len(t), i) : g[k] = g[l] => k = l
  BY <1>1 DEF Others
<1>6. ASSUME NEW m \in 1 .. Len(s)
      PROVE  \E k \in Others(Len(t), i) : g[k] = m
  <2>1. CASE m < i
    <3>1. m \in Others(Len(t), i) /\ g[m] = m
      BY <1>1, <2>1 DEF Others
    <3> QED
      BY <3>1
  <2>2. CASE ~(m < i)
    <3>1. /\ m + 1 \in Others(Len(t), i) /\ ~(m + 1 < i)
          /\ (m + 1) - 1 = m
      BY <1>1, <2>2 DEF Others
    <3>2. g[m + 1] = m
      BY <3>1
    <3> QED
      BY <3>1, <3>2
  <2> QED
    BY <2>1, <2>2
<1>7. i \in 1 .. Len(t) /\ t[i] = e
  <2>1. i \in 1 .. Len(s) + 1 /\ ~(i < i)
    BY <1>1
  <2> QED
    BY <1>1, <2>1
<1> HIDE DEF g
<1>8. Renumbered(t, s, Others(Len(t), i), 1 .. Len(s))
  BY <1>3, <1>4, <1>5, <1>6 DEF Renumbered
<1> QED
  BY <1>1, <1>7, <1>8 DEF t

\* Appending is putting at the end.
LEMMA AppendIsInsertAt ==
  ASSUME NEW S, NEW s \in Seq(S), NEW e \in S
  PROVE  /\ Len(s) + 1 \in 1 .. Len(s) + 1
         /\ Append(s, e) = InsertAt(s, Len(s) + 1, e)
<1> DEFINE a == Append(s, e)
           b == InsertAt(s, Len(s) + 1, e)
<1>1. Len(s) \in Nat /\ Len(s) + 1 \in 1 .. Len(s) + 1
  BY LenProperties
<1>2. /\ a \in Seq(S) /\ Len(a) = Len(s) + 1
      /\ \A i \in 1 .. Len(s) : a[i] = s[i]
      /\ a[Len(s) + 1] = e
  BY AppendProperties
<1>3. /\ b \in Seq(S) /\ Len(b) = Len(s) + 1
      /\ \A k \in 1 .. Len(s) + 1 :
           b[k] = IF k < Len(s) + 1 THEN s[k]
                  ELSE IF k = Len(s) + 1 THEN e ELSE s[k - 1]
  <2> DEFINE n == Len(s) + 1
  <2>1. n \in 1 .. Len(s) + 1
    BY <1>1
  <2> HIDE DEF n
  <2>2. /\ InsertAt(s, n, e) \in Seq(S)
        /\ Len(InsertAt(s, n, e)) = Len(s) + 1
        /\ \A k \in 1 .. Len(s) + 1 :
             InsertAt(s, n, e)[k] =
               IF k < n THEN s[k] ELSE IF k = n THEN e ELSE s[k - 1]
    BY <2>1, InsertAtSeq
  <2> QED
    BY <2>2 DEF n
<1> HIDE DEF a, b
<1>4. \A k \in 1 .. Len(a) : a[k] = b[k]
  <2> TAKE k \in 1 .. Len(a)
  <2>1. CASE k \in 1 .. Len(s)
    <3>1. k \in 1 .. Len(s) + 1 /\ k < Len(s) + 1
      BY <1>1, <2>1
    <3> QED
      BY <1>2, <1>3, <2>1, <3>1
  <2>2. CASE k = Len(s) + 1
    <3>1. ~(k < Len(s) + 1)
      BY <1>1, <2>2
    <3> QED
      BY <1>1, <1>2, <1>3, <2>2, <3>1
  <2> QED
    BY <1>1, <1>2, <2>1, <2>2
<1>5. a = b
  BY <1>2, <1>3, <1>4, SeqEqual
<1> QED
  BY <1>1, <1>5 DEF a, b

\* A section whose id and pages are not there yet joins the others, anywhere.
LEMMA WholeInsertAt ==
  ASSUME NEW sections, NEW V, Whole(sections, V), NEW i \in 1 .. Len(sections) + 1,
         NEW new \in Section, IsInjective(new.pages),
         ToSet(new.pages) \cap V = {},
         \A k \in 1 .. Len(sections) : sections[k].id # new.id
  PROVE  /\ Whole(InsertAt(sections, i, new), V \cup ToSet(new.pages))
         /\ InsertAt(sections, i, new) # <<>>
<1> DEFINE t == InsertAt(sections, i, new)
           n == Len(sections)
           D == Others(Len(t), i)
           F == 1 .. n
<1>1. sections \in Seq(Section)
  BY DEF Whole
<1>2. /\ t \in Seq(Section) /\ Len(t) = n + 1 /\ i \in 1 .. Len(t) /\ t[i] = new
      /\ Renumbered(t, sections, D, 1 .. n)
  BY <1>1, InsertAtRenumbers
<1>3. \A k : k \in 1 .. Len(t) <=> k = i \/ k \in D
  BY <1>2 DEF Others
<1>r. Renumbered(t, sections, D, F)
  BY <1>2
<1> HIDE DEF t, D, F
<1>s. /\ \E g \in [D -> F] :
            /\ \A k \in D : g[k] \in F /\ t[k] = sections[g[k]]
            /\ \A k, l \in D : g[k] = g[l] => k = l
      /\ \A m \in F : \E k \in D : t[k] = sections[m]
  BY ONLY <1>r, RenumberedFacts
<1>4. PICK g \in [D -> F] :
        /\ \A k \in D : g[k] \in 1 .. n /\ t[k] = sections[g[k]]
        /\ \A k, l \in D : g[k] = g[l] => k = l
  BY <1>s DEF F
<1>5. ASSUME NEW k \in D
      PROVE  /\ t[k].id # new.id
             /\ IsInjective(t[k].pages)
             /\ ToSet(t[k].pages) \subseteq V
  <2>1. g[k] \in 1 .. n /\ t[k] = sections[g[k]]
    BY <1>4
  <2> QED
    BY <2>1 DEF Whole
<1>6. ASSUME NEW k \in D, NEW l \in D
      PROVE  /\ t[k].id = t[l].id => k = l
             /\ k # l => ToSet(t[k].pages) \cap ToSet(t[l].pages) = {}
  <2>1. /\ g[k] \in 1 .. n /\ t[k] = sections[g[k]]
        /\ g[l] \in 1 .. n /\ t[l] = sections[g[l]]
    BY <1>4
  <2>2. t[k].id = t[l].id => g[k] = g[l]
    BY <2>1 DEF Whole
  <2>3. g[k] # g[l] => ToSet(t[k].pages) \cap ToSet(t[l].pages) = {}
    BY <2>1 DEF Whole
  <2> QED
    BY <1>4, <2>2, <2>3
<1>7. \A k, l \in 1 .. Len(t) : t[k].id = t[l].id => k = l
  BY <1>2, <1>3, <1>5, <1>6
<1>8. \A k \in 1 .. Len(t) : IsInjective(t[k].pages)
  BY <1>2, <1>3, <1>5
<1>9. ASSUME NEW k \in 1 .. Len(t), NEW l \in 1 .. Len(t), k # l
      PROVE  ToSet(t[k].pages) \cap ToSet(t[l].pages) = {}
  <2>1. CASE k \in D /\ l \in D
    BY <1>6, <1>9, <2>1
  <2>2. CASE k = i /\ l \in D
    BY <1>2, <1>5, <2>2
  <2>3. CASE k \in D /\ l = i
    BY <1>2, <1>5, <2>3
  <2> QED
    BY <1>3, <1>9, <2>1, <2>2, <2>3
<1>10. ASSUME NEW p
       PROVE  p \in V \cup ToSet(new.pages) <=>
                \E k \in 1 .. Len(t) : p \in ToSet(t[k].pages)
  <2>1. ASSUME p \in V
        PROVE  \E k \in 1 .. Len(t) : p \in ToSet(t[k].pages)
    <3>1. PICK m \in 1 .. n : p \in ToSet(sections[m].pages)
      BY <2>1 DEF Whole
    <3>2. PICK k \in D : t[k] = sections[m]
      BY <1>s DEF F
    <3> QED
      BY <1>3, <3>1, <3>2
  <2>2. ASSUME NEW k \in 1 .. Len(t), p \in ToSet(t[k].pages)
        PROVE  p \in V \cup ToSet(new.pages)
    BY <1>2, <1>3, <1>5, <2>2
  <2> QED
    BY <1>2, <2>1, <2>2
<1>11. t # <<>>
  <2>1. n \in Nat
    BY <1>1, LenProperties
  <2>2. Len(t) # 0
    BY <1>2, <2>1
  <2> QED
    BY <2>2, EmptySeq
<1> QED
  BY <1>2, <1>7, <1>8, <1>9, <1>10, <1>11, Zenon DEF Whole, t

\* Removing a section leaves the pages of the others.
LEMMA WholeRemoveAt ==
  ASSUME NEW sections, NEW V, Whole(sections, V), NEW i \in 1 .. Len(sections)
  PROVE  LET t == RemoveAt(sections, i) IN
         /\ Whole(t, V \ ToSet(sections[i].pages))
         /\ Len(t) = Len(sections) - 1
         /\ \A k \in 1 .. Len(t) : t[k].id # sections[i].id
         /\ \A m \in 1 .. Len(sections) :
              m # i => \E k \in 1 .. Len(t) : t[k] = sections[m]
<1> DEFINE t == RemoveAt(sections, i)
           n == Len(sections)
           D == 1 .. Len(t)
           E == Others(n, i)
<1>1. sections \in Seq(Section)
  BY DEF Whole
<1>2. /\ t \in Seq(Section) /\ Len(t) = n - 1
      /\ Renumbered(t, sections, 1 .. Len(t), E)
  BY <1>1, RemoveAtRenumbers
<1>3. \A m : m \in E <=> m \in 1 .. n /\ m # i
  BY DEF Others
<1>r. Renumbered(t, sections, D, E)
  BY <1>2
<1> HIDE DEF t, D, E
<1>s. /\ \E g \in [D -> E] :
            /\ \A k \in D : g[k] \in E /\ t[k] = sections[g[k]]
            /\ \A k, l \in D : g[k] = g[l] => k = l
      /\ \A m \in E : \E k \in D : t[k] = sections[m]
  BY ONLY <1>r, RenumberedFacts
<1>4. PICK g \in [D -> E] :
        /\ \A k \in 1 .. Len(t) : g[k] \in E /\ t[k] = sections[g[k]]
        /\ \A k, l \in 1 .. Len(t) : g[k] = g[l] => k = l
  BY <1>s DEF D
<1>5. ASSUME NEW k \in 1 .. Len(t)
      PROVE  /\ t[k].id # sections[i].id
             /\ IsInjective(t[k].pages)
             /\ ToSet(t[k].pages) \subseteq V \ ToSet(sections[i].pages)
  <2>1. g[k] \in 1 .. n /\ g[k] # i /\ t[k] = sections[g[k]]
    BY <1>3, <1>4
  <2>2. t[k].id # sections[i].id /\ IsInjective(t[k].pages)
    BY <2>1 DEF Whole
  <2>3. ToSet(t[k].pages) \subseteq V
    BY <2>1 DEF Whole
  <2>4. ToSet(t[k].pages) \cap ToSet(sections[i].pages) = {}
    BY <2>1 DEF Whole
  <2> QED
    BY <2>2, <2>3, <2>4
<1>6. ASSUME NEW k \in 1 .. Len(t), NEW l \in 1 .. Len(t)
      PROVE  /\ t[k].id = t[l].id => k = l
             /\ k # l => ToSet(t[k].pages) \cap ToSet(t[l].pages) = {}
  <2>1. /\ g[k] \in 1 .. n /\ t[k] = sections[g[k]]
        /\ g[l] \in 1 .. n /\ t[l] = sections[g[l]]
    BY <1>3, <1>4
  <2>2. t[k].id = t[l].id => g[k] = g[l]
    BY <2>1 DEF Whole
  <2>3. g[k] # g[l] => ToSet(t[k].pages) \cap ToSet(t[l].pages) = {}
    BY <2>1 DEF Whole
  <2> QED
    BY <1>4, <2>2, <2>3
<1>7. ASSUME NEW m \in 1 .. n, m # i
      PROVE  \E k \in 1 .. Len(t) : t[k] = sections[m]
  BY <1>3, <1>7, <1>s DEF D
<1>8. ASSUME NEW p
      PROVE  p \in V \ ToSet(sections[i].pages) <=>
               \E k \in 1 .. Len(t) : p \in ToSet(t[k].pages)
  <2>1. ASSUME p \in V \ ToSet(sections[i].pages)
        PROVE  \E k \in 1 .. Len(t) : p \in ToSet(t[k].pages)
    <3>1. PICK m \in 1 .. n : p \in ToSet(sections[m].pages)
      BY <2>1 DEF Whole
    <3>2. m # i
      BY <2>1, <3>1
    <3> QED
      BY <1>7, <3>1, <3>2
  <2> QED
    BY <1>5, <2>1
<1>9. Whole(t, V \ ToSet(sections[i].pages))
  BY <1>2, <1>5, <1>6, <1>8, Zenon DEF Whole
<1> QED
  BY <1>2, <1>5, <1>7, <1>9 DEF t

-----------------------------------------------------------------------------
(* Changing a section, and what lookups find *)

\* A section gets pages that were in none, in any order with those it has.
LEMMA WholePut ==
  ASSUME NEW sections, NEW V, Whole(sections, V), NEW i \in 1 .. Len(sections),
         NEW q \in Seq(Pages), IsInjective(q), NEW X, X \cap V = {},
         ToSet(q) = ToSet(sections[i].pages) \cup X
  PROVE  /\ Whole([sections EXCEPT ![i].pages = q], V \cup X)
         /\ [sections EXCEPT ![i].pages = q] # <<>>
         /\ Len([sections EXCEPT ![i].pages = q]) = Len(sections)
<1> DEFINE t == [sections EXCEPT ![i].pages = q]
           n == Len(sections)
<1>1. sections \in Seq(Section) /\ n \in Nat
  BY LenProperties DEF Whole
<1>2. /\ sections[i] \in Section
      /\ [sections[i] EXCEPT !.pages = q] \in Section
      /\ [sections[i] EXCEPT !.pages = q].id = sections[i].id
      /\ [sections[i] EXCEPT !.pages = q].pages = q
  <2>1. sections[i] \in Section
    BY <1>1
  <2> QED
    BY <2>1 DEF Section
<1>3. /\ t \in Seq(Section) /\ Len(t) = n
      /\ t[i] = [sections[i] EXCEPT !.pages = q]
      /\ \A k \in 1 .. n : k # i => t[k] = sections[k]
  BY <1>1, <1>2
<1> HIDE DEF t
<1>4. t[i].id = sections[i].id /\ t[i].pages = q
  BY <1>2, <1>3
<1>5. \A k \in 1 .. n : t[k].id = sections[k].id
  BY <1>3, <1>4
<1>6. \A k, l \in 1 .. n : t[k].id = t[l].id => k = l
  BY <1>5 DEF Whole
<1>7. \A k \in 1 .. n : IsInjective(t[k].pages)
  BY <1>3, <1>4 DEF Whole
<1>8. \A k \in 1 .. n : ToSet(sections[k].pages) \subseteq V
  BY DEF Whole
<1>9. ASSUME NEW k \in 1 .. n, k # i
      PROVE  ToSet(t[k].pages) \cap ToSet(q) = {}
  <2>1. t[k] = sections[k]
    BY <1>3, <1>9
  <2>2. ToSet(sections[k].pages) \cap ToSet(sections[i].pages) = {}
    BY <1>9 DEF Whole
  <2> QED
    BY <1>8, <2>1, <2>2
<1>10. ASSUME NEW k \in 1 .. n, NEW l \in 1 .. n, k # l
       PROVE  ToSet(t[k].pages) \cap ToSet(t[l].pages) = {}
  <2>1. CASE k = i
    BY <1>4, <1>9, <1>10, <2>1
  <2>2. CASE l = i
    BY <1>4, <1>9, <1>10, <2>2
  <2>3. CASE k # i /\ l # i
    BY <1>3, <1>10, <2>3 DEF Whole
  <2> QED
    BY <2>1, <2>2, <2>3
<1>11. ASSUME NEW p
       PROVE  p \in V \cup X <=> \E k \in 1 .. n : p \in ToSet(t[k].pages)
  <2>1. ASSUME p \in V
        PROVE  \E k \in 1 .. n : p \in ToSet(t[k].pages)
    <3>1. PICK m \in 1 .. n : p \in ToSet(sections[m].pages)
      BY <2>1 DEF Whole
    <3>2. p \in ToSet(t[m].pages)
      BY <1>3, <1>4, <3>1
    <3> QED
      BY <3>2
  <2>2. ASSUME p \in X
        PROVE  \E k \in 1 .. n : p \in ToSet(t[k].pages)
    BY <1>4, <2>2
  <2>3. ASSUME NEW k \in 1 .. n, p \in ToSet(t[k].pages)
        PROVE  p \in V \cup X
    BY <1>3, <1>4, <1>8, <2>3
  <2> QED
    BY <2>1, <2>2, <2>3
<1>12. Len(t) # 0
  BY <1>1, <1>3
<1>13. t # <<>>
  BY <1>3, <1>12, EmptySeq
<1> QED
  BY <1>3, <1>6, <1>7, <1>10, <1>11, <1>13, Zenon DEF Whole, t

\* A section of another placement is as good.
LEMMA WholePlace ==
  ASSUME NEW sections, NEW V, Whole(sections, V), NEW i \in 1 .. Len(sections),
         NEW placement \in Placements
  PROVE  /\ Whole([sections EXCEPT ![i].placement = placement], V)
         /\ [sections EXCEPT ![i].placement = placement] # <<>>
<1> DEFINE t == [sections EXCEPT ![i].placement = placement]
           n == Len(sections)
<1>1. sections \in Seq(Section) /\ n \in Nat
  BY LenProperties DEF Whole
<1>2. /\ sections[i] \in Section
      /\ [sections[i] EXCEPT !.placement = placement] \in Section
      /\ [sections[i] EXCEPT !.placement = placement].id = sections[i].id
      /\ [sections[i] EXCEPT !.placement = placement].pages = sections[i].pages
  <2>1. sections[i] \in Section
    BY <1>1
  <2> QED
    BY <2>1 DEF Section
<1>3. /\ t \in Seq(Section) /\ Len(t) = n
      /\ t[i] = [sections[i] EXCEPT !.placement = placement]
      /\ \A k \in 1 .. n : k # i => t[k] = sections[k]
  BY <1>1, <1>2
<1> HIDE DEF t
<1>4. \A k \in 1 .. n : t[k].id = sections[k].id /\ t[k].pages = sections[k].pages
  BY <1>2, <1>3
<1>5. \A k, l \in 1 .. n : t[k].id = t[l].id => k = l
  BY <1>4 DEF Whole
<1>6. \A k \in 1 .. n : IsInjective(t[k].pages)
  BY <1>4 DEF Whole
<1>7. \A k, l \in 1 .. n : k # l => ToSet(t[k].pages) \cap ToSet(t[l].pages) = {}
  BY <1>4 DEF Whole
<1>8. \A p : p \in V <=> \E k \in 1 .. n : p \in ToSet(t[k].pages)
  BY <1>4 DEF Whole
<1>9. Len(t) # 0
  BY <1>1, <1>3
<1>10. t # <<>>
  BY <1>3, <1>9, EmptySeq
<1> QED
  BY <1>3, <1>5, <1>6, <1>7, <1>8, <1>10, Zenon DEF Whole, t

\* Unassign takes one page out.
LEMMA WholeUnassign ==
  ASSUME NEW sections, NEW V, Whole(sections, V), NEW p
  PROVE  /\ Whole(Unassign(sections, p), V \ {p})
         /\ Len(Unassign(sections, p)) = Len(sections)
         /\ sections # <<>> => Unassign(sections, p) # <<>>
         /\ \A i \in 1 .. Len(sections) :
              /\ Unassign(sections, p)[i].id = sections[i].id
              /\ Unassign(sections, p)[i].pages \in Seq(Pages)
              /\ ToSet(Unassign(sections, p)[i].pages) =
                   ToSet(sections[i].pages) \ {p}
<1> DEFINE t == Unassign(sections, p)
           n == Len(sections)
           U(i) == [sections[i] EXCEPT !.pages = Without(@, p)]
<1>1. sections \in Seq(Section) /\ n \in Nat /\ DOMAIN sections = 1 .. n
  BY LenProperties DEF Whole
<1>2. ASSUME NEW i \in 1 .. n
      PROVE  /\ U(i) \in Section
             /\ U(i).id = sections[i].id
             /\ U(i).pages \in Seq(Pages)
             /\ ToSet(U(i).pages) = ToSet(sections[i].pages) \ {p}
             /\ IsInjective(sections[i].pages) => IsInjective(U(i).pages)
  <2>1. sections[i] \in Section
    BY <1>1
  <2>2. sections[i].pages \in Seq(Pages)
    BY <2>1 DEF Section
  <2>3. /\ Without(sections[i].pages, p) \in Seq(Pages)
        /\ ToSet(Without(sections[i].pages, p)) = ToSet(sections[i].pages) \ {p}
        /\ IsInjective(sections[i].pages) =>
             IsInjective(Without(sections[i].pages, p))
    BY <2>2, WithoutResult
  <2>4. /\ U(i) \in Section
        /\ U(i).id = sections[i].id
        /\ U(i).pages = Without(sections[i].pages, p)
    BY <2>1, <2>3 DEF Section
  <2> QED
    BY <2>3, <2>4
<1>3. t = [i \in 1 .. n |-> U(i)]
  BY <1>1 DEF Unassign
<1> HIDE DEF U
<1>4. t \in Seq(Section) /\ Len(t) = n /\ \A i \in 1 .. n : t[i] = U(i)
  BY <1>1, <1>2, <1>3
<1> HIDE DEF t
<1>5. ASSUME NEW i \in 1 .. n
      PROVE  /\ t[i].id = sections[i].id
             /\ t[i].pages \in Seq(Pages)
             /\ ToSet(t[i].pages) = ToSet(sections[i].pages) \ {p}
             /\ IsInjective(t[i].pages)
  BY <1>2, <1>4 DEF Whole
<1>6. \A k, l \in 1 .. n : t[k].id = t[l].id => k = l
  BY <1>5 DEF Whole
<1>7. ASSUME NEW k \in 1 .. n, NEW l \in 1 .. n, k # l
      PROVE  ToSet(t[k].pages) \cap ToSet(t[l].pages) = {}
  <2>1. ToSet(sections[k].pages) \cap ToSet(sections[l].pages) = {}
    BY <1>7 DEF Whole
  <2> QED
    BY <1>5, <2>1
<1>8. ASSUME NEW x
      PROVE  x \in V \ {p} <=> \E k \in 1 .. n : x \in ToSet(t[k].pages)
  <2>1. x \in V <=> \E k \in 1 .. n : x \in ToSet(sections[k].pages)
    BY DEF Whole
  <2> QED
    BY <1>5, <2>1
<1>9. Whole(t, V \ {p})
  BY <1>4, <1>5, <1>6, <1>7, <1>8, Zenon DEF Whole
<1>10. sections # <<>> => t # <<>>
  <2>1. sections # <<>> => n # 0
    BY <1>1, EmptySeq
  <2>2. t # <<>> <=> Len(t) # 0
    BY <1>4, EmptySeq
  <2> QED
    BY <1>4, <2>1, <2>2
<1> QED
  BY <1>4, <1>5, <1>9, <1>10 DEF t

\* Whether pages are in a section, and what their list is.
LEMMA WholeSection ==
  ASSUME NEW sections, NEW V, Whole(sections, V), NEW i \in 1 .. Len(sections)
  PROVE  /\ sections \in Seq(Section) /\ sections[i] \in Section
         /\ sections[i].pages \in Seq(Pages) /\ sections[i].placement \in Placements
         /\ sections[i].id \in SectionNames
         /\ IsInjective(sections[i].pages)
         /\ ToSet(sections[i].pages) \subseteq V
<1>1. sections \in Seq(Section) /\ sections[i] \in Section
  BY DEF Whole
<1>2. IsInjective(sections[i].pages) /\ ToSet(sections[i].pages) \subseteq V
  BY DEF Whole
<1> QED
  BY <1>1, <1>2 DEF Section

\* The positions that are looked up: 0, and then there is none, or one that
\* has what is looked for.
LEMMA SectionAtFinds ==
  ASSUME NEW sections \in Seq(Section), NEW id
  PROVE  LET i == SectionAt(sections, id) IN
         /\ i \in 0 .. Len(sections)
         /\ i # 0 => i \in 1 .. Len(sections) /\ sections[i].id = id
         /\ i = 0 <=> \A k \in 1 .. Len(sections) : sections[k].id # id
<1> DEFINE i == SectionAt(sections, id)
           n == Len(sections)
           I == {k \in 1 .. n : sections[k].id = id}
<1>1. n \in Nat
  BY LenProperties
<1>2. i = IF I # {} THEN Min(I) ELSE 0
  BY DEF SectionAt, SelectInSeq
<1>3. i \in 0 .. n /\ (i = 0 <=> I = {}) /\ (i # 0 => i \in I)
  <2> HIDE DEF i, I
  <2>1. I \subseteq 1 .. n
    BY DEF I
  <2> QED
    BY <1>1, <1>2, <2>1, FirstPosition
<1> QED
  BY <1>3

\* The first section with a placement, if there is one.
LEMMA PlacedAtFinds ==
  ASSUME NEW sections \in Seq(Section), NEW placement
  PROVE  PlacedAt(sections, placement) \in 0 .. Len(sections)
<1> DEFINE i == PlacedAt(sections, placement)
           n == Len(sections)
           I == {k \in 1 .. n : sections[k].placement = placement}
<1>1. n \in Nat
  BY LenProperties
<1>2. i = IF I # {} THEN Min(I) ELSE 0
  BY DEF PlacedAt, SelectInSeq
<1> HIDE DEF i, I
<1>3. I \subseteq 1 .. n
  BY DEF I
<1>4. i \in 0 .. n
  BY <1>1, <1>2, <1>3, FirstPosition
<1> QED
  BY <1>4 DEF i

\* The section that has a page, if there is one.
LEMMA SectionOfFinds ==
  ASSUME NEW sections \in Seq(Section), NEW p
  PROVE  LET i == SectionOf(sections, p) IN
         /\ i \in 0 .. Len(sections)
         /\ i # 0 => i \in 1 .. Len(sections) /\ p \in ToSet(sections[i].pages)
         /\ i = 0 <=> \A k \in 1 .. Len(sections) : p \notin ToSet(sections[k].pages)
<1> DEFINE i == SectionOf(sections, p)
           n == Len(sections)
           I == {k \in 1 .. n : p \in ToSet(sections[k].pages)}
<1>1. n \in Nat
  BY LenProperties
<1>2. i = IF I # {} THEN Min(I) ELSE 0
  BY DEF SectionOf, SelectInSeq
<1>3. i \in 0 .. n /\ (i = 0 <=> I = {}) /\ (i # 0 => i \in I)
  <2> HIDE DEF i, I
  <2>1. I \subseteq 1 .. n
    BY DEF I
  <2> QED
    BY <1>1, <1>2, <2>1, FirstPosition
<1> QED
  BY <1>3

\* A page is in a section when it is one of V.
LEMMA SectionOfWhole ==
  ASSUME NEW sections, NEW V, Whole(sections, V), NEW p
  PROVE  /\ SectionOf(sections, p) \in 0 .. Len(sections)
         /\ SectionOf(sections, p) = 0 <=> p \notin V
         /\ p \in V => SectionOf(sections, p) \in 1 .. Len(sections)
<1>1. sections \in Seq(Section)
  BY DEF Whole
<1>2. p \in V <=> \E k \in 1 .. Len(sections) : p \in ToSet(sections[k].pages)
  BY DEF Whole
<1> QED
  BY <1>1, <1>2, SectionOfFinds

\* The position of x in a list.
Position(s, x) == SelectInSeq(s, LAMBDA y : y = x)

\* It is 0 when the list does not have x.
LEMMA PositionFinds ==
  ASSUME NEW S, NEW s \in Seq(S), NEW x
  PROVE  LET i == Position(s, x) IN
         /\ i \in 0 .. Len(s)
         /\ i # 0 => i \in 1 .. Len(s) /\ s[i] = x
         /\ i = 0 <=> x \notin ToSet(s)
<1> DEFINE i == Position(s, x)
           n == Len(s)
           I == {k \in 1 .. n : s[k] = x}
<1>1. n \in Nat
  BY LenProperties
<1>2. i = IF I # {} THEN Min(I) ELSE 0
  BY DEF Position, SelectInSeq
<1>3. i \in 0 .. n /\ (i = 0 <=> I = {}) /\ (i # 0 => i \in I)
  <2> HIDE DEF i, I
  <2>1. I \subseteq 1 .. n
    BY DEF I
  <2> QED
    BY <1>1, <1>2, <2>1, FirstPosition
<1>4. x \in ToSet(s) <=> \E k \in 1 .. n : s[k] = x
  BY ToSetSeq
<1> QED
  BY <1>3, <1>4

-----------------------------------------------------------------------------
(* The pages there are *)

\* The pages of the definition.
LEMMA DefaultFacts ==
  /\ DefaultPages \in Seq(Pages) /\ DefaultPages \in Seq(ToSet(DefaultPages))
  /\ Len(DefaultPages) = Len(Navigation) /\ Len(Navigation) \in Nat \ {0}
  /\ IsInjective(DefaultPages)
  /\ \A i \in 1 .. Len(Navigation) :
       /\ Navigation[i] \in NavigationItem
       /\ DefaultPages[i] = Navigation[i].id
       /\ Navigation[i].section \in SectionNames
       /\ Navigation[i].placement \in Placements
  /\ ToSet(DefaultPages) \subseteq Pages /\ NewPages \subseteq Pages
  /\ NewPages \cap ToSet(DefaultPages) = {}
  /\ Overview \in ToSet(DefaultPages)
  /\ Protected \subseteq ToSet(DefaultPages)
<1>1. /\ Navigation \in Seq(NavigationItem)
      /\ Overview \in ToSet(DefaultPages)
      /\ IsInjective(DefaultPages)
      /\ BuiltIn \in Seq(PanelDefinition)
      /\ NewPages \cap ToSet(DefaultPages) = {}
  BY LayoutAssumption
<1>2. Len(Navigation) \in Nat \ {0} /\ DOMAIN Navigation = 1 .. Len(Navigation)
  <2>1. Len(Navigation) \in Nat /\ DOMAIN Navigation = 1 .. Len(Navigation)
    BY <1>1, LenProperties
  <2>2. Len(Navigation) # 0
    BY <1>1, <2>1 DEF ToSet, DefaultPages
  <2> QED
    BY <2>1, <2>2
<1>3. DefaultPages = [i \in 1 .. Len(Navigation) |-> Navigation[i].id]
  BY <1>2 DEF DefaultPages
<1>4. \A i \in 1 .. Len(Navigation) :
        DefaultPages[i] = Navigation[i].id /\ Navigation[i] \in NavigationItem
  BY <1>1, <1>3
<1>5. \A i \in 1 .. Len(Navigation) : Navigation[i].id \in ToSet(DefaultPages)
  BY <1>4 DEF NavigationItem
<1> DEFINE T == ToSet(DefaultPages)
<1> HIDE DEF T
<1>6. /\ DefaultPages \in Seq(T) /\ Len(DefaultPages) = Len(Navigation)
  <2>1. \A i \in 1 .. Len(Navigation) : Navigation[i].id \in T
    BY <1>5 DEF T
  <2> QED
    BY <1>2, <1>3, <2>1
<1>7. ToSet(DefaultPages) \subseteq Pages /\ NewPages \subseteq Pages
  BY DEF Pages
<1>8. DefaultPages \in Seq(Pages)
  <2>1. \A i \in 1 .. Len(Navigation) : Navigation[i].id \in Pages
    BY <1>5, <1>7
  <2> QED
    BY <1>2, <1>3, <2>1
<1>9. \A i \in 1 .. Len(Navigation) :
        /\ Navigation[i].section \in SectionNames
        /\ Navigation[i].placement \in Placements
  BY <1>2, <1>4 DEF NavigationItem, SectionNames
<1>10. Protected \subseteq ToSet(DefaultPages)
  <2>1. \A i \in DOMAIN BuiltIn : BuiltIn[i] \in PanelDefinition
    BY <1>1
  <2> QED
    BY <2>1 DEF Protected, PanelDefinition
<1> QED
  BY <1>1, <1>2, <1>4, <1>6, <1>7, <1>8, <1>9, <1>10 DEF T

\* The pages there are: those of the definition that are not hidden, and the
\* user's.
LEMMA ItemsFacts ==
  ASSUME NEW L, L.hiddenPages \in Seq(ToSet(DefaultPages)),
         L.customPages \in Seq(NewPages)
  PROVE  /\ Items(L) \in Seq(Pages)
         /\ Visible(L) = (ToSet(DefaultPages) \ ToSet(L.hiddenPages))
                           \cup ToSet(L.customPages)
         /\ IsInjective(L.customPages) => IsInjective(Items(L))
         /\ Visible(L) \subseteq Pages
         /\ Visible(L) # {} => /\ Items(L) # <<>> /\ Len(Items(L)) \in Nat \ {0}
                               /\ Items(L)[1] \in Visible(L)
<1> DEFINE T == Pages \ ToSet(L.hiddenPages)
           o == Only(DefaultPages, T)
           c == L.customPages
<1>1. /\ o \in Seq(Pages) /\ ToSet(o) = ToSet(DefaultPages) \cap T
      /\ IsInjective(o)
  BY DefaultFacts, OnlyResult
<1>2. c \in Seq(Pages)
  BY DefaultFacts, SeqMonotonic
<1>3. ToSet(c) \subseteq NewPages
  BY ToSetSeq
<1>4. ToSet(o) = ToSet(DefaultPages) \ ToSet(L.hiddenPages)
  BY <1>1, DefaultFacts
<1>5. ToSet(o) \cap ToSet(c) = {}
  BY <1>3, <1>4, DefaultFacts
<1>6. Items(L) = o \o c
  BY DEF Items
<1> HIDE DEF o, c
<1>7. /\ o \o c \in Seq(Pages)
      /\ ToSet(o \o c) = ToSet(o) \cup ToSet(c)
      /\ IsInjective(c) => IsInjective(o \o c)
  BY <1>1, <1>2, <1>5, ConcatSet
<1>8. Visible(L) = ToSet(o) \cup ToSet(c)
  BY <1>6, <1>7 DEF Visible
<1>9. Visible(L) \subseteq Pages
  BY <1>3, <1>4, <1>8, DefaultFacts
<1>10. ASSUME Visible(L) # {}
       PROVE  /\ Items(L) # <<>> /\ Len(Items(L)) \in Nat \ {0}
              /\ Items(L)[1] \in Visible(L)
  <2> DEFINE s == Items(L)
  <2>1. s \in Seq(Pages)
    BY <1>6, <1>7
  <2>2. ToSet(s) # {}
    BY <1>10 DEF Visible
  <2> HIDE DEF s
  <2>3. s # <<>> /\ Len(s) \in Nat
    BY <2>1, <2>2, ToSetSeq, LenProperties
  <2>4. Len(s) # 0
    BY <2>1, <2>3, EmptySeq
  <2>5. 1 \in 1 .. Len(s)
    BY <2>3, <2>4
  <2>6. s[1] \in ToSet(s)
    BY <2>1, <2>5, ToSetSeq
  <2> QED
    BY <2>3, <2>4, <2>6 DEF s, Visible
<1> QED
  BY <1>4, <1>6, <1>7, <1>8, <1>9, <1>10 DEF c

\* They depend on two fields only.
LEMMA ItemsSame ==
  ASSUME NEW L, NEW K, K.hiddenPages = L.hiddenPages, K.customPages = L.customPages
  PROVE  Items(K) = Items(L) /\ Visible(K) = Visible(L)
BY DEF Items, Visible

\* A list without repetitions of as many pages as the definition has hides
\* every page.
LEMMA HidesAll ==
  ASSUME NEW h \in Seq(ToSet(DefaultPages)), IsInjective(h),
         Len(h) >= Len(Navigation)
  PROVE  ToSet(DefaultPages) \subseteq ToSet(h)
<1> DEFINE T == ToSet(DefaultPages)
           n == Len(Navigation)
           m == Len(h)
<1>1. n \in Nat /\ m \in Nat /\ m >= n
  BY DefaultFacts, LenProperties
<1>2. DefaultPages \in [1 .. n -> T] /\ IsInjective(DefaultPages)
  BY DefaultFacts, LenProperties
<1>3. DefaultPages \in Surjection(1 .. n, T)
  <2>1. \A x \in T : \E i \in 1 .. n : DefaultPages[i] = x
    BY DefaultFacts, ToSetSeq
  <2> QED
    BY <1>2, <2>1 DEF Surjection
<1>4. h \in [1 .. m -> T] /\ h \in Injection(1 .. m, T)
  <2>1. h \in [1 .. m -> T]
    BY LenProperties
  <2> QED
    BY <2>1 DEF Injection
<1>i. \A k \in Nat : IsFiniteSet(1 .. k) /\ Cardinality(1 .. k) = k
  <2> TAKE k \in Nat
  <2>1. 1 \in Int /\ k \in Int
    OBVIOUS
  <2>2. /\ IsFiniteSet(1 .. k)
        /\ Cardinality(1 .. k) = IF 1 > k THEN 0 ELSE k - 1 + 1
    BY ONLY <2>1, FS_Interval
  <2>3. (IF 1 > k THEN 0 ELSE k - 1 + 1) = k
    OBVIOUS
  <2> QED
    BY <2>2, <2>3
<1>5. IsFiniteSet(1 .. n) /\ Cardinality(1 .. n) = n
  BY <1>1, <1>i
<1>6. IsFiniteSet(1 .. m) /\ Cardinality(1 .. m) = m
  BY <1>1, <1>i
<1>7. IsFiniteSet(T) /\ Cardinality(T) <= n
  BY <1>3, <1>5, FS_Surjection
<1>8. Cardinality(1 .. m) <= Cardinality(T)
      /\ (Cardinality(1 .. m) = Cardinality(T) <=> h \in Surjection(1 .. m, T))
  BY <1>4, <1>7, FS_Injection
<1>9. Cardinality(T) \in Nat
  BY <1>7, FS_CardinalityType
<1>10. h \in Surjection(1 .. m, T)
  BY <1>1, <1>6, <1>7, <1>8, <1>9
<1>11. \A x \in T : \E i \in 1 .. m : h[i] = x
  BY <1>10 DEF Surjection
<1>12. \A x \in T : x \in ToSet(h)
  BY <1>11, ToSetSeq
<1> QED
  BY <1>12

-----------------------------------------------------------------------------
(* The order of the navigation *)

\* The function by which FlattenSeq is defined exists.
LEMMA FlattenSteps ==
  ASSUME NEW S, NEW q \in Seq(Seq(S)), Len(q) # 0
  PROVE  \E f : /\ FlattenSeq(q) = f[Len(q)]
                /\ f[1] = q[1]
                /\ \A k \in 2 .. Len(q) : f[k] = f[k - 1] \o q[k]
<1> DEFINE n == Len(q)
           R(f) == [k \in 1 .. n |-> IF k = 1 THEN q[k] ELSE f[k - 1] \o q[k]]
           r == CHOOSE f : f = R(f)
           D == Seq(S)
           st == [x \in D \X (1 .. n) |-> x[1] \o q[x[2]]]
<1>1. n \in Nat /\ n # 0 /\ 1 \in 1 .. n
  BY LenProperties
<1>2. FlattenSeq(q) = r[n]
  BY Zenon DEF FlattenSeq
<1>3. \A v \in D, k \in 1 .. n : v \o q[k] \in D
  <2> TAKE v \in D, k \in 1 .. n
  <2>1. q[k] \in Seq(S)
    BY ElementOfSeq
  <2> QED
    BY <2>1, ConcatProperties
<1>4. <<>> \in D
  BY EmptySeq
<1>5. q[1] \in D
  BY <1>1, ElementOfSeq
<1>6. <<>> \o q[1] = q[1]
  BY <1>5, ConcatEmptySeq
<1> HIDE DEF D
<1>7. st \in [D \X (1 .. n) -> D]
  BY <1>3
<1>8. \A v \in D, k \in 1 .. n : st[<<v, k>>] = v \o q[k]
  OBVIOUS
<1> HIDE DEF st
<1>9. PICK g \in [0 .. n -> D] : Steps(g, n, <<>>, st)
  BY <1>1, <1>4, <1>7, Recursion, Zenon
<1> DEFINE F == [k \in 1 .. n |-> g[k]]
<1>10. ASSUME NEW k \in 1 .. n
       PROVE  g[k] = IF k = 1 THEN q[k] ELSE g[k - 1] \o q[k]
  <2>1. k - 1 \in 0 .. n
    BY <1>1
  <2>2. g[k - 1] \in D
    BY <1>9, <2>1
  <2>3. g[k] = g[k - 1] \o q[k]
    BY <1>8, <1>9, <2>2 DEF Steps
  <2>4. CASE k = 1
    <3>1. g[k - 1] = <<>>
      BY <1>9, <2>4 DEF Steps
    <3> QED
      BY <1>6, <2>3, <2>4, <3>1
  <2> QED
    BY <2>3, <2>4
<1>11. F = R(F)
  <2>1. \A k \in 1 .. n : F[k] = g[k]
    OBVIOUS
  <2>2. F = [k \in 1 .. n |-> F[k]]
    OBVIOUS
  <2> HIDE DEF F
  <2>3. \A k \in 1 .. n : F[k] = IF k = 1 THEN q[k] ELSE F[k - 1] \o q[k]
    <3> TAKE k \in 1 .. n
    <3>1. k # 1 => k - 1 \in 1 .. n
      BY <1>1
    <3> QED
      BY <1>10, <2>1, <3>1
  <2> QED
    BY <2>2, <2>3
<1>12. r = R(r)
  <2> HIDE DEF F
  <2>1. \E f : f = R(f)
    BY <1>11, Zenon
  <2> QED
    BY <2>1, Zenon
<1> HIDE DEF r
<1>13. r[1] = q[1]
  <2>1. R(r)[1] = q[1]
    BY <1>1
  <2> QED
    BY <1>12, <2>1, Zenon
<1>14. ASSUME NEW k \in 2 .. n
       PROVE  r[k] = r[k - 1] \o q[k]
  <2>1. k \in 1 .. n /\ k # 1
    BY <1>1
  <2>2. R(r)[k] = r[k - 1] \o q[k]
    BY <2>1
  <2> QED
    BY <1>12, <2>2, Zenon
<1> QED
  BY <1>2, <1>13, <1>14, Zenon

\* Every page is once in the order of the navigation.
LEMMA PagesInOrderFacts ==
  ASSUME NEW L, NEW V, Whole(L.sections, V), L.sections # <<>>
  PROVE  /\ PagesInOrder(L) \in Seq(Pages)
         /\ ToSet(PagesInOrder(L)) = V
         /\ IsInjective(PagesInOrder(L))
<1> DEFINE s == L.sections
           n == Len(s)
           q == [i \in DOMAIN s |-> s[i].pages]
           o == PagesInOrder(L)
<1>1. s \in Seq(Section) /\ n \in Nat /\ n # 0 /\ DOMAIN s = 1 .. n
  BY LenProperties, EmptySeq DEF Whole
<1>2. ASSUME NEW i \in 1 .. n
      PROVE  q[i] = s[i].pages /\ q[i] \in Seq(Pages) /\ IsInjective(q[i])
  BY <1>1, WholeSection
<1>3. q \in Seq(Seq(Pages)) /\ Len(q) = n
  <2>1. q = [i \in 1 .. n |-> q[i]]
    BY <1>1
  <2> HIDE DEF q
  <2> QED
    BY <1>1, <1>2, <2>1
<1>4. o = FlattenSeq(q)
  BY DEF PagesInOrder
<1> HIDE DEF o, q
<1>5. PICK f : /\ FlattenSeq(q) = f[Len(q)]
               /\ f[1] = q[1]
               /\ \A k \in 2 .. Len(q) : f[k] = f[k - 1] \o q[k]
  BY <1>1, <1>3, FlattenSteps
<1>6. \A i, j \in 1 .. n : i # j => ToSet(q[i]) \cap ToSet(q[j]) = {}
  BY <1>2 DEF Whole
<1> DEFINE Good(m) == /\ f[m] \in Seq(Pages)
                      /\ \A p : p \in ToSet(f[m]) <=>
                                  \E i \in 1 .. m : p \in ToSet(q[i])
                      /\ IsInjective(f[m])
           Done == {m \in 0 .. n - 1 : Good(m + 1)}
<1>7. 0 \in Done
  <2>1. 1 \in 1 .. n /\ 0 \in 0 .. n - 1 /\ 0 + 1 = 1
    BY <1>1
  <2>2. \A i : i \in 1 .. 1 <=> i = 1
    OBVIOUS
  <2>3. f[1] \in Seq(Pages) /\ IsInjective(f[1])
    BY <1>2, <1>5, <2>1
  <2>4. \A p : p \in ToSet(f[1]) <=> \E i \in 1 .. 1 : p \in ToSet(q[i])
    BY <1>5, <2>2
  <2>5. Good(1)
    BY <2>3, <2>4
  <2> HIDE DEF Good
  <2> QED
    BY <2>1, <2>5
<1>8. ASSUME NEW m \in 0 .. (n - 1) - 1, m \in Done
      PROVE  m + 1 \in Done
  <2> DEFINE k == m + 1
  <2>1. Good(k)
    BY <1>8
  <2>2. /\ k \in Nat /\ k + 1 \in 2 .. n /\ k + 1 \in 1 .. n /\ (k + 1) - 1 = k
        /\ k \in 0 .. n - 1
        /\ \A i : i \in 1 .. k + 1 <=> i \in 1 .. k \/ i = k + 1
        /\ \A i \in 1 .. k : i \in 1 .. n /\ i # k + 1
    BY <1>1
  <2> HIDE DEF k
  <2>3. f[k + 1] = f[k] \o q[k + 1]
    BY <1>3, <1>5, <2>2
  <2>4. q[k + 1] \in Seq(Pages) /\ IsInjective(q[k + 1])
    BY <1>2, <2>2
  <2>5. ToSet(f[k]) \cap ToSet(q[k + 1]) = {}
    BY <1>6, <2>1, <2>2
  <2>6. /\ f[k + 1] \in Seq(Pages)
        /\ ToSet(f[k + 1]) = ToSet(f[k]) \cup ToSet(q[k + 1])
        /\ IsInjective(f[k + 1])
    BY <2>1, <2>3, <2>4, <2>5, ConcatSet
  <2>7. \A p : p \in ToSet(f[k + 1]) <=> \E i \in 1 .. k + 1 : p \in ToSet(q[i])
    BY <2>1, <2>2, <2>6
  <2>8. Good(k + 1)
    BY <2>6, <2>7
  <2> HIDE DEF Good
  <2> QED
    BY <2>2, <2>8 DEF k
<1>9. n - 1 \in Done
  <2> HIDE DEF Done
  <2>1. n - 1 \in Nat /\ n - 1 \in 0 .. n - 1
    BY <1>1
  <2>2. 0 .. n - 1 \subseteq Done
    BY <1>7, <1>8, <2>1, Induction
  <2> QED
    BY <2>1, <2>2
<1>10. Good(n)
  <2>1. (n - 1) + 1 = n
    BY <1>1
  <2>2. Good((n - 1) + 1)
    BY <1>9
  <2> HIDE DEF Good
  <2> QED
    BY <2>1, <2>2
<1>11. o = f[n]
  BY <1>3, <1>4, <1>5
<1>12. \A p : p \in V <=> \E i \in 1 .. n : p \in ToSet(q[i])
  <2>1. \A p : p \in V <=> \E i \in 1 .. n : p \in ToSet(s[i].pages)
    BY DEF Whole
  <2>2. \A i \in 1 .. n : q[i] = s[i].pages
    BY <1>2
  <2> QED
    BY <2>1, <2>2
<1>13. ToSet(f[n]) = V
  BY <1>10, <1>12
<1> QED
  BY <1>10, <1>11, <1>13 DEF o

-----------------------------------------------------------------------------
(* The default sections *)

\* What a slice of a list keeps.
LEMMA FirstOfFacts ==
  ASSUME NEW S, NEW s \in Seq(S), NEW limit \in Nat \ {0}
  PROVE  /\ FirstOf(s, limit) \in Seq(S)
         /\ Len(FirstOf(s, limit)) \in 0 .. Len(s)
         /\ s # <<>> => FirstOf(s, limit) # <<>>
         /\ Len(s) <= limit => FirstOf(s, limit) = s
         /\ \A i \in 1 .. Len(FirstOf(s, limit)) : FirstOf(s, limit)[i] = s[i]
         /\ ToSet(FirstOf(s, limit)) \subseteq ToSet(s)
         /\ IsInjective(s) => IsInjective(FirstOf(s, limit))
<1> DEFINE m == IF Len(s) <= limit THEN Len(s) ELSE limit
           t == FirstOf(s, limit)
<1>1. m \in 0 .. Len(s) /\ m \in Nat /\ Len(s) \in Nat
  BY LenProperties
<1>2. t = SubSeq(s, 1, m)
  BY DEF FirstOf
<1>3. Len(s) <= limit => t = s
  BY <1>2, SubSeqFull
<1>4. s # <<>> => m # 0
  <2>1. s # <<>> => Len(s) # 0
    BY EmptySeq
  <2> QED
    BY <2>1
<1> HIDE DEF m, t
<1>5. t \in Seq(S) /\ Len(t) = m /\ \A i \in 1 .. m : t[i] = s[i]
  <2>1. /\ 1 \in Int /\ m \in Int
        /\ \A i \in 1 .. m : i \in 1 .. Len(s)
        /\ (IF 1 <= m THEN m - 1 + 1 ELSE 0) = m
        /\ m - 1 + 1 = m
        /\ \A i \in 1 .. m : 1 + i - 1 = i
    BY <1>1
  <2>2. \A i \in 1 .. m : s[i] \in S
    BY <2>1, ElementOfSeq
  <2>3. /\ SubSeq(s, 1, m) \in Seq(S)
        /\ Len(SubSeq(s, 1, m)) = IF 1 <= m THEN m - 1 + 1 ELSE 0
        /\ \A i \in 1 .. m - 1 + 1 : SubSeq(s, 1, m)[i] = s[1 + i - 1]
    BY <2>1, <2>2, SubSeqProperties
  <2> QED
    BY <1>2, <2>1, <2>3
<1>6. s # <<>> => t # <<>>
  <2>1. t # <<>> <=> Len(t) # 0
    BY <1>5, EmptySeq
  <2> QED
    BY <1>4, <1>5, <2>1
<1>7. \A i \in 1 .. m : i \in 1 .. Len(s)
  BY <1>1
<1>8. ToSet(t) \subseteq ToSet(s)
  BY <1>5, <1>7, ToSetSeq
<1>9. IsInjective(s) => IsInjective(t)
  BY <1>5, <1>7, InjectiveSeq
<1> QED
  BY <1>1, <1>3, <1>5, <1>6, <1>8, <1>9 DEF t

\* The first sections are whole for the pages they have.
LEMMA WholePrefix ==
  ASSUME NEW sections, NEW V, Whole(sections, V), NEW limit \in Nat \ {0}
  PROVE  \E W : Whole(FirstOf(sections, limit), W)
<1> DEFINE t == FirstOf(sections, limit)
           W == UNION {ToSet(t[i].pages) : i \in 1 .. Len(t)}
<1>1. sections \in Seq(Section) /\ Len(sections) \in Nat
  BY LenProperties DEF Whole
<1>2. /\ t \in Seq(Section) /\ Len(t) \in 0 .. Len(sections)
      /\ \A i \in 1 .. Len(t) : t[i] = sections[i]
  BY <1>1, FirstOfFacts
<1> HIDE DEF t
<1>3. \A i \in 1 .. Len(t) : i \in 1 .. Len(sections)
  BY <1>1, <1>2
<1>4. \A i, j \in 1 .. Len(t) : t[i].id = t[j].id => i = j
  BY <1>2, <1>3 DEF Whole
<1>5. \A i \in 1 .. Len(t) : IsInjective(t[i].pages)
  BY <1>2, <1>3 DEF Whole
<1>6. \A i, j \in 1 .. Len(t) : i # j => ToSet(t[i].pages) \cap ToSet(t[j].pages) = {}
  BY <1>2, <1>3 DEF Whole
<1>7. \A p : p \in W <=> \E i \in 1 .. Len(t) : p \in ToSet(t[i].pages)
  OBVIOUS
<1> HIDE DEF W
<1>8. Whole(t, W)
  BY <1>2, <1>4, <1>5, <1>6, <1>7, Zenon DEF Whole
<1> QED
  BY <1>8 DEF t

\* Grouped makes lists of sections of lists of sections.
LEMMA GroupedSections ==
  ASSUME NEW s \in Seq(Section), NEW k \in 1 .. Len(Navigation)
  PROVE  Grouped(s, Navigation[k]) \in Seq(Section)
<1> DEFINE item == Navigation[k]
           i == SectionAt(s, item.section)
           new == [id |-> item.section, placement |-> item.placement,
                   pages |-> <<item.id>>]
<1>1. /\ item.section \in SectionNames /\ item.placement \in Placements
      /\ item.id \in Pages
  BY DefaultFacts, ElementOfSeq
<1>2. new \in Section
  BY <1>1 DEF Section
<1>3. i \in 0 .. Len(s) /\ (i # 0 => i \in 1 .. Len(s))
  BY SectionAtFinds
<1>4. Grouped(s, item) = IF i = 0 THEN Append(s, new)
                         ELSE [s EXCEPT ![i].pages = Append(@, item.id)]
  BY DEF Grouped
<1> HIDE DEF i, item, new
<1>5. ASSUME i = 0
      PROVE  Grouped(s, item) \in Seq(Section)
  BY <1>2, <1>4, <1>5, AppendProperties
<1>6. ASSUME i # 0
      PROVE  Grouped(s, item) \in Seq(Section)
  <2>1. s[i] \in Section
    BY <1>3, <1>6, ElementOfSeq
  <2>2. Append(s[i].pages, item.id) \in Seq(Pages)
    BY <1>1, <2>1, AppendProperties DEF Section
  <2>3. [s[i] EXCEPT !.pages = Append(@, item.id)] \in Section
    BY <2>1, <2>2 DEF Section
  <2>4. [s EXCEPT ![i].pages = Append(@, item.id)] \in Seq(Section)
    BY <1>3, <1>6, <2>3, ExceptSeq
  <2> QED
    BY <1>4, <1>6, <2>4
<1> QED
  BY <1>5, <1>6 DEF item

\* The function by which DefaultSections is defined exists.
LEMMA DefaultSteps ==
  \E f : /\ DefaultSections = f[Len(Navigation)]
         /\ f[0] = <<>>
         /\ \A k \in 1 .. Len(Navigation) : f[k] = Grouped(f[k - 1], Navigation[k])
<1> DEFINE n == Len(Navigation)
           R(f) == [k \in 0 .. n |->
                      IF k = 0 THEN <<>> ELSE Grouped(f[k - 1], Navigation[k])]
           r == CHOOSE f : f = R(f)
           D == Seq(Section)
           st == [x \in D \X (1 .. n) |-> Grouped(x[1], Navigation[x[2]])]
<1>1. n \in Nat
  BY DefaultFacts
<1>2. DefaultSections = r[n]
  BY Zenon DEF DefaultSections
<1>3. \A v \in D, k \in 1 .. n : Grouped(v, Navigation[k]) \in D
  BY GroupedSections
<1>4. <<>> \in D
  BY EmptySeq
<1> HIDE DEF D
<1>5. st \in [D \X (1 .. n) -> D]
  BY <1>3
<1>6. \A v \in D, k \in 1 .. n : st[<<v, k>>] = Grouped(v, Navigation[k])
  OBVIOUS
<1> HIDE DEF st
<1>7. PICK g \in [0 .. n -> D] : Steps(g, n, <<>>, st)
  BY <1>1, <1>4, <1>5, Recursion, Zenon
<1>8. ASSUME NEW k \in 0 .. n
      PROVE  g[k] = IF k = 0 THEN <<>> ELSE Grouped(g[k - 1], Navigation[k])
  <2>1. CASE k \in 1 .. n
    <3>1. k - 1 \in 0 .. n /\ k # 0
      BY <1>1, <2>1
    <3>2. g[k - 1] \in D
      BY <1>7, <3>1
    <3> QED
      BY <1>6, <1>7, <2>1, <3>1, <3>2 DEF Steps
  <2> QED
    BY <1>1, <1>7, <2>1 DEF Steps
<1>9. g = R(g)
  BY <1>7, <1>8
<1>10. r = R(r)
  <2>1. \E f : f = R(f)
    BY <1>9, Zenon
  <2> QED
    BY <2>1, Zenon
<1> HIDE DEF r
<1>11. r[0] = <<>>
  <2>1. R(r)[0] = <<>>
    BY <1>1
  <2> QED
    BY <1>10, <2>1, Zenon
<1>12. ASSUME NEW k \in 1 .. n
       PROVE  r[k] = Grouped(r[k - 1], Navigation[k])
  <2>1. k \in 0 .. n /\ k # 0
    BY <1>1
  <2>2. R(r)[k] = Grouped(r[k - 1], Navigation[k])
    BY <2>1
  <2> QED
    BY <1>10, <2>2, Zenon
<1> QED
  BY <1>2, <1>11, <1>12, Zenon

\* Appending a page that is in no section.
LEMMA WholeAppend ==
  ASSUME NEW sections, NEW V, Whole(sections, V), NEW i \in 1 .. Len(sections),
         NEW p \in Pages, p \notin V
  PROVE  /\ Whole([sections EXCEPT ![i].pages = Append(@, p)], V \cup {p})
         /\ [sections EXCEPT ![i].pages = Append(@, p)] # <<>>
<1> DEFINE q == Append(sections[i].pages, p)
           X == {p}
<1>1. /\ sections[i].pages \in Seq(Pages) /\ IsInjective(sections[i].pages)
      /\ ToSet(sections[i].pages) \subseteq V
  BY WholeSection
<1>2. /\ q \in Seq(Pages) /\ IsInjective(q)
      /\ ToSet(q) = ToSet(sections[i].pages) \cup X
  BY <1>1, AppendSet
<1>3. X \cap V = {}
  OBVIOUS
<1>4. [sections EXCEPT ![i].pages = Append(@, p)] = [sections EXCEPT ![i].pages = q]
  OBVIOUS
<1> HIDE DEF q, X
<1>5. /\ Whole([sections EXCEPT ![i].pages = q], V \cup X)
      /\ [sections EXCEPT ![i].pages = q] # <<>>
  BY <1>2, <1>3, WholePut
<1> QED
  BY <1>4, <1>5 DEF X

\* A section with one page that is in no other.
LEMMA WholeNew ==
  ASSUME NEW sections, NEW V, Whole(sections, V), NEW new \in Section,
         \A k \in 1 .. Len(sections) : sections[k].id # new.id,
         IsInjective(new.pages), ToSet(new.pages) \cap V = {}
  PROVE  /\ Whole(Append(sections, new), V \cup ToSet(new.pages))
         /\ Append(sections, new) # <<>>
<1>1. sections \in Seq(Section)
  BY DEF Whole
<1>2. /\ Len(sections) + 1 \in 1 .. Len(sections) + 1
      /\ Append(sections, new) = InsertAt(sections, Len(sections) + 1, new)
  BY <1>1, AppendIsInsertAt
<1>3. /\ Whole(InsertAt(sections, Len(sections) + 1, new), V \cup ToSet(new.pages))
      /\ InsertAt(sections, Len(sections) + 1, new) # <<>>
  BY <1>2, WholeInsertAt
<1> QED
  BY <1>2, <1>3

\* The default sections hold the pages of the definition.
LEMMA DefaultSectionsWhole ==
  /\ Whole(DefaultSections, ToSet(DefaultPages))
  /\ DefaultSections # <<>>
<1> DEFINE n == Len(Navigation)
           V(m) == {DefaultPages[k] : k \in 1 .. m}
<1>1. PICK f : /\ DefaultSections = f[n]
               /\ f[0] = <<>>
               /\ \A k \in 1 .. n : f[k] = Grouped(f[k - 1], Navigation[k])
  BY DefaultSteps
<1>2. n \in Nat \ {0}
  BY DefaultFacts
<1> DEFINE Good(m) == Whole(f[m], V(m)) /\ (m # 0 => f[m] # <<>>)
           Done == {m \in 0 .. n : Good(m)}
<1>3. 0 \in Done
  <2>1. V(0) = {}
    OBVIOUS
  <2>2. <<>> \in Seq(Section) /\ Len(<<>>) = 0
    BY EmptySeq
  <2>3. \A i \in 1 .. 0 : FALSE
    OBVIOUS
  <2>4. Whole(<<>>, {})
    BY <2>2, <2>3 DEF Whole
  <2>5. Good(0)
    BY <1>1, <2>1, <2>4
  <2>6. 0 \in 0 .. n
    BY <1>2
  <2> HIDE DEF Good
  <2> QED
    BY <2>5, <2>6
<1>4. ASSUME NEW m \in 0 .. n - 1, m \in Done
      PROVE  m + 1 \in Done
  <2> DEFINE s == f[m]
             item == Navigation[m + 1]
             i == SectionAt(s, item.section)
             new == [id |-> item.section, placement |-> item.placement,
                     pages |-> <<item.id>>]
  <2>1. Good(m)
    BY <1>4
  <2>2. /\ m + 1 \in 1 .. n /\ m + 1 \in 0 .. n /\ (m + 1) - 1 = m /\ m + 1 # 0
        /\ \A k : k \in 1 .. m + 1 <=> k \in 1 .. m \/ k = m + 1
        /\ \A k \in 1 .. m : k \in 1 .. n /\ k # m + 1
    BY <1>2
  <2>3. f[m + 1] = Grouped(s, item)
    BY <1>1, <2>2
  <2>4. /\ item.section \in SectionNames /\ item.placement \in Placements
        /\ item.id \in Pages /\ item.id = DefaultPages[m + 1]
    BY <2>2, DefaultFacts, ElementOfSeq
  <2>5. V(m + 1) = V(m) \cup {item.id}
    BY <2>2, <2>4
  <2>6. item.id \notin V(m)
    <3>1. \A k \in 1 .. m : DefaultPages[k] # DefaultPages[m + 1]
      BY <2>2, DefaultFacts, InjectiveSeq
    <3> QED
      BY <2>4, <3>1
  <2>7. Whole(s, V(m)) /\ s \in Seq(Section)
    BY <2>1 DEF Whole
  <2>8. /\ i \in 0 .. Len(s) /\ (i # 0 => i \in 1 .. Len(s))
        /\ i = 0 => \A k \in 1 .. Len(s) : s[k].id # item.section
    BY <2>7, SectionAtFinds
  <2>9. Grouped(s, item) = IF i = 0 THEN Append(s, new)
                           ELSE [s EXCEPT ![i].pages = Append(@, item.id)]
    BY DEF Grouped
  <2>10. /\ new \in Section /\ new.id = item.section /\ new.pages = <<item.id>>
         /\ IsInjective(new.pages) /\ ToSet(new.pages) = {item.id}
    <3>1. IsInjective(<<item.id>>) /\ ToSet(<<item.id>>) = {item.id}
      BY DEF IsInjective, ToSet
    <3> QED
      BY <2>4, <3>1 DEF Section
  <2>11. Whole(f[m + 1], V(m + 1)) /\ f[m + 1] # <<>>
    <3> DEFINE W == V(m)
    <3> HIDE DEF i, item, new, s, V, W
    <3>1. CASE i = 0
      <4>1. \A k \in 1 .. Len(s) : s[k].id # new.id
        BY <2>8, <2>10, <3>1
      <4>2. ToSet(new.pages) \cap W = {}
        BY <2>6, <2>10 DEF W
      <4>3. /\ Whole(Append(s, new), W \cup ToSet(new.pages))
            /\ Append(s, new) # <<>>
        BY <2>7, <2>10, <4>1, <4>2, WholeNew DEF W
      <4> QED
        BY <2>3, <2>5, <2>9, <2>10, <3>1, <4>3 DEF W
    <3>2. CASE i # 0
      <4>1. /\ Whole([s EXCEPT ![i].pages = Append(@, item.id)], W \cup {item.id})
            /\ [s EXCEPT ![i].pages = Append(@, item.id)] # <<>>
        BY <2>4, <2>6, <2>7, <2>8, <3>2, WholeAppend DEF W
      <4> QED
        BY <2>3, <2>5, <2>9, <3>2, <4>1 DEF W
    <3> QED
      BY <3>1, <3>2
  <2> HIDE DEF V
  <2>12. Good(m + 1)
    BY <2>11
  <2> HIDE DEF Good
  <2> QED
    BY <2>2, <2>12
<1>5. n \in Done
  <2> HIDE DEF Done
  <2>1. 0 .. n \subseteq Done
    BY <1>2, <1>3, <1>4, Induction
  <2> QED
    BY <1>2, <2>1
<1>6. V(n) = ToSet(DefaultPages)
  <2>1. DefaultPages \in Seq(Pages) /\ Len(DefaultPages) = n
    BY DefaultFacts
  <2>2. \A x : x \in ToSet(DefaultPages) <=> \E k \in 1 .. n : DefaultPages[k] = x
    BY <2>1, ToSetSeq
  <2> QED
    BY <2>2
<1> QED
  BY <1>1, <1>2, <1>5, <1>6

-----------------------------------------------------------------------------
(* The first half of normalizeNavigationSections *)

\* What Taken adds to a section's list of pages is a list of pages.
LEMMA TakenSections ==
  ASSUME NEW kept \in Seq(Section), NEW s \in Section, NEW T
  PROVE  Taken(kept, s, T) \in Seq(Section)
<1> DEFINE q == Only(s.pages, T \ Assigned(kept))
<1>1. q \in Seq(Pages)
  BY OnlyResult DEF Section
<1>2. [s EXCEPT !.pages = q] \in Section
  <2> HIDE DEF q
  <2> QED
    BY <1>1 DEF Section
<1>3. Taken(kept, s, T) = IF SectionAt(kept, s.id) # 0 THEN kept
                          ELSE Append(kept, [s EXCEPT !.pages = q])
  BY DEF Taken
<1> HIDE DEF q
<1> QED
  BY <1>2, <1>3, AppendProperties

\* The function by which Candidates is defined exists.
LEMMA CandidateSteps ==
  ASSUME NEW s \in Seq(Section), NEW T
  PROVE  \E f : /\ Candidates(s, T) = f[Len(s)]
                /\ f[0] = <<>>
                /\ \A k \in 1 .. Len(s) : f[k] = Taken(f[k - 1], s[k], T)
<1> DEFINE n == Len(s)
           R(f) == [k \in 0 .. n |->
                      IF k = 0 THEN <<>> ELSE Taken(f[k - 1], s[k], T)]
           r == CHOOSE f : f = R(f)
           D == Seq(Section)
           st == [x \in D \X (1 .. n) |-> Taken(x[1], s[x[2]], T)]
<1>1. n \in Nat
  BY LenProperties
<1>2. Candidates(s, T) = r[n]
  BY Zenon DEF Candidates
<1>3. \A v \in D, k \in 1 .. n : Taken(v, s[k], T) \in D
  BY ElementOfSeq, TakenSections
<1>4. <<>> \in D
  BY EmptySeq
<1> HIDE DEF D
<1>5. st \in [D \X (1 .. n) -> D]
  BY <1>3
<1>6. \A v \in D, k \in 1 .. n : st[<<v, k>>] = Taken(v, s[k], T)
  OBVIOUS
<1> HIDE DEF st
<1>7. PICK g \in [0 .. n -> D] : Steps(g, n, <<>>, st)
  BY <1>1, <1>4, <1>5, Recursion, Zenon
<1>8. ASSUME NEW k \in 0 .. n
      PROVE  g[k] = IF k = 0 THEN <<>> ELSE Taken(g[k - 1], s[k], T)
  <2>1. CASE k \in 1 .. n
    <3>1. k - 1 \in 0 .. n /\ k # 0
      BY <1>1, <2>1
    <3>2. g[k - 1] \in D
      BY <1>7, <3>1
    <3> QED
      BY <1>6, <1>7, <2>1, <3>1, <3>2 DEF Steps
  <2> QED
    BY <1>1, <1>7, <2>1 DEF Steps
<1>9. g = R(g)
  BY <1>7, <1>8
<1>10. r = R(r)
  <2>1. \E f : f = R(f)
    BY <1>9, Zenon
  <2> QED
    BY <2>1, Zenon
<1> HIDE DEF r
<1>11. r[0] = <<>>
  <2>1. R(r)[0] = <<>>
    BY <1>1
  <2> QED
    BY <1>10, <2>1, Zenon
<1>12. ASSUME NEW k \in 1 .. n
       PROVE  r[k] = Taken(r[k - 1], s[k], T)
  <2>1. k \in 0 .. n /\ k # 0
    BY <1>1
  <2>2. R(r)[k] = Taken(r[k - 1], s[k], T)
    BY <2>1
  <2> QED
    BY <1>10, <2>2, Zenon
<1> QED
  BY <1>2, <1>11, <1>12, Zenon

\* Of whole sections nothing is dropped but the pages that are unknown.
LEMMA CandidatesWhole ==
  ASSUME NEW s, NEW V, Whole(s, V), NEW T
  PROVE  /\ Whole(Candidates(s, T), V \cap T)
         /\ s # <<>> => Candidates(s, T) # <<>>
         /\ V \subseteq T => Candidates(s, T) = s
<1> DEFINE n == Len(s)
           c == Candidates(s, T)
<1>1. s \in Seq(Section) /\ n \in Nat
  BY LenProperties DEF Whole
<1>2. PICK f : /\ c = f[n]
               /\ f[0] = <<>>
               /\ \A k \in 1 .. n : f[k] = Taken(f[k - 1], s[k], T)
  BY <1>1, CandidateSteps
<1> HIDE DEF c
<1> DEFINE Like(u, k) == /\ u.id = s[k].id
                         /\ ToSet(u.pages) = ToSet(s[k].pages) \cap T
                         /\ IsInjective(u.pages)
                         /\ V \subseteq T => u = s[k]
           Good(m) == /\ f[m] \in Seq(Section) /\ Len(f[m]) = m
                      /\ \A k \in 1 .. m : Like(f[m][k], k)
           Done == {m \in 0 .. n : Good(m)}
<1>3. 0 \in Done
  <2>1. <<>> \in Seq(Section) /\ Len(<<>>) = 0
    BY EmptySeq
  <2>2. \A k \in 1 .. 0 : FALSE
    OBVIOUS
  <2>3. Good(0)
    BY <1>2, <2>1, <2>2
  <2>4. 0 \in 0 .. n
    BY <1>1
  <2> HIDE DEF Good
  <2> QED
    BY <2>3, <2>4
<1>4. ASSUME NEW m \in 0 .. n - 1, m \in Done
      PROVE  m + 1 \in Done
  <2> DEFINE t == f[m]
             u == s[m + 1]
             q == Only(u.pages, T \ Assigned(t))
             v == [u EXCEPT !.pages = q]
  <2>1. Good(m)
    BY <1>4
  <2>2. /\ m + 1 \in 1 .. n /\ m + 1 \in 0 .. n /\ (m + 1) - 1 = m /\ m \in Nat
        /\ \A k : k \in 1 .. m + 1 <=> k \in 1 .. m \/ k = m + 1
        /\ \A k \in 1 .. m : k \in 1 .. n /\ k # m + 1
    BY <1>1
  <2>3. t \in Seq(Section) /\ Len(t) = m /\ \A k \in 1 .. m : Like(t[k], k)
    BY <2>1
  <2>4. /\ u \in Section /\ u.pages \in Seq(Pages) /\ IsInjective(u.pages)
        /\ ToSet(u.pages) \subseteq V
    BY <2>2, WholeSection
  <2>5. SectionAt(t, u.id) = 0
    <3>1. \A k \in 1 .. m : t[k].id # u.id
      BY <2>2, <2>3 DEF Whole
    <3> QED
      BY <2>3, <3>1, SectionAtFinds
  <2>6. Assigned(t) \cap ToSet(u.pages) = {}
    <3>1. DOMAIN t = 1 .. m
      BY <2>3, LenProperties
    <3>2. \A k \in 1 .. m : ToSet(t[k].pages) \cap ToSet(u.pages) = {}
      <4> TAKE k \in 1 .. m
      <4>1. ToSet(s[k].pages) \cap ToSet(s[m + 1].pages) = {}
        BY <2>2 DEF Whole
      <4> QED
        BY <2>3, <4>1
    <3> QED
      BY <3>1, <3>2 DEF Assigned
  <2>7. f[m + 1] = Append(t, v)
    <3>1. f[m + 1] = Taken(t, u, T)
      BY <1>2, <2>2
    <3> QED
      BY <2>5, <3>1 DEF Taken
  <2>8. /\ q \in Seq(Pages)
        /\ ToSet(q) = ToSet(u.pages) \cap (T \ Assigned(t))
        /\ IsInjective(q)
        /\ ToSet(u.pages) \subseteq T \ Assigned(t) => q = u.pages
    BY <2>4, OnlyResult
  <2> HIDE DEF Like, q, u, t
  <2>9. /\ v \in Section /\ v.id = u.id /\ v.pages = q
        /\ q = u.pages => v = u
    BY <2>4, <2>8 DEF Section
  <2> HIDE DEF v
  <2>10. Like(v, m + 1)
    <3>1. ToSet(v.pages) = ToSet(u.pages) \cap T
      BY <2>6, <2>8, <2>9
    <3>2. ASSUME V \subseteq T
          PROVE  v = u
      BY <2>4, <2>6, <2>8, <2>9, <3>2
    <3> QED
      BY <2>8, <2>9, <3>1, <3>2 DEF Like, u
  <2>11. /\ f[m + 1] \in Seq(Section) /\ Len(f[m + 1]) = m + 1
         /\ \A k \in 1 .. m : f[m + 1][k] = t[k]
         /\ f[m + 1][m + 1] = v
    BY <2>3, <2>7, <2>9, AppendProperties
  <2>12. ASSUME NEW k \in 1 .. m + 1
         PROVE  Like(f[m + 1][k], k)
    BY <2>2, <2>3, <2>10, <2>11
  <2>13. Good(m + 1)
    BY <2>11, <2>12
  <2> HIDE DEF Good
  <2> QED
    BY <2>2, <2>13
<1>5. Good(n)
  <2>1. n \in Done
    <3> HIDE DEF Done
    <3>1. 0 .. n \subseteq Done
      BY <1>1, <1>3, <1>4, Induction
    <3> QED
      BY <1>1, <3>1
  <2> HIDE DEF Good
  <2> QED
    BY <2>1
<1>6. c \in Seq(Section) /\ Len(c) = n
  BY <1>2, <1>5
<1>7. ASSUME NEW k \in 1 .. n
      PROVE  /\ c[k].id = s[k].id
             /\ ToSet(c[k].pages) = ToSet(s[k].pages) \cap T
             /\ IsInjective(c[k].pages)
             /\ V \subseteq T => c[k] = s[k]
  BY <1>2, <1>5
<1>8. \A i, j \in 1 .. n : c[i].id = c[j].id => i = j
  BY <1>7 DEF Whole
<1>9. ASSUME NEW i \in 1 .. n, NEW j \in 1 .. n, i # j
      PROVE  ToSet(c[i].pages) \cap ToSet(c[j].pages) = {}
  <2>1. ToSet(s[i].pages) \cap ToSet(s[j].pages) = {}
    BY <1>9 DEF Whole
  <2> QED
    BY <1>7, <2>1
<1>10. ASSUME NEW p
       PROVE  p \in V \cap T <=> \E i \in 1 .. n : p \in ToSet(c[i].pages)
  <2>1. p \in V <=> \E i \in 1 .. n : p \in ToSet(s[i].pages)
    BY DEF Whole
  <2> QED
    BY <1>7, <2>1
<1>11. Whole(c, V \cap T)
  BY <1>6, <1>7, <1>8, <1>9, <1>10, Zenon DEF Whole
<1>12. s # <<>> => c # <<>>
  <2>1. s # <<>> => n # 0
    BY <1>1, EmptySeq
  <2>2. c # <<>> <=> Len(c) # 0
    BY <1>6, EmptySeq
  <2> QED
    BY <1>6, <2>1, <2>2
<1>13. V \subseteq T => c = s
  BY <1>1, <1>6, <1>7, SeqEqual
<1> QED
  BY <1>11, <1>12, <1>13 DEF c

\* A page that is in no section gets into one.
LEMMA AssignWhole ==
  ASSUME NEW s, NEW V, Whole(s, V), s # <<>>, NEW p \in Pages
  PROVE  /\ Whole(Assign(s, p), V \cup {p})
         /\ Assign(s, p) # <<>>
         /\ p \in V => Assign(s, p) = s
<1> DEFINE d == SectionOf(DefaultSections, p)
           same == IF d = 0 THEN 0 ELSE SectionAt(s, DefaultSections[d].id)
           placed == IF d = 0 THEN 0 ELSE PlacedAt(s, DefaultSections[d].placement)
           i == IF same # 0 THEN same ELSE IF placed # 0 THEN placed ELSE 1
<1>1. s \in Seq(Section) /\ Len(s) \in Nat \ {0}
  <2>1. s \in Seq(Section) /\ Len(s) \in Nat
    BY LenProperties DEF Whole
  <2>2. Len(s) # 0
    BY <2>1, EmptySeq
  <2> QED
    BY <2>1, <2>2
<1>2. SectionOf(s, p) = 0 <=> p \notin V
  BY SectionOfWhole
<1>3. i \in 1 .. Len(s)
  <2>1. same \in 0 .. Len(s)
    BY <1>1, SectionAtFinds
  <2>2. placed \in 0 .. Len(s)
    BY <1>1, PlacedAtFinds
  <2> HIDE DEF same, placed
  <2> QED
    BY <1>1, <2>1, <2>2
<1>4. Assign(s, p) = IF SectionOf(s, p) # 0 THEN s
                     ELSE [s EXCEPT ![i].pages = Append(@, p)]
  BY Zenon DEF Assign
<1> HIDE DEF i
<1>5. CASE p \in V
  <2>1. V \cup {p} = V
    BY <1>5
  <2>2. Assign(s, p) = s
    BY <1>2, <1>4, <1>5
  <2> QED
    BY <2>1, <2>2, Zenon
<1>6. CASE p \notin V
  <2>1. Assign(s, p) = [s EXCEPT ![i].pages = Append(@, p)]
    BY <1>2, <1>4, <1>6
  <2>2. /\ Whole([s EXCEPT ![i].pages = Append(@, p)], V \cup {p})
        /\ [s EXCEPT ![i].pages = Append(@, p)] # <<>>
    BY <1>3, <1>6, WholeAppend
  <2> QED
    BY <1>6, <2>1, <2>2
<1> QED
  BY <1>5, <1>6

-----------------------------------------------------------------------------
(* The second half *)

\* The first function of NormalSections.
FirstFilled(s, items) ==
  LET defaults == Pruned(DefaultSections, ToSet(items))
      kept == Candidates(IF s = <<>> THEN defaults ELSE FirstOf(s, SectionLimit),
                         ToSet(items))
  IN  IF kept = <<>> THEN defaults ELSE kept

\* The function by which NormalSections is defined exists.
LEMMA NormalSteps ==
  ASSUME NEW s, NEW items \in Seq(Pages), NEW V,
         Whole(FirstFilled(s, items), V), FirstFilled(s, items) # <<>>
  PROVE  \E f : /\ NormalSections(s, items) = f[Len(items)]
                /\ f[0] = FirstFilled(s, items)
                /\ \A k \in 1 .. Len(items) : f[k] = Assign(f[k - 1], items[k])
<1> DEFINE n == Len(items)
           z == FirstFilled(s, items)
           R(f) == [k \in 0 .. n |->
                      IF k = 0 THEN z ELSE Assign(f[k - 1], items[k])]
           r == CHOOSE f : f = R(f)
           D == {v \in Seq(Section) : v # <<>> /\ \E W : Whole(v, W)}
           st == [x \in D \X (1 .. n) |-> Assign(x[1], items[x[2]])]
<1>1. n \in Nat
  BY LenProperties
<1>2. NormalSections(s, items) = r[n]
  BY Zenon DEF NormalSections, FirstFilled
<1>3. \A v \in D, k \in 1 .. n : Assign(v, items[k]) \in D
  <2> TAKE v \in D, k \in 1 .. n
  <2>1. PICK W : Whole(v, W)
    OBVIOUS
  <2>2. v # <<>> /\ items[k] \in Pages
    BY ElementOfSeq
  <2>3. /\ Whole(Assign(v, items[k]), W \cup {items[k]})
        /\ Assign(v, items[k]) # <<>>
    BY <2>1, <2>2, AssignWhole
  <2>4. Assign(v, items[k]) \in Seq(Section)
    BY <2>3 DEF Whole
  <2> QED
    BY <2>3, <2>4
<1>4. z \in D
  BY DEF Whole
<1> HIDE DEF D, z
<1>5. st \in [D \X (1 .. n) -> D]
  BY <1>3
<1>6. \A v \in D, k \in 1 .. n : st[<<v, k>>] = Assign(v, items[k])
  OBVIOUS
<1> HIDE DEF st
<1>7. PICK g \in [0 .. n -> D] : Steps(g, n, z, st)
  BY <1>1, <1>4, <1>5, Recursion, Zenon
<1>8. ASSUME NEW k \in 0 .. n
      PROVE  g[k] = IF k = 0 THEN z ELSE Assign(g[k - 1], items[k])
  <2>1. CASE k \in 1 .. n
    <3>1. k - 1 \in 0 .. n /\ k # 0
      BY <1>1, <2>1
    <3>2. g[k - 1] \in D
      BY <1>7, <3>1
    <3> QED
      BY <1>6, <1>7, <2>1, <3>1, <3>2 DEF Steps
  <2> QED
    BY <1>1, <1>7, <2>1 DEF Steps
<1>9. g = R(g)
  BY <1>7, <1>8
<1>10. r = R(r)
  <2>1. \E f : f = R(f)
    BY <1>9, Zenon
  <2> QED
    BY <2>1, Zenon
<1> HIDE DEF r
<1>11. r[0] = z
  <2>1. R(r)[0] = z
    BY <1>1
  <2> QED
    BY <1>10, <2>1, Zenon
<1>12. ASSUME NEW k \in 1 .. n
       PROVE  r[k] = Assign(r[k - 1], items[k])
  <2>1. k \in 0 .. n /\ k # 0
    BY <1>1
  <2>2. R(r)[k] = Assign(r[k - 1], items[k])
    BY <2>1
  <2> QED
    BY <1>10, <2>2, Zenon
<1> QED
  BY <1>2, <1>11, <1>12, Zenon DEF z

\* normalizeNavigationSections puts every page into a section, and changes
\* nothing about sections that are whole and not too many.
LEMMA NormalSectionsWhole ==
  ASSUME NEW s, NEW V, Whole(s, V), s # <<>>, NEW items \in Seq(Pages)
  PROVE  /\ Whole(NormalSections(s, items), ToSet(items))
         /\ NormalSections(s, items) # <<>>
         /\ V = ToSet(items) /\ Len(s) <= SectionLimit =>
              NormalSections(s, items) = s
<1> DEFINE n == Len(items)
           T == ToSet(items)
           c == FirstOf(s, SectionLimit)
           z == FirstFilled(s, items)
           V0(W, m) == (W \cap T) \cup {items[k] : k \in 1 .. m}
           Same == V = T /\ Len(s) <= SectionLimit
<1>1. s \in Seq(Section) /\ n \in Nat /\ SectionLimit \in Nat \ {0}
  BY LenProperties, LayoutAssumption DEF Whole
<1>2. c # <<>> /\ (Len(s) <= SectionLimit => c = s)
  BY <1>1, FirstOfFacts
<1>3. PICK W : Whole(c, W) /\ (c = s => W = V)
  <2>1. CASE c = s
    BY <2>1
  <2>2. CASE c # s
    BY <1>1, <2>2, WholePrefix
  <2> QED
    BY <2>1, <2>2
<1>4. /\ Whole(Candidates(c, T), W \cap T)
      /\ Candidates(c, T) # <<>>
      /\ W \subseteq T => Candidates(c, T) = c
  <2> HIDE DEF c, T
  <2> QED
    BY <1>2, <1>3, CandidatesWhole
<1>5. z = Candidates(c, T)
  <2>1. z = LET kept == Candidates(c, T)
            IN  IF kept = <<>> THEN Pruned(DefaultSections, ToSet(items)) ELSE kept
    BY Zenon DEF FirstFilled
  <2> QED
    BY <1>4, <2>1, Zenon
<1>6. PICK f : /\ NormalSections(s, items) = f[n]
               /\ f[0] = z
               /\ \A k \in 1 .. n : f[k] = Assign(f[k - 1], items[k])
  <2>1. Whole(z, W \cap T) /\ z # <<>>
    BY <1>4, <1>5, Zenon
  <2> QED
    BY <2>1, NormalSteps
<1>7. Same => z = s
  BY <1>2, <1>3, <1>4, <1>5
<1> HIDE DEF z, c
<1> DEFINE Good(m) == /\ Whole(f[m], V0(W, m)) /\ f[m] # <<>>
                      /\ Same => f[m] = s
           Done == {m \in 0 .. n : Good(m)}
<1>8. 0 \in Done
  <2>1. V0(W, 0) = W \cap T
    OBVIOUS
  <2> HIDE DEF V0, T, Same
  <2>2. Good(0)
    BY <1>4, <1>5, <1>6, <1>7, <2>1
  <2>3. 0 \in 0 .. n
    BY <1>1
  <2> HIDE DEF Good
  <2> QED
    BY <2>2, <2>3
<1>9. ASSUME NEW m \in 0 .. n - 1, m \in Done
      PROVE  m + 1 \in Done
  <2>1. Good(m)
    BY <1>9
  <2>2. /\ m + 1 \in 1 .. n /\ m + 1 \in 0 .. n /\ (m + 1) - 1 = m
        /\ \A k : k \in 1 .. m + 1 <=> k \in 1 .. m \/ k = m + 1
    BY <1>1
  <2>3. items[m + 1] \in Pages /\ items[m + 1] \in T
    BY <2>2, ElementOfSeq, ToSetSeq
  <2>4. f[m + 1] = Assign(f[m], items[m + 1])
    BY <1>6, <2>2
  <2>5. V0(W, m) \cup {items[m + 1]} = V0(W, m + 1)
    BY <2>2
  <2> HIDE DEF V0
  <2>6. /\ Whole(f[m + 1], V0(W, m + 1)) /\ f[m + 1] # <<>>
        /\ items[m + 1] \in V0(W, m) => f[m + 1] = f[m]
    <3>1. /\ Whole(Assign(f[m], items[m + 1]), V0(W, m) \cup {items[m + 1]})
          /\ Assign(f[m], items[m + 1]) # <<>>
          /\ items[m + 1] \in V0(W, m) => Assign(f[m], items[m + 1]) = f[m]
      BY <2>1, <2>3, AssignWhole
    <3> QED
      BY <2>4, <2>5, <3>1, Zenon
  <2>7. ASSUME Same
        PROVE  f[m + 1] = s
    <3>1. f[m] = s /\ Whole(f[m], V0(W, m))
      BY <2>1, <2>7
    <3>2. Whole(s, V0(W, m)) /\ Whole(s, V)
      BY <3>1
    <3>3. V0(W, m) = V
      BY <3>2 DEF Whole
    <3>4. items[m + 1] \in V0(W, m)
      BY <2>3, <2>7, <3>3
    <3> QED
      BY <2>6, <3>1, <3>4
  <2>8. Good(m + 1)
    BY <2>6, <2>7
  <2> HIDE DEF Good
  <2> QED
    BY <2>2, <2>8
<1>10. Good(n)
  <2>1. n \in Done
    <3> HIDE DEF Done
    <3>1. 0 .. n \subseteq Done
      BY <1>1, <1>8, <1>9, Induction
    <3> QED
      BY <1>1, <3>1
  <2> HIDE DEF Good
  <2> QED
    BY <2>1
<1>11. V0(W, n) = T
  <2>1. \A p : p \in T <=> \E k \in 1 .. n : items[k] = p
    BY ToSetSeq
  <2> HIDE DEF T
  <2> QED
    BY <2>1
<1> HIDE DEF V0
<1> QED
  BY <1>6, <1>10, <1>11

-----------------------------------------------------------------------------
(* The preferences, and the setters of sections *)

\* The panels of a user.
PanelMaps == UNION {[D -> Panel] : D \in {P \in SUBSET Panels : IsFiniteSet(P)}}

Layouts ==
  [sections : Seq(Section), hiddenPages : Seq(ToSet(DefaultPages)),
   customPages : Seq(NewPages), panels : PanelMaps, order : Seq(Panels),
   hidden : SUBSET Panels, active : Pages]

\* Preferences as every setter leaves them.
Sound(L) ==
  /\ L \in Layouts
  /\ L.sections # <<>> /\ Whole(L.sections, Visible(L))
  /\ IsInjective(L.hiddenPages)
  /\ IsInjective(L.customPages)
  /\ IsInjective(L.order)
  /\ L.active \in Visible(L)
  /\ Protected \subseteq Visible(L)

\* The same of each field by itself, as in a document whose fields were saved
\* by tabs with different copies: the sections may hold other pages.
Loose(L) ==
  /\ L \in Layouts
  /\ L.sections # <<>> /\ \E W \in SUBSET Pages : Whole(L.sections, W)
  /\ IsInjective(L.hiddenPages)
  /\ IsInjective(L.customPages)
  /\ IsInjective(L.order)
  /\ Visible(L) # {}
  /\ Protected \subseteq Visible(L)

\* The panels are on pages there are, but for those of M.
OnPages(L, M) == \A id \in DOMAIN L.panels \ M : L.panels[id].page \in Visible(L)

\* The types of the fields.
LEMMA LayoutFields ==
  ASSUME NEW L \in Layouts
  PROVE  /\ L.sections \in Seq(Section)
         /\ L.hiddenPages \in Seq(ToSet(DefaultPages))
         /\ L.customPages \in Seq(NewPages)
         /\ L.panels \in PanelMaps
         /\ L.order \in Seq(Panels)
         /\ L.hidden \subseteq Panels
         /\ L.active \in Pages
         /\ IsFiniteSet(DOMAIN L.panels) /\ DOMAIN L.panels \subseteq Panels
         /\ L.panels \in [DOMAIN L.panels -> Panel]
<1>1. /\ L.sections \in Seq(Section)
      /\ L.hiddenPages \in Seq(ToSet(DefaultPages))
      /\ L.customPages \in Seq(NewPages)
      /\ L.panels \in PanelMaps
      /\ L.order \in Seq(Panels)
      /\ L.hidden \subseteq Panels
      /\ L.active \in Pages
  <2> HIDE DEF PanelMaps, Section, Pages, Panels
  <2> QED
    BY DEF Layouts
<1>2. PICK D \in SUBSET Panels : IsFiniteSet(D) /\ L.panels \in [D -> Panel]
  BY <1>1 DEF PanelMaps
<1> QED
  BY <1>1, <1>2

\* The same, and the pages, of sound preferences.
LEMMA SoundFacts ==
  ASSUME NEW L, Sound(L)
  PROVE  /\ L \in Layouts
         /\ L.sections \in Seq(Section) /\ L.sections # <<>>
         /\ Whole(L.sections, Visible(L))
         /\ Items(L) \in Seq(Pages) /\ IsInjective(Items(L)) /\ Items(L) # <<>>
         /\ Len(Items(L)) \in Nat \ {0} /\ Items(L)[1] \in Visible(L)
         /\ ToSet(Items(L)) = Visible(L)
         /\ Visible(L) = (ToSet(DefaultPages) \ ToSet(L.hiddenPages))
                           \cup ToSet(L.customPages)
         /\ Visible(L) \subseteq Pages
<1>1. L \in Layouts /\ L.active \in Visible(L) /\ IsInjective(L.customPages)
      /\ L.sections # <<>> /\ Whole(L.sections, Visible(L))
  BY DEF Sound
<1>2. /\ L.hiddenPages \in Seq(ToSet(DefaultPages))
      /\ L.customPages \in Seq(NewPages) /\ L.sections \in Seq(Section)
  BY <1>1, LayoutFields
<1>3. Visible(L) # {}
  BY <1>1
<1>4. ToSet(Items(L)) = Visible(L)
  BY DEF Visible
<1> QED
  BY <1>1, <1>2, <1>3, <1>4, ItemsFacts

\* Sound preferences are in order field by field.
LEMMA SoundIsLoose ==
  ASSUME NEW L, Sound(L)
  PROVE  Loose(L)
<1>1. Visible(L) \in SUBSET Pages /\ Whole(L.sections, Visible(L))
  BY SoundFacts
<1>2. \E W \in SUBSET Pages : Whole(L.sections, W)
  BY <1>1
<1>3. /\ L \in Layouts /\ L.sections # <<>> /\ IsInjective(L.hiddenPages)
      /\ IsInjective(L.customPages) /\ IsInjective(L.order)
      /\ L.active \in Visible(L) /\ Protected \subseteq Visible(L)
  BY Zenon DEF Sound
<1>4. Visible(L) # {}
  BY <1>3
<1> QED
  BY <1>2, <1>3, <1>4, Zenon DEF Loose

\* Other sections for the same pages.
LEMMA SoundSections ==
  ASSUME NEW L, Sound(L), NEW S, Whole(S, Visible(L)), S # <<>>
  PROVE  /\ Sound([L EXCEPT !.sections = S])
         /\ Visible([L EXCEPT !.sections = S]) = Visible(L)
         /\ [L EXCEPT !.sections = S].panels = L.panels
<1> DEFINE K == [L EXCEPT !.sections = S]
<1>1. L \in Layouts /\ S \in Seq(Section)
  BY DEF Sound, Whole
<1>2. /\ K \in Layouts /\ K.sections = S /\ K.hiddenPages = L.hiddenPages
      /\ K.customPages = L.customPages /\ K.panels = L.panels
      /\ K.order = L.order /\ K.active = L.active
  BY <1>1 DEF Layouts
<1> HIDE DEF K
<1>3. Visible(K) = Visible(L)
  BY <1>2, ItemsSame
<1>4. Sound(K)
  BY <1>2, <1>3, Zenon DEF Sound
<1> QED
  BY <1>2, <1>3, <1>4 DEF K

\* Other panels for the same pages.
LEMMA SoundPanels ==
  ASSUME NEW L, Sound(L), NEW K \in Layouts,
         K.sections = L.sections, K.hiddenPages = L.hiddenPages,
         K.customPages = L.customPages, K.active = L.active, IsInjective(K.order)
  PROVE  Sound(K) /\ Visible(K) = Visible(L)
<1>1. Visible(K) = Visible(L)
  BY ItemsSame
<1> QED
  BY <1>1, Zenon DEF Sound

\* A page that is gone is refused.
LEMMA SetActivePageSound ==
  ASSUME NEW L, Sound(L), NEW p
  PROVE  /\ Sound(SetActivePage(L, p))
         /\ Visible(SetActivePage(L, p)) = Visible(L)
         /\ SetActivePage(L, p).panels = L.panels
<1> DEFINE K == [L EXCEPT !.active = p]
<1>1. CASE p \in Visible(L)
  <2>1. L \in Layouts /\ p \in Pages
    BY <1>1, SoundFacts
  <2>2. /\ K \in Layouts /\ K.sections = L.sections
        /\ K.hiddenPages = L.hiddenPages
        /\ K.customPages = L.customPages /\ K.panels = L.panels
        /\ K.order = L.order /\ K.active = p
    BY <2>1 DEF Layouts
  <2> HIDE DEF K
  <2>3. Visible(K) = Visible(L)
    BY <2>2, ItemsSame
  <2>4. Sound(K)
    BY <1>1, <2>2, <2>3, Zenon DEF Sound
  <2>5. SetActivePage(L, p) = K
    BY <1>1 DEF SetActivePage, K
  <2> QED
    BY <2>2, <2>3, <2>4, <2>5
<1>2. CASE p \notin Visible(L)
  BY <1>2 DEF SetActivePage
<1> QED
  BY <1>1, <1>2

\* A new section has an id of its own, and no pages.
LEMMA AddNavigationSectionSound ==
  ASSUME NEW L, Sound(L), NEW id \in SectionNames, NEW placement \in Placements,
         SectionAt(L.sections, id) = 0
  PROVE  LET K == AddNavigationSection(L, id, placement) IN
         Sound(K) /\ Visible(K) = Visible(L) /\ K.panels = L.panels
<1> DEFINE new == [id |-> id, placement |-> placement, pages |-> <<>>]
           s == L.sections
<1>1. s \in Seq(Section) /\ Whole(s, Visible(L))
  BY SoundFacts
<1>2. <<>> \in Seq(Pages) /\ IsInjective(<<>>) /\ ToSet(<<>>) = {}
  <2>1. <<>> \in Seq(Pages) /\ ToSet(<<>>) = {}
    BY EmptySeq, ToSetSeq
  <2>2. IsInjective(<<>>)
    BY DEF IsInjective
  <2> QED
    BY <2>1, <2>2
<1>3. new \in Section /\ new.id = id /\ new.pages = <<>>
  BY <1>2 DEF Section
<1>4. \A k \in 1 .. Len(s) : s[k].id # id
  BY <1>1, SectionAtFinds
<1> HIDE DEF new, s
<1>5. /\ Whole(Append(s, new), Visible(L) \cup ToSet(new.pages))
      /\ Append(s, new) # <<>>
  BY <1>1, <1>2, <1>3, <1>4, WholeNew
<1>6. Whole(Append(s, new), Visible(L))
  <2>1. Visible(L) \cup ToSet(new.pages) = Visible(L)
    BY <1>2, <1>3
  <2> QED
    BY <1>5, <2>1, Zenon
<1> DEFINE t == Append(s, new)
           K == AddNavigationSection(L, id, placement)
<1>7. K = [L EXCEPT !.sections = t]
  BY DEF AddNavigationSection, s, new
<1> HIDE DEF t, K
<1>8. Sound(K) /\ Visible(K) = Visible(L) /\ K.panels = L.panels
  BY <1>5, <1>6, <1>7, SoundSections DEF t
<1> QED
  BY <1>8 DEF K

\* A section moves to the other end of the navigation.
LEMMA UpdateNavigationSectionSound ==
  ASSUME NEW L, Sound(L), NEW id, NEW placement \in Placements
  PROVE  LET K == UpdateNavigationSection(L, id, placement) IN
         Sound(K) /\ Visible(K) = Visible(L) /\ K.panels = L.panels
<1> DEFINE s == L.sections
           i == SectionAt(s, id)
           t == [s EXCEPT ![i].placement = placement]
<1>1. s \in Seq(Section) /\ Whole(s, Visible(L))
  BY SoundFacts
<1>2. i # 0 => i \in 1 .. Len(s)
  BY <1>1, SectionAtFinds
<1>3. UpdateNavigationSection(L, id, placement) =
        IF i = 0 THEN L ELSE [L EXCEPT !.sections = t]
  BY DEF UpdateNavigationSection
<1>4. i # 0 => Whole(t, Visible(L)) /\ t # <<>>
  <2> HIDE DEF s, i
  <2> QED
    BY <1>1, <1>2, WholePlace
<1> HIDE DEF t, i
<1> QED
  BY <1>3, <1>4, SoundSections

\* A section that is dragged goes beside the target.
LEMMA MoveNavigationSectionSound ==
  ASSUME NEW L, Sound(L), NEW source, NEW target, NEW after \in BOOLEAN
  PROVE  LET K == MoveNavigationSectionRelative(L, source, target, after) IN
         Sound(K) /\ Visible(K) = Visible(L) /\ K.panels = L.panels
<1> DEFINE s == L.sections
           V == Visible(L)
           i == SectionAt(s, source)
           j == SectionAt(s, target)
           moved == [s[i] EXCEPT !.placement = s[j].placement]
           rest == RemoveAt(s, i)
           k == SectionAt(rest, target)
           t == InsertAt(rest, Beside(k, after), moved)
           K == MoveNavigationSectionRelative(L, source, target, after)
<1>1. s \in Seq(Section) /\ Whole(s, V)
  BY SoundFacts
<1>2. K = IF source = target \/ i = 0 \/ j = 0 THEN L
          ELSE [L EXCEPT !.sections = t]
  BY DEF MoveNavigationSectionRelative
<1>3. ASSUME source # target, i # 0, j # 0
      PROVE  Whole(t, V) /\ t # <<>>
  <2>1. /\ i \in 1 .. Len(s) /\ s[i].id = source
        /\ j \in 1 .. Len(s) /\ s[j].id = target
    BY <1>1, <1>3, SectionAtFinds
  <2>2. i # j
    BY <1>3, <2>1
  <2> DEFINE P == ToSet(s[i].pages)
             W == V \ P
  <2>3. /\ Whole(rest, W)
        /\ \A m \in 1 .. Len(rest) : rest[m].id # s[i].id
        /\ \E m \in 1 .. Len(rest) : rest[m] = s[j]
    <3> HIDE DEF i, j, s, V
    <3>1. /\ Whole(rest, V \ ToSet(s[i].pages))
          /\ \A m \in 1 .. Len(rest) : rest[m].id # s[i].id
          /\ \A m \in 1 .. Len(s) :
               m # i => \E l \in 1 .. Len(rest) : rest[l] = s[m]
      BY <1>1, <2>1, WholeRemoveAt
    <3> QED
      BY <2>1, <2>2, <3>1
  <2>4. k \in 1 .. Len(rest)
    <3>1. rest \in Seq(Section)
      BY <2>3 DEF Whole
    <3>2. \E m \in 1 .. Len(rest) : rest[m].id = target
      BY <2>1, <2>3
    <3> HIDE DEF rest
    <3> QED
      BY <3>1, <3>2, SectionAtFinds
  <2>5. Beside(k, after) \in 1 .. Len(rest) + 1
    <3>1. Len(rest) \in Nat
      BY <2>3, LenProperties DEF Whole
    <3> HIDE DEF k, rest
    <3> QED
      BY <2>4, <3>1 DEF Beside
  <2>6. /\ moved \in Section /\ moved.id = s[i].id /\ moved.pages = s[i].pages
        /\ IsInjective(moved.pages) /\ P \subseteq V
    <3>1. /\ s[i] \in Section /\ s[j].placement \in Placements
          /\ IsInjective(s[i].pages) /\ P \subseteq V
      BY <1>1, <2>1, WholeSection
    <3> HIDE DEF s, i, j, V
    <3>2. /\ moved \in Section /\ moved.id = s[i].id /\ moved.pages = s[i].pages
      BY <3>1 DEF Section
    <3> QED
      BY <3>1, <3>2
  <2> HIDE DEF W, rest, moved, i, j, k, s, V
  <2>7. /\ Whole(t, W \cup ToSet(moved.pages))
        /\ t # <<>>
    <3>1. ToSet(moved.pages) \cap W = {}
      BY <2>6 DEF W
    <3>2. \A m \in 1 .. Len(rest) : rest[m].id # moved.id
      BY <2>3, <2>6
    <3> QED
      BY <2>3, <2>5, <2>6, <3>1, <3>2, WholeInsertAt
  <2>8. W \cup ToSet(moved.pages) = V
    BY <2>6 DEF W
  <2> QED
    BY <2>7, <2>8, Zenon
<1> HIDE DEF t, i, j, K
<1>4. Sound(K) /\ Visible(K) = Visible(L) /\ K.panels = L.panels
  BY <1>2, <1>3, SoundSections
<1> QED
  BY <1>4 DEF K

\* The pages of a removed section go to a peer, or to the first.
LEMMA RemoveNavigationSectionSound ==
  ASSUME NEW L, Sound(L), NEW id
  PROVE  LET K == RemoveNavigationSection(L, id) IN
         Sound(K) /\ Visible(K) = Visible(L) /\ K.panels = L.panels
<1> DEFINE s == L.sections
           V == Visible(L)
           i == SectionAt(s, id)
           rest == RemoveAt(s, i)
           peer == PlacedAt(rest, s[i].placement)
           f == IF peer # 0 THEN peer ELSE 1
           t == [rest EXCEPT ![f].pages = @ \o s[i].pages]
           K == RemoveNavigationSection(L, id)
<1>1. s \in Seq(Section) /\ Whole(s, V)
  BY SoundFacts
<1>2. K = IF Len(s) <= 1 \/ i = 0 THEN L ELSE [L EXCEPT !.sections = t]
  BY Zenon DEF RemoveNavigationSection
<1>3. ASSUME ~(Len(s) <= 1), i # 0
      PROVE  Whole(t, V) /\ t # <<>>
  <2>1. i \in 1 .. Len(s) /\ Len(s) \in Nat
    BY <1>1, <1>3, SectionAtFinds, LenProperties
  <2> DEFINE P == ToSet(s[i].pages)
             W == V \ P
             q == rest[f].pages \o s[i].pages
  <2>2. Whole(rest, W) /\ Len(rest) = Len(s) - 1
    <3> HIDE DEF i, s, V
    <3> QED
      BY <1>1, <2>1, WholeRemoveAt
  <2>3. rest \in Seq(Section)
    BY <2>2 DEF Whole
  <2>4. f \in 1 .. Len(rest)
    <3>1. peer \in 0 .. Len(rest)
      BY <2>3, PlacedAtFinds
    <3> HIDE DEF peer, rest, i
    <3> QED
      BY <1>3, <2>1, <2>2, <3>1
  <2>5. s[i].pages \in Seq(Pages) /\ IsInjective(s[i].pages) /\ P \subseteq V
    BY <1>1, <2>1, WholeSection
  <2> HIDE DEF W, rest, f, i, s, V
  <2>6. /\ rest[f].pages \in Seq(Pages) /\ IsInjective(rest[f].pages)
        /\ ToSet(rest[f].pages) \subseteq W
    BY <2>2, <2>4, WholeSection
  <2>7. /\ q \in Seq(Pages) /\ IsInjective(q)
        /\ ToSet(q) = ToSet(rest[f].pages) \cup P
    <3>1. ToSet(rest[f].pages) \cap P = {}
      BY <2>6 DEF W
    <3> QED
      BY <2>5, <2>6, <3>1, ConcatSet
  <2>8. t = [rest EXCEPT ![f].pages = q]
    OBVIOUS
  <2>9. /\ Whole([rest EXCEPT ![f].pages = q], W \cup P)
        /\ [rest EXCEPT ![f].pages = q] # <<>>
    <3>1. P \cap W = {}
      BY DEF W
    <3> HIDE DEF q, P
    <3> QED
      BY <2>2, <2>4, <2>7, <3>1, WholePut
  <2>10. W \cup P = V
    BY <2>5 DEF W
  <2> QED
    BY <2>8, <2>9, <2>10, Zenon
<1> HIDE DEF t, i, K, s
<1>4. Sound(K) /\ Visible(K) = Visible(L) /\ K.panels = L.panels
  BY <1>2, <1>3, SoundSections
<1> QED
  BY <1>4 DEF K

-----------------------------------------------------------------------------
(* The setters of pages *)

\* A page goes to the end of a section.
LEMMA UpdatePageSound ==
  ASSUME NEW L, Sound(L), NEW p, NEW section
  PROVE  LET K == UpdatePage(L, p, section) IN
         Sound(K) /\ Visible(K) = Visible(L) /\ K.panels = L.panels
<1> DEFINE s == L.sections
           V == Visible(L)
           i == SectionAt(s, section)
           u == Unassign(s, p)
           t == [u EXCEPT ![i].pages = Append(@, p)]
           K == UpdatePage(L, p, section)
<1>1. s \in Seq(Section) /\ Whole(s, V) /\ V \subseteq Pages
  BY SoundFacts
<1>2. K = IF i = 0 \/ p \notin V THEN L ELSE [L EXCEPT !.sections = t]
  BY DEF UpdatePage
<1>3. ASSUME i # 0, p \in V
      PROVE  Whole(t, V) /\ t # <<>>
  <2>1. i \in 1 .. Len(s)
    BY <1>1, <1>3, SectionAtFinds
  <2> HIDE DEF i, s, V
  <2>2. Whole(u, V \ {p}) /\ Len(u) = Len(s)
    BY <1>1, WholeUnassign
  <2> HIDE DEF u
  <2>3. i \in 1 .. Len(u) /\ p \in Pages /\ p \notin V \ {p}
    BY <1>1, <1>3, <2>1, <2>2
  <2> DEFINE W == V \ {p}
  <2> HIDE DEF W
  <2>4. Whole(t, W \cup {p}) /\ t # <<>>
    BY <2>2, <2>3, WholeAppend DEF W
  <2>5. W \cup {p} = V
    BY <1>3 DEF W
  <2> QED
    BY <2>4, <2>5, Zenon
<1> HIDE DEF t, i, K
<1>4. Sound(K) /\ Visible(K) = Visible(L) /\ K.panels = L.panels
  BY <1>2, <1>3, SoundSections
<1> QED
  BY <1>4 DEF K

\* A page that is dragged goes beside the target, in its section.
LEMMA MovePageSound ==
  ASSUME NEW L, Sound(L), NEW source, NEW target, NEW after \in BOOLEAN
  PROVE  LET K == MovePageRelative(L, source, target, after) IN
         Sound(K) /\ Visible(K) = Visible(L) /\ K.panels = L.panels
<1> DEFINE s == L.sections
           V == Visible(L)
           j == SectionOf(s, target)
           u == Unassign(s, source)
           at == SelectInSeq(u[j].pages, LAMBDA p : p = target)
           t == [u EXCEPT ![j].pages = InsertAt(@, Beside(at, after), source)]
           K == MovePageRelative(L, source, target, after)
<1>1. s \in Seq(Section) /\ Whole(s, V) /\ V \subseteq Pages
  BY SoundFacts
<1>2. K = IF source = target \/ ~({source, target} \subseteq V) \/ j = 0 THEN L
          ELSE [L EXCEPT !.sections = t]
  BY DEF MovePageRelative
<1>3. ASSUME source # target, {source, target} \subseteq V, j # 0
      PROVE  Whole(t, V) /\ t # <<>>
  <2>1. j \in 1 .. Len(s) /\ target \in ToSet(s[j].pages)
    BY <1>1, <1>3, SectionOfFinds
  <2> HIDE DEF j, s, V
  <2> DEFINE W == V \ {source}
             X == {source}
             g == u[j].pages
             q == InsertAt(g, Beside(at, after), source)
  <2>2. /\ Whole(u, W) /\ Len(u) = Len(s)
        /\ ToSet(g) = ToSet(s[j].pages) \ {source}
    BY <1>1, <2>1, WholeUnassign
  <2>3. j \in 1 .. Len(u)
    BY <2>1, <2>2
  <2>4. /\ g \in Seq(Pages) /\ IsInjective(g)
        /\ ToSet(g) \subseteq W
    BY <2>2, <2>3, WholeSection
  <2>5. target \in ToSet(g) /\ source \notin ToSet(g)
    BY <1>3, <2>1, <2>2
  <2>6. at \in 1 .. Len(g)
    <3>1. at = Position(g, target)
      BY DEF Position
    <3> HIDE DEF g, at
    <3> QED
      BY <2>4, <2>5, <3>1, PositionFinds
  <2>7. Beside(at, after) \in 1 .. Len(g) + 1
    <3>1. Len(g) \in Nat
      BY <2>4, LenProperties
    <3> HIDE DEF at, g
    <3> QED
      BY <2>6, <3>1 DEF Beside
  <2>8. t = [u EXCEPT ![j].pages = q]
    BY Zenon
  <2> HIDE DEF at, u, g
  <2>9. q \in Seq(Pages) /\ ToSet(q) = ToSet(g) \cup X /\ IsInjective(q)
    BY <1>1, <1>3, <2>4, <2>5, <2>7, InsertAtSet
  <2>10. X \cap W = {} /\ W \cup X = V
    BY <1>3
  <2> HIDE DEF q, X, W, t
  <2>11. /\ Whole([u EXCEPT ![j].pages = q], W \cup X)
         /\ [u EXCEPT ![j].pages = q] # <<>>
    BY <2>2, <2>3, <2>9, <2>10, WholePut DEF g
  <2> QED
    BY <2>8, <2>10, <2>11, Zenon
<1> HIDE DEF t, j, K
<1>4. Sound(K) /\ Visible(K) = Visible(L) /\ K.panels = L.panels
  BY <1>2, <1>3, SoundSections
<1> QED
  BY <1>4 DEF K

\* A new page is the last of its section.
LEMMA AddPageSound ==
  ASSUME NEW L, Sound(L), NEW p \in NewPages, p \notin Visible(L), NEW section
  PROVE  LET K == AddPage(L, p, section) IN
         Sound(K) /\ Visible(L) \subseteq Visible(K) /\ K.panels = L.panels
<1> DEFINE s == L.sections
           V == Visible(L)
           i == SectionAt(s, section)
           c == Append(L.customPages, p)
           t == [s EXCEPT ![i].pages = Append(@, p)]
           K == [L EXCEPT !.customPages = c, !.sections = t]
           A == AddPage(L, p, section)
<1>1. /\ s \in Seq(Section) /\ Whole(s, V) /\ V \subseteq Pages
      /\ L \in Layouts /\ p \in Pages
      /\ V = (ToSet(DefaultPages) \ ToSet(L.hiddenPages)) \cup ToSet(L.customPages)
  BY SoundFacts, DefaultFacts
<1>2. A = IF i = 0 THEN L ELSE K
  BY DEF AddPage
<1>3. ASSUME i # 0
      PROVE  Sound(K) /\ V \subseteq Visible(K) /\ K.panels = L.panels
  <2>1. i \in 1 .. Len(s)
    BY <1>1, <1>3, SectionAtFinds
  <2>2. Whole(t, V \cup {p}) /\ t # <<>>
    <3> HIDE DEF s, i, V
    <3> QED
      BY <1>1, <2>1, WholeAppend DEF V
  <2>3. L.customPages \in Seq(NewPages) /\ IsInjective(L.customPages)
    BY <1>1, LayoutFields DEF Sound
  <2>4. /\ c \in Seq(NewPages)
        /\ ToSet(c) = ToSet(L.customPages) \cup {p}
        /\ IsInjective(c)
    BY <1>1, <2>3, AppendSet
  <2>5. t \in Seq(Section)
    BY <2>2 DEF Whole
  <2> HIDE DEF t, c
  <2>6. /\ K \in Layouts /\ K.sections = t /\ K.hiddenPages = L.hiddenPages
        /\ K.customPages = c /\ K.panels = L.panels
        /\ K.order = L.order /\ K.active = L.active
    BY <1>1, <2>4, <2>5 DEF Layouts
  <2> HIDE DEF K
  <2>7. Visible(K) = V \cup {p}
    <3>1. K.hiddenPages \in Seq(ToSet(DefaultPages))
      BY <2>6, LayoutFields
    <3>2. Visible(K) = (ToSet(DefaultPages) \ ToSet(K.hiddenPages))
                         \cup ToSet(K.customPages)
      BY <2>4, <2>6, <3>1, ItemsFacts
    <3> QED
      BY <1>1, <2>4, <2>6, <3>2
  <2>8. /\ IsInjective(L.hiddenPages) /\ IsInjective(L.order)
        /\ L.active \in V /\ Protected \subseteq V
    BY DEF Sound
  <2>9. L.active \in Visible(K) /\ Protected \subseteq Visible(K)
    BY <2>7, <2>8
  <2>10. Whole(t, Visible(K))
    BY <2>2, <2>7, Zenon
  <2>11. Sound(K)
    BY <2>2, <2>4, <2>6, <2>8, <2>9, <2>10, Zenon DEF Sound
  <2> QED
    BY <2>6, <2>7, <2>11
<1> HIDE DEF i, K, A
<1>4. Sound(A) /\ Visible(L) \subseteq Visible(A) /\ A.panels = L.panels
  BY <1>2, <1>3
<1> QED
  BY <1>4 DEF A

\* A page besides p is found when there are two.
LEMMA FallbackPageFinds ==
  ASSUME NEW L, Sound(L), NEW p, ~(Len(Items(L)) <= 1)
  PROVE  FallbackPage(L, p) \in Visible(L) \ {p}
<1> DEFINE s == Items(L)
           n == Len(s)
           C == ChartPages \cup ToSet(L.customPages)
           I == {k \in 1 .. n : s[k] # p /\ s[k] \in C}
           J == {k \in 1 .. n : s[k] # p}
           i == SelectInSeq(s, LAMBDA q : q # p /\ q \in C)
           j == SelectInSeq(s, LAMBDA q : q # p)
<1>1. s \in Seq(Pages) /\ IsInjective(s) /\ ToSet(s) = Visible(L) /\ n \in Nat \ {0}
  BY SoundFacts
<1>2. FallbackPage(L, p) = IF i # 0 THEN s[i] ELSE s[j]
  BY DEF FallbackPage
<1>3. i = IF I # {} THEN Min(I) ELSE 0
  BY DEF SelectInSeq
<1>4. j = IF J # {} THEN Min(J) ELSE 0
  BY DEF SelectInSeq
<1>5. J # {}
  <2>1. 1 \in 1 .. n /\ 2 \in 1 .. n /\ 1 # 2
    BY <1>1
  <2>2. s[1] # s[2]
    BY <1>1, <2>1, InjectiveSeq
  <2>3. s[1] # p \/ s[2] # p
    BY <2>2
  <2> QED
    BY <2>1, <2>3
<1>6. I \subseteq 1 .. n /\ J \subseteq 1 .. n
  OBVIOUS
<1> HIDE DEF i, j
<1>7. i # 0 => i \in I
  <2> HIDE DEF I
  <2> QED
    BY <1>1, <1>3, <1>6, FirstPosition
<1>8. j \in J
  <2> HIDE DEF J
  <2> QED
    BY <1>1, <1>4, <1>5, <1>6, FirstPosition
<1>9. \A k \in 1 .. n : s[k] # p => s[k] \in Visible(L) \ {p}
  <2>1. \A k \in 1 .. n : s[k] \in ToSet(s)
    BY <1>1, ToSetSeq
  <2> QED
    BY <1>1, <2>1
<1> QED
  BY <1>2, <1>7, <1>8, <1>9

\* What becomes of the panels of a removed page.
LEMMA MovedPanelsFacts ==
  ASSUME NEW panels \in PanelMaps, NEW p, NEW f \in Pages
  PROVE  /\ MovedPanels(panels, p, f) \in PanelMaps
         /\ DOMAIN MovedPanels(panels, p, f) = DOMAIN panels
         /\ \A id \in DOMAIN panels :
              MovedPanels(panels, p, f)[id].page =
                IF panels[id].page = p THEN f ELSE panels[id].page
<1> DEFINE K == MovedPanels(panels, p, f)
           M(id) == IF panels[id].page = p THEN [panels[id] EXCEPT !.page = f]
                    ELSE panels[id]
<1>1. PICK D \in SUBSET Panels : IsFiniteSet(D) /\ panels \in [D -> Panel]
  BY DEF PanelMaps
<1>2. K = [id \in D |-> M(id)]
  BY <1>1 DEF MovedPanels
<1>3. ASSUME NEW id \in D
      PROVE  /\ M(id) \in Panel
             /\ M(id).page = IF panels[id].page = p THEN f ELSE panels[id].page
  <2>1. panels[id] \in Panel
    BY <1>1
  <2> DEFINE e == panels[id]
  <2> HIDE DEF e
  <2>2. [e EXCEPT !.page = f] \in Panel /\ [e EXCEPT !.page = f].page = f
    BY <2>1 DEF Panel, e
  <2> QED
    BY <2>1, <2>2 DEF e
<1> HIDE DEF M
<1>4. K \in [D -> Panel] /\ DOMAIN K = D /\ \A id \in D : K[id] = M(id)
  BY <1>2, <1>3
<1> HIDE DEF K
<1>5. K \in PanelMaps
  BY <1>1, <1>4 DEF PanelMaps
<1>6. DOMAIN panels = D
  BY <1>1
<1> QED
  BY <1>3, <1>4, <1>5, <1>6 DEF K

\* A removed page is in no section, and its panels are on another page.
LEMMA RemovePageSound ==
  ASSUME NEW L, Sound(L), NEW p, NEW M, OnPages(L, M)
  PROVE  LET K == RemovePage(L, p) IN
         Sound(K) /\ OnPages(K, M) /\ DOMAIN K.panels = DOMAIN L.panels
<1> DEFINE A == RemovePage(L, p)
           V == Visible(L)
           f == FallbackPage(L, p)
           c == Without(L.customPages, p)
           h == IF Contains(L.customPages, p) \/ Contains(L.hiddenPages, p)
                THEN L.hiddenPages ELSE Append(L.hiddenPages, p)
           t == Unassign(L.sections, p)
           b == MovedPanels(L.panels, p, f)
           a == IF L.active = p THEN f ELSE L.active
           K == [L EXCEPT !.customPages = c, !.hiddenPages = h, !.sections = t,
                          !.panels = b, !.active = a]
<1>1. /\ L.sections \in Seq(Section) /\ Whole(L.sections, V) /\ V \subseteq Pages
      /\ L \in Layouts /\ L.sections # <<>>
      /\ V = (ToSet(DefaultPages) \ ToSet(L.hiddenPages)) \cup ToSet(L.customPages)
  BY SoundFacts
<1>2. /\ L.hiddenPages \in Seq(ToSet(DefaultPages))
      /\ L.customPages \in Seq(NewPages) /\ L.panels \in PanelMaps
      /\ L.panels \in [DOMAIN L.panels -> Panel]
      /\ L.active \in Pages /\ L.order \in Seq(Panels) /\ L.hidden \subseteq Panels
  BY <1>1, LayoutFields
<1>3. /\ IsInjective(L.hiddenPages) /\ IsInjective(L.customPages)
      /\ IsInjective(L.order) /\ L.active \in V /\ Protected \subseteq V
  BY DEF Sound
<1>4. A = IF p \in Protected \/ p \notin V \/ Len(Items(L)) <= 1 THEN L ELSE K
  BY DEF RemovePage
<1>5. ASSUME p \notin Protected, p \in V, ~(Len(Items(L)) <= 1)
      PROVE  Sound(K) /\ OnPages(K, M) /\ DOMAIN K.panels = DOMAIN L.panels
  <2>1. f \in V \ {p} /\ f \in Pages
    BY <1>1, <1>5, FallbackPageFinds
  <2>2. Whole(t, V \ {p}) /\ t # <<>>
    BY <1>1, WholeUnassign
  <2>3. t \in Seq(Section)
    BY <2>2 DEF Whole
  <2>4. /\ c \in Seq(NewPages) /\ ToSet(c) = ToSet(L.customPages) \ {p}
        /\ IsInjective(c)
    BY <1>2, <1>3, WithoutResult
  <2>5. /\ Contains(L.customPages, p) <=> p \in ToSet(L.customPages)
        /\ Contains(L.hiddenPages, p) <=> p \in ToSet(L.hiddenPages)
    <3>1. p \in ToSet(L.customPages) <=>
            \E i \in 1 .. Len(L.customPages) : L.customPages[i] = p
      BY <1>2, ToSetSeq
    <3>2. p \in ToSet(L.hiddenPages) <=>
            \E i \in 1 .. Len(L.hiddenPages) : L.hiddenPages[i] = p
      BY <1>2, ToSetSeq
    <3> QED
      BY <3>1, <3>2, Zenon DEF Contains
  <2>6. ToSet(L.customPages) \subseteq NewPages
    BY <1>2, ToSetSeq
  <2>7. /\ h \in Seq(ToSet(DefaultPages)) /\ IsInjective(h)
        /\ (ToSet(DefaultPages) \ ToSet(h)) \cup ToSet(c) = V \ {p}
    <3>1. CASE p \in ToSet(L.customPages)
      <4>1. h = L.hiddenPages /\ p \notin ToSet(DefaultPages)
        BY <2>5, <2>6, <3>1, DefaultFacts
      <4> QED
        BY <1>1, <1>2, <1>3, <2>4, <4>1
    <3>2. CASE p \notin ToSet(L.customPages)
      <4>1. p \in ToSet(DefaultPages) /\ p \notin ToSet(L.hiddenPages)
        BY <1>1, <1>5, <3>2
      <4>2. h = Append(L.hiddenPages, p)
        BY <2>5, <3>2, <4>1
      <4> DEFINE g == L.hiddenPages
      <4> HIDE DEF h
      <4>3. /\ h \in Seq(ToSet(DefaultPages))
            /\ ToSet(h) = ToSet(g) \cup {p} /\ IsInjective(h)
        <5> HIDE DEF g
        <5>1. g \in Seq(ToSet(DefaultPages)) /\ IsInjective(g) /\ h = Append(g, p)
              /\ p \notin ToSet(g)
          BY <1>2, <1>3, <4>1, <4>2 DEF g
        <5> QED
          BY <4>1, <5>1, AppendSet
      <4> QED
        BY <1>1, <2>4, <3>2, <4>3
    <3> QED
      BY <3>1, <3>2
  <2>8. /\ b \in PanelMaps /\ DOMAIN b = DOMAIN L.panels
        /\ \A id \in DOMAIN L.panels :
             b[id].page = IF L.panels[id].page = p THEN f ELSE L.panels[id].page
    BY <1>2, <2>1, MovedPanelsFacts
  <2>9. a \in V \ {p} /\ a \in Pages
    BY <1>1, <1>3, <2>1
  <2> HIDE DEF c, h, t, b, a, f
  <2>10. /\ K \in Layouts /\ K.sections = t /\ K.hiddenPages = h
         /\ K.customPages = c /\ K.panels = b
         /\ K.order = L.order /\ K.active = a
    BY <1>1, <2>3, <2>4, <2>7, <2>8, <2>9 DEF Layouts
  <2> HIDE DEF K
  <2>11. Visible(K) = V \ {p}
    <3>1. Visible(K) = (ToSet(DefaultPages) \ ToSet(K.hiddenPages))
                         \cup ToSet(K.customPages)
      BY <2>4, <2>7, <2>10, ItemsFacts
    <3> QED
      BY <2>7, <2>10, <3>1
  <2>12. K.active \in Visible(K) /\ Protected \subseteq Visible(K)
    BY <1>3, <1>5, <2>9, <2>10, <2>11
  <2>13. Whole(t, Visible(K))
    BY <2>2, <2>11, Zenon
  <2>14. Sound(K)
    BY <1>3, <2>2, <2>4, <2>7, <2>10, <2>12, <2>13, Zenon DEF Sound
  <2>15. OnPages(K, M)
    <3> SUFFICES ASSUME NEW id \in DOMAIN K.panels \ M
                 PROVE  K.panels[id].page \in Visible(K)
      BY DEF OnPages
    <3>1. id \in DOMAIN L.panels /\ L.panels[id].page \in V
      BY <2>8, <2>10 DEF OnPages
    <3> QED
      BY <2>1, <2>8, <2>10, <2>11, <3>1
  <2> QED
    BY <2>8, <2>10, <2>14, <2>15
<1> HIDE DEF K, A
<1>6. Sound(A) /\ OnPages(A, M) /\ DOMAIN A.panels = DOMAIN L.panels
  BY <1>4, <1>5
<1> QED
  BY <1>6 DEF A

-----------------------------------------------------------------------------
(* The setters of panels *)

\* Showing and hiding a panel.
LEMMA SetVisibleSound ==
  ASSUME NEW L, Sound(L), NEW id \in Panels, NEW visible \in BOOLEAN
  PROVE  LET K == SetVisible(L, id, visible) IN
         Sound(K) /\ Visible(K) = Visible(L) /\ K.panels = L.panels
<1> DEFINE h == IF visible THEN L.hidden \ {id} ELSE L.hidden \cup {id}
           K == SetVisible(L, id, visible)
<1>1. L \in Layouts /\ IsInjective(L.order) /\ L.hidden \subseteq Panels
  BY LayoutFields DEF Sound
<1>2. h \in SUBSET Panels
  BY <1>1
<1>3. K = [L EXCEPT !.hidden = h]
  BY DEF SetVisible
<1> HIDE DEF K, h
<1>4. /\ K \in Layouts /\ K.sections = L.sections
      /\ K.hiddenPages = L.hiddenPages /\ K.customPages = L.customPages
      /\ K.panels = L.panels /\ K.order = L.order /\ K.active = L.active
  BY <1>1, <1>2, <1>3 DEF Layouts
<1>5. Sound(K) /\ Visible(K) = Visible(L)
  BY <1>1, <1>4, SoundPanels
<1> QED
  BY <1>4, <1>5 DEF K

\* Other orders of the panels.
LEMMA SoundOrder ==
  ASSUME NEW L, Sound(L), NEW order \in Seq(Panels), IsInjective(order)
  PROVE  LET K == [L EXCEPT !.order = order] IN
         Sound(K) /\ Visible(K) = Visible(L) /\ K.panels = L.panels
<1> DEFINE K == [L EXCEPT !.order = order]
<1>1. L \in Layouts
  BY DEF Sound
<1>2. /\ K \in Layouts /\ K.sections = L.sections
      /\ K.hiddenPages = L.hiddenPages /\ K.customPages = L.customPages
      /\ K.panels = L.panels /\ K.order = order /\ K.active = L.active
  BY <1>1 DEF Layouts
<1> HIDE DEF K
<1>3. Sound(K) /\ Visible(K) = Visible(L)
  BY <1>2, SoundPanels
<1> QED
  BY <1>2, <1>3 DEF K

\* Exchanging two elements repeats none.
LEMMA SwapInjective ==
  ASSUME NEW S, NEW s \in Seq(S), IsInjective(s),
         NEW i \in 1 .. Len(s), NEW j \in 1 .. Len(s), NEW e, e = s[i]
  PROVE  LET t == [s EXCEPT ![i] = s[j], ![j] = e] IN
         t \in Seq(S) /\ IsInjective(t)
<1> DEFINE n == Len(s)
           t == [s EXCEPT ![i] = s[j], ![j] = e]
           g == [k \in 1 .. n |-> IF k = j THEN i ELSE IF k = i THEN j ELSE k]
<1>1. n \in Nat /\ s \in [1 .. n -> S] /\ DOMAIN s = 1 .. n
  BY LenProperties
<1>2. g \in [1 .. n -> 1 .. n] /\ \A k, l \in 1 .. n : g[k] = g[l] => k = l
  OBVIOUS
<1>3. \A k \in 1 .. n : t[k] = s[g[k]]
  BY <1>1
<1>4. t \in [1 .. n -> S]
  BY <1>1
<1>5. t \in Seq(S) /\ Len(t) = n
  BY <1>1, <1>4, LenProperties
<1> HIDE DEF t, g
<1>6. \A k, l \in 1 .. n : t[k] = t[l] => k = l
  <2> TAKE k, l \in 1 .. n
  <2>1. t[k] = s[g[k]] /\ t[l] = s[g[l]] /\ g[k] \in 1 .. n /\ g[l] \in 1 .. n
    BY <1>2, <1>3
  <2>2. t[k] = t[l] => g[k] = g[l]
    BY <2>1, InjectiveSeq
  <2> QED
    BY <1>2, <2>2
<1>7. IsInjective(t)
  BY <1>5, <1>6, InjectiveSeq
<1> QED
  BY <1>5, <1>7 DEF t

\* A panel changes places with its neighbour.
LEMMA MoveSound ==
  ASSUME NEW L, Sound(L), NEW id, NEW direction \in {-1, 1}
  PROVE  LET K == Move(L, id, direction) IN
         Sound(K) /\ Visible(K) = Visible(L) /\ K.panels = L.panels
<1> DEFINE s == L.order
           i == SelectInSeq(s, LAMBDA q : q = id)
           j == i + direction
           t == [s EXCEPT ![i] = s[j], ![j] = id]
           K == Move(L, id, direction)
<1>1. s \in Seq(Panels) /\ IsInjective(s)
  BY LayoutFields DEF Sound
<1>2. K = IF i = 0 \/ j \notin DOMAIN s THEN L ELSE [L EXCEPT !.order = t]
  BY DEF Move
<1>3. i = Position(s, id)
  BY DEF Position
<1> HIDE DEF i, j, s
<1>4. ASSUME i # 0, j \in DOMAIN s
      PROVE  t \in Seq(Panels) /\ IsInjective(t)
  <2>1. i \in 1 .. Len(s) /\ id = s[i]
    BY <1>1, <1>3, <1>4, PositionFinds
  <2>2. j \in 1 .. Len(s)
    BY <1>1, <1>4, LenProperties
  <2> QED
    BY <1>1, <2>1, <2>2, SwapInjective
<1> HIDE DEF t, K
<1>5. Sound(K) /\ Visible(K) = Visible(L) /\ K.panels = L.panels
  BY <1>2, <1>4, SoundOrder
<1> QED
  BY <1>5 DEF K

\* A finite set can be listed.
LEMMA Listing ==
  ASSUME NEW S, IsFiniteSet(S)
  PROVE  /\ SetToSeq(S) \in Seq(S)
         /\ IsInjective(SetToSeq(S))
         /\ ToSet(SetToSeq(S)) \subseteq S
<1> DEFINE n == Cardinality(S)
<1>1. n \in Nat /\ ExistsBijection(1 .. n, S)
  BY FS_CardinalityType
<1>2. \E f \in [1 .. n -> S] : IsInjective(f)
  BY <1>1 DEF ExistsBijection, Bijection, Injection
<1>3. SetToSeq(S) \in [1 .. n -> S] /\ IsInjective(SetToSeq(S))
  BY <1>2, Zenon DEF SetToSeq
<1>4. SetToSeq(S) \in Seq(S)
  BY <1>1, <1>3
<1> QED
  BY <1>3, <1>4, ToSetSeq

\* The ids of the definition's panels are finitely many.
LEMMA BuiltInFinite ==
  /\ IsFiniteSet(BuiltInIds)
  /\ BuiltInIds \subseteq Panels
  /\ [i \in DOMAIN BuiltIn |-> BuiltIn[i].id] \in Seq(Panels)
  /\ IsInjective([i \in DOMAIN BuiltIn |-> BuiltIn[i].id])
<1> DEFINE n == Len(BuiltIn)
           f == [i \in DOMAIN BuiltIn |-> BuiltIn[i].id]
<1>1. BuiltIn \in Seq(PanelDefinition) /\ IsInjective(f)
  BY LayoutAssumption
<1>2. n \in Nat /\ DOMAIN BuiltIn = 1 .. n
  BY <1>1, LenProperties
<1>3. f \in [1 .. n -> BuiltInIds] /\ \A x \in BuiltInIds : \E i \in 1 .. n : f[i] = x
  BY <1>2 DEF BuiltInIds
<1>4. f \in Surjection(1 .. n, BuiltInIds)
  <2> HIDE DEF f
  <2> QED
    BY <1>3 DEF Surjection
<1>5. IsFiniteSet(1 .. n)
  BY <1>2, FS_Interval
<1>6. IsFiniteSet(BuiltInIds)
  BY <1>4, <1>5, FS_Surjection
<1>7. BuiltInIds \subseteq Panels
  BY DEF Panels
<1>8. f \in Seq(Panels)
  <2> HIDE DEF f
  <2>1. f \in [1 .. n -> Panels]
    BY <1>3, <1>7
  <2> QED
    BY <1>2, <2>1
<1> QED
  BY <1>1, <1>6, <1>7, <1>8

\* A panel that is dragged goes before the target.
LEMMA MoveBeforeSound ==
  ASSUME NEW L, Sound(L), NEW source \in Panels, NEW target
  PROVE  LET K == MoveBefore(L, source, target) IN
         Sound(K) /\ Visible(K) = Visible(L) /\ K.panels = L.panels
<1> DEFINE known == BuiltInIds \cup DOMAIN L.panels
           lacking == known \ ToSet(L.order)
           missing == SetToSeq(lacking)
           there == Only(L.order, known)
           order == there \o missing
           rest == Without(order, source)
           at == SelectInSeq(rest, LAMBDA q : q = target)
           t == InsertAt(rest, at, source)
           K == MoveBefore(L, source, target)
<1>1. /\ L.order \in Seq(Panels) /\ IsInjective(L.order)
      /\ IsFiniteSet(DOMAIN L.panels) /\ DOMAIN L.panels \subseteq Panels
  BY LayoutFields DEF Sound
<1>2. K = IF source = target \/ ~Contains(order, source) \/ ~Contains(order, target)
          THEN L ELSE [L EXCEPT !.order = t]
  BY DEF MoveBefore
<1>3. IsFiniteSet(lacking) /\ lacking \subseteq Panels
  <2>1. IsFiniteSet(known)
    BY <1>1, BuiltInFinite, FS_Union
  <2>2. lacking \in SUBSET known
    OBVIOUS
  <2>3. IsFiniteSet(lacking)
    <3> HIDE DEF known, lacking
    <3> QED
      BY <2>1, <2>2, FS_Subset
  <2> QED
    BY <1>1, <2>3, BuiltInFinite
<1>4. /\ missing \in Seq(Panels) /\ IsInjective(missing)
      /\ ToSet(missing) \subseteq lacking
  <2> HIDE DEF lacking
  <2>1. /\ missing \in Seq(lacking) /\ IsInjective(missing)
        /\ ToSet(missing) \subseteq lacking
    BY <1>3, Listing
  <2>2. missing \in Seq(Panels)
    BY <1>3, <2>1, SeqMonotonic
  <2> QED
    BY <2>1, <2>2
<1>5. /\ there \in Seq(Panels) /\ IsInjective(there)
      /\ ToSet(there) \cap ToSet(missing) = {}
  <2>1. /\ there \in Seq(Panels) /\ IsInjective(there)
        /\ ToSet(there) = ToSet(L.order) \cap known
    BY <1>1, OnlyResult
  <2> HIDE DEF missing, there
  <2> QED
    BY <1>4, <2>1
<1>6. order \in Seq(Panels) /\ IsInjective(order)
  <2> HIDE DEF missing, there
  <2> QED
    BY <1>4, <1>5, ConcatSet
<1> HIDE DEF order
<1>7. /\ rest \in Seq(Panels) /\ IsInjective(rest)
      /\ ToSet(rest) = ToSet(order) \ {source}
  BY <1>6, WithoutResult
<1>8. ASSUME source # target, Contains(order, target)
      PROVE  t \in Seq(Panels) /\ IsInjective(t)
  <2>1. target \in ToSet(order)
    <3>1. PICK k \in 1 .. Len(order) : order[k] = target
      BY <1>8, Zenon DEF Contains
    <3> QED
      BY <1>6, <3>1, ToSetSeq
  <2>2. target \in ToSet(rest) /\ source \notin ToSet(rest)
    BY <1>7, <1>8, <2>1
  <2>3. at = Position(rest, target)
    BY DEF Position
  <2> HIDE DEF at, rest
  <2>4. at \in 1 .. Len(rest)
    BY <1>7, <2>2, <2>3, PositionFinds
  <2>5. at \in 1 .. Len(rest) + 1
    BY <1>7, <2>4, LenProperties
  <2> QED
    BY <1>7, <2>2, <2>5, InsertAtSet
<1> HIDE DEF t, K
<1>9. Sound(K) /\ Visible(K) = Visible(L) /\ K.panels = L.panels
  BY <1>2, <1>8, SoundOrder
<1> QED
  BY <1>9 DEF K

\* A panel is saved, a new one or not.
LEMMA SaveCustomPanelSound ==
  ASSUME NEW L, Sound(L), NEW id \in Panels, NEW panel \in Panel
  PROVE  LET K == SaveCustomPanel(L, id, panel) IN
         /\ Sound(K) /\ Visible(K) = Visible(L)
         /\ DOMAIN K.panels = DOMAIN L.panels \cup {id}
         /\ K.panels[id] = panel
         /\ \A x \in DOMAIN L.panels \ {id} : K.panels[x] = L.panels[x]
<1> DEFINE D == DOMAIN L.panels
           E == D \cup {id}
           b == [q \in E |-> IF q = id THEN panel ELSE L.panels[q]]
           o == IF id \in D \/ Contains(L.order, id) THEN L.order
                ELSE Append(L.order, id)
           K == SaveCustomPanel(L, id, panel)
<1>1. /\ L \in Layouts /\ IsInjective(L.order) /\ L.order \in Seq(Panels)
      /\ IsFiniteSet(D) /\ D \subseteq Panels /\ L.panels \in [D -> Panel]
  BY LayoutFields DEF Sound
<1>2. K = [L EXCEPT !.panels = b, !.order = o]
  BY DEF SaveCustomPanel
<1> HIDE DEF D
<1>3. b \in [E -> Panel] /\ IsFiniteSet(E) /\ E \subseteq Panels
  BY <1>1, FS_AddElement
<1>4. /\ DOMAIN b = E /\ b[id] = panel
      /\ \A x \in D \ {id} : b[x] = L.panels[x]
  OBVIOUS
<1>5. o \in Seq(Panels) /\ IsInjective(o)
  <2>1. Contains(L.order, id) <=> id \in ToSet(L.order)
    <3>1. id \in ToSet(L.order) <=>
            \E k \in 1 .. Len(L.order) : L.order[k] = id
      BY <1>1, ToSetSeq
    <3> QED
      BY <3>1, Zenon DEF Contains
  <2> QED
    BY <1>1, <2>1, AppendSet
<1> HIDE DEF K, b, o
<1>6. b \in PanelMaps
  <2> HIDE DEF E
  <2> QED
    BY <1>3 DEF PanelMaps
<1>7. /\ K \in Layouts /\ K.sections = L.sections
      /\ K.hiddenPages = L.hiddenPages /\ K.customPages = L.customPages
      /\ K.panels = b /\ K.order = o /\ K.active = L.active
  BY <1>1, <1>2, <1>5, <1>6 DEF Layouts
<1>8. Sound(K) /\ Visible(K) = Visible(L)
  BY <1>5, <1>7, SoundPanels
<1>9. /\ DOMAIN K.panels = E /\ K.panels[id] = panel
      /\ \A x \in D \ {id} : K.panels[x] = L.panels[x]
  BY <1>4, <1>7
<1> QED
  BY <1>8, <1>9 DEF K, D

\* A panel is deleted.
LEMMA RemoveCustomPanelSound ==
  ASSUME NEW L, Sound(L), NEW id
  PROVE  LET K == RemoveCustomPanel(L, id) IN
         /\ Sound(K) /\ Visible(K) = Visible(L)
         /\ DOMAIN K.panels = DOMAIN L.panels \ {id}
         /\ \A x \in DOMAIN L.panels \ {id} : K.panels[x] = L.panels[x]
<1> DEFINE D == DOMAIN L.panels
           E == D \ {id}
           b == [q \in E |-> L.panels[q]]
           o == Without(L.order, id)
           h == L.hidden \ {id}
           K == RemoveCustomPanel(L, id)
<1>1. /\ L \in Layouts /\ IsInjective(L.order) /\ L.order \in Seq(Panels)
      /\ IsFiniteSet(D) /\ D \subseteq Panels /\ L.panels \in [D -> Panel]
      /\ L.hidden \subseteq Panels
  BY LayoutFields DEF Sound
<1>2. K = [L EXCEPT !.panels = b, !.order = o, !.hidden = h]
  BY DEF RemoveCustomPanel
<1> HIDE DEF D
<1>3. b \in [E -> Panel] /\ IsFiniteSet(E) /\ E \subseteq Panels
  BY <1>1, FS_RemoveElement
<1>4. DOMAIN b = E /\ \A x \in D \ {id} : b[x] = L.panels[x]
  OBVIOUS
<1>5. o \in Seq(Panels) /\ IsInjective(o) /\ h \in SUBSET Panels
  BY <1>1, WithoutResult
<1> HIDE DEF K, b, o, h
<1>6. b \in PanelMaps
  <2> HIDE DEF E
  <2> QED
    BY <1>3 DEF PanelMaps
<1>7. /\ K \in Layouts /\ K.sections = L.sections
      /\ K.hiddenPages = L.hiddenPages /\ K.customPages = L.customPages
      /\ K.panels = b /\ K.order = o /\ K.active = L.active
  BY <1>1, <1>2, <1>5, <1>6 DEF Layouts
<1>8. Sound(K) /\ Visible(K) = Visible(L)
  BY <1>5, <1>7, SoundPanels
<1>9. DOMAIN K.panels = E /\ \A x \in D \ {id} : K.panels[x] = L.panels[x]
  BY <1>4, <1>7
<1> QED
  BY <1>8, <1>9 DEF K, D

-----------------------------------------------------------------------------
(* The defaults, and normalize *)

\* Without any panel.
LEMMA NoPanels == <<>> \in PanelMaps /\ DOMAIN <<>> = {}
<1>1. <<>> \in Seq(Panel) /\ Len(<<>>) = 0
  BY EmptySeq
<1>2. <<>> \in [1 .. 0 -> Panel] /\ DOMAIN <<>> = 1 .. 0
  BY <1>1, LenProperties
<1>3. 1 .. 0 = {}
  OBVIOUS
<1>4. <<>> \in [{} -> Panel] /\ DOMAIN <<>> = {}
  BY <1>2, <1>3, Zenon
<1>5. {} \in SUBSET Panels /\ IsFiniteSet({})
  BY FS_EmptySet
<1> QED
  BY <1>4, <1>5 DEF PanelMaps

\* The defaults are sound, on any page of the definition.
LEMMA DefaultsSound ==
  ASSUME NEW p \in ToSet(DefaultPages)
  PROVE  LET K == [Defaults EXCEPT !.active = p] IN
         /\ Sound(K) /\ DOMAIN K.panels = {}
<1> DEFINE K == [Defaults EXCEPT !.active = p]
           o == [i \in DOMAIN BuiltIn |-> BuiltIn[i].id]
           T == ToSet(DefaultPages)
<1>1. Whole(DefaultSections, T) /\ DefaultSections # <<>>
  BY DefaultSectionsWhole
<1>2. DefaultSections \in Seq(Section)
  BY <1>1 DEF Whole
<1>3. o \in Seq(Panels) /\ IsInjective(o)
  BY BuiltInFinite
<1>4. p \in Pages /\ Protected \subseteq T
  BY DefaultFacts
<1>5. /\ <<>> \in Seq(T) /\ <<>> \in Seq(NewPages) /\ ToSet(<<>>) = {}
  BY EmptySeq, ToSetSeq
<1>6. IsInjective(<<>>)
  BY DEF IsInjective
<1>7. {} \in SUBSET Panels
  OBVIOUS
<1>8. K = [sections |-> DefaultSections, hiddenPages |-> <<>>,
           customPages |-> <<>>, panels |-> <<>>, order |-> o, hidden |-> {},
           active |-> p]
  <2> DEFINE e == <<>>
             g == {}
             D == [sections |-> DefaultSections, hiddenPages |-> e,
                   customPages |-> e, panels |-> e, order |-> o, hidden |-> g,
                   active |-> Overview]
  <2>1. Defaults = D
    BY Zenon DEF Defaults
  <2> HIDE DEF e, g, o
  <2>2. [D EXCEPT !.active = p] =
          [sections |-> DefaultSections, hiddenPages |-> e, customPages |-> e,
           panels |-> e, order |-> o, hidden |-> g, active |-> p]
    OBVIOUS
  <2> HIDE DEF D
  <2> QED
    BY <2>1, <2>2, Zenon DEF e, g
<1> HIDE DEF o, T, K
<1>9. /\ K \in Layouts /\ K.sections = DefaultSections
      /\ K.hiddenPages = <<>> /\ K.customPages = <<>>
      /\ K.panels = <<>> /\ K.order = o /\ K.active = p
  <2> DEFINE e == <<>>
  <2>1. e \in Seq(T) /\ e \in Seq(NewPages) /\ e \in PanelMaps
    BY <1>5, NoPanels
  <2>2. K = [sections |-> DefaultSections, hiddenPages |-> e,
             customPages |-> e, panels |-> e, order |-> o, hidden |-> {},
             active |-> p]
    BY <1>8
  <2> HIDE DEF e
  <2>3. /\ K \in Layouts /\ K.sections = DefaultSections
        /\ K.hiddenPages = e /\ K.customPages = e
        /\ K.panels = e /\ K.order = o /\ K.active = p
    BY <1>2, <1>3, <1>4, <1>7, <2>1, <2>2 DEF Layouts, T
  <2> QED
    BY <2>3 DEF e
<1>10. Visible(K) = T
  <2>1. Visible(K) = (ToSet(DefaultPages) \ ToSet(K.hiddenPages))
                       \cup ToSet(K.customPages)
    BY <1>5, <1>9, ItemsFacts DEF T
  <2> QED
    BY <1>5, <1>9, <2>1 DEF T
<1>11. K.active \in Visible(K) /\ Protected \subseteq Visible(K)
  BY <1>4, <1>9, <1>10 DEF T
<1>12. /\ K.sections # <<>> /\ Whole(K.sections, Visible(K))
       /\ IsInjective(K.hiddenPages) /\ IsInjective(K.customPages)
       /\ IsInjective(K.order)
  BY <1>1, <1>3, <1>6, <1>9, <1>10, Zenon
<1>13. Sound(K)
  BY <1>9, <1>11, <1>12, Zenon DEF Sound
<1> QED
  BY <1>9, <1>13, NoPanels DEF K

\* The pages of preferences that are in order field by field.
LEMMA LooseFacts ==
  ASSUME NEW L, Loose(L)
  PROVE  /\ L \in Layouts /\ L.sections \in Seq(Section)
         /\ Visible(L) = (ToSet(DefaultPages) \ ToSet(L.hiddenPages))
                           \cup ToSet(L.customPages)
         /\ Visible(L) \subseteq Pages
<1>1. L \in Layouts /\ IsInjective(L.customPages) /\ Visible(L) # {}
  BY DEF Loose
<1>2. /\ L.hiddenPages \in Seq(ToSet(DefaultPages))
      /\ L.customPages \in Seq(NewPages) /\ L.sections \in Seq(Section)
  BY <1>1, LayoutFields
<1>3. ToSet(Items(L)) = Visible(L)
  BY DEF Visible
<1> QED
  BY <1>1, <1>2, <1>3, ItemsFacts

\* Some page is shown: normalizeHiddenPages has nothing to do.
LEMMA NormalHiddenSame ==
  ASSUME NEW L, Loose(L), NEW c, c = <<>> => L.customPages = <<>>
  PROVE  NormalHidden(L.hiddenPages, c) = L.hiddenPages
<1> DEFINE h == L.hiddenPages
<1>1. /\ h \in Seq(ToSet(DefaultPages)) /\ IsInjective(h)
      /\ L.customPages \in Seq(NewPages) /\ Visible(L) # {}
      /\ Visible(L) = (ToSet(DefaultPages) \ ToSet(h)) \cup ToSet(L.customPages)
  BY LooseFacts, LayoutFields DEF Loose
<1>2. ASSUME c = <<>>, Len(h) >= Len(Navigation)
      PROVE  FALSE
  <2>1. ToSet(DefaultPages) \subseteq ToSet(h)
    <3> HIDE DEF h
    <3> QED
      BY <1>1, <1>2, HidesAll
  <2>2. L.customPages \in Seq(NewPages) /\ L.customPages = <<>>
    BY <1>1, <1>2
  <2>3. ToSet(L.customPages) = {}
    BY <2>2, ToSetSeq
  <2> QED
    BY <1>1, <2>1, <2>3
<1> QED
  BY <1>2 DEF NormalHidden

\* What normalize makes of preferences that are in order field by field.
LEMMA NormalizeLoose ==
  ASSUME NEW L, Loose(L)
  PROVE  LET K == Normalize(L) IN
         /\ Sound(K)
         /\ DOMAIN K.panels \subseteq DOMAIN L.panels
         /\ \A id \in DOMAIN K.panels : K.panels[id] = L.panels[id]
         /\ OnPages(K, {})
         /\ Len(L.customPages) <= PageLimit =>
              /\ Visible(K) = Visible(L)
              /\ \A id \in DOMAIN L.panels :
                   L.panels[id].page \in Visible(L) => id \in DOMAIN K.panels
         /\ Sound(L) /\ WithinLimits(L) => K = [L EXCEPT !.panels = K.panels]
<1> DEFINE V == Visible(L)
           c == FirstOf(L.customPages, PageLimit)
           h == NormalHidden(L.hiddenPages, c)
           P == [L EXCEPT !.customPages = c, !.hiddenPages = h]
           U == Visible(P)
           D == KnownPanels(L, U)
           t == NormalSections(L.sections, Items(P))
           b == [id \in D |-> L.panels[id]]
           a == IF L.active \in U THEN L.active ELSE Items(P)[1]
           K == Normalize(L)
           F == [P EXCEPT !.sections = t, !.panels = b, !.active = a]
<1>0. PICK W \in SUBSET Pages :
        Whole(L.sections, W) /\ (Sound(L) => W = V)
  <2>1. CASE Sound(L)
    BY <2>1, SoundFacts
  <2>2. CASE ~Sound(L)
    BY <2>2 DEF Loose
  <2> QED
    BY <2>1, <2>2
<1>1. /\ L \in Layouts /\ L.sections \in Seq(Section) /\ L.sections # <<>>
      /\ V \subseteq Pages
      /\ V = (ToSet(DefaultPages) \ ToSet(L.hiddenPages)) \cup ToSet(L.customPages)
  BY LooseFacts DEF Loose
<1>2. /\ L.hiddenPages \in Seq(ToSet(DefaultPages))
      /\ L.customPages \in Seq(NewPages) /\ L.panels \in PanelMaps
      /\ IsFiniteSet(DOMAIN L.panels) /\ DOMAIN L.panels \subseteq Panels
      /\ L.panels \in [DOMAIN L.panels -> Panel]
      /\ L.active \in Pages /\ L.order \in Seq(Panels) /\ L.hidden \subseteq Panels
  BY <1>1, LayoutFields
<1>3. /\ IsInjective(L.hiddenPages) /\ IsInjective(L.customPages)
      /\ IsInjective(L.order) /\ V # {} /\ Protected \subseteq V
      /\ Sound(L) => L.active \in V
  BY DEF Loose, Sound
<1>4. PageLimit \in Nat \ {0}
  BY LayoutAssumption
<1>5. /\ c \in Seq(NewPages) /\ IsInjective(c)
      /\ ToSet(c) \subseteq ToSet(L.customPages)
      /\ c = <<>> => L.customPages = <<>>
      /\ Len(L.customPages) <= PageLimit => c = L.customPages
  BY <1>2, <1>3, <1>4, FirstOfFacts
<1>6. K = F
  BY DEF Normalize
<1> HIDE DEF K, c
<1>7. h = L.hiddenPages
  BY <1>5, NormalHiddenSame
<1> HIDE DEF h
<1>8. /\ P \in Layouts /\ P.sections = L.sections /\ P.hiddenPages = h
      /\ P.customPages = c /\ P.panels = L.panels
      /\ P.order = L.order /\ P.active = L.active
  BY <1>1, <1>2, <1>5, <1>7 DEF Layouts
<1>9. Len(L.customPages) <= PageLimit => P = L
  <2> HIDE DEF P
  <2>1. Len(L.customPages) <= PageLimit =>
          P = [L EXCEPT !.customPages = L.customPages, !.hiddenPages = L.hiddenPages]
    BY <1>5, <1>7 DEF P
  <2>2. [L EXCEPT !.customPages = L.customPages, !.hiddenPages = L.hiddenPages] = L
    BY <1>1 DEF Layouts
  <2> QED
    BY <2>1, <2>2
<1> HIDE DEF P
<1>10. U = (ToSet(DefaultPages) \ ToSet(L.hiddenPages)) \cup ToSet(c)
  BY <1>2, <1>5, <1>7, <1>8, ItemsFacts
<1>11. U # {}
  <2>1. CASE c = <<>>
    <3>1. U = V
      BY <1>1, <1>5, <1>10, <2>1
    <3> QED
      BY <1>3, <3>1
  <2>2. CASE c # <<>>
    <3>1. ToSet(c) # {}
      BY <1>5, <2>2, ToSetSeq
    <3> QED
      BY <1>10, <3>1
  <2> QED
    BY <2>1, <2>2
<1>12. /\ Items(P) \in Seq(Pages) /\ ToSet(Items(P)) = U /\ U \subseteq Pages
       /\ Items(P)[1] \in U
  <2>1. ToSet(Items(P)) = U
    BY DEF Visible
  <2> QED
    BY <1>2, <1>5, <1>7, <1>8, <1>11, <2>1, ItemsFacts
<1>13. Protected \subseteq U
  <2>1. /\ Protected \subseteq ToSet(DefaultPages)
        /\ ToSet(L.customPages) \subseteq NewPages
        /\ NewPages \cap ToSet(DefaultPages) = {}
    BY <1>2, ToSetSeq, DefaultFacts
  <2> QED
    BY <1>1, <1>3, <1>10, <2>1
<1>14. /\ Whole(t, U) /\ t # <<>>
       /\ W = U /\ Len(L.sections) <= SectionLimit => t = L.sections
  <2> DEFINE items == Items(P)
             s == L.sections
  <2>1. /\ Whole(s, W) /\ s # <<>> /\ items \in Seq(Pages) /\ ToSet(items) = U
    BY <1>0, <1>1, <1>12
  <2> HIDE DEF items, s, U, V
  <2>2. /\ Whole(NormalSections(s, items), ToSet(items))
        /\ NormalSections(s, items) # <<>>
        /\ W = ToSet(items) /\ Len(s) <= SectionLimit =>
             NormalSections(s, items) = s
    BY <2>1, NormalSectionsWhole
  <2> QED
    BY <2>1, <2>2, Zenon DEF items, s
<1>15. t \in Seq(Section)
  BY <1>14 DEF Whole
<1>16. a \in U /\ a \in Pages /\ (Sound(L) /\ V = U => a = L.active)
  BY <1>3, <1>12
<1>17. /\ D \subseteq DOMAIN L.panels
       /\ \A id \in DOMAIN L.panels : id \in D <=> L.panels[id].page \in U
  BY DEF KnownPanels
<1> HIDE DEF D
<1>18. /\ b \in [D -> Panel] /\ DOMAIN b = D
       /\ \A id \in D : b[id] = L.panels[id]
  BY <1>2, <1>17
<1>19. IsFiniteSet(D) /\ D \subseteq Panels
  BY <1>2, <1>17, FS_Subset
<1> HIDE DEF b, a, t, U, V
<1>20. b \in PanelMaps
  BY <1>18, <1>19 DEF PanelMaps
<1>21. /\ K \in Layouts /\ K.sections = t /\ K.hiddenPages = L.hiddenPages
       /\ K.customPages = c /\ K.panels = b
       /\ K.order = L.order /\ K.active = a
  <2> HIDE DEF F
  <2>1. F \in Layouts /\ F.sections = t /\ F.hiddenPages = P.hiddenPages
        /\ F.customPages = P.customPages /\ F.panels = b
        /\ F.order = P.order /\ F.active = a
    BY <1>8, <1>15, <1>16, <1>20 DEF Layouts, F
  <2> QED
    BY <1>6, <1>7, <1>8, <2>1
<1>22. Visible(K) = U
  BY <1>7, <1>8, <1>21, ItemsSame DEF U
<1>23. K.active \in Visible(K) /\ Protected \subseteq Visible(K)
  BY <1>13, <1>16, <1>21, <1>22
<1>24. /\ K.sections # <<>> /\ Whole(K.sections, Visible(K))
       /\ IsInjective(K.hiddenPages) /\ IsInjective(K.customPages)
       /\ IsInjective(K.order)
  BY <1>3, <1>5, <1>14, <1>21, <1>22, Zenon
<1>25. Sound(K)
  BY <1>21, <1>23, <1>24, Zenon DEF Sound
<1>26. OnPages(K, {})
  BY <1>17, <1>18, <1>21, <1>22 DEF OnPages
<1>27. Len(L.customPages) <= PageLimit => U = V
  BY <1>9 DEF U, V
<1>28. ASSUME Sound(L), WithinLimits(L)
       PROVE  K = [L EXCEPT !.panels = K.panels]
  <2>1. P = L /\ U = V /\ t = L.sections /\ a = L.active
    BY <1>0, <1>9, <1>14, <1>16, <1>27, <1>28 DEF WithinLimits
  <2>2. F = [L EXCEPT !.sections = L.sections, !.panels = b, !.active = L.active]
    BY <2>1
  <2>3. [L EXCEPT !.sections = L.sections, !.panels = b, !.active = L.active] =
          [L EXCEPT !.panels = b]
    BY <1>1 DEF Layouts
  <2> HIDE DEF F
  <2> QED
    BY <1>6, <1>21, <2>2, <2>3
<1> QED
  BY <1>17, <1>18, <1>21, <1>22, <1>25, <1>26, <1>27, <1>28 DEF K, V

\* What it makes of sound preferences.
LEMMA NormalizeSound ==
  ASSUME NEW L, Sound(L)
  PROVE  LET K == Normalize(L) IN
         /\ Sound(K)
         /\ \A id \in DOMAIN K.panels : K.panels[id] = L.panels[id]
         /\ OnPages(K, {})
         /\ Len(L.customPages) <= PageLimit =>
              \A id \in DOMAIN L.panels :
                L.panels[id].page \in Visible(L) => id \in DOMAIN K.panels
         /\ WithinLimits(L) => K = [L EXCEPT !.panels = K.panels]
<1> DEFINE K == Normalize(L)
<1>1. Loose(L)
  BY SoundIsLoose
<1> HIDE DEF K
<1>2. /\ Sound(K)
      /\ \A id \in DOMAIN K.panels : K.panels[id] = L.panels[id]
      /\ OnPages(K, {})
      /\ Len(L.customPages) <= PageLimit =>
           \A id \in DOMAIN L.panels :
             L.panels[id].page \in Visible(L) => id \in DOMAIN K.panels
      /\ WithinLimits(L) => K = [L EXCEPT !.panels = K.panels]
  BY <1>1, NormalizeLoose DEF K
<1> QED
  BY <1>2 DEF K

-----------------------------------------------------------------------------
(* The inductive invariant, and the steps of the navigation *)

Dialogs ==
  [id : Panels, type : Types, page : Pages, count : Nat, offered : SUBSET Pages]

\* What the setters leave, and what the handlers make of the other variables.
TabInv ==
  /\ Sound(layout)
  /\ OnPages(layout, misplaced)
  /\ misplaced \subseteq DOMAIN layout.panels
  /\ editor = NoEditor \/ editor \in Dialogs
  /\ route \in Pages
  /\ ops \in 0 .. MaxOps

\* The same of the other tab, where no panel is misplaced.
CopyInv == Sound(other) /\ OnPages(other, {})

\* The inductive invariant.
IInv == TabInv /\ CopyInv

\* The panels that are not misplaced are there after the step.
Preserved == DOMAIN layout.panels \ misplaced \subseteq DOMAIN layout'.panels

\* The two runs' invariants follow.
LEMMA InvariantImplies == IInv => LayoutOK
<1> SUFFICES ASSUME IInv PROVE LayoutOK
  OBVIOUS
<1>0. TabInv /\ Sound(other)
  BY DEF IInv, CopyInv
<1>1. /\ Sound(layout) /\ misplaced \subseteq DOMAIN layout.panels
      /\ editor = NoEditor \/ editor \in Dialogs
      /\ route \in Pages /\ ops \in 0 .. MaxOps
  BY <1>0 DEF TabInv
<1>2. /\ layout \in Layouts /\ layout.active \in Visible(layout)
      /\ Protected \subseteq Visible(layout)
      /\ IsInjective(layout.order) /\ IsInjective(layout.hiddenPages)
      /\ layout.sections # <<>> /\ Whole(layout.sections, Visible(layout))
      /\ IsInjective(Items(layout))
  BY <1>1, SoundFacts DEF Sound
<1>3. layout.sections \in Seq(Section)
  BY <1>2, LayoutFields
<1>4. TypeOK
  <2>1. ASSUME NEW L \in {layout, other}
        PROVE  /\ ToSet(L.hiddenPages) \subseteq ToSet(DefaultPages)
               /\ ToSet(L.customPages) \subseteq NewPages
               /\ DOMAIN L.panels \subseteq Panels
               /\ \A id \in DOMAIN L.panels : L.panels[id] \in Panel
               /\ ToSet(L.order) \subseteq Panels
               /\ L.hidden \subseteq Panels
               /\ L.active \in Pages
    <3>1. L \in Layouts
      BY <1>0, <1>2 DEF Sound
    <3>2. /\ L.hiddenPages \in Seq(ToSet(DefaultPages))
          /\ L.customPages \in Seq(NewPages)
          /\ L.order \in Seq(Panels) /\ L.hidden \subseteq Panels
          /\ L.active \in Pages /\ DOMAIN L.panels \subseteq Panels
          /\ L.panels \in [DOMAIN L.panels -> Panel]
      BY <3>1, LayoutFields
    <3>3. /\ ToSet(L.hiddenPages) \subseteq ToSet(DefaultPages)
          /\ ToSet(L.customPages) \subseteq NewPages
          /\ ToSet(L.order) \subseteq Panels
      BY <3>2, ToSetSeq
    <3>4. \A id \in DOMAIN L.panels : L.panels[id] \in Panel
      BY <3>2
    <3> QED
      BY <3>2, <3>3, <3>4
  <2>2. editor \in Dialogs =>
          [editor EXCEPT !.offered = {}] \in
            [id : Panels, type : Types, page : Pages, count : Nat, offered : {{}}]
    BY DEF Dialogs
  <2> QED
    BY <1>1, <2>1, <2>2 DEF TypeOK
<1>5. /\ IsInjective(PagesInOrder(layout))
      /\ ToSet(PagesInOrder(layout)) = Visible(layout)
  BY <1>2, PagesInOrderFacts
<1>6. \A i, j \in DOMAIN layout.sections :
        layout.sections[i].id = layout.sections[j].id => i = j
  <2>1. DOMAIN layout.sections = 1 .. Len(layout.sections)
    BY <1>3, LenProperties
  <2> QED
    BY <1>2, <2>1 DEF Whole
<1>7. NavigationIsWhole
  BY <1>2, <1>5, <1>6, Zenon DEF NavigationIsWhole
<1> QED
  BY <1>4, <1>7 DEF LayoutOK

\* And what a reload shows.
LEMMA ReloadImplies == TabInv => ReloadChangesNothing
<1> DEFINE K == Normalize(layout)
<1> SUFFICES ASSUME TabInv, WithinLimits(layout)
             PROVE  /\ [K EXCEPT !.panels = <<>>] = [layout EXCEPT !.panels = <<>>]
                    /\ \A id \in DOMAIN layout.panels \ misplaced :
                         id \in DOMAIN K.panels /\ K.panels[id] = layout.panels[id]
  BY Zenon DEF ReloadChangesNothing
<1>1. Sound(layout) /\ OnPages(layout, misplaced) /\ layout \in Layouts
  BY DEF TabInv, Sound
<1>2. Len(layout.customPages) <= PageLimit
  BY DEF WithinLimits
<1>3. /\ Sound(K)
      /\ \A id \in DOMAIN K.panels : K.panels[id] = layout.panels[id]
      /\ \A id \in DOMAIN layout.panels :
           layout.panels[id].page \in Visible(layout) => id \in DOMAIN K.panels
      /\ K = [layout EXCEPT !.panels = K.panels]
  BY <1>1, <1>2, NormalizeSound
<1> HIDE DEF K
<1>4. [K EXCEPT !.panels = <<>>] = [layout EXCEPT !.panels = <<>>]
  <2> DEFINE b == K.panels
             e == <<>>
  <2>1. K = [layout EXCEPT !.panels = b]
    BY <1>3
  <2> HIDE DEF b, e
  <2>2. [[layout EXCEPT !.panels = b] EXCEPT !.panels = e] =
          [layout EXCEPT !.panels = e]
    BY <1>1 DEF Layouts
  <2>3. [K EXCEPT !.panels = e] = [layout EXCEPT !.panels = e]
    BY <2>1, <2>2, Zenon
  <2> QED
    BY <2>3 DEF e
<1>5. \A id \in DOMAIN layout.panels \ misplaced :
        id \in DOMAIN K.panels /\ K.panels[id] = layout.panels[id]
  BY <1>1, <1>3 DEF OnPages
<1> QED
  BY <1>4, <1>5

\* The copy of the other tab, on its first page.
LEMMA CopySound ==
  ASSUME NEW L, Sound(L)
  PROVE  /\ Sound(Copy(L)) /\ Visible(Copy(L)) = Visible(L)
         /\ Copy(L).panels = L.panels
<1> DEFINE p == Items(L)[1]
<1>1. p \in Visible(L)
  BY SoundFacts
<1>2. Copy(L) = SetActivePage(L, p)
  BY <1>1 DEF Copy, SetActivePage
<1> HIDE DEF p
<1> QED
  BY <1>2, SetActivePageSound

\* The first visit.
LEMMA InitInvariant == Init => IInv
<1> SUFFICES ASSUME Init PROVE IInv
  OBVIOUS
<1>1. PICK p \in ToSet(DefaultPages) :
        layout = [Defaults EXCEPT !.active = p] /\ route = p
  BY DEF Init
<1>2. Sound(layout) /\ DOMAIN layout.panels = {}
  BY <1>1, DefaultsSound
<1>3. p \in Pages /\ MaxOps \in Nat
  BY DefaultFacts, LayoutAssumption
<1>4. OnPages(layout, misplaced) /\ OnPages(layout, {})
  BY <1>2 DEF OnPages
<1>5. TabInv
  BY <1>1, <1>2, <1>3, <1>4 DEF Init, TabInv
<1>6. CopyInv
  <2>1. other = Copy(layout)
    BY DEF Init
  <2>2. Sound(other) /\ Visible(other) = Visible(layout) /\ other.panels = layout.panels
    BY <1>2, <2>1, CopySound
  <2> QED
    BY <1>4, <2>2 DEF CopyInv, OnPages
<1> QED
  BY <1>5, <1>6 DEF IInv

\* More pages: the panels are where they were.
LEMMA OnMorePages ==
  ASSUME NEW L, NEW K, NEW M, OnPages(L, M), K.panels = L.panels,
         Visible(L) \subseteq Visible(K)
  PROVE  OnPages(K, M)
BY DEF OnPages

\* The counter of operations.
LEMMA OperatesBound == TabInv /\ Operates => ops' \in 0 .. MaxOps
BY LayoutAssumption DEF TabInv, Operates

\* The forms of the navigation settings.
LEMMA ConfigureStep ==
  ASSUME TabInv, NEW L, Sound(L), OnPages(L, misplaced),
         DOMAIN L.panels = DOMAIN layout.panels, Configure(L)
  PROVE  TabInv' /\ Preserved
<1>1. /\ layout' = L /\ route' = L.active /\ editor' = editor
      /\ misplaced' = misplaced /\ ops' \in 0 .. MaxOps
  BY OperatesBound DEF Configure
<1>2. L.active \in Pages
  BY LayoutFields DEF Sound
<1> QED
  BY <1>1, <1>2 DEF TabInv, Preserved

\* The same, for what changes the sections only.
LEMMA ConfigureSections ==
  ASSUME TabInv, NEW L, Sound(L), Visible(L) = Visible(layout),
         L.panels = layout.panels, Configure(L)
  PROVE  TabInv' /\ Preserved
<1>1. OnPages(L, misplaced)
  BY OnMorePages DEF TabInv
<1> QED
  BY <1>1, ConfigureStep

\* What changes the panels' order and which are hidden.
LEMMA ArrangeStep ==
  ASSUME TabInv, NEW L, Sound(L), Visible(L) = Visible(layout),
         L.panels = layout.panels, Arrange(L)
  PROVE  TabInv' /\ Preserved
<1>1. /\ layout' = L /\ route' = route /\ editor' = editor
      /\ misplaced' = misplaced /\ ops' \in 0 .. MaxOps
  BY OperatesBound DEF Arrange
<1>2. OnPages(L, misplaced)
  BY OnMorePages DEF TabInv
<1> QED
  BY <1>1, <1>2 DEF TabInv, Preserved

\* The forms of the navigation settings, the buttons and dragging there, the
\* URL and the history of the browser.
LEMMA NavigationStepKeeps ==
  ASSUME TabInv, NavigationStep
  PROVE  TabInv' /\ Preserved
<1>1. Sound(layout) /\ OnPages(layout, misplaced)
  BY DEF TabInv
<1>2. ASSUME NEW p \in Pages, Navigate(p)
      PROVE  TabInv' /\ Preserved
  <2>1. /\ layout' = SetActivePage(layout, p)
        /\ route' = IF layout.active # p THEN p ELSE route
        /\ editor' = editor /\ misplaced' = misplaced /\ ops' = ops
    BY <1>2 DEF Navigate, Navigated
  <2>2. /\ Sound(layout') /\ Visible(layout') = Visible(layout)
        /\ layout'.panels = layout.panels
    BY <1>1, <2>1, SetActivePageSound
  <2>3. OnPages(layout', misplaced)
    BY <1>1, <2>2, OnMorePages
  <2> QED
    BY <2>1, <2>2, <2>3 DEF TabInv, Preserved
<1>3. ASSUME NEW p \in Pages, PopState(p)
      PROVE  TabInv' /\ Preserved
  <2>1. /\ layout' = SetActivePage(layout,
                       IF p \in Visible(layout) THEN p ELSE Items(layout)[1])
        /\ route' = p
        /\ editor' = editor /\ misplaced' = misplaced /\ ops' = ops
    BY <1>3 DEF PopState
  <2>2. /\ Sound(layout') /\ Visible(layout') = Visible(layout)
        /\ layout'.panels = layout.panels
    BY <1>1, <2>1, SetActivePageSound
  <2>3. OnPages(layout', misplaced)
    BY <1>1, <2>2, OnMorePages
  <2> QED
    BY <2>1, <2>2, <2>3 DEF TabInv, Preserved
<1>4. ASSUME NEW p \in Pages, DeletePage(p)
      PROVE  TabInv' /\ Preserved
  <2> DEFINE L == RemovePage(layout, p)
  <2>1. /\ Sound(L) /\ OnPages(L, misplaced)
        /\ DOMAIN L.panels = DOMAIN layout.panels
    BY <1>1, RemovePageSound
  <2>2. Configure(L)
    BY <1>4 DEF DeletePage
  <2> HIDE DEF L
  <2> QED
    BY <2>1, <2>2, ConfigureStep
<1>5. ASSUME NEW id \in NewSections, NEW placement \in Placements,
             AddSection(id, placement)
      PROVE  TabInv' /\ Preserved
  <2> DEFINE L == AddNavigationSection(layout, id, placement)
  <2>1. id \in SectionNames /\ SectionAt(layout.sections, id) = 0 /\ Configure(L)
    BY <1>5 DEF AddSection, SectionNames
  <2>2. Sound(L) /\ Visible(L) = Visible(layout) /\ L.panels = layout.panels
    BY <1>1, <2>1, AddNavigationSectionSound
  <2> HIDE DEF L
  <2> QED
    BY <2>1, <2>2, ConfigureSections
<1>6. ASSUME NEW id, DeleteSection(id)
      PROVE  TabInv' /\ Preserved
  <2> DEFINE L == RemoveNavigationSection(layout, id)
  <2>1. Configure(L)
    BY <1>6 DEF DeleteSection
  <2>2. Sound(L) /\ Visible(L) = Visible(layout) /\ L.panels = layout.panels
    BY <1>1, RemoveNavigationSectionSound
  <2> HIDE DEF L
  <2> QED
    BY <2>1, <2>2, ConfigureSections
<1>7. ASSUME NEW id, NEW placement \in Placements, PlaceSection(id, placement)
      PROVE  TabInv' /\ Preserved
  <2> DEFINE L == UpdateNavigationSection(layout, id, placement)
  <2>1. Configure(L)
    BY <1>7 DEF PlaceSection
  <2>2. Sound(L) /\ Visible(L) = Visible(layout) /\ L.panels = layout.panels
    BY <1>1, UpdateNavigationSectionSound
  <2> HIDE DEF L
  <2> QED
    BY <2>1, <2>2, ConfigureSections
<1>8. ASSUME NEW p \in NewPages, NEW id, CreatePage(p, id)
      PROVE  TabInv' /\ Preserved
  <2> DEFINE A == AddPage(layout, p, id)
             L == SetActivePage(A, p)
  <2>1. p \notin Visible(layout) /\ Configure(L)
    BY <1>8 DEF CreatePage
  <2>2. /\ Sound(A) /\ Visible(layout) \subseteq Visible(A)
        /\ A.panels = layout.panels
    BY <1>1, <2>1, AddPageSound
  <2> HIDE DEF A
  <2>3. Sound(L) /\ Visible(L) = Visible(A) /\ L.panels = A.panels
    BY <2>2, SetActivePageSound
  <2> HIDE DEF L
  <2>4. OnPages(L, misplaced)
    BY <1>1, <2>2, <2>3, OnMorePages
  <2> QED
    BY <2>1, <2>2, <2>3, <2>4, ConfigureStep
<1>9. ASSUME NEW p, NEW id, MovePage(p, id)
      PROVE  TabInv' /\ Preserved
  <2> DEFINE L == UpdatePage(layout, p, id)
  <2>1. Configure(L)
    BY <1>9 DEF MovePage
  <2>2. Sound(L) /\ Visible(L) = Visible(layout) /\ L.panels = layout.panels
    BY <1>1, UpdatePageSound
  <2> HIDE DEF L
  <2> QED
    BY <2>1, <2>2, ConfigureSections
<1>10. ASSUME NEW s, NEW t, NEW after \in BOOLEAN, DropSection(s, t, after)
       PROVE  TabInv' /\ Preserved
  <2> DEFINE L == MoveNavigationSectionRelative(layout, s, t, after)
  <2>1. Configure(L)
    BY <1>10 DEF DropSection
  <2>2. Sound(L) /\ Visible(L) = Visible(layout) /\ L.panels = layout.panels
    BY <1>1, MoveNavigationSectionSound
  <2> HIDE DEF L
  <2> QED
    BY <2>1, <2>2, ConfigureSections
<1>11. ASSUME NEW s, NEW t, NEW after \in BOOLEAN, DropPage(s, t, after)
       PROVE  TabInv' /\ Preserved
  <2> DEFINE L == MovePageRelative(layout, s, t, after)
  <2>1. Configure(L)
    BY <1>11 DEF DropPage
  <2>2. Sound(L) /\ Visible(L) = Visible(layout) /\ L.panels = layout.panels
    BY <1>1, MovePageSound
  <2> HIDE DEF L
  <2> QED
    BY <2>1, <2>2, ConfigureSections
<1> QED
  BY <1>2, <1>3, <1>4, <1>5, <1>6, <1>7, <1>8, <1>9, <1>10, <1>11
     DEF NavigationStep, Visit, Setting

-----------------------------------------------------------------------------
(* The steps of panels and of the dialog, and of other tabs *)

\* Buttons, dragging and dialogs that change panels, or delete them.
LEMMA DeletesKeep ==
  ASSUME TabInv, Deletes
  PROVE  TabInv'
<1>1. Sound(layout) /\ OnPages(layout, misplaced)
      /\ misplaced \subseteq DOMAIN layout.panels
  BY DEF TabInv
<1>2. ASSUME NEW id \in Panels, RemovePanel(id)
      PROVE  TabInv'
  <2>1. /\ layout' = RemoveCustomPanel(layout, id) /\ misplaced' = misplaced \ {id}
        /\ route' = route /\ editor' = editor /\ ops' \in 0 .. MaxOps
    BY <1>2, OperatesBound DEF RemovePanel
  <2>2. /\ Sound(layout') /\ Visible(layout') = Visible(layout)
        /\ DOMAIN layout'.panels = DOMAIN layout.panels \ {id}
        /\ \A x \in DOMAIN layout.panels \ {id} :
             layout'.panels[x] = layout.panels[x]
    BY <1>1, <2>1, RemoveCustomPanelSound
  <2>3. OnPages(layout', misplaced')
    BY <1>1, <2>1, <2>2 DEF OnPages
  <2>4. misplaced' \subseteq DOMAIN layout'.panels
    BY <1>1, <2>1, <2>2
  <2> QED
    BY <2>1, <2>2, <2>3, <2>4 DEF TabInv
<1>3. ASSUME DeleteEdited
      PROVE  TabInv'
  <2> DEFINE id == editor.id
             K == RemoveCustomPanel(layout, id)
  <2>1. editor \in Dialogs
    BY <1>3 DEF DeleteEdited, Idle, TabInv
  <2>2. id \in Panels
    BY <2>1 DEF Dialogs
  <2>3. /\ layout' = IF id \in BuiltInIds THEN SetVisible(K, id, FALSE) ELSE K
        /\ misplaced' = misplaced \ {id}
        /\ route' = route /\ editor' = NoEditor /\ ops' = ops
    BY <1>3 DEF DeleteEdited
  <2>4. /\ Sound(K) /\ Visible(K) = Visible(layout)
        /\ DOMAIN K.panels = DOMAIN layout.panels \ {id}
        /\ \A x \in DOMAIN layout.panels \ {id} : K.panels[x] = layout.panels[x]
    BY <1>1, RemoveCustomPanelSound
  <2> HIDE DEF K, id
  <2>5. /\ Sound(layout') /\ Visible(layout') = Visible(K)
        /\ layout'.panels = K.panels
    BY <2>2, <2>3, <2>4, SetVisibleSound
  <2>6. OnPages(layout', misplaced')
    BY <1>1, <2>3, <2>4, <2>5 DEF OnPages
  <2>7. misplaced' \subseteq DOMAIN layout'.panels
    BY <1>1, <2>3, <2>4, <2>5
  <2> QED
    BY <2>3, <2>5, <2>6, <2>7 DEF TabInv
<1>4. ASSUME Reset
      PROVE  TabInv'
  <2>1. /\ layout' = Defaults /\ misplaced' = {}
        /\ route' = route /\ editor' = editor /\ ops' \in 0 .. MaxOps
    BY <1>4, OperatesBound DEF Reset
  <2>2. Defaults = [Defaults EXCEPT !.active = Overview]
    BY DEF Defaults
  <2>3. Sound(layout') /\ DOMAIN layout'.panels = {}
    BY <2>1, <2>2, DefaultsSound, DefaultFacts
  <2>4. OnPages(layout', misplaced')
    BY <2>3 DEF OnPages
  <2> QED
    BY <2>1, <2>3, <2>4 DEF TabInv
<1> QED
  BY <1>2, <1>3, <1>4 DEF Deletes

\* Opening the editor on a panel.
LEMMA OpenEditorKeeps ==
  ASSUME TabInv, NEW id \in Panels, NEW panel, panel.type \in Types,
         panel.count \in Nat, OpenEditor(id, panel)
  PROVE  TabInv' /\ Preserved
<1> DEFINE V == Visible(layout)
           page == IF panel.page \in V THEN panel.page ELSE PagesInOrder(layout)[1]
<1>1. /\ Sound(layout) /\ V \subseteq Pages /\ layout.sections # <<>>
      /\ Whole(layout.sections, V) /\ layout.active \in V
  BY SoundFacts DEF TabInv, Sound
<1>2. /\ editor' = [id |-> id, type |-> panel.type, count |-> panel.count,
                    page |-> page, offered |-> V]
      /\ layout' = layout /\ route' = route /\ misplaced' = misplaced
      /\ ops' \in 0 .. MaxOps
  BY OperatesBound DEF OpenEditor
<1>3. page \in Pages
  <2> DEFINE o == PagesInOrder(layout)
  <2>1. o \in Seq(Pages) /\ ToSet(o) = V
    BY <1>1, PagesInOrderFacts
  <2> HIDE DEF o
  <2>2. o # <<>> /\ Len(o) \in Nat
    BY <1>1, <2>1, ToSetSeq, LenProperties
  <2>3. Len(o) # 0
    BY <2>1, <2>2, EmptySeq
  <2>4. o[1] \in Pages
    BY <2>1, <2>2, <2>3, ElementOfSeq
  <2> QED
    BY <1>1, <2>4 DEF o
<1> HIDE DEF page
<1>4. editor' \in Dialogs
  <2> HIDE DEF V
  <2>1. V \in SUBSET Pages
    BY <1>1
  <2> QED
    BY <1>2, <1>3, <2>1 DEF Dialogs
<1> QED
  BY <1>2, <1>4 DEF TabInv, Preserved

\* Of these steps, only the deletions lose a panel.
LEMMA PanelStepKeeps ==
  ASSUME TabInv, PanelStep
  PROVE  TabInv' /\ (Deletes \/ Preserved)
<1>1. Sound(layout) /\ layout \in Layouts
  BY DEF TabInv, Sound
<1>2. CASE Deletes
  BY <1>2, DeletesKeep
<1>3. ASSUME NEW id \in Panels, TogglePanel(id)
      PROVE  TabInv' /\ Preserved
  <2> DEFINE shown == id \in layout.hidden
             L == SetVisible(layout, id, shown)
  <2>1. Arrange(L) /\ shown \in BOOLEAN
    BY <1>3 DEF TogglePanel
  <2> HIDE DEF shown
  <2>2. Sound(L) /\ Visible(L) = Visible(layout) /\ L.panels = layout.panels
    BY <1>1, <2>1, SetVisibleSound
  <2> HIDE DEF L
  <2> QED
    BY <2>1, <2>2, ArrangeStep
<1>4. ASSUME NEW id \in Panels, NEW direction \in {-1, 1}, MovePanel(id, direction)
      PROVE  TabInv' /\ Preserved
  <2> DEFINE L == Move(layout, id, direction)
  <2>1. Arrange(L)
    BY <1>4 DEF MovePanel
  <2>2. Sound(L) /\ Visible(L) = Visible(layout) /\ L.panels = layout.panels
    BY <1>1, MoveSound
  <2> HIDE DEF L
  <2> QED
    BY <2>1, <2>2, ArrangeStep
<1>5. ASSUME NEW id \in Panels, NEW t \in Panels, DropPanel(id, t)
      PROVE  TabInv' /\ Preserved
  <2> DEFINE L == MoveBefore(layout, id, t)
  <2>1. Arrange(L)
    BY <1>5 DEF DropPanel
  <2>2. Sound(L) /\ Visible(L) = Visible(layout) /\ L.panels = layout.panels
    BY <1>1, MoveBeforeSound
  <2> HIDE DEF L
  <2> QED
    BY <2>1, <2>2, ArrangeStep
<1>6. ASSUME NEW id \in Panels, NEW count \in 0 .. MetricLimit["metric-table"],
             CreatePanel(id, count)
      PROVE  TabInv' /\ Preserved
  <2> DEFINE panel == [type |-> "timeseries", count |-> count,
                       page |-> DefaultPanelPage(layout, "timeseries")]
  <2>1. "timeseries" \in Types /\ count \in Nat
    BY LayoutAssumption
  <2>2. OpenEditor(id, panel)
    BY <1>6 DEF CreatePanel
  <2>3. panel.type \in Types /\ panel.count \in Nat
    BY <2>1
  <2> HIDE DEF panel
  <2> QED
    BY <2>2, <2>3, OpenEditorKeeps
<1>7. ASSUME NEW id \in Panels, EditPanel(id)
      PROVE  TabInv' /\ Preserved
  <2>1. CASE id \in DOMAIN layout.panels /\ OpenEditor(id, layout.panels[id])
    <3> DEFINE panel == layout.panels[id]
    <3>1. panel \in Panel
      BY <1>1, <2>1, LayoutFields
    <3>2. panel.type \in Types /\ panel.count \in Nat
      BY <3>1 DEF Panel
    <3>3. OpenEditor(id, panel)
      BY <2>1
    <3> HIDE DEF panel
    <3> QED
      BY <3>2, <3>3, OpenEditorKeeps
  <2>2. CASE \E i \in DOMAIN BuiltIn :
               /\ BuiltIn[i].id = id
               /\ BuiltIn[i].type \in {"timeseries", "metric-table"}
               /\ OpenEditor(id, [type |-> BuiltIn[i].type, count |-> 1,
                                   page |-> BuiltIn[i].page])
    <3>1. PICK i \in DOMAIN BuiltIn :
               /\ BuiltIn[i].type \in {"timeseries", "metric-table"}
               /\ OpenEditor(id, [type |-> BuiltIn[i].type, count |-> 1,
                                   page |-> BuiltIn[i].page])
      BY <2>2
    <3> DEFINE panel == [type |-> BuiltIn[i].type, count |-> 1,
                         page |-> BuiltIn[i].page]
    <3>2. BuiltIn[i].type \in Types
      BY <3>1, LayoutAssumption
    <3>3. panel.type \in Types /\ panel.count \in Nat
      BY <3>2
    <3>4. OpenEditor(id, panel)
      BY <3>1
    <3> HIDE DEF panel
    <3> QED
      BY <3>3, <3>4, OpenEditorKeeps
  <2> QED
    BY <1>7, <2>1, <2>2 DEF EditPanel
<1>8. ASSUME NEW id \in Panels, NEW page \in Pages, FindPanel(id, page)
      PROVE  TabInv' /\ Preserved
  <2> DEFINE L == SetVisible(layout, id, TRUE)
  <2>1. /\ layout' = SetActivePage(L, page)
        /\ route' = IF L.active # page THEN page ELSE route
        /\ editor' = editor /\ misplaced' = misplaced /\ ops' \in 0 .. MaxOps
    BY <1>8, OperatesBound DEF FindPanel, Navigated
  <2>2. Sound(L) /\ Visible(L) = Visible(layout) /\ L.panels = layout.panels
    BY <1>1, SetVisibleSound
  <2> HIDE DEF L
  <2>3. /\ Sound(layout') /\ Visible(layout') = Visible(layout)
        /\ layout'.panels = layout.panels
    BY <2>1, <2>2, SetActivePageSound
  <2>4. OnPages(layout', misplaced)
    BY <2>3, OnMorePages DEF TabInv
  <2> QED
    BY <2>1, <2>3, <2>4 DEF TabInv, Preserved
<1> QED
  BY <1>2, <1>3, <1>4, <1>5, <1>6, <1>7, <1>8 DEF PanelStep, Arrangement

\* The dialog.  The panel that is saved onto a page that is gone is misplaced.
LEMMA EditorStepKeeps ==
  ASSUME TabInv, EditorStep
  PROVE  TabInv' /\ Preserved
<1>1. /\ Sound(layout) /\ OnPages(layout, misplaced)
      /\ misplaced \subseteq DOMAIN layout.panels
  BY DEF TabInv
<1>2. ~Idle => editor \in Dialogs
  BY DEF TabInv, Idle
<1>3. ASSUME NEW change, change = NoEditor \/ change \in Dialogs, Editing(change)
      PROVE  TabInv' /\ Preserved
  BY <1>3 DEF Editing, TabInv, Preserved
<1>4. ASSUME NEW p \in Pages, ChooseDestination(p)
      PROVE  TabInv' /\ Preserved
  <2>1. [editor EXCEPT !.page = p] \in Dialogs
    BY <1>2, <1>4 DEF ChooseDestination, Dialogs
  <2> QED
    BY <1>3, <1>4, <2>1 DEF ChooseDestination
<1>5. ASSUME NEW type \in Types, SwitchType(type)
      PROVE  TabInv' /\ Preserved
  <2>1. [editor EXCEPT !.type = type] \in Dialogs
    BY <1>2, <1>5 DEF SwitchType, Dialogs
  <2> QED
    BY <1>3, <1>5, <2>1 DEF SwitchType
<1>6. ASSUME PickMetric
      PROVE  TabInv' /\ Preserved
  <2>1. [editor EXCEPT !.count = @ + 1] \in Dialogs
    BY <1>2, <1>6 DEF PickMetric, Dialogs
  <2> QED
    BY <1>3, <1>6, <2>1 DEF PickMetric
<1>7. ASSUME DropMetric
      PROVE  TabInv' /\ Preserved
  <2>1. [editor EXCEPT !.count = @ - 1] \in Dialogs
    BY <1>2, <1>7 DEF DropMetric, Dialogs
  <2> QED
    BY <1>3, <1>7, <2>1 DEF DropMetric
<1>8. ASSUME CloseEditor
      PROVE  TabInv' /\ Preserved
  BY <1>3, <1>8 DEF CloseEditor
<1>9. ASSUME SavePanel
      PROVE  TabInv' /\ Preserved
  <2> DEFINE id == editor.id
             p == editor.page
             panel == [page |-> p, type |-> editor.type, count |-> editor.count]
             L == SaveCustomPanel(layout, id, panel)
  <2>1. editor \in Dialogs
    BY <1>2, <1>9 DEF SavePanel
  <2>2. id \in Panels /\ p \in Pages /\ panel \in Panel /\ panel.page = p
    BY <2>1 DEF Dialogs, Panel
  <2>3. /\ layout' = SetActivePage(L, p)
        /\ route' = IF L.active # p THEN p ELSE route
        /\ editor' = NoEditor /\ ops' = ops
        /\ misplaced' = IF p \in Visible(layout) THEN misplaced \ {id}
                        ELSE misplaced \cup {id}
    BY <1>9 DEF SavePanel, Navigated
  <2> HIDE DEF panel, id, p
  <2>4. /\ Sound(L) /\ Visible(L) = Visible(layout)
        /\ DOMAIN L.panels = DOMAIN layout.panels \cup {id}
        /\ L.panels[id] = panel
        /\ \A x \in DOMAIN layout.panels \ {id} : L.panels[x] = layout.panels[x]
    BY <1>1, <2>2, SaveCustomPanelSound
  <2> HIDE DEF L
  <2>5. /\ Sound(layout') /\ Visible(layout') = Visible(L)
        /\ layout'.panels = L.panels
    BY <2>3, <2>4, SetActivePageSound
  <2>6. OnPages(layout', misplaced')
    <3> SUFFICES ASSUME NEW x \in DOMAIN layout'.panels \ misplaced'
                 PROVE  layout'.panels[x].page \in Visible(layout')
      BY DEF OnPages
    <3>1. CASE x = id
      BY <2>2, <2>3, <2>4, <2>5, <3>1
    <3>2. CASE x # id
      <4>1. x \in DOMAIN layout.panels \ misplaced
        BY <2>3, <2>4, <2>5, <3>2
      <4> QED
        BY <1>1, <2>4, <2>5, <3>2, <4>1 DEF OnPages
    <3> QED
      BY <3>1, <3>2
  <2>7. misplaced' \subseteq DOMAIN layout'.panels
    BY <1>1, <2>3, <2>4, <2>5
  <2>8. Preserved
    BY <2>4, <2>5 DEF Preserved
  <2>9. route' \in Pages
    BY <2>2, <2>3 DEF TabInv
  <2> QED
    BY <2>3, <2>5, <2>6, <2>7, <2>8, <2>9 DEF TabInv
<1> QED
  BY <1>4, <1>5, <1>6, <1>7, <1>8, <1>9 DEF EditorStep, InEditor

\* What normalize and restoreRoutedPage make of preferences, for a reload and
\* for an answer of the server.
LEMMA LoadKeeps ==
  ASSUME NEW L, Loose(L), NEW K, K = Routed(Normalize(L))
  PROVE  /\ Sound(K) /\ OnPages(K, {})
         /\ Len(L.customPages) <= PageLimit =>
              \A id \in DOMAIN L.panels :
                L.panels[id].page \in Visible(L) => id \in DOMAIN K.panels
<1> DEFINE N == Normalize(L)
<1>1. /\ Sound(N) /\ OnPages(N, {})
      /\ Len(L.customPages) <= PageLimit =>
           \A id \in DOMAIN L.panels :
             L.panels[id].page \in Visible(L) => id \in DOMAIN N.panels
  BY NormalizeLoose
<1>2. K = SetActivePage(N, route)
  BY DEF Routed
<1> HIDE DEF N
<1>3. Sound(K) /\ Visible(K) = Visible(N) /\ K.panels = N.panels
  BY <1>1, <1>2, SetActivePageSound
<1>4. OnPages(K, {})
  BY <1>1, <1>3 DEF OnPages
<1> QED
  BY <1>1, <1>3, <1>4

\* A reload keeps the panels unless it cuts off pages.
LEMMA ReloadKeeps ==
  ASSUME TabInv, Reload
  PROVE  TabInv' /\ (Len(layout.customPages) <= PageLimit => Preserved)
<1>1. Sound(layout) /\ OnPages(layout, misplaced) /\ Loose(layout)
  BY SoundIsLoose DEF TabInv
<1>2. /\ layout' = Routed(Normalize(layout)) /\ route' = layout'.active
      /\ editor' = NoEditor /\ misplaced' = {} /\ ops' \in 0 .. MaxOps
  BY OperatesBound DEF Reload
<1>3. /\ Sound(layout') /\ OnPages(layout', {})
      /\ Len(layout.customPages) <= PageLimit =>
           \A id \in DOMAIN layout.panels :
             layout.panels[id].page \in Visible(layout) => id \in DOMAIN layout'.panels
  BY <1>1, <1>2, LoadKeeps
<1>4. Len(layout.customPages) <= PageLimit => Preserved
  BY <1>1, <1>3 DEF OnPages, Preserved
<1>5. layout'.active \in Pages
  BY <1>3, LayoutFields DEF Sound
<1> QED
  BY <1>2, <1>3, <1>4, <1>5 DEF TabInv

\* A document whose fields were saved by two tabs.
LEMMA MergedLoose ==
  ASSUME Sound(layout), NEW D, Sound(D), NEW fields, NEW p \in Pages,
         NEW M, M = Merged(D, fields, p), Visible(M) # {}
  PROVE  Loose(M)
<1> DEFINE s == IF "sections" \in fields THEN D.sections ELSE layout.sections
           h == IF "hiddenPages" \in fields THEN D.hiddenPages
                ELSE layout.hiddenPages
           c == IF "customPages" \in fields THEN D.customPages
                ELSE layout.customPages
           b == IF "panels" \in fields THEN D.panels ELSE layout.panels
           o == IF "order" \in fields THEN D.order ELSE layout.order
<1>1. /\ layout \in Layouts /\ D \in Layouts
      /\ layout.sections # <<>> /\ Whole(layout.sections, Visible(layout))
      /\ D.sections # <<>> /\ Whole(D.sections, Visible(D))
      /\ Visible(layout) \in SUBSET Pages /\ Visible(D) \in SUBSET Pages
  BY SoundFacts
<1>2. M = [layout EXCEPT !.sections = s, !.hiddenPages = h, !.customPages = c,
                         !.panels = b, !.order = o, !.active = p]
  BY DEF Merged
<1>3. /\ s \in Seq(Section) /\ s # <<>>
      /\ \E W \in SUBSET Pages : Whole(s, W)
  BY <1>1, LayoutFields
<1>4. /\ h \in Seq(ToSet(DefaultPages)) /\ IsInjective(h)
      /\ c \in Seq(NewPages) /\ IsInjective(c)
      /\ o \in Seq(Panels) /\ IsInjective(o)
      /\ b \in PanelMaps
  BY <1>1, LayoutFields, Zenon DEF Sound
<1>5. Protected \cap ToSet(h) = {} /\ Protected \subseteq ToSet(DefaultPages)
  <2>1. /\ Protected \subseteq ToSet(DefaultPages)
        /\ NewPages \cap ToSet(DefaultPages) = {}
    BY DefaultFacts
  <2>2. ASSUME NEW L, Sound(L)
        PROVE  Protected \cap ToSet(L.hiddenPages) = {}
    <3>1. /\ Protected \subseteq Visible(L)
          /\ Visible(L) = (ToSet(DefaultPages) \ ToSet(L.hiddenPages))
                             \cup ToSet(L.customPages)
          /\ L.customPages \in Seq(NewPages)
      BY <2>2, SoundFacts, LayoutFields DEF Sound
    <3>2. ToSet(L.customPages) \subseteq NewPages
      BY <3>1, ToSetSeq
    <3> QED
      BY <2>1, <3>1, <3>2
  <2> QED
    BY <2>1, <2>2
<1> HIDE DEF s, h, c, b, o
<1>6. /\ M \in Layouts /\ M.sections = s /\ M.hiddenPages = h
      /\ M.customPages = c /\ M.order = o
  BY <1>1, <1>2, <1>3, <1>4 DEF Layouts
<1>7. Protected \subseteq Visible(M)
  <2>1. Visible(M) = (ToSet(DefaultPages) \ ToSet(h)) \cup ToSet(c)
    BY <1>4, <1>6, ItemsFacts
  <2> QED
    BY <1>5, <2>1
<1> QED
  BY <1>3, <1>4, <1>6, <1>7, Zenon DEF Loose

\* The fields of the document, and its pages.
LEMMA MergedFields ==
  ASSUME Sound(layout), NEW D, Sound(D), NEW fields, NEW p \in Pages,
         NEW M, M = Merged(D, fields, p)
  PROVE  /\ M.panels = IF "panels" \in fields THEN D.panels ELSE layout.panels
         /\ "hiddenPages" \in fields /\ "customPages" \in fields =>
              Visible(M) = Visible(D)
         /\ "hiddenPages" \notin fields /\ "customPages" \notin fields =>
              Visible(M) = Visible(layout)
         /\ "hiddenPages" \notin fields /\ "customPages" \in fields =>
              Visible(M) = (ToSet(DefaultPages) \ ToSet(layout.hiddenPages))
                             \cup ToSet(D.customPages)
<1>1. layout \in Layouts /\ D \in Layouts
  BY DEF Sound
<1>2. /\ M.hiddenPages = IF "hiddenPages" \in fields THEN D.hiddenPages
                         ELSE layout.hiddenPages
      /\ M.customPages = IF "customPages" \in fields THEN D.customPages
                         ELSE layout.customPages
      /\ M.panels = IF "panels" \in fields THEN D.panels ELSE layout.panels
  BY <1>1 DEF Merged, Layouts
<1>3. /\ layout.hiddenPages \in Seq(ToSet(DefaultPages))
      /\ D.customPages \in Seq(NewPages)
  BY <1>1, LayoutFields
<1>4. /\ "hiddenPages" \in fields /\ "customPages" \in fields =>
           Visible(M) = Visible(D)
      /\ "hiddenPages" \notin fields /\ "customPages" \notin fields =>
           Visible(M) = Visible(layout)
  BY <1>2, ItemsSame
<1>5. "hiddenPages" \notin fields /\ "customPages" \in fields =>
        Visible(M) = (ToSet(DefaultPages) \ ToSet(layout.hiddenPages))
                       \cup ToSet(D.customPages)
  BY <1>2, <1>3, ItemsFacts
<1> QED
  BY <1>2, <1>4, <1>5

\* A save of the other tab, and what becomes of the panels of the document.
LEMMA OtherSavesKeeps ==
  ASSUME IInv, NEW D, Sound(D), OnPages(D, {}), NEW fields, NEW p \in Pages,
         OtherSaves(D, fields, p),
         NEW M, M = Merged(D, fields, p), Visible(M) # {}
  PROVE  /\ IInv' /\ other'.panels = D.panels
         /\ \A id \in DOMAIN M.panels :
              M.panels[id].page \in Visible(M) => id \in DOMAIN layout'.panels
<1>1. TabInv /\ Sound(layout)
  BY DEF IInv, TabInv
<1>2. /\ layout' = Routed(Normalize(M)) /\ other' = Copy(D) /\ misplaced' = {}
      /\ route' = route /\ editor' = editor /\ ops' \in 0 .. MaxOps
      /\ Len(M.customPages) <= PageLimit
  BY <1>1, OperatesBound DEF OtherSaves, Accepted, WithinLimits
<1>3. Loose(M)
  BY <1>1, MergedLoose
<1>4. /\ Sound(layout') /\ OnPages(layout', {})
      /\ \A id \in DOMAIN M.panels :
           M.panels[id].page \in Visible(M) => id \in DOMAIN layout'.panels
  BY <1>2, <1>3, LoadKeeps
<1>5. Sound(other') /\ Visible(other') = Visible(D) /\ other'.panels = D.panels
  BY <1>2, CopySound
<1>6. CopyInv'
  BY <1>5 DEF CopyInv, OnPages
<1>7. TabInv'
  BY <1>1, <1>2, <1>4 DEF TabInv
<1> QED
  BY <1>4, <1>5, <1>6, <1>7 DEF IInv

\* A panel that the other tab knows, with its page, is kept.
LEMMA OtherTabKeeps ==
  ASSUME IInv, NEW p \in Pages, OtherTab(p)
  PROVE  /\ IInv'
         /\ \A id \in DOMAIN layout.panels \ misplaced :
              id \in DOMAIN layout'.panels \/ Outdated(id)
<1> DEFINE Goal == /\ IInv'
                   /\ \A id \in DOMAIN layout.panels \ misplaced :
                        id \in DOMAIN layout'.panels \/ Outdated(id)
<1>1. /\ Sound(layout) /\ OnPages(layout, misplaced)
      /\ Sound(other) /\ OnPages(other, {})
      /\ Visible(layout) # {} /\ Visible(other) # {}
  BY SoundFacts DEF IInv, TabInv, CopyInv
<1>2. CASE OtherSaves(other, {}, p)
  <2> DEFINE F == {}
             K == Merged(other, F, p)
  <2>0. /\ K = Merged(other, F, p) /\ OtherSaves(other, F, p)
        /\ "panels" \notin F /\ "hiddenPages" \notin F /\ "customPages" \notin F
    BY <1>2
  <2> HIDE DEF K, F
  <2>1. K.panels = layout.panels /\ Visible(K) = Visible(layout)
    BY <1>1, <2>0, MergedFields
  <2>2. /\ IInv'
        /\ \A id \in DOMAIN K.panels :
             K.panels[id].page \in Visible(K) => id \in DOMAIN layout'.panels
    BY <1>1, <2>0, <2>1, OtherSavesKeeps
  <2> QED
    BY <1>1, <2>1, <2>2 DEF OnPages
<1>3. ASSUME NEW q, OtherSaves(RemovePage(other, q), PageFields, p)
      PROVE  Goal
  <2> DEFINE D == RemovePage(other, q)
             K == Merged(D, PageFields, p)
  <2>0. /\ K = Merged(D, PageFields, p)
        /\ "panels" \in PageFields /\ "hiddenPages" \in PageFields
        /\ "customPages" \in PageFields
    BY DEF PageFields
  <2> HIDE DEF K
  <2>1. Sound(D) /\ OnPages(D, {}) /\ DOMAIN D.panels = DOMAIN other.panels
    BY <1>1, RemovePageSound
  <2>2. OtherSaves(D, PageFields, p)
    BY <1>3
  <2> HIDE DEF D
  <2>3. K.panels = D.panels /\ Visible(K) = Visible(D) /\ Visible(D) # {}
    <3>1. K.panels = D.panels /\ Visible(K) = Visible(D)
      BY <1>1, <2>0, <2>1, MergedFields
    <3>2. Visible(D) # {}
      BY <2>1 DEF Sound
    <3> QED
      BY <3>1, <3>2
  <2>4. /\ IInv'
        /\ \A id \in DOMAIN K.panels :
             K.panels[id].page \in Visible(K) => id \in DOMAIN layout'.panels
    BY <2>0, <2>1, <2>2, <2>3, OtherSavesKeeps
  <2>5. \A id : id \in DOMAIN layout'.panels \/ Outdated(id)
    BY <2>1, <2>3, <2>4 DEF OnPages, Outdated
  <2> QED
    BY <2>4, <2>5
<1>4. ASSUME NEW q \in NewPages, NEW i \in DOMAIN other.sections, q \notin Visible(other),
             OtherSaves(AddPage(other, q, other.sections[i].id),
                        {"customPages", "sections"}, p)
      PROVE  Goal
  <2> DEFINE D == AddPage(other, q, other.sections[i].id)
             F == {"customPages", "sections"}
             K == Merged(D, F, p)
  <2>0. /\ K = Merged(D, F, p)
        /\ "panels" \notin F /\ "hiddenPages" \notin F /\ "customPages" \in F
    OBVIOUS
  <2> HIDE DEF K
  <2>1. /\ Sound(D) /\ Visible(other) \subseteq Visible(D)
        /\ D.panels = other.panels
    BY <1>1, <1>4, AddPageSound
  <2>2. OnPages(D, {})
    BY <1>1, <2>1, OnMorePages
  <2>3. D.customPages = Append(other.customPages, q)
    <3>1. other \in Layouts /\ other.sections \in Seq(Section)
      BY <1>1, SoundFacts
    <3>2. SectionAt(other.sections, other.sections[i].id) # 0
      <4>1. i \in 1 .. Len(other.sections)
        BY <3>1, LenProperties
      <4> QED
        BY <3>1, <4>1, SectionAtFinds
    <3> QED
      BY <3>1, <3>2 DEF AddPage, Layouts
  <2>4. /\ D.customPages \in Seq(NewPages)
        /\ ToSet(D.customPages) = ToSet(other.customPages) \cup {q}
    <3>1. other.customPages \in Seq(NewPages)
      BY <1>1, LayoutFields DEF Sound
    <3> QED
      BY <2>3, <3>1, AppendSet
  <2>5. OtherSaves(D, F, p)
    BY <1>4
  <2> HIDE DEF D, F
  <2>6. /\ K.panels = layout.panels
        /\ Visible(K) = (ToSet(DefaultPages) \ ToSet(layout.hiddenPages))
                           \cup ToSet(D.customPages)
    BY <1>1, <2>0, <2>1, MergedFields
  <2>7. Visible(K) # {} /\ Visible(layout) \cap Visible(other) \subseteq Visible(K)
    <3>1. /\ Visible(layout) = (ToSet(DefaultPages) \ ToSet(layout.hiddenPages))
                                 \cup ToSet(layout.customPages)
          /\ Visible(other) = (ToSet(DefaultPages) \ ToSet(other.hiddenPages))
                                \cup ToSet(other.customPages)
      BY <1>1, SoundFacts
    <3>2. /\ ToSet(layout.customPages) \subseteq NewPages
          /\ NewPages \cap ToSet(DefaultPages) = {}
      BY <1>1, LayoutFields, ToSetSeq, DefaultFacts DEF Sound
    <3> QED
      BY <2>4, <2>6, <3>1, <3>2
  <2>8. /\ IInv'
        /\ \A id \in DOMAIN K.panels :
             K.panels[id].page \in Visible(K) => id \in DOMAIN layout'.panels
    BY <2>0, <2>1, <2>2, <2>5, <2>7, OtherSavesKeeps
  <2>9. \A id \in DOMAIN layout.panels :
          id \in DOMAIN layout'.panels \/ Outdated(id)
    BY <2>6, <2>7, <2>8 DEF Outdated
  <2> QED
    BY <2>8, <2>9
<1>5. ASSUME NEW s, OtherSaves(RemoveNavigationSection(other, s), {"sections"}, p)
      PROVE  Goal
  <2> DEFINE D == RemoveNavigationSection(other, s)
             F == {"sections"}
             K == Merged(D, F, p)
  <2>0. /\ K = Merged(D, F, p)
        /\ "panels" \notin F /\ "hiddenPages" \notin F /\ "customPages" \notin F
    OBVIOUS
  <2> HIDE DEF K
  <2>1. Sound(D) /\ Visible(D) = Visible(other) /\ D.panels = other.panels
    BY <1>1, RemoveNavigationSectionSound
  <2>2. OnPages(D, {}) /\ OtherSaves(D, F, p)
    BY <1>1, <1>5, <2>1, OnMorePages
  <2> HIDE DEF D, F
  <2>3. K.panels = layout.panels /\ Visible(K) = Visible(layout)
    BY <1>1, <2>0, <2>1, MergedFields
  <2>4. /\ IInv'
        /\ \A id \in DOMAIN K.panels :
             K.panels[id].page \in Visible(K) => id \in DOMAIN layout'.panels
    BY <1>1, <2>0, <2>1, <2>2, <2>3, OtherSavesKeeps
  <2> QED
    BY <1>1, <2>3, <2>4 DEF OnPages
<1>6. ASSUME NEW new \in NewPanels, NEW page \in Visible(other),
             OtherSaves(SaveCustomPanel(other, new,
                          [page |-> page, type |-> "timeseries", count |-> 1]),
                        {"panels", "order"}, p)
      PROVE  Goal
  <2> DEFINE panel == [page |-> page, type |-> "timeseries", count |-> 1]
             D == SaveCustomPanel(other, new, panel)
             F == {"panels", "order"}
             K == Merged(D, F, p)
  <2>0. /\ K = Merged(D, F, p)
        /\ "panels" \in F /\ "hiddenPages" \notin F /\ "customPages" \notin F
    OBVIOUS
  <2> HIDE DEF K
  <2>1. new \in Panels /\ panel \in Panel /\ panel.page \in Visible(other)
    <3>1. page \in Pages /\ "timeseries" \in Types
      BY <1>1, SoundFacts, LayoutAssumption
    <3> QED
      BY <3>1 DEF Panel, Panels
  <2>2. OtherSaves(D, F, p)
    BY <1>6
  <2> HIDE DEF panel, F
  <2>3. /\ Sound(D) /\ Visible(D) = Visible(other)
        /\ DOMAIN D.panels = DOMAIN other.panels \cup {new}
        /\ D.panels[new] = panel
        /\ \A x \in DOMAIN other.panels \ {new} : D.panels[x] = other.panels[x]
    BY <1>1, <2>1, SaveCustomPanelSound
  <2> HIDE DEF D
  <2>4. OnPages(D, {})
    <3> SUFFICES ASSUME NEW x \in DOMAIN D.panels
                 PROVE  D.panels[x].page \in Visible(D)
      BY DEF OnPages
    <3>1. CASE x = new
      BY <2>1, <2>3, <3>1
    <3>2. CASE x # new
      BY <1>1, <2>3, <3>2 DEF OnPages
    <3> QED
      BY <3>1, <3>2
  <2>5. K.panels = D.panels /\ Visible(K) = Visible(layout)
    BY <1>1, <2>0, <2>3, MergedFields
  <2>6. /\ IInv' /\ other'.panels = D.panels
        /\ \A id \in DOMAIN K.panels :
             K.panels[id].page \in Visible(K) => id \in DOMAIN layout'.panels
    BY <1>1, <2>0, <2>2, <2>3, <2>4, <2>5, OtherSavesKeeps
  <2>7. \A id : id \in DOMAIN layout'.panels \/ Outdated(id)
    BY <2>3, <2>5, <2>6 DEF Outdated
  <2> QED
    BY <2>6, <2>7
<1> QED
  BY <1>2, <1>3, <1>4, <1>5, <1>6 DEF OtherTab

\* The other tab takes up what the server has.
LEMMA CatchesUpKeeps ==
  ASSUME IInv, OtherCatchesUp
  PROVE  IInv' /\ Preserved
<1>1. TabInv /\ Sound(layout)
  BY DEF IInv, TabInv
<1>2. /\ other' = Copy(Normalize(layout)) /\ layout' = layout /\ route' = route
      /\ editor' = editor /\ misplaced' = misplaced /\ ops' \in 0 .. MaxOps
  BY <1>1, OperatesBound DEF OtherCatchesUp
<1> DEFINE N == Normalize(layout)
<1>3. Sound(N) /\ OnPages(N, {})
  BY <1>1, NormalizeSound
<1> HIDE DEF N
<1>4. Sound(other') /\ Visible(other') = Visible(N) /\ other'.panels = N.panels
  BY <1>2, <1>3, CopySound DEF N
<1>5. CopyInv'
  BY <1>3, <1>4 DEF CopyInv, OnPages
<1>6. TabInv'
  BY <1>1, <1>2 DEF TabInv
<1> QED
  BY <1>2, <1>5, <1>6 DEF IInv, Preserved

\* Nothing else changes its copy.
LEMMA CopyStays ==
  ASSUME NavigationStep \/ PanelStep \/ EditorStep \/ Reload
  PROVE  other' = other
<1>1. CASE NavigationStep
  BY <1>1, Zenon DEF NavigationStep, Visit, Setting, Navigate, PopState, DeletePage, AddSection,
     DeleteSection, PlaceSection, CreatePage, MovePage, DropSection, DropPage,
     Configure
<1>2. CASE PanelStep
  <2>1. CASE Deletes
    BY <2>1, Zenon DEF Deletes, RemovePanel, DeleteEdited, Reset
  <2> QED
    BY <1>2, <2>1, Zenon DEF PanelStep, Arrangement, TogglePanel, MovePanel, DropPanel,
       Arrange, CreatePanel, EditPanel, OpenEditor, FindPanel
<1>3. CASE EditorStep
  BY <1>3, Zenon DEF EditorStep, InEditor, ChooseDestination, SwitchType, PickMetric,
     DropMetric, CloseEditor, Editing, SavePanel
<1>4. CASE Reload
  BY <1>4 DEF Reload
<1> QED
  BY <1>1, <1>2, <1>3, <1>4

\* One step, of any kind.
LEMMA NextKeeps ==
  ASSUME IInv, [Next]_vars
  PROVE  /\ IInv'
         /\ \/ Deletes
            \/ Reload /\ Len(layout.customPages) > PageLimit
            \/ \A id \in DOMAIN layout.panels \ misplaced :
                 \/ id \in DOMAIN layout'.panels
                 \/ Outdated(id) /\ \E p \in Pages : OtherTab(p)
<1> DEFINE Kept == \A id \in DOMAIN layout.panels \ misplaced :
                     \/ id \in DOMAIN layout'.panels
                     \/ Outdated(id) /\ \E p \in Pages : OtherTab(p)
<1>1. TabInv
  BY DEF IInv
<1>2. Preserved => Kept
  BY DEF Preserved
<1>3. other' = other => CopyInv'
  BY DEF IInv, CopyInv
<1> HIDE DEF Kept
<1>4. ASSUME NavigationStep PROVE IInv' /\ Kept
  BY <1>1, <1>2, <1>3, <1>4, NavigationStepKeeps, CopyStays DEF IInv
<1>5. ASSUME PanelStep PROVE IInv' /\ (Deletes \/ Kept)
  BY <1>1, <1>2, <1>3, <1>5, PanelStepKeeps, CopyStays DEF IInv
<1>6. ASSUME EditorStep PROVE IInv' /\ Kept
  BY <1>1, <1>2, <1>3, <1>6, EditorStepKeeps, CopyStays DEF IInv
<1>7. ASSUME Reload
      PROVE  IInv' /\ (Kept \/ Len(layout.customPages) > PageLimit)
  <2>1. Len(layout.customPages) \in Nat /\ PageLimit \in Nat
    <3>1. layout.customPages \in Seq(NewPages)
      BY <1>1, LayoutFields DEF TabInv, Sound
    <3> QED
      BY <3>1, LenProperties, LayoutAssumption
  <2>2. Len(layout.customPages) <= PageLimit \/ Len(layout.customPages) > PageLimit
    BY <2>1
  <2>3. TabInv' /\ (Len(layout.customPages) <= PageLimit => Preserved)
    BY <1>1, <1>7, ReloadKeeps
  <2>4. CopyInv'
    BY <1>3, <1>7, CopyStays
  <2> QED
    BY <1>2, <1>7, <2>2, <2>3, <2>4 DEF IInv
<1>8. ASSUME NEW p \in Pages, OtherTab(p)
      PROVE  IInv' /\ Kept
  BY <1>8, OtherTabKeeps DEF Kept
<1>9. ASSUME OtherCatchesUp PROVE IInv' /\ Kept
  BY <1>2, <1>9, CatchesUpKeeps
<1>10. ASSUME UNCHANGED vars PROVE IInv' /\ Kept
  <2>1. /\ layout' = layout /\ route' = route /\ editor' = editor
        /\ misplaced' = misplaced /\ ops' = ops /\ other' = other
    BY <1>10 DEF vars
  <2>2. TabInv' /\ Preserved
    BY <1>1, <2>1 DEF TabInv, Preserved
  <2> QED
    BY <1>2, <1>3, <2>1, <2>2 DEF IInv
<1>11. /\ IInv'
       /\ \/ Deletes
          \/ Reload /\ Len(layout.customPages) > PageLimit
          \/ Kept
  <2>1. CASE Next
    BY <1>4, <1>5, <1>6, <1>7, <1>8, <1>9, <2>1, Zenon DEF Next
  <2>2. CASE UNCHANGED vars
    BY <1>10, <2>2
  <2> QED
    BY <2>1, <2>2
<1> QED
  BY <1>11 DEF Kept

\* The preferences are sound in every state that is reached, here and in the
\* copy of the other tab, however old it is.
THEOREM LayoutInvariant == Spec => []IInv
<1>1. Init => IInv
  BY InitInvariant
<1>2. IInv /\ [Next]_vars => IInv'
  BY NextKeeps
<1> QED
  BY <1>1, <1>2, PTL DEF Spec

\* Whatever the user does, and whatever another tab saves meanwhile, every page
\* is in one section of the navigation, once, and the page shown and the
\* protected one are there (preferences.ts, app.ts).
THEOREM NavigationStaysWhole == Spec => []LayoutOK
<1>1. IInv => LayoutOK
  BY InvariantImplies
<1> QED
  BY <1>1, LayoutInvariant, PTL

\* What is saved is what a reload shows: normalize changes nothing but for the
\* exceptions the property names (preferences.ts, normalize).
THEOREM ReloadShowsTheSame == Spec => []ReloadChangesNothing
<1>1. IInv => ReloadChangesNothing
  BY ReloadImplies DEF IInv
<1> QED
  BY <1>1, LayoutInvariant, PTL

\* A custom panel stays until it is deleted, on a page there is, but for what
\* the copy of another tab is too old to know (preferences.ts, removePage and
\* hydrate).
THEOREM CustomPanelsAreKept == Spec => PanelsAreKept
<1> DEFINE Kept == \/ \A id \in DOMAIN layout.panels \ misplaced :
                        \/ /\ id \in DOMAIN layout'.panels
                           /\ \/ layout'.panels[id].page \in Visible(layout')
                              \/ id \in misplaced'
                        \/ Outdated(id) /\ \E p \in Pages : OtherTab(p)
                   \/ Reload /\ Len(layout.customPages) > PageLimit
                   \/ Deletes
<1>1. IInv /\ [Next]_vars => [Kept]_vars
  <2> SUFFICES ASSUME IInv, [Next]_vars
               PROVE  Kept
    OBVIOUS
  <2>1. OnPages(layout', misplaced')
    BY NextKeeps DEF IInv, TabInv
  <2>2. CASE Deletes
    BY <2>2
  <2>3. CASE Reload /\ Len(layout.customPages) > PageLimit
    BY <2>3
  <2>4. CASE \A id \in DOMAIN layout.panels \ misplaced :
                 \/ id \in DOMAIN layout'.panels
                 \/ Outdated(id) /\ \E p \in Pages : OtherTab(p)
    BY <2>1, <2>4 DEF OnPages
  <2> QED
    BY <2>2, <2>3, <2>4, NextKeeps
<1>2. Spec => [][Kept]_vars
  BY <1>1, LayoutInvariant, PTL DEF Spec
<1> QED
  BY <1>2 DEF PanelsAreKept

=============================================================================
