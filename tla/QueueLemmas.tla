----------------------------- MODULE QueueLemmas -----------------------------
(***************************************************************************)
(* Facts about the queues of all units: what Append and Tail do to the     *)
(* elements of a sequence, and how they change the number of times an      *)
(* element occurs in it.                                                   *)
(***************************************************************************)
EXTENDS Integers, Sequences, FiniteSets, SequencesExt, TLAPS, SequenceTheorems,
        FiniteSetTheorems, FunctionTheorems

\* A queue of elements of a set is a queue of elements of a larger one.
LEMMA SeqMonotone ==
  ASSUME NEW S, NEW T, S \subseteq T, NEW q \in Seq(S)
  PROVE  q \in Seq(T)
OBVIOUS

\* A queue that is not empty is its head followed by its tail.
LEMMA TailElements ==
  ASSUME NEW S, NEW q \in Seq(S), q # <<>>
  PROVE  /\ Head(q) = q[1] /\ Head(q) \in S
         /\ Len(q) \in Nat /\ Len(q) >= 1
         /\ Tail(q) \in Seq(S) /\ Len(Tail(q)) = Len(q) - 1
         /\ DOMAIN q = 1 .. Len(q) /\ DOMAIN Tail(q) = 1 .. Len(q) - 1
         /\ \A i \in 1 .. Len(q) - 1 : Tail(q)[i] = q[i + 1]
<1>1. Len(q) \in Nat /\ Len(q) >= 1
  BY EmptySeq, LenProperties
<1> QED BY <1>1, HeadTailProperties, LenProperties

\* The last element stays the last one when the head leaves.
LEMMA TailKeepsLast ==
  ASSUME NEW S, NEW q \in Seq(S), Len(q) > 1
  PROVE  /\ Tail(q) # <<>>
         /\ Tail(q)[Len(Tail(q))] = q[Len(q)]
<1>1. q # <<>>
  OBVIOUS
<1>2. Len(Tail(q)) = Len(q) - 1 /\ \A i \in 1 .. Len(q) - 1 : Tail(q)[i] = q[i + 1]
  BY <1>1, TailElements
<1>3. Len(q) \in Nat
  OBVIOUS
<1>4. Len(Tail(q)) >= 1
  BY <1>2, <1>3
<1>5. Tail(q) # <<>>
  BY <1>4
<1>6. Tail(q)[Len(q) - 1] = q[(Len(q) - 1) + 1]
  BY <1>2, <1>3
<1>7. (Len(q) - 1) + 1 = Len(q)
  BY <1>3
<1> QED BY <1>2, <1>5, <1>6, <1>7

\* An appended element comes last.
LEMMA AppendElements ==
  ASSUME NEW S, NEW q \in Seq(S), NEW e \in S
  PROVE  /\ Append(q, e) \in Seq(S) /\ Append(q, e) # <<>>
         /\ Len(q) \in Nat /\ Len(Append(q, e)) = Len(q) + 1
         /\ DOMAIN q = 1 .. Len(q) /\ DOMAIN Append(q, e) = 1 .. Len(q) + 1
         /\ \A i \in 1 .. Len(q) : Append(q, e)[i] = q[i]
         /\ Append(q, e)[Len(q) + 1] = e
BY AppendProperties, LenProperties

\* The elements of a queue are the head and the elements of the tail.
LEMMA RangeTail ==
  ASSUME NEW S, NEW q \in Seq(S), q # <<>>
  PROVE  Range(q) = {Head(q)} \cup Range(Tail(q))
<1>1. /\ Head(q) = q[1] /\ Len(q) \in Nat /\ Len(q) >= 1
      /\ DOMAIN q = 1 .. Len(q) /\ DOMAIN Tail(q) = 1 .. Len(q) - 1
      /\ \A i \in 1 .. Len(q) - 1 : Tail(q)[i] = q[i + 1]
  BY TailElements
<1>2. ASSUME NEW e \in Range(q) PROVE e \in {Head(q)} \cup Range(Tail(q))
  <2>1. PICK i \in 1 .. Len(q) : e = q[i]
    BY <1>1 DEF Range
  <2>2. CASE i = 1
    BY <1>1, <2>1, <2>2
  <2>3. CASE i # 1
    <3>1. i - 1 \in 1 .. Len(q) - 1 /\ (i - 1) + 1 = i
      BY <1>1, <2>3
    <3>2. Tail(q)[i - 1] = e
      BY <1>1, <2>1, <3>1
    <3> QED BY <1>1, <3>1, <3>2 DEF Range
  <2> QED BY <2>2, <2>3
<1>3. ASSUME NEW e \in {Head(q)} \cup Range(Tail(q)) PROVE e \in Range(q)
  BY <1>1 DEF Range
<1> QED BY <1>2, <1>3

\* Append adds one element.
LEMMA RangeAppend ==
  ASSUME NEW S, NEW q \in Seq(S), NEW e \in S
  PROVE  Range(Append(q, e)) = Range(q) \cup {e}
<1>1. /\ Len(q) \in Nat
      /\ DOMAIN q = 1 .. Len(q) /\ DOMAIN Append(q, e) = 1 .. Len(q) + 1
      /\ \A i \in 1 .. Len(q) : Append(q, e)[i] = q[i]
      /\ Append(q, e)[Len(q) + 1] = e
  BY AppendElements
<1>2. 1 .. Len(q) + 1 = (1 .. Len(q)) \cup {Len(q) + 1}
  BY <1>1
<1> QED BY <1>1, <1>2 DEF Range

-----------------------------------------------------------------------------
(* Occurrences                                                              *)

\* The places of a queue that hold an element of X, and their number
Where(X, q) == {i \in DOMAIN q : q[i] \in X}
Count(X, q) == Cardinality(Where(X, q))

\* A queue has finitely many places.
LEMMA CountType ==
  ASSUME NEW S, NEW q \in Seq(S), NEW X
  PROVE  /\ IsFiniteSet(Where(X, q)) /\ Count(X, q) \in Nat
         /\ Count(X, q) = 0 <=> \A i \in DOMAIN q : q[i] \notin X
<1>1. IsFiniteSet(1 .. Len(q))
  BY FS_Interval, LenProperties
<1>2. Where(X, q) \in SUBSET (1 .. Len(q))
  BY LenProperties DEF Where
<1>3. IsFiniteSet(Where(X, q))
  BY <1>1, <1>2, FS_Subset
<1>4. Count(X, q) = 0 <=> Where(X, q) = {}
  BY <1>3, FS_EmptySet DEF Count
<1>5. Where(X, q) = {} <=> \A i \in DOMAIN q : q[i] \notin X
  BY DEF Where
<1> QED BY <1>3, <1>4, <1>5, FS_CardinalityType DEF Count

\* The occurrences in a concatenation are those of its two parts.
LEMMA CountConcat ==
  ASSUME NEW S, NEW p \in Seq(S), NEW q \in Seq(S), NEW X
  PROVE  Count(X, p \o q) = Count(X, p) + Count(X, q)
<1> DEFINE shifted == {i \in Len(p) + 1 .. Len(p) + Len(q) : q[i - Len(p)] \in X}
           f == [i \in Where(X, q) |-> i + Len(p)]
<1>1. /\ Len(p) \in Nat /\ Len(q) \in Nat
      /\ DOMAIN p = 1 .. Len(p) /\ DOMAIN q = 1 .. Len(q)
      /\ DOMAIN (p \o q) = 1 .. Len(p) + Len(q)
      /\ \A i \in 1 .. Len(p) : (p \o q)[i] = p[i]
      /\ \A i \in Len(p) + 1 .. Len(p) + Len(q) : (p \o q)[i] = q[i - Len(p)]
  BY ConcatProperties, LenProperties
<1>2. Where(X, p \o q) = Where(X, p) \cup shifted
  BY <1>1 DEF Where
<1>3. Where(X, p) \cap shifted = {}
  BY <1>1 DEF Where
<1>4. f \in Bijection(Where(X, q), shifted)
  <2>1. f \in [Where(X, q) -> shifted]
    BY <1>1 DEF Where
  <2>2. \A i, j \in Where(X, q) : f[i] = f[j] => i = j
    BY <1>1 DEF Where
  <2>3. ASSUME NEW t \in shifted PROVE \E i \in Where(X, q) : f[i] = t
    <3>1. t - Len(p) \in Where(X, q)
      BY <1>1 DEF Where
    <3>2. f[t - Len(p)] = t
      BY <1>1, <3>1
    <3> QED BY <3>1, <3>2
  <2> QED BY <2>1, <2>2, <2>3, Fun_IsBij
<1>5. /\ IsFiniteSet(Where(X, p)) /\ IsFiniteSet(Where(X, q))
      /\ Count(X, p) \in Nat /\ Count(X, q) \in Nat
  BY CountType
<1>6. IsFiniteSet(shifted) /\ Cardinality(shifted) = Count(X, q)
  BY <1>4, <1>5, FS_Bijection DEF ExistsBijection, Count
<1> HIDE DEF shifted
<1>7. Cardinality(Where(X, p) \cup shifted)
        = Cardinality(Where(X, p)) + Cardinality(shifted) - Cardinality(Where(X, p) \cap shifted)
  BY <1>5, <1>6, FS_Union
<1>8. Cardinality(Where(X, p) \cap shifted) = 0
  BY <1>3, FS_EmptySet
<1> QED BY <1>2, <1>5, <1>6, <1>7, <1>8 DEF Count

\* Nothing occurs in the empty queue.
LEMMA CountEmpty ==
  ASSUME NEW X
  PROVE  Count(X, <<>>) = 0
<1>1. Where(X, <<>>) = {}
  BY DEF Where
<1> QED BY <1>1, FS_EmptySet DEF Count

\* A queue of one element
LEMMA CountOne ==
  ASSUME NEW X, NEW e
  PROVE  Count(X, <<e>>) = IF e \in X THEN 1 ELSE 0
<1>1. Where(X, <<e>>) = IF e \in X THEN {1} ELSE {}
  BY DEF Where
<1> QED BY <1>1, FS_EmptySet, FS_Singleton DEF Count

\* Append adds one occurrence, of the appended element.
LEMMA CountAppend ==
  ASSUME NEW S, NEW q \in Seq(S), NEW e \in S, NEW X
  PROVE  Count(X, Append(q, e)) = Count(X, q) + (IF e \in X THEN 1 ELSE 0)
<1>1. Append(q, e) = q \o <<e>> /\ <<e>> \in Seq(S)
  BY AppendIsConcat
<1>2. Count(X, q \o <<e>>) = Count(X, q) + Count(X, <<e>>)
  BY <1>1, CountConcat
<1> QED BY <1>1, <1>2, CountOne

\* Tail takes one occurrence away, of the head.
LEMMA CountTail ==
  ASSUME NEW S, NEW q \in Seq(S), q # <<>>, NEW X
  PROVE  Count(X, q) = Count(X, Tail(q)) + (IF Head(q) \in X THEN 1 ELSE 0)
<1>1. /\ Head(q) \in S /\ Tail(q) \in Seq(S)
      /\ <<Head(q)>> \in Seq(S)
  BY TailElements
<1>2. q = <<Head(q)>> \o Tail(q)
  BY HeadTailProperties, <1>1
<1>3. Count(X, q) = Count(X, <<Head(q)>>) + Count(X, Tail(q))
  BY <1>1, <1>2, CountConcat
<1>4. Count(X, Tail(q)) \in Nat /\ Count(X, <<Head(q)>>) = IF Head(q) \in X THEN 1 ELSE 0
  BY <1>1, CountOne, CountType
<1> QED BY <1>3, <1>4

\* RemoveAt takes one occurrence away, of the element that is removed.
LEMMA CountRemoveAt ==
  ASSUME NEW S, NEW q \in Seq(S), NEW k \in 1 .. Len(q), NEW X
  PROVE  /\ RemoveAt(q, k) \in Seq(S)
         /\ Count(X, q) = Count(X, RemoveAt(q, k)) + (IF q[k] \in X THEN 1 ELSE 0)
<1> DEFINE a == SubSeq(q, 1, k - 1)
           b == SubSeq(q, k + 1, Len(q))
<1>1. Len(q) \in Nat /\ k \in Nat /\ q[k] \in S
  BY LenProperties, ElementOfSeq
<1>2. a \in Seq(S) /\ b \in Seq(S) /\ <<q[k]>> \in Seq(S)
  BY <1>1, SubSeqProperties
<1>3. RemoveAt(q, k) = a \o b
  BY DEF RemoveAt
<1>4. q = (a \o <<q[k]>>) \o b
  <2>1. SubSeq(q, 1, k) = Append(a, q[k])
    BY <1>1, SubSeqRecursiveSecond
  <2>2. Append(a, q[k]) = a \o <<q[k]>>
    BY <1>1, <1>2, AppendIsConcat
  <2>3. SubSeq(q, 1, k) \o b = SubSeq(q, 1, Len(q))
    BY <1>1, ConcatAdjacentSubSeq
  <2>4. SubSeq(q, 1, Len(q)) = q
    BY SubSeqFull
  <2> QED BY <2>1, <2>2, <2>3, <2>4
<1>5. Count(X, q) = (Count(X, a) + Count(X, <<q[k]>>)) + Count(X, b)
  <2>1. a \o <<q[k]>> \in Seq(S)
    BY <1>2
  <2> HIDE DEF a, b
  <2>2. Count(X, (a \o <<q[k]>>) \o b) = Count(X, a \o <<q[k]>>) + Count(X, b)
    BY <1>2, <2>1, CountConcat
  <2>3. Count(X, a \o <<q[k]>>) = Count(X, a) + Count(X, <<q[k]>>)
    BY <1>2, CountConcat
  <2> QED BY <1>4, <2>2, <2>3
<1>6. Count(X, RemoveAt(q, k)) = Count(X, a) + Count(X, b)
  BY <1>2, <1>3, CountConcat
<1>7. Count(X, a) \in Nat /\ Count(X, b) \in Nat
  BY <1>2, CountType
<1>8. RemoveAt(q, k) \in Seq(S)
  BY <1>2, <1>3
<1> HIDE DEF a, b
<1> QED BY <1>5, <1>6, <1>7, <1>8, CountOne
-----------------------------------------------------------------------------
(* A prefix of a queue is taken                                             *)

\* Nothing is taken.
LEMMA TakeNone ==
  ASSUME NEW S, NEW q \in Seq(S)
  PROVE  SubSeq(q, 0 + 1, Len(q)) = q /\ Range(SubSeq(q, 1, 0)) = {}
<1>1. SubSeq(q, 1, 0) = <<>>
  BY SubSeqEmpty
<1>2. Range(<<>>) = {}
  BY DEF Range
<1>3. 0 + 1 = 1
  OBVIOUS
<1> QED BY <1>1, <1>2, <1>3, SubSeqFull

\* The head is taken and the tail stays.
LEMMA TakeOne ==
  ASSUME NEW S, NEW q \in Seq(S), q # <<>>
  PROVE  SubSeq(q, 1 + 1, Len(q)) = Tail(q) /\ Range(SubSeq(q, 1, 1)) = {Head(q)}
<1>1. /\ Len(q) \in Nat /\ Len(q) >= 1 /\ Head(q) = q[1] /\ Head(q) \in S
  BY TailElements
<1> DEFINE t == SubSeq(q, 1, 1)
<1>2. t \in Seq(S) /\ Len(t) = 1 /\ t[1] = q[1]
  <2>1. \A i \in 1 .. 1 : q[i] \in S
    BY <1>1
  <2> QED BY <2>1, SubSeqProperties
<1> HIDE DEF t
<1>3. DOMAIN t = 1 .. 1
  BY <1>2, LenProperties
<1>4. Range(t) = {q[1]}
  BY <1>2, <1>3 DEF Range
<1>5. 1 + 1 = 2
  OBVIOUS
<1> QED BY <1>1, <1>4, <1>5, TailIsSubSeq DEF t

=============================================================================
