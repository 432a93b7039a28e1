------------------------------ MODULE UnitLemmas ------------------------------
(***************************************************************************)
(* Facts about a unit (watcher or clause), its stages and its memories.    *)
(*                                                                         *)
(* A read of the unit passes the unit's out queue o, the L3 path l, a set, *)
(* or the private cache p, and the unit's queue i of answers.  Reads that  *)
(* take the L3 path overtake each other; the others stay in the order in   *)
(* which they were sent.                                                   *)
(*                                                                         *)
(* A list or clause, the key of a request, is at one stage st[key] and has *)
(* dealt with pos[key] of its elements; the queue of a stage holds one     *)
(* request for each key at that stage, with that index.                    *)
(***************************************************************************)
EXTENDS QueueLemmas

\* before: the pairs of reads of which the first may be ahead of the second
Ordered(before, q) == \A m, n \in DOMAIN q : m < n => <<q[m], q[n]>> \in before
AllBefore(before, X, Y) == \A x \in X, y \in Y : <<x, y>> \in before

UnderWay(o, l, p, i) == Range(o) \cup l \cup Range(p) \cup Range(i)

\* Reads of S are under way, each one once; the ones in free are in no order.
OnPath(S, free, before, o, l, p, i) ==
  /\ o \in Seq(S) /\ p \in Seq(S) /\ i \in Seq(S) /\ l \subseteq S \cap free
  /\ IsInjective(o) /\ IsInjective(p) /\ IsInjective(i)
  /\ Range(o) \cap l = {} /\ Range(o) \cap Range(p) = {} /\ Range(o) \cap Range(i) = {}
  /\ l \cap Range(p) = {} /\ l \cap Range(i) = {} /\ Range(p) \cap Range(i) = {}
  /\ Ordered(before, o) /\ Ordered(before, p) /\ Ordered(before, i)
  /\ AllBefore(before, Range(i), Range(p)) /\ AllBefore(before, Range(i), Range(o))
  /\ AllBefore(before, Range(p), Range(o))

FreeIn(S, free, before) ==
  \A x \in S \cap free, y \in S : <<x, y>> \in before /\ <<y, x>> \in before

-----------------------------------------------------------------------------
(* Queues without duplicates, in order                                      *)

\* The elements of a queue
LEMMA RangeElements ==
  ASSUME NEW S, NEW q \in Seq(S)
  PROVE  /\ Range(q) \subseteq S
         /\ \A k \in DOMAIN q : q[k] \in Range(q) /\ q[k] \in S
         /\ q # <<>> => Head(q) \in Range(q) /\ Head(q) \in S
<1>1. \A k \in DOMAIN q : q[k] \in S
  BY ElementOfSeq, LenProperties
<1>2. \A k \in DOMAIN q : q[k] \in Range(q)
  BY DEF Range
<1>3. Range(q) \subseteq S
  BY <1>1 DEF Range
<1>4. q # <<>> => Head(q) \in Range(q) /\ Head(q) \in S
  BY RangeTail, TailElements
<1> QED BY <1>1, <1>2, <1>3, <1>4

\* The elements of two queues put together
LEMMA RangeConcat ==
  ASSUME NEW S, NEW q \in Seq(S), NEW t \in Seq(S)
  PROVE  Range(q \o t) = Range(q) \cup Range(t)
<1> DEFINE c == q \o t
<1>1. /\ Len(q) \in Nat /\ Len(t) \in Nat
      /\ DOMAIN q = 1 .. Len(q) /\ DOMAIN t = 1 .. Len(t) /\ DOMAIN c = 1 .. Len(q) + Len(t)
      /\ \A x \in 1 .. Len(q) : c[x] = q[x]
      /\ \A x \in Len(q) + 1 .. Len(q) + Len(t) : c[x] = t[x - Len(q)]
  BY ConcatProperties, LenProperties
<1> HIDE DEF c
<1>2. ASSUME NEW x \in DOMAIN c PROVE c[x] \in Range(q) \cup Range(t)
  <2>1. CASE x \in 1 .. Len(q)
    BY <1>1, <2>1 DEF Range
  <2>2. CASE x \notin 1 .. Len(q)
    <3>1. x - Len(q) \in 1 .. Len(t) /\ x \in Len(q) + 1 .. Len(q) + Len(t)
      BY <1>1, <2>2
    <3> QED BY <1>1, <3>1 DEF Range
  <2> QED BY <2>1, <2>2
<1>3. ASSUME NEW x \in DOMAIN q PROVE q[x] \in Range(c)
  <2>1. x \in DOMAIN c /\ c[x] = q[x]
    BY <1>1
  <2> QED BY <2>1 DEF Range
<1>4. ASSUME NEW x \in DOMAIN t PROVE t[x] \in Range(c)
  <2>1. Len(q) + x \in DOMAIN c /\ Len(q) + x \in Len(q) + 1 .. Len(q) + Len(t)
        /\ (Len(q) + x) - Len(q) = x
    BY <1>1
  <2>2. c[Len(q) + x] = t[x]
    BY <1>1, <2>1
  <2> QED BY <2>1, <2>2 DEF Range
<1>5. Range(c) \subseteq Range(q) \cup Range(t)
  BY <1>2 DEF Range
<1>6. Range(q) \subseteq Range(c) /\ Range(t) \subseteq Range(c)
  BY <1>3, <1>4 DEF Range
<1> QED BY <1>5, <1>6 DEF c

\* The head of a queue without duplicates is not in its tail.
LEMMA InjectiveTail ==
  ASSUME NEW S, NEW q \in Seq(S), q # <<>>, IsInjective(q)
  PROVE  /\ Tail(q) \in Seq(S) /\ IsInjective(Tail(q))
         /\ Head(q) \notin Range(Tail(q)) /\ Range(Tail(q)) = Range(q) \ {Head(q)}
<1>1. /\ Head(q) = q[1] /\ Len(q) \in Nat /\ Len(q) >= 1 /\ Tail(q) \in Seq(S)
      /\ DOMAIN q = 1 .. Len(q) /\ DOMAIN Tail(q) = 1 .. Len(q) - 1
      /\ \A k \in 1 .. Len(q) - 1 : Tail(q)[k] = q[k + 1]
  BY TailElements
<1>2. \A m, n \in 1 .. Len(q) : q[m] = q[n] => m = n
  BY <1>1 DEF IsInjective
<1>3. IsInjective(Tail(q))
  <2> SUFFICES ASSUME NEW m \in 1 .. Len(q) - 1, NEW n \in 1 .. Len(q) - 1,
                      Tail(q)[m] = Tail(q)[n]
               PROVE  m = n
    BY <1>1 DEF IsInjective
  <2>1. m + 1 \in 1 .. Len(q) /\ n + 1 \in 1 .. Len(q) /\ q[m + 1] = q[n + 1]
    BY <1>1
  <2>2. m + 1 = n + 1
    BY <1>2, <2>1
  <2> QED BY <2>2
<1>4. Head(q) \notin Range(Tail(q))
  <2> SUFFICES ASSUME NEW k \in 1 .. Len(q) - 1, Head(q) = Tail(q)[k] PROVE FALSE
    BY <1>1 DEF Range
  <2>1. k + 1 \in 1 .. Len(q) /\ 1 \in 1 .. Len(q) /\ q[k + 1] = q[1]
    BY <1>1
  <2> QED BY <1>2, <2>1
<1> QED BY <1>1, <1>3, <1>4, RangeTail

\* A queue without duplicates takes an element it does not hold.
LEMMA InjectiveAppend ==
  ASSUME NEW S, NEW q \in Seq(S), NEW e \in S, e \notin Range(q), IsInjective(q)
  PROVE  Append(q, e) \in Seq(S) /\ IsInjective(Append(q, e))
<1>1. /\ Append(q, e) \in Seq(S) /\ Len(q) \in Nat
      /\ DOMAIN q = 1 .. Len(q) /\ DOMAIN Append(q, e) = 1 .. Len(q) + 1
      /\ \A k \in 1 .. Len(q) : Append(q, e)[k] = q[k]
      /\ Append(q, e)[Len(q) + 1] = e
  BY AppendElements
<1>2. \A m, n \in 1 .. Len(q) : q[m] = q[n] => m = n
  BY <1>1 DEF IsInjective
<1>3. \A k \in 1 .. Len(q) : q[k] # e
  BY <1>1 DEF Range
<1> QED BY <1>1, <1>2, <1>3 DEF IsInjective

\* The head of an ordered queue is before the others.
LEMMA OrderedTail ==
  ASSUME NEW S, NEW q \in Seq(S), q # <<>>, NEW before, Ordered(before, q)
  PROVE  Ordered(before, Tail(q)) /\ AllBefore(before, {Head(q)}, Range(Tail(q)))
<1>1. /\ Head(q) = q[1] /\ Len(q) \in Nat /\ Len(q) >= 1
      /\ DOMAIN q = 1 .. Len(q) /\ DOMAIN Tail(q) = 1 .. Len(q) - 1
      /\ \A k \in 1 .. Len(q) - 1 : Tail(q)[k] = q[k + 1]
  BY TailElements
<1>2. \A m, n \in 1 .. Len(q) : m < n => <<q[m], q[n]>> \in before
  BY <1>1 DEF Ordered
<1>3. ASSUME NEW m \in 1 .. Len(q) - 1, NEW n \in 1 .. Len(q) - 1, m < n
      PROVE  <<Tail(q)[m], Tail(q)[n]>> \in before
  <2>1. m + 1 \in 1 .. Len(q) /\ n + 1 \in 1 .. Len(q) /\ m + 1 < n + 1
    BY <1>1, <1>3
  <2>2. <<q[m + 1], q[n + 1]>> \in before
    BY <1>2, <2>1
  <2> QED BY <1>1, <2>2
<1>4. ASSUME NEW y \in Range(Tail(q)) PROVE <<Head(q), y>> \in before
  <2>1. PICK k \in 1 .. Len(q) - 1 : y = Tail(q)[k]
    BY <1>1 DEF Range
  <2>2. k + 1 \in 1 .. Len(q) /\ 1 \in 1 .. Len(q) /\ 1 < k + 1
    BY <1>1
  <2>3. <<q[1], q[k + 1]>> \in before
    BY <1>2, <2>2
  <2> QED BY <1>1, <2>1, <2>3
<1> QED BY <1>1, <1>3, <1>4 DEF Ordered, AllBefore

\* An ordered queue takes an element that all others are before.
LEMMA OrderedAppend ==
  ASSUME NEW S, NEW q \in Seq(S), NEW e \in S, NEW before, Ordered(before, q),
         AllBefore(before, Range(q), {e})
  PROVE  Ordered(before, Append(q, e))
<1>1. /\ Len(q) \in Nat
      /\ DOMAIN q = 1 .. Len(q) /\ DOMAIN Append(q, e) = 1 .. Len(q) + 1
      /\ \A k \in 1 .. Len(q) : Append(q, e)[k] = q[k]
      /\ Append(q, e)[Len(q) + 1] = e
  BY AppendElements
<1>2. \A k \in 1 .. Len(q) : <<q[k], e>> \in before
  BY <1>1, RangeElements DEF AllBefore
<1> SUFFICES ASSUME NEW m \in 1 .. Len(q) + 1, NEW n \in 1 .. Len(q) + 1, m < n
             PROVE  <<Append(q, e)[m], Append(q, e)[n]>> \in before
  BY <1>1 DEF Ordered
<1>3. m \in 1 .. Len(q) /\ Append(q, e)[m] = q[m]
  BY <1>1
<1>4. CASE n = Len(q) + 1
  <2>1. Append(q, e)[n] = e
    BY <1>1, <1>4
  <2> QED BY <1>2, <1>3, <2>1
<1>5. CASE n # Len(q) + 1
  <2>1. n \in 1 .. Len(q) /\ Append(q, e)[n] = q[n]
    BY <1>1, <1>5
  <2>2. <<q[m], q[n]>> \in before
    BY <1>1, <1>3, <2>1 DEF Ordered
  <2> QED BY <1>3, <2>1, <2>2
<1> QED BY <1>4, <1>5

-----------------------------------------------------------------------------
(* The steps of the path                                                    *)

\* The unit sends a read that is not under way.
LEMMA PathSend ==
  ASSUME NEW S, NEW free, NEW before, NEW o, NEW l, NEW p, NEW i,
         OnPath(S, free, before, o, l, p, i), NEW r \in S, r \notin UnderWay(o, l, p, i),
         \A s \in UnderWay(o, l, p, i) : <<s, r>> \in before
  PROVE  /\ OnPath(S, free, before, Append(o, r), l, p, i)
         /\ UnderWay(Append(o, r), l, p, i) = UnderWay(o, l, p, i) \cup {r}
<1>1. /\ o \in Seq(S) /\ p \in Seq(S) /\ i \in Seq(S)
      /\ IsInjective(o) /\ Ordered(before, o)
  BY DEF OnPath
<1>2. Range(Append(o, r)) = Range(o) \cup {r}
  BY <1>1, RangeAppend
<1>3. Append(o, r) \in Seq(S) /\ IsInjective(Append(o, r))
  BY <1>1, InjectiveAppend DEF UnderWay
<1>4. Ordered(before, Append(o, r))
  <2>1. AllBefore(before, Range(o), {r})
    BY DEF AllBefore, UnderWay
  <2> QED BY <1>1, <2>1, OrderedAppend
<1>5. AllBefore(before, Range(i), Range(o) \cup {r}) /\ AllBefore(before, Range(p), Range(o) \cup {r})
  BY DEF AllBefore, UnderWay, OnPath
<1> QED BY <1>2, <1>3, <1>4, <1>5 DEF OnPath, UnderWay

\* The oldest read takes the L3 path.
With(l, r) == l \cup {r}
LEMMA PathToL3 ==
  ASSUME NEW S, NEW free, NEW before, NEW o, NEW l, NEW p, NEW i,
         OnPath(S, free, before, o, l, p, i), o # <<>>, Head(o) \in free
  PROVE  /\ OnPath(S, free, before, Tail(o), With(l, Head(o)), p, i)
         /\ UnderWay(Tail(o), With(l, Head(o)), p, i) = UnderWay(o, l, p, i)
<1>1. o \in Seq(S) /\ IsInjective(o) /\ Ordered(before, o)
  BY DEF OnPath
<1>2. /\ Tail(o) \in Seq(S) /\ IsInjective(Tail(o)) /\ Head(o) \notin Range(Tail(o))
      /\ Range(Tail(o)) = Range(o) \ {Head(o)} /\ Head(o) \in Range(o) /\ Head(o) \in S
  BY <1>1, InjectiveTail, RangeElements
<1>3. Ordered(before, Tail(o))
  BY <1>1, OrderedTail
<1>4. AllBefore(before, Range(i), Range(Tail(o))) /\ AllBefore(before, Range(p), Range(Tail(o)))
  BY <1>2 DEF AllBefore, OnPath
<1> QED BY <1>2, <1>3, <1>4 DEF OnPath, UnderWay, With

\* The oldest read enters the private cache.
LEMMA PathToPrivate ==
  ASSUME NEW S, NEW free, NEW before, NEW o, NEW l, NEW p, NEW i,
         OnPath(S, free, before, o, l, p, i), o # <<>>
  PROVE  /\ OnPath(S, free, before, Tail(o), l, Append(p, Head(o)), i)
         /\ UnderWay(Tail(o), l, Append(p, Head(o)), i) = UnderWay(o, l, p, i)
<1>1. /\ o \in Seq(S) /\ IsInjective(o) /\ Ordered(before, o)
      /\ p \in Seq(S) /\ IsInjective(p) /\ Ordered(before, p)
  BY DEF OnPath
<1>2. /\ Tail(o) \in Seq(S) /\ IsInjective(Tail(o)) /\ Head(o) \notin Range(Tail(o))
      /\ Range(Tail(o)) = Range(o) \ {Head(o)} /\ Head(o) \in Range(o) /\ Head(o) \in S
  BY <1>1, InjectiveTail, RangeElements
<1>3. Ordered(before, Tail(o)) /\ AllBefore(before, {Head(o)}, Range(Tail(o)))
  BY <1>1, OrderedTail
<1>4. Range(Append(p, Head(o))) = Range(p) \cup {Head(o)}
  BY <1>1, <1>2, RangeAppend
<1>5. Append(p, Head(o)) \in Seq(S) /\ IsInjective(Append(p, Head(o)))
  BY <1>1, <1>2, InjectiveAppend DEF OnPath
<1>6. Ordered(before, Append(p, Head(o)))
  <2>1. AllBefore(before, Range(p), {Head(o)})
    BY <1>2 DEF AllBefore, OnPath
  <2> QED BY <1>1, <1>2, <2>1, OrderedAppend
<1>7. /\ AllBefore(before, Range(i), Range(p) \cup {Head(o)})
      /\ AllBefore(before, Range(i), Range(Tail(o)))
      /\ AllBefore(before, Range(p) \cup {Head(o)}, Range(Tail(o)))
  BY <1>2, <1>3 DEF AllBefore, OnPath
<1> QED BY <1>2, <1>3, <1>4, <1>5, <1>6, <1>7 DEF OnPath, UnderWay

\* The L3 path answers any of its reads.
LEMMA PathFromL3 ==
  ASSUME NEW S, NEW free, NEW before, NEW o, NEW l, NEW p, NEW i,
         OnPath(S, free, before, o, l, p, i), FreeIn(S, free, before), NEW r \in l
  PROVE  /\ OnPath(S, free, before, o, l \ {r}, p, Append(i, r))
         /\ UnderWay(o, l \ {r}, p, Append(i, r)) = UnderWay(o, l, p, i)
<1>1. /\ i \in Seq(S) /\ IsInjective(i) /\ Ordered(before, i)
      /\ o \in Seq(S) /\ p \in Seq(S) /\ r \in S \cap free /\ r \notin Range(i)
  BY DEF OnPath
<1>2. Range(Append(i, r)) = Range(i) \cup {r}
  BY <1>1, RangeAppend
<1>3. Append(i, r) \in Seq(S) /\ IsInjective(Append(i, r))
  BY <1>1, InjectiveAppend
<1>4. Range(i) \subseteq S /\ Range(o) \subseteq S /\ Range(p) \subseteq S
  BY <1>1, RangeElements
<1>5. Ordered(before, Append(i, r))
  <2>1. AllBefore(before, Range(i), {r})
    BY <1>1, <1>4 DEF AllBefore, FreeIn
  <2> QED BY <1>1, <2>1, OrderedAppend
<1>6. /\ AllBefore(before, Range(i) \cup {r}, Range(p))
      /\ AllBefore(before, Range(i) \cup {r}, Range(o))
  BY <1>1, <1>4 DEF AllBefore, FreeIn, OnPath
<1> QED BY <1>2, <1>3, <1>5, <1>6 DEF OnPath, UnderWay

\* The private cache answers its oldest read.
LEMMA PathFromPrivate ==
  ASSUME NEW S, NEW free, NEW before, NEW o, NEW l, NEW p, NEW i,
         OnPath(S, free, before, o, l, p, i), p # <<>>
  PROVE  /\ OnPath(S, free, before, o, l, Tail(p), Append(i, Head(p)))
         /\ UnderWay(o, l, Tail(p), Append(i, Head(p))) = UnderWay(o, l, p, i)
<1>1. /\ p \in Seq(S) /\ IsInjective(p) /\ Ordered(before, p)
      /\ i \in Seq(S) /\ IsInjective(i) /\ Ordered(before, i)
  BY DEF OnPath
<1>2. /\ Tail(p) \in Seq(S) /\ IsInjective(Tail(p)) /\ Head(p) \notin Range(Tail(p))
      /\ Range(Tail(p)) = Range(p) \ {Head(p)} /\ Head(p) \in Range(p) /\ Head(p) \in S
  BY <1>1, InjectiveTail, RangeElements
<1>3. Ordered(before, Tail(p)) /\ AllBefore(before, {Head(p)}, Range(Tail(p)))
  BY <1>1, OrderedTail
<1>4. Range(Append(i, Head(p))) = Range(i) \cup {Head(p)}
  BY <1>1, <1>2, RangeAppend
<1>5. Append(i, Head(p)) \in Seq(S) /\ IsInjective(Append(i, Head(p)))
  BY <1>1, <1>2, InjectiveAppend DEF OnPath
<1>6. Ordered(before, Append(i, Head(p)))
  <2>1. AllBefore(before, Range(i), {Head(p)})
    BY <1>2 DEF AllBefore, OnPath
  <2> QED BY <1>1, <1>2, <2>1, OrderedAppend
<1>7. /\ AllBefore(before, Range(i) \cup {Head(p)}, Range(Tail(p)))
      /\ AllBefore(before, Range(i) \cup {Head(p)}, Range(o))
      /\ AllBefore(before, Range(Tail(p)), Range(o))
  BY <1>2, <1>3 DEF AllBefore, OnPath
<1> QED BY <1>2, <1>3, <1>4, <1>5, <1>6, <1>7 DEF OnPath, UnderWay

\* The unit takes its oldest answer: that read is no longer under way, and it was
\* before all others.
LEMMA PathTake ==
  ASSUME NEW S, NEW free, NEW before, NEW o, NEW l, NEW p, NEW i,
         OnPath(S, free, before, o, l, p, i), FreeIn(S, free, before), i # <<>>
  PROVE  /\ OnPath(S, free, before, o, l, p, Tail(i))
         /\ Head(i) \in UnderWay(o, l, p, i) /\ Head(i) \in S
         /\ UnderWay(o, l, p, Tail(i)) = UnderWay(o, l, p, i) \ {Head(i)}
         /\ \A s \in UnderWay(o, l, p, Tail(i)) : <<Head(i), s>> \in before
<1>1. i \in Seq(S) /\ IsInjective(i) /\ Ordered(before, i)
  BY DEF OnPath
<1>2. /\ Tail(i) \in Seq(S) /\ IsInjective(Tail(i)) /\ Head(i) \notin Range(Tail(i))
      /\ Range(Tail(i)) = Range(i) \ {Head(i)} /\ Head(i) \in Range(i) /\ Head(i) \in S
  BY <1>1, InjectiveTail, RangeElements
<1>3. Ordered(before, Tail(i)) /\ AllBefore(before, {Head(i)}, Range(Tail(i)))
  BY <1>1, OrderedTail
<1>4. AllBefore(before, Range(Tail(i)), Range(p)) /\ AllBefore(before, Range(Tail(i)), Range(o))
  BY <1>2 DEF AllBefore, OnPath
<1>5. UnderWay(o, l, p, Tail(i)) = UnderWay(o, l, p, i) \ {Head(i)}
  BY <1>2 DEF OnPath, UnderWay
<1>6. ASSUME NEW s \in UnderWay(o, l, p, Tail(i)) PROVE <<Head(i), s>> \in before
  <2>1. CASE s \in l
    BY <1>2, <2>1 DEF FreeIn, OnPath
  <2>2. CASE s \in Range(Tail(i))
    BY <1>3, <2>2 DEF AllBefore
  <2>3. CASE s \in Range(p) \cup Range(o)
    BY <1>2, <2>3 DEF AllBefore, OnPath
  <2> QED BY <2>1, <2>2, <2>3 DEF UnderWay
<1> QED BY <1>2, <1>3, <1>4, <1>5, <1>6 DEF OnPath, UnderWay

-----------------------------------------------------------------------------
(* The queue of a stage                                                     *)

StageQueue(K, S, key, idx, q, k, st, pos) ==
  /\ q \in Seq(S)
  /\ \A m, n \in DOMAIN q : key[q[m]] = key[q[n]] => m = n
  /\ \A a \in K : st[a] = k <=> \E n \in DOMAIN q : key[q[n]] = a
  /\ \A n \in DOMAIN q : idx[q[n]] = pos[key[q[n]]]

\* The oldest request of a stage
LEMMA StageHead ==
  ASSUME NEW K, NEW S, NEW key \in [S -> K], NEW idx, NEW q, NEW k, NEW st, NEW pos,
         StageQueue(K, S, key, idx, q, k, st, pos), q # <<>>
  PROVE  /\ Head(q) \in S /\ Head(q) = q[1] /\ 1 \in DOMAIN q
         /\ key[Head(q)] \in K /\ st[key[Head(q)]] = k
         /\ idx[Head(q)] = pos[key[Head(q)]]
<1>1. Head(q) = q[1] /\ Head(q) \in S /\ Len(q) \in Nat /\ Len(q) >= 1 /\ DOMAIN q = 1 .. Len(q)
  BY TailElements DEF StageQueue
<1>2. 1 \in DOMAIN q /\ key[Head(q)] \in K
  BY <1>1
<1> QED BY <1>1, <1>2 DEF StageQueue

\* The oldest request leaves for another stage.
LEMMA StagePop ==
  ASSUME NEW K, NEW S, NEW key \in [S -> K], NEW idx, NEW q, NEW k,
         NEW T, NEW st \in [K -> T], NEW pos \in [K -> Nat],
         StageQueue(K, S, key, idx, q, k, st, pos), q # <<>>, NEW n, n # k, NEW m
  PROVE  StageQueue(K, S, key, idx, Tail(q), k, [st EXCEPT ![key[Head(q)]] = n],
                    [pos EXCEPT ![key[Head(q)]] = m])
<1> DEFINE h == key[Head(q)]
           st2 == [st EXCEPT ![h] = n]
           pos2 == [pos EXCEPT ![h] = m]
<1>1. /\ Head(q) = q[1] /\ Len(q) \in Nat /\ Len(q) >= 1 /\ Tail(q) \in Seq(S)
      /\ DOMAIN q = 1 .. Len(q) /\ DOMAIN Tail(q) = 1 .. Len(q) - 1
      /\ \A x \in 1 .. Len(q) - 1 : Tail(q)[x] = q[x + 1]
  BY TailElements DEF StageQueue
<1>2. /\ \A x, y \in 1 .. Len(q) : key[q[x]] = key[q[y]] => x = y
      /\ \A a \in K : st[a] = k <=> \E x \in 1 .. Len(q) : key[q[x]] = a
      /\ \A x \in 1 .. Len(q) : idx[q[x]] = pos[key[q[x]]] /\ key[q[x]] \in K
  BY <1>1, RangeElements DEF StageQueue
<1>3. h = key[q[1]] /\ h \in K
  BY <1>1, StageHead
<1>4. \A a \in K : st2[a] = (IF a = h THEN n ELSE st[a]) /\ pos2[a] = (IF a = h THEN m ELSE pos[a])
  BY <1>3
<1> HIDE DEF h, st2, pos2
<1>5. \A x \in 1 .. Len(q) - 1 : /\ x + 1 \in 1 .. Len(q) /\ Tail(q)[x] = q[x + 1]
                                 /\ key[q[x + 1]] # h
  <2> TAKE x \in 1 .. Len(q) - 1
  <2>1. x + 1 \in 1 .. Len(q) /\ 1 \in 1 .. Len(q) /\ x + 1 # 1
    BY <1>1
  <2>2. Tail(q)[x] = q[x + 1]
    BY <1>1
  <2> QED BY <1>2, <1>3, <2>1, <2>2
<1>6. \A x, y \in DOMAIN Tail(q) : key[Tail(q)[x]] = key[Tail(q)[y]] => x = y
  <2> TAKE x, y \in DOMAIN Tail(q)
  <2>1. key[Tail(q)[x]] = key[Tail(q)[y]] => x + 1 = y + 1
    BY <1>1, <1>2, <1>5
  <2> QED BY <1>1, <2>1
<1>7. ASSUME NEW a \in K
      PROVE  st2[a] = k <=> \E x \in DOMAIN Tail(q) : key[Tail(q)[x]] = a
  <2>1. CASE a = h
    BY <1>1, <1>4, <1>5, <2>1
  <2>2. CASE a # h
    <3>1. ASSUME st[a] = k PROVE \E x \in DOMAIN Tail(q) : key[Tail(q)[x]] = a
      <4>1. PICK y \in 1 .. Len(q) : key[q[y]] = a
        BY <1>2, <3>1
      <4>2. y # 1
        BY <1>3, <2>2, <4>1
      <4>3. y - 1 \in 1 .. Len(q) - 1 /\ (y - 1) + 1 = y
        BY <1>1, <4>2
      <4>4. Tail(q)[y - 1] = q[y]
        BY <1>5, <4>3
      <4> QED BY <1>1, <4>1, <4>3, <4>4
    <3>2. ASSUME \E x \in DOMAIN Tail(q) : key[Tail(q)[x]] = a PROVE st[a] = k
      BY <1>1, <1>2, <1>5, <3>2
    <3> QED BY <1>4, <2>2, <3>1, <3>2
  <2> QED BY <2>1, <2>2
<1>8. \A x \in DOMAIN Tail(q) : idx[Tail(q)[x]] = pos2[key[Tail(q)[x]]]
  BY <1>1, <1>2, <1>4, <1>5
<1>9. StageQueue(K, S, key, idx, Tail(q), k, st2, pos2)
  BY <1>1, <1>6, <1>7, <1>8 DEF StageQueue
<1> QED BY <1>9 DEF st2, pos2, h

\* A request comes from another stage.
LEMMA StagePush ==
  ASSUME NEW K, NEW S, NEW key \in [S -> K], NEW idx, NEW q, NEW k,
         NEW T, NEW st \in [K -> T], NEW pos \in [K -> Nat],
         StageQueue(K, S, key, idx, q, k, st, pos), NEW r \in S, st[key[r]] # k
  PROVE  StageQueue(K, S, key, idx, Append(q, r), k, [st EXCEPT ![key[r]] = k],
                    [pos EXCEPT ![key[r]] = idx[r]])
<1> DEFINE h == key[r]
           st2 == [st EXCEPT ![h] = k]
           pos2 == [pos EXCEPT ![h] = idx[r]]
           q2 == Append(q, r)
<1>1. /\ q2 \in Seq(S) /\ Len(q) \in Nat
      /\ DOMAIN q = 1 .. Len(q) /\ DOMAIN q2 = 1 .. Len(q) + 1
      /\ \A x \in 1 .. Len(q) : q2[x] = q[x]
      /\ q2[Len(q) + 1] = r
  BY AppendElements DEF StageQueue
<1>2. /\ \A x, y \in 1 .. Len(q) : key[q[x]] = key[q[y]] => x = y
      /\ \A a \in K : st[a] = k <=> \E x \in 1 .. Len(q) : key[q[x]] = a
      /\ \A x \in 1 .. Len(q) : idx[q[x]] = pos[key[q[x]]] /\ key[q[x]] \in K
  BY <1>1, RangeElements DEF StageQueue
<1>3. h \in K /\ st[h] # k
  OBVIOUS
<1>4. \A a \in K : st2[a] = (IF a = h THEN k ELSE st[a]) /\ pos2[a] = (IF a = h THEN idx[r] ELSE pos[a])
  BY <1>3
<1>5. \A x \in 1 .. Len(q) : key[q[x]] # h
  BY <1>2, <1>3
<1>6. \A x \in 1 .. Len(q) + 1 : x \in 1 .. Len(q) \/ x = Len(q) + 1
  BY <1>1
<1>7. key[q2[Len(q) + 1]] = h /\ idx[q2[Len(q) + 1]] = idx[r] /\ Len(q) + 1 \in 1 .. Len(q) + 1
  BY <1>1
<1> HIDE DEF h, st2, pos2, q2
<1>8. \A x, y \in DOMAIN q2 : key[q2[x]] = key[q2[y]] => x = y
  BY <1>1, <1>2, <1>5, <1>6, <1>7
<1>9. ASSUME NEW a \in K
      PROVE  st2[a] = k <=> \E x \in DOMAIN q2 : key[q2[x]] = a
  <2>1. CASE a = h
    BY <1>1, <1>4, <1>7, <2>1
  <2>2. CASE a # h
    <3>1. ASSUME NEW x \in 1 .. Len(q), key[q[x]] = a PROVE \E y \in DOMAIN q2 : key[q2[y]] = a
      <4>1. x \in DOMAIN q2 /\ key[q2[x]] = a
        BY <1>1, <3>1
      <4> QED BY <4>1
    <3>2. ASSUME NEW x \in DOMAIN q2, key[q2[x]] = a PROVE \E y \in 1 .. Len(q) : key[q[y]] = a
      <4>1. x \in 1 .. Len(q) /\ q2[x] = q[x]
        BY <1>1, <1>6, <1>7, <2>2, <3>2
      <4> QED BY <3>2, <4>1
    <3> QED BY <1>2, <1>4, <2>2, <3>1, <3>2
  <2> QED BY <2>1, <2>2
<1>10. \A x \in DOMAIN q2 : idx[q2[x]] = pos2[key[q2[x]]]
  BY <1>1, <1>2, <1>3, <1>4, <1>5, <1>6, <1>7
<1>11. StageQueue(K, S, key, idx, q2, k, st2, pos2)
  BY <1>1, <1>8, <1>9, <1>10 DEF StageQueue
<1> QED BY <1>11 DEF st2, pos2, h, q2

\* A key of another stage goes on, but not to this stage.
LEMMA StageOther ==
  ASSUME NEW K, NEW S, NEW key \in [S -> K], NEW idx, NEW q, NEW k,
         NEW T, NEW st \in [K -> T], NEW pos \in [K -> Nat],
         StageQueue(K, S, key, idx, q, k, st, pos),
         NEW a \in K, st[a] # k, NEW n, n # k, NEW m
  PROVE  StageQueue(K, S, key, idx, q, k, [st EXCEPT ![a] = n], [pos EXCEPT ![a] = m])
<1>1. \A x \in DOMAIN q : key[q[x]] \in K
  BY RangeElements DEF StageQueue
<1>2. \A x \in DOMAIN q : key[q[x]] # a
  BY DEF StageQueue
<1> QED BY <1>1, <1>2 DEF StageQueue

\* The oldest request of a stage deals with a few elements and stays.
LEMMA StageAdvance ==
  ASSUME NEW K, NEW S, NEW key \in [S -> K], NEW idx, NEW q, NEW k,
         NEW T, NEW st \in [K -> T], NEW pos \in [K -> Nat],
         StageQueue(K, S, key, idx, q, k, st, pos), q # <<>>,
         NEW r \in S, key[r] = key[Head(q)]
  PROVE  StageQueue(K, S, key, idx, [q EXCEPT ![1] = r], k, st, [pos EXCEPT ![key[r]] = idx[r]])
<1> DEFINE h == key[r]
           pos2 == [pos EXCEPT ![h] = idx[r]]
           q2 == [q EXCEPT ![1] = r]
<1>1. /\ Head(q) = q[1] /\ Len(q) \in Nat /\ Len(q) >= 1 /\ DOMAIN q = 1 .. Len(q) /\ q \in Seq(S)
  BY TailElements DEF StageQueue
<1>2. /\ \A x, y \in 1 .. Len(q) : key[q[x]] = key[q[y]] => x = y
      /\ \A a \in K : st[a] = k <=> \E x \in 1 .. Len(q) : key[q[x]] = a
      /\ \A x \in 1 .. Len(q) : idx[q[x]] = pos[key[q[x]]] /\ key[q[x]] \in K
  <2>1. \A x \in 1 .. Len(q) : q[x] \in S
    BY <1>1
  <2>2. \A x \in 1 .. Len(q) : key[q[x]] \in K
    BY <2>1
  <2>3. /\ \A x, y \in 1 .. Len(q) : key[q[x]] = key[q[y]] => x = y
        /\ \A a \in K : st[a] = k <=> \E x \in 1 .. Len(q) : key[q[x]] = a
        /\ \A x \in 1 .. Len(q) : idx[q[x]] = pos[key[q[x]]]
    BY <1>1 DEF StageQueue
  <2> QED BY <2>2, <2>3, Zenon
<1>3. h \in K /\ h = key[q[1]] /\ 1 \in 1 .. Len(q)
  BY <1>1
<1>4. \A a \in K : pos2[a] = (IF a = h THEN idx[r] ELSE pos[a])
  BY <1>3
<1>5. /\ q2 \in Seq(S) /\ DOMAIN q2 = 1 .. Len(q) /\ q2[1] = r
      /\ \A x \in 1 .. Len(q) : x # 1 => q2[x] = q[x]
  BY <1>1
<1>6. \A x \in 1 .. Len(q) : key[q2[x]] = key[q[x]]
  BY <1>3, <1>5
<1> HIDE DEF h, pos2, q2
<1>7. \A x \in 1 .. Len(q) : idx[q2[x]] = pos2[key[q2[x]]]
  <2> TAKE x \in 1 .. Len(q)
  <2>1. CASE x = 1
    BY <1>3, <1>4, <1>5, <2>1 DEF h
  <2>2. CASE x # 1
    <3>1. key[q[x]] # h
      BY <1>2, <1>3, <2>2
    <3> QED BY <1>2, <1>4, <1>5, <2>2, <3>1
  <2> QED BY <2>1, <2>2
<1>8. StageQueue(K, S, key, idx, q2, k, st, pos2)
  <2>1. \A x, y \in DOMAIN q2 : key[q2[x]] = key[q2[y]] => x = y
    BY <1>2, <1>5, <1>6
  <2>2. ASSUME NEW a \in K
        PROVE  st[a] = k <=> \E x \in DOMAIN q2 : key[q2[x]] = a
    <3>1. (\E x \in 1 .. Len(q) : key[q2[x]] = a) <=> (\E x \in 1 .. Len(q) : key[q[x]] = a)
      BY <1>6
    <3> QED BY <1>2, <1>5, <3>1
  <2> QED BY <1>5, <1>7, <2>1, <2>2 DEF StageQueue
<1> QED BY <1>8 DEF pos2, h, q2

\* Nothing at a stage
LEMMA StageEmpty ==
  ASSUME NEW K, NEW S, NEW key, NEW idx, NEW k, NEW st, NEW pos, \A a \in K : st[a] # k
  PROVE  StageQueue(K, S, key, idx, <<>>, k, st, pos)
BY DEF StageQueue

\* No two requests of a queue have the same key.
DistinctKeys(key, q) == \A m, n \in DOMAIN q : key[q[m]] = key[q[n]] => m = n
NoKeyInBoth(key, q, t) == \A m \in DOMAIN q, n \in DOMAIN t : key[q[m]] # key[t[n]]

\* The queues of two stages hold no key in common.
LEMMA StageConcat ==
  ASSUME NEW S, NEW key, NEW q \in Seq(S), NEW t \in Seq(S),
         DistinctKeys(key, q), DistinctKeys(key, t), NoKeyInBoth(key, q, t)
  PROVE  q \o t \in Seq(S) /\ DistinctKeys(key, q \o t)
<1> DEFINE c == q \o t
<1>1. /\ c \in Seq(S) /\ Len(q) \in Nat /\ Len(t) \in Nat
      /\ DOMAIN q = 1 .. Len(q) /\ DOMAIN t = 1 .. Len(t) /\ DOMAIN c = 1 .. Len(q) + Len(t)
      /\ \A x \in 1 .. Len(q) : c[x] = q[x]
      /\ \A x \in Len(q) + 1 .. Len(q) + Len(t) : c[x] = t[x - Len(q)]
  BY ConcatProperties, LenProperties
<1> HIDE DEF c
<1>2. ASSUME NEW x \in 1 .. Len(q) + Len(t)
      PROVE  \/ x \in 1 .. Len(q) /\ c[x] = q[x]
             \/ x - Len(q) \in 1 .. Len(t) /\ c[x] = t[x - Len(q)]
  BY <1>1
<1>3. ASSUME NEW x \in 1 .. Len(q) + Len(t), NEW y \in 1 .. Len(q) + Len(t),
             key[c[x]] = key[c[y]]
      PROVE  x = y
  <2> DEFINE u == x - Len(q)
             v == y - Len(q)
  <2>1. u \in Int /\ v \in Int /\ (u = v => x = y)
    BY <1>1
  <2>2. (x \in DOMAIN q /\ c[x] = q[x]) \/ (u \in DOMAIN t /\ c[x] = t[u])
    BY <1>1, <1>2
  <2>3. (y \in DOMAIN q /\ c[y] = q[y]) \/ (v \in DOMAIN t /\ c[y] = t[v])
    BY <1>1, <1>2
  <2> HIDE DEF u, v
  <2>4. CASE x \in DOMAIN q /\ c[x] = q[x]
    <3>1. ~ (v \in DOMAIN t /\ c[y] = t[v])
      BY <1>3, <2>4 DEF NoKeyInBoth
    <3>2. y \in DOMAIN q /\ key[q[x]] = key[q[y]]
      BY <1>3, <2>3, <2>4, <3>1, Zenon
    <3> QED BY <2>4, <3>2, Zenon DEF DistinctKeys
  <2>5. CASE u \in DOMAIN t /\ c[x] = t[u]
    <3>1. ~ (y \in DOMAIN q /\ c[y] = q[y])
      BY <1>3, <2>5, Zenon DEF NoKeyInBoth
    <3>2. v \in DOMAIN t /\ key[t[u]] = key[t[v]]
      BY <1>3, <2>3, <2>5, <3>1, Zenon
    <3> QED BY <2>1, <2>5, <3>2, Zenon DEF DistinctKeys
  <2> QED BY <2>2, <2>4, <2>5
<1> QED BY <1>1, <1>3 DEF c, DistinctKeys
=============================================================================
