-------------------------- MODULE SeqPipelineProofs --------------------------
(***************************************************************************)
(* Proofs about seq_pipeline, for every trace that satisfies               *)
(* SeqAssumption and TraceAssumption.                                      *)
(***************************************************************************)
EXTENDS SeqPipeline, QueueLemmas

Busy == {"meta", "data", "clause", "other"}
Inner == {"list", "data", "clause", "other", "write"}

\* The requests that name a watcher of their list
Existing == {r \in Request : r.watcherId < get_watcher_size[r.as]}

CacheState == [in_request_queues : [{0} -> Seq(Existing)],
               inside : SUBSET Existing,
               out_resp_queues : [{0} -> Seq(Existing)]]

-----------------------------------------------------------------------------
(* Where the one read is in a cache of one bank                             *)

NoRead(q) == \A i \in DOMAIN q : ~ IsRead(q[i])

\* Only writes
Idle(m) ==
  NoRead(m.in_request_queues[0]) /\ m.inside = {} /\ m.out_resp_queues[0] = <<>>

\* The read r is the last request the cache was given.
Asked(m, r) ==
  LET q == m.in_request_queues[0]
  IN  /\ q # <<>> /\ q[Len(q)] = r
      /\ \A i \in 1 .. Len(q) - 1 : ~ IsRead(q[i])
      /\ m.inside = {} /\ m.out_resp_queues[0] = <<>>

Accepted(m, r) ==
  NoRead(m.in_request_queues[0]) /\ m.inside = {r} /\ m.out_resp_queues[0] = <<>>

Replied(m, r) ==
  NoRead(m.in_request_queues[0]) /\ m.inside = {} /\ m.out_resp_queues[0] = <<r>>

OneRead(m, r) == IsRead(r) /\ (Asked(m, r) \/ Accepted(m, r) \/ Replied(m, r))

-----------------------------------------------------------------------------
(* The inductive invariant                                                  *)

Types ==
  /\ pc \in Busy \cup Inner \cup {"outside", "trail"}
  /\ written \in 0 .. 2
  /\ in_reqs \in Seq({Task(a) : a \in Assign})
  /\ m_cache_interface \in CacheState
  /\ out_req \in Request \cup {NoReq}
  /\ out_req # NoReq => out_req.watcherId <= get_watcher_size[out_req.as]
  /\ tasks \subseteq Tasks /\ started \subseteq Assign
  /\ examined \in [is_read_clause -> 0 .. 1]

\* get() waits exactly while the read it has sent is in the cache.
Place ==
  IF pc \in Busy THEN sent \in Existing /\ OneRead(m_cache_interface, sent)
                 ELSE Idle(m_cache_interface)

\* The list that is worked on, and the request for it that is under way
Position ==
  /\ pc = "meta" => sent.watcherId = 0 /\ sent.as \in started
  /\ pc \in Inner => out_req \in Request /\ out_req.as \in started
  /\ pc \in {"data", "clause", "other", "write"} =>
       out_req.watcherId < get_watcher_size[out_req.as]
  /\ pc \in {"data", "clause", "other"} =>
       sent.as = out_req.as /\ sent.watcherId = out_req.watcherId
  /\ pc \in {"clause", "other"} => <<out_req.as, out_req.watcherId>> \in is_read_clause

\* A clause of a list that was started has been examined, unless the list is the
\* one that is worked on and the clause is still to come.
Passed(c) ==
  CASE pc \in {"outside", "trail"} -> TRUE
    [] pc = "meta" -> c[1] # sent.as
    [] pc \in {"list", "data", "clause"} -> c[1] # out_req.as \/ c[2] < out_req.watcherId
    [] pc \in {"other", "write"} -> c[1] # out_req.as \/ c[2] <= out_req.watcherId
Progress ==
  \A c \in is_read_clause : examined[c] = 1 <=> (c[1] \in started /\ Passed(c))

\* No assignment is on the trail twice, or again after it was taken, or before it
\* is pushed or generated.
Trail == {in_reqs[i].as : i \in DOMAIN in_reqs}
Fresh ==
  /\ \A i, j \in DOMAIN in_reqs : in_reqs[i].as = in_reqs[j].as => i = j
  /\ Trail \cap started = {}
  /\ tasks \cap (Trail \cup started) = {}
  /\ \A c \in is_read_clause : examined[c] = 0 => get_generated[c] \notin Trail \cup started
  /\ pc = "outside" /\ empty => in_reqs = <<>>

IInv == Types /\ Place /\ Position /\ Progress /\ Fresh

-----------------------------------------------------------------------------
(* What a cache of one bank does with the one read                          *)

\* The fields of a cache state
LEMMA CacheFields ==
  ASSUME NEW m \in CacheState
  PROVE  /\ m.in_request_queues \in [{0} -> Seq(Existing)]
         /\ m.in_request_queues[0] \in Seq(Existing)
         /\ m.inside \subseteq Existing
         /\ m.out_resp_queues \in [{0} -> Seq(Existing)]
         /\ m.out_resp_queues[0] \in Seq(Existing)
BY DEF CacheState

\* Giving the cache a request appends it to the queue of the bank.
LEMMA GivenEffect ==
  ASSUME NEW m \in CacheState, NEW r \in Existing
  PROVE  /\ Given(m, r) \in CacheState
         /\ Given(m, r).in_request_queues[0] = Append(m.in_request_queues[0], r)
         /\ Given(m, r).inside = m.inside
         /\ Given(m, r).out_resp_queues = m.out_resp_queues
<1>1. Append(m.in_request_queues[0], r) \in Seq(Existing)
  BY CacheFields
<1> QED BY <1>1, CacheFields DEF Given, CacheState

\* Taking the answer removes it.
LEMMA WithoutAnswerEffect ==
  ASSUME NEW m \in CacheState, m.out_resp_queues[0] # <<>>
  PROVE  /\ WithoutAnswer(m) \in CacheState
         /\ WithoutAnswer(m).in_request_queues = m.in_request_queues
         /\ WithoutAnswer(m).inside = m.inside
         /\ WithoutAnswer(m).out_resp_queues[0] = Tail(m.out_resp_queues[0])
         /\ Head(m.out_resp_queues[0]) \in Existing
<1>1. Tail(m.out_resp_queues[0]) \in Seq(Existing) /\ Head(m.out_resp_queues[0]) \in Existing
  BY CacheFields
<1> QED BY <1>1, CacheFields DEF WithoutAnswer, CacheState

\* A cycle of the cache: the oldest request may be accepted, and a read that is
\* inside may be answered.
LEMMA CycleEffect ==
  ASSUME NEW m \in CacheState, NEW c \in L3!Cycles(m)
  PROVE  LET n == L3!DoCycle(m, c.accept, c.answer)
             q == m.in_request_queues[0]
         IN  \E a \in 0 .. 1, s \in {<<>>} \cup {<<r>> : r \in m.inside} :
               /\ a <= Len(q)
               /\ n.in_request_queues = [p \in {0} |-> IF a = 0 THEN q ELSE Tail(q)]
               /\ n.inside = (m.inside \ Range(s))
                    \cup {r \in {q[i] : i \in 1 .. a} : IsRead(r)}
               /\ n.out_resp_queues = [p \in {0} |-> m.out_resp_queues[0] \o s]
<1> DEFINE n == L3!DoCycle(m, c.accept, c.answer)
           q == m.in_request_queues[0]
           a == c.accept[0]
           s == c.answer[0]
<1>1. L3!Bank = {0}
  BY DEF L3!Bank
<1>2. /\ a \in 0 .. 1 /\ a <= Len(q)
      /\ s \in {<<>>} \cup {<<r>> : r \in m.inside}
  BY <1>1 DEF L3!Cycles, L3!Accepts, L3!Answers
<1>3. q \in Seq(Existing)
  BY CacheFields
<1>4. /\ SubSeq(q, 1, a) = [i \in 1 .. a |-> q[i]]
      /\ SubSeq(q, a + 1, Len(q)) = IF a = 0 THEN q ELSE Tail(q)
  <2>1. CASE a = 0
    BY <2>1, <1>3, SubSeqFull, SubSeqEmpty
  <2>2. CASE a = 1
    BY <2>2, <1>2, <1>3, TailIsSubSeq
  <2> QED BY <1>2, <2>1, <2>2
<1>5. UNION {L3!Range(SubSeq(m.in_request_queues[p], 1, c.accept[p])) : p \in {0}}
        = {q[i] : i \in 1 .. a}
  <2>1. DOMAIN SubSeq(q, 1, a) = 1 .. a /\ \A i \in 1 .. a : SubSeq(q, 1, a)[i] = q[i]
    BY <1>4
  <2>2. L3!Range(SubSeq(q, 1, a)) = {q[i] : i \in 1 .. a}
    BY <2>1 DEF L3!Range
  <2> QED BY <2>2
<1>6. UNION {L3!Range(c.answer[p]) : p \in {0}} = Range(s)
  BY DEF L3!Range, Range
<1>7. n.in_request_queues = [p \in {0} |-> IF a = 0 THEN q ELSE Tail(q)]
  BY <1>1, <1>4 DEF L3!DoCycle
<1>8. n.inside = (m.inside \ Range(s)) \cup {r \in {q[i] : i \in 1 .. a} : IsRead(r)}
  BY <1>1, <1>5, <1>6 DEF L3!DoCycle
<1>9. n.out_resp_queues = [p \in {0} |-> m.out_resp_queues[0] \o s]
  BY <1>1 DEF L3!DoCycle
<1> QED BY <1>2, <1>7, <1>8, <1>9

\* A cycle keeps the one read, in one place, until it is taken.
LEMMA CycleKeepsRead ==
  ASSUME NEW m \in CacheState, NEW c \in L3!Cycles(m)
  PROVE  LET n == L3!DoCycle(m, c.accept, c.answer)
         IN  /\ n \in CacheState
             /\ Idle(m) => Idle(n)
             /\ \A r : OneRead(m, r) => OneRead(n, r)
<1> DEFINE n == L3!DoCycle(m, c.accept, c.answer)
           q == m.in_request_queues[0]
<1> DEFINE Effect(a, s) ==
         /\ a <= Len(q)
         /\ n.in_request_queues = [p \in {0} |-> IF a = 0 THEN q ELSE Tail(q)]
         /\ n.inside = (m.inside \ Range(s))
              \cup {r \in {q[i] : i \in 1 .. a} : IsRead(r)}
         /\ n.out_resp_queues = [p \in {0} |-> m.out_resp_queues[0] \o s]
<1>1. PICK a, s : /\ a \in 0 .. 1 /\ s \in {<<>>} \cup {<<r>> : r \in m.inside}
                  /\ Effect(a, s)
  <2>1. \E a \in 0 .. 1, s \in {<<>>} \cup {<<r>> : r \in m.inside} : Effect(a, s)
    BY CycleEffect
  <2> HIDE DEF Effect
  <2> QED BY <2>1, Zenon
<1>a. a \in 0 .. 1
  BY <1>1
<1>2. /\ q \in Seq(Existing) /\ m.inside \subseteq Existing
      /\ m.out_resp_queues[0] \in Seq(Existing)
  BY CacheFields
<1>3. n \in CacheState
  <2>1. n = [in_request_queues |-> n.in_request_queues, inside |-> n.inside,
             out_resp_queues |-> n.out_resp_queues]
    BY DEF L3!DoCycle
  <2>2. n.in_request_queues \in [{0} -> Seq(Existing)]
    BY <1>1, <1>2
  <2>3. n.inside \subseteq Existing
    BY <1>1, <1>2
  <2>4. s \in Seq(Existing)
    <3>1. CASE s = <<>>
      BY <3>1
    <3>2. ASSUME NEW r \in m.inside, s = <<r>> PROVE s \in Seq(Existing)
      BY <3>2, <1>2
    <3> QED BY <1>1, <3>1, <3>2
  <2>5. n.out_resp_queues \in [{0} -> Seq(Existing)]
    BY <1>1, <1>2, <2>4
  <2> QED BY <2>1, <2>2, <2>3, <2>5 DEF CacheState
<1>4. n.in_request_queues[0] = (IF a = 0 THEN q ELSE Tail(q))
      /\ n.out_resp_queues[0] = m.out_resp_queues[0] \o s
  BY <1>1
<1>5. ASSUME NoRead(q) PROVE NoRead(n.in_request_queues[0])
  BY <1>1, <1>2, <1>4, <1>5 DEF NoRead
<1>6. ASSUME NoRead(q) PROVE n.inside = m.inside \ Range(s)
  BY <1>1, <1>2, <1>6 DEF NoRead
<1>7. ASSUME m.inside = {} PROVE s = <<>> /\ Range(s) = {}
  BY <1>1, <1>7 DEF Range
<1>8. ASSUME m.out_resp_queues[0] = <<>> PROVE n.out_resp_queues[0] = s
  BY <1>1, <1>4, <1>8
<1>9. ASSUME Idle(m) PROVE Idle(n)
  BY <1>5, <1>6, <1>7, <1>8, <1>9 DEF Idle
<1>10. ASSUME NEW r, OneRead(m, r) PROVE OneRead(n, r)
  <2>1. CASE Accepted(m, r)
    <3>1. m.inside = {r} /\ NoRead(q) /\ m.out_resp_queues[0] = <<>>
      BY <2>1 DEF Accepted
    <3>2. CASE s = <<>>
      <4>1. Range(s) = {}
        BY <3>2 DEF Range
      <4> QED BY <3>1, <3>2, <4>1, <1>5, <1>6, <1>8, <1>10 DEF OneRead, Accepted
    <3>3. CASE s = <<r>>
      <4>1. Range(s) = {r}
        BY <3>3 DEF Range
      <4> QED BY <3>1, <3>3, <4>1, <1>5, <1>6, <1>8, <1>10 DEF OneRead, Replied
    <3>4. s = <<>> \/ s = <<r>>
      BY <1>1, <3>1
    <3> QED BY <3>2, <3>3, <3>4
  <2>2. CASE Replied(m, r)
    <3>1. n.inside = {} /\ NoRead(n.in_request_queues[0])
      BY <2>2, <1>5, <1>6 DEF Replied
    <3>2. n.out_resp_queues[0] = <<r>>
      BY <2>2, <1>4, <1>7, <1>2 DEF Replied
    <3> QED BY <3>1, <3>2, <1>10 DEF OneRead, Replied
  <2>3. CASE Asked(m, r)
    <3>1. /\ q # <<>> /\ q[Len(q)] = r /\ m.inside = {} /\ m.out_resp_queues[0] = <<>>
          /\ \A i \in 1 .. Len(q) - 1 : ~ IsRead(q[i])
      BY <2>3 DEF Asked
    <3>2. n.out_resp_queues[0] = <<>> /\ n.inside = {x \in {q[i] : i \in 1 .. a} : IsRead(x)}
      BY <3>1, <1>1, <1>7, <1>8
    <3>3. CASE a = 0
      BY <3>1, <3>2, <3>3, <1>4, <1>10 DEF OneRead, Asked
    <3>4. CASE a = 1 /\ Len(q) = 1
      <4>1. n.inside = {r}
        BY <3>1, <3>2, <3>4, <1>10 DEF OneRead
      <4>2. NoRead(n.in_request_queues[0])
        BY <1>2, <1>4, <3>4 DEF NoRead
      <4> QED BY <3>2, <4>1, <4>2, <1>10 DEF OneRead, Accepted
    <3>5. CASE a = 1 /\ Len(q) > 1
      <4>1. n.inside = {}
        BY <3>1, <3>2, <3>5
      <4>2. /\ Tail(q) # <<>> /\ Tail(q)[Len(Tail(q))] = r
            /\ Len(Tail(q)) = Len(q) - 1
            /\ \A i \in 1 .. Len(q) - 1 : Tail(q)[i] = q[i + 1]
        BY <1>2, <3>1, <3>5, TailElements, TailKeepsLast
      <4>3. \A i \in 1 .. Len(Tail(q)) - 1 : ~ IsRead(Tail(q)[i])
        <5>1. Len(q) \in Nat
          BY <1>2
        <5>2. \A i \in 1 .. Len(q) - 2 : i + 1 \in 1 .. Len(q) - 1 /\ i \in 1 .. Len(q) - 1
          BY <5>1
        <5>3. Len(Tail(q)) - 1 = Len(q) - 2
          BY <4>2, <5>1
        <5> QED BY <3>1, <4>2, <5>2, <5>3
      <4>4. n.in_request_queues[0] = Tail(q)
        BY <1>4, <3>5
      <4>5. Asked(n, r)
        BY <3>2, <4>1, <4>2, <4>3, <4>4 DEF Asked
      <4> QED BY <4>5, <1>10 DEF OneRead
    <3>6. Len(q) = 1 \/ Len(q) > 1
      <4> HIDE DEF q
      <4>1. Len(q) \in Nat /\ Len(q) >= 1
        BY <1>2, <3>1, TailElements
      <4> QED BY <4>1
    <3>7. a = 0 \/ a = 1
      BY <1>a
    <3> QED BY <3>3, <3>4, <3>5, <3>6, <3>7
  <2> QED BY <1>10, <2>1, <2>2, <2>3 DEF OneRead
<1> QED BY <1>3, <1>9, <1>10

\* A read given to an idle cache is the one read in it; a write leaves it idle.
LEMMA GiveRequest ==
  ASSUME NEW m \in CacheState, NEW r \in Existing, Idle(m)
  PROVE  /\ IsRead(r) => OneRead(Given(m, r), r)
         /\ ~ IsRead(r) => Idle(Given(m, r))
<1> DEFINE q == m.in_request_queues[0]
           g == Given(m, r).in_request_queues[0]
<1>1. q \in Seq(Existing)
  BY CacheFields
<1>2. /\ g = Append(q, r) /\ Given(m, r).inside = {}
      /\ Given(m, r).out_resp_queues[0] = <<>>
      /\ \A i \in DOMAIN q : ~ IsRead(q[i])
  BY GivenEffect DEF Idle, NoRead
<1>3. /\ g # <<>> /\ g[Len(g)] = r /\ DOMAIN g = 1 .. Len(q) + 1
      /\ Len(q) \in Nat /\ Len(g) = Len(q) + 1 /\ DOMAIN q = 1 .. Len(q)
      /\ \A i \in 1 .. Len(q) : g[i] = q[i]
  BY <1>1, <1>2, AppendElements
<1> HIDE DEF q, g
<1>4. /\ \A i \in 1 .. Len(g) - 1 : ~ IsRead(g[i])
      /\ ~ IsRead(r) => \A i \in DOMAIN g : ~ IsRead(g[i])
  BY <1>2, <1>3
<1> QED BY <1>2, <1>3, <1>4 DEF OneRead, Asked, Idle, NoRead, g

\* The answer that is taken is the one to the read, and then the cache is idle.
LEMMA TakeAnswer ==
  ASSUME NEW m \in CacheState, NEW r, OneRead(m, r), m.out_resp_queues[0] # <<>>
  PROVE  Head(m.out_resp_queues[0]) = r /\ Idle(WithoutAnswer(m))
<1>1. Replied(m, r)
  BY DEF OneRead, Asked, Accepted
<1>2. Head(m.out_resp_queues[0]) = r /\ Tail(m.out_resp_queues[0]) = <<>>
  BY <1>1 DEF Replied
<1> QED BY <1>1, <1>2, WithoutAnswerEffect DEF Idle, Replied

\* The reads in the cache are none, or the one read.
LEMMA ReadsInCache ==
  ASSUME m_cache_interface \in CacheState
  PROVE  /\ InCache \subseteq Existing
         /\ Idle(m_cache_interface) => {req \in InCache : IsRead(req)} = {}
         /\ \A r : OneRead(m_cache_interface, r) => {req \in InCache : IsRead(req)} = {r}
<1> DEFINE q == m_cache_interface.in_request_queues[0]
           o == m_cache_interface.out_resp_queues[0]
           in == m_cache_interface.inside
<1>1. q \in Seq(Existing) /\ o \in Seq(Existing) /\ in \subseteq Existing
  BY CacheFields
<1>2. /\ Range(q \o o) = {q[i] : i \in DOMAIN q} \cup {o[i] : i \in DOMAIN o}
  <2>1. Range(q \o o) = Range(q) \cup Range(o)
    BY <1>1, RangeConcatenation
  <2> QED BY <2>1 DEF Range
<1>3. InCache = in \cup {q[i] : i \in DOMAIN q} \cup {o[i] : i \in DOMAIN o}
  BY <1>2 DEF InCache
<1>4. {q[i] : i \in DOMAIN q} \subseteq Existing /\ {o[i] : i \in DOMAIN o} \subseteq Existing
  BY <1>1
<1>5. ASSUME Idle(m_cache_interface) PROVE {req \in InCache : IsRead(req)} = {}
  BY <1>3, <1>5 DEF Idle, NoRead
<1>6. ASSUME NEW r, OneRead(m_cache_interface, r)
      PROVE  {req \in InCache : IsRead(req)} = {r}
  <2>1. CASE Accepted(m_cache_interface, r)
    BY <1>3, <1>6, <2>1 DEF OneRead, Accepted, NoRead
  <2>2. CASE Replied(m_cache_interface, r)
    <3>1. {o[i] : i \in DOMAIN o} = {r}
      BY <2>2 DEF Replied
    <3> QED BY <1>3, <1>6, <2>2, <3>1 DEF OneRead, Replied, NoRead
  <2>3. CASE Asked(m_cache_interface, r)
    <3>1. {o[i] : i \in DOMAIN o} = {} /\ in = {}
      BY <2>3 DEF Asked
    <3>2. /\ q # <<>> /\ q[Len(q)] = r
          /\ \A i \in 1 .. Len(q) - 1 : ~ IsRead(q[i])
      BY <2>3 DEF Asked
    <3>3. IsRead(r)
      BY <1>6 DEF OneRead
    <3> HIDE DEF q
    <3>4. DOMAIN q = (1 .. Len(q) - 1) \cup {Len(q)}
      <4>1. Len(q) \in Nat /\ Len(q) >= 1 /\ DOMAIN q = 1 .. Len(q)
        BY <1>1, <3>2, TailElements
      <4> QED BY <4>1
    <3> QED BY <1>3, <3>1, <3>2, <3>3, <3>4
  <2> QED BY <1>6, <2>1, <2>2, <2>3 DEF OneRead
<1> QED BY <1>1, <1>3, <1>4, <1>5, <1>6

-----------------------------------------------------------------------------
(* The invariant is inductive: one lemma per action                         *)

USE DEF Busy, Inner

\* A request keeps its watcher when its type is changed.
LEMMA Retype ==
  ASSUME NEW r \in Existing, NEW type \in AccessType
  PROVE  LET t == [r EXCEPT !.type = type]
         IN  t \in Existing /\ t.as = r.as /\ t.watcherId = r.watcherId /\ t.type = type
BY DEF Existing, Request

\* A list that is worked on is a list of an assignment.
LEMMA RequestType ==
  ASSUME NEW r \in Request
  PROVE  /\ r.as \in Assign /\ r.watcherId \in Nat /\ r # NoReq
         /\ get_watcher_size[r.as] \in Nat
BY SeqAssumption DEF Request, NoReq

\* A clause is a pair of an assignment and a watcher of its list.
LEMMA ClauseType ==
  ASSUME NEW c \in is_read_clause
  PROVE  /\ c[1] \in Assign /\ c[2] \in Nat /\ c = <<c[1], c[2]>>
         /\ c[2] < get_watcher_size[c[1]]
         /\ get_generated[c] \in Assign \cup {Nothing}
BY SeqAssumption, TraceAssumption

\* Nothing has been done yet.
LEMMA InitInv == Init => IInv
<1> SUFFICES ASSUME Init PROVE IInv
  OBVIOUS
<1>1. m_cache_interface \in CacheState /\ Idle(m_cache_interface)
  <2>1. m_cache_interface = [in_request_queues |-> [p \in {0} |-> <<>>], inside |-> {},
                             out_resp_queues |-> [p \in {0} |-> <<>>]]
    BY DEF Init, L3!NewMemory, L3!Bank
  <2> QED BY <2>1 DEF CacheState, Idle, NoRead
<1>2. in_reqs = <<>> /\ started = {} /\ Trail = {}
  BY DEF Init, Trail
<1>3. Types
  BY <1>1 DEF Init, Types
<1>4. Place /\ Position
  BY <1>1 DEF Init, Place, Position
<1>5. Progress
  BY <1>2 DEF Init, Progress
<1>6. Fresh
  BY <1>2 DEF Init, Fresh
<1> QED BY <1>3, <1>4, <1>5, <1>6 DEF IInv

\* A task at the end of the trail
LEMMA TrailAppend ==
  ASSUME NEW a \in Assign, in_reqs \in Seq({Task(b) : b \in Assign}),
         in_reqs' = Append(in_reqs, Task(a))
  PROVE  /\ Len(in_reqs) \in Nat /\ in_reqs' \in Seq({Task(b) : b \in Assign})
         /\ DOMAIN in_reqs = 1 .. Len(in_reqs) /\ DOMAIN in_reqs' = 1 .. Len(in_reqs) + 1
         /\ \A i \in 1 .. Len(in_reqs) : in_reqs'[i] = in_reqs[i]
         /\ in_reqs'[Len(in_reqs) + 1].as = a
         /\ Trail' = Trail \cup {a}
<1>1. Task(a) \in {Task(b) : b \in Assign} /\ Task(a).as = a
  BY DEF Task
<1>2. /\ Len(in_reqs) \in Nat /\ in_reqs' \in Seq({Task(b) : b \in Assign})
      /\ DOMAIN in_reqs = 1 .. Len(in_reqs) /\ DOMAIN in_reqs' = 1 .. Len(in_reqs) + 1
      /\ \A i \in 1 .. Len(in_reqs) : in_reqs'[i] = in_reqs[i]
      /\ in_reqs'[Len(in_reqs) + 1] = Task(a)
  BY <1>1, AppendElements
<1>3. 1 .. Len(in_reqs) + 1 = (1 .. Len(in_reqs)) \cup {Len(in_reqs) + 1}
  BY <1>2
<1>4. Trail' = Trail \cup {a}
  BY <1>1, <1>2, <1>3 DEF Trail
<1> QED BY <1>1, <1>2, <1>4

\* The oldest task leaves the trail.
LEMMA TrailTail ==
  ASSUME IInv, in_reqs # <<>>, in_reqs' = Tail(in_reqs)
  PROVE  /\ Head(in_reqs).as \in Assign /\ Head(in_reqs) = Task(Head(in_reqs).as)
         /\ in_reqs' \in Seq({Task(b) : b \in Assign})
         /\ \A i, j \in DOMAIN in_reqs' : in_reqs'[i].as = in_reqs'[j].as => i = j
         /\ Trail = Trail' \cup {Head(in_reqs).as} /\ Head(in_reqs).as \notin Trail'
<1> DEFINE task == Head(in_reqs)
           a == task.as
<1>1. in_reqs \in Seq({Task(b) : b \in Assign})
  BY DEF IInv, Types
<1>2. /\ task = in_reqs[1] /\ task \in {Task(b) : b \in Assign}
      /\ Len(in_reqs) \in Nat /\ Len(in_reqs) >= 1
      /\ in_reqs' \in Seq({Task(b) : b \in Assign})
      /\ DOMAIN in_reqs = 1 .. Len(in_reqs) /\ DOMAIN in_reqs' = 1 .. Len(in_reqs) - 1
      /\ \A i \in 1 .. Len(in_reqs) - 1 : in_reqs'[i] = in_reqs[i + 1]
  BY <1>1, TailElements
<1>3. task = Task(a) /\ a \in Assign
  BY <1>2 DEF Task
<1>4. 1 \in DOMAIN in_reqs
  BY <1>2
<1>5. \A i \in DOMAIN in_reqs' : in_reqs'[i].as # a
  BY <1>2, <1>4 DEF IInv, Fresh
<1>6. Trail' \subseteq Trail
  BY <1>2 DEF Trail
<1>7. ASSUME NEW i \in DOMAIN in_reqs, i # 1 PROVE in_reqs[i].as \in Trail'
  <2>1. i - 1 \in DOMAIN in_reqs' /\ in_reqs'[i - 1] = in_reqs[i]
    BY <1>2, <1>7
  <2> QED BY <2>1 DEF Trail
<1>8. a \in Trail
  BY <1>2, <1>4 DEF Trail
<1>9. Trail \subseteq Trail' \cup {a}
  BY <1>2, <1>7 DEF Trail
<1>10. Trail = Trail' \cup {a} /\ a \notin Trail'
  BY <1>5, <1>6, <1>8, <1>9 DEF Trail
<1>11. \A i, j \in DOMAIN in_reqs' : in_reqs'[i].as = in_reqs'[j].as => i = j
  BY <1>2 DEF IInv, Fresh
<1> QED BY <1>2, <1>3, <1>10, <1>11

\* push() puts a fresh assignment on the trail.
LEMMA PushInv == IInv /\ Push => IInv'
<1> SUFFICES ASSUME IInv, Push PROVE IInv'
  OBVIOUS
<1>1. PICK a \in tasks : in_reqs' = Append(in_reqs, Task(a)) /\ tasks' = tasks \ {a}
  BY DEF Push
<1>2. a \in Assign
  BY SeqAssumption DEF IInv, Types
<1>3. in_reqs \in Seq({Task(b) : b \in Assign})
  BY DEF IInv, Types
<1>4. /\ Len(in_reqs) \in Nat /\ in_reqs' \in Seq({Task(b) : b \in Assign})
      /\ DOMAIN in_reqs = 1 .. Len(in_reqs) /\ DOMAIN in_reqs' = 1 .. Len(in_reqs) + 1
      /\ \A i \in 1 .. Len(in_reqs) : in_reqs'[i] = in_reqs[i]
      /\ in_reqs'[Len(in_reqs) + 1].as = a
      /\ Trail' = Trail \cup {a}
  BY <1>1, <1>2, <1>3, TrailAppend
<1>6. Types'
  BY <1>1, <1>4 DEF IInv, Types, Push, history
<1>7. Place' /\ Position' /\ Progress'
  <2>1. UNCHANGED <<pc, sent, out_req, m_cache_interface, started, examined>>
    BY DEF Push, history
  <2>2. Place'
    BY <2>1 DEF IInv, Place
  <2>3. Position'
    BY <2>1 DEF IInv, Position
  <2>4. Progress'
    BY <2>1 DEF IInv, Progress, Passed
  <2> QED BY <2>2, <2>3, <2>4
<1>8. Fresh'
  <2>1. \A i \in DOMAIN in_reqs : in_reqs[i].as # a
    BY DEF IInv, Fresh, Trail
  <2>2. \A i, j \in DOMAIN in_reqs' : in_reqs'[i].as = in_reqs'[j].as => i = j
    BY <1>2, <1>4, <2>1 DEF IInv, Fresh
  <2>3. ~ empty' /\ UNCHANGED <<started, examined>>
    BY DEF Push, history
  <2>4. a \notin started /\ \A c \in is_read_clause : get_generated[c] # a
    BY TraceAssumption DEF IInv, Fresh, Types
  <2> QED BY <1>1, <1>4, <2>2, <2>3, <2>4 DEF IInv, Fresh
<1> QED BY <1>6, <1>7, <1>8 DEF IInv

\* The trail does not change with the program counter.
LEMMA GetReturnInv == IInv /\ (Get \/ Return) => IInv'
<1> SUFFICES ASSUME IInv, Get \/ Return PROVE IInv'
  OBVIOUS
<1> USE DEF Get, Return, history, queues
<1>1. Trail' = Trail
  BY DEF Trail
<1>2. Types' /\ Place' /\ Position'
  BY DEF IInv, Types, Place, Position
<1>3. Progress'
  <2>1. \A c : Passed(c) /\ Passed(c)'
    BY DEF Passed
  <2> QED BY <2>1 DEF IInv, Progress
<1>4. Fresh'
  BY <1>1 DEF IInv, Fresh
<1> QED BY <1>2, <1>3, <1>4 DEF IInv

\* An assignment is taken from the trail; its list is new.
LEMMA TakeTaskInv == IInv /\ TakeTask => IInv'
<1> SUFFICES ASSUME IInv, TakeTask PROVE IInv'
  OBVIOUS
<1> DEFINE task == Head(in_reqs)
           a == task.as
<1>1. in_reqs # <<>> /\ in_reqs' = Tail(in_reqs)
  BY DEF TakeTask
<1>2. /\ in_reqs' \in Seq({Task(b) : b \in Assign})
      /\ \A k, j \in DOMAIN in_reqs' : in_reqs'[k].as = in_reqs'[j].as => k = j
  BY <1>1, TrailTail
<1>3. /\ task = Task(a) /\ a \in Assign
      /\ task \in Request
  BY <1>1, TrailTail, SeqAssumption DEF Task, Request, AccessType
<1>4. Trail = Trail' \cup {a} /\ a \notin Trail'
  BY <1>1, TrailTail
<1>5. /\ pc = "trail" /\ started' = started \cup {a}
      /\ UNCHANGED <<empty, out_req, written, tasks, examined>>
  BY DEF TakeTask
<1>6. a \notin started
  BY <1>4 DEF IInv, Fresh
<1>7. Fresh'
  <2>2. Trail' \cup started' = Trail \cup started /\ Trail' \cap started' = {}
    BY <1>4, <1>5 DEF IInv, Fresh
  <2>3. pc' # "outside"
    BY <1>5 DEF TakeTask
  <2> QED BY <1>2, <1>5, <2>2, <2>3 DEF IInv, Fresh
<1>8. \A c \in is_read_clause : c[1] = a => examined[c] # 1
  BY <1>6 DEF IInv, Progress
<1>9. CASE get_watcher_size[a] = 0
  <2>1. UNCHANGED <<pc, sent, m_cache_interface>>
    BY <1>9 DEF TakeTask
  <2>2. Types'
    BY <1>2, <1>3, <1>5, <2>1 DEF IInv, Types
  <2>3. Place' /\ Position'
    BY <1>5, <2>1 DEF IInv, Place, Position
  <2>4. \A c \in is_read_clause : c[1] # a
    BY <1>9, ClauseType
  <2>5. Progress'
    BY <1>5, <2>1, <2>4 DEF IInv, Progress, Passed
  <2> QED BY <1>7, <2>2, <2>3, <2>5 DEF IInv
<1>10. CASE get_watcher_size[a] # 0
  <2> DEFINE first == [task EXCEPT !.watcherId = 0]
  <2>1. first \in Existing /\ first.as = a /\ first.watcherId = 0
    BY <1>3, <1>10, SeqAssumption DEF Existing, Request, Task
  <2>2. sent' = [first EXCEPT !.type = "ReadWatcherMetaData"]
        /\ m_cache_interface' = Given(m_cache_interface, sent') /\ pc' = "meta"
    BY <1>10 DEF TakeTask, Send
  <2>3. /\ sent' \in Existing /\ sent'.as = a /\ sent'.watcherId = 0
        /\ sent'.type = "ReadWatcherMetaData"
    BY <2>1, <2>2, Retype DEF AccessType
  <2>4. m_cache_interface \in CacheState /\ Idle(m_cache_interface)
    BY <1>5 DEF IInv, Types, Place
  <2>5. m_cache_interface' \in CacheState /\ OneRead(m_cache_interface', sent')
    BY <2>2, <2>3, <2>4, GivenEffect, GiveRequest DEF IsRead
  <2>6. Types'
    BY <1>2, <1>3, <1>5, <2>2, <2>5 DEF IInv, Types
  <2>7. Place' /\ Position'
    BY <1>5, <2>2, <2>3, <2>5 DEF IInv, Place, Position
  <2>8. Progress'
    BY <1>5, <1>8, <2>2, <2>3 DEF IInv, Progress, Passed
  <2> QED BY <1>7, <2>6, <2>7, <2>8 DEF IInv
<1> QED BY <1>9, <1>10

\* A cycle of the cache does not change what get() waits for.
LEMMA CacheCycleInv == IInv /\ (WaitForAnswer \/ WriteCycle) => IInv'
<1> SUFFICES ASSUME IInv, WaitForAnswer \/ WriteCycle PROVE IInv'
  OBVIOUS
<1>1. PICK c \in L3!Cycles(m_cache_interface) :
         m_cache_interface' = L3!DoCycle(m_cache_interface, c.accept, c.answer)
  BY DEF WaitForAnswer, WriteCycle, L3!Moves
<1>2. UNCHANGED <<in_reqs, empty, tasks, pc, out_req, sent, started, examined>>
      /\ written' \in 0 .. 2
  BY DEF WaitForAnswer, WriteCycle, IInv, Types, queues, history
<1>3. m_cache_interface \in CacheState
  BY DEF IInv, Types
<1>4. /\ m_cache_interface' \in CacheState
      /\ Idle(m_cache_interface) => Idle(m_cache_interface')
      /\ \A r : OneRead(m_cache_interface, r) => OneRead(m_cache_interface', r)
  BY <1>1, <1>3, CycleKeepsRead
<1>5. Types'
  BY <1>2, <1>4 DEF IInv, Types
<1>6. Place'
  BY <1>2, <1>4 DEF IInv, Place
<1>7. Position' /\ Progress'
  BY <1>2 DEF IInv, Position, Progress, Passed
<1>8. Fresh'
  BY <1>2 DEF IInv, Fresh, Trail
<1> QED BY <1>5, <1>6, <1>7, <1>8 DEF IInv

\* The answer get() takes while it waits is the one to its read.
LEMMA AnswerTaken ==
  ASSUME IInv, pc \in Busy, Answered
  PROVE  /\ m_cache_interface \in CacheState
         /\ Answer = sent /\ sent \in Existing
         /\ WithoutAnswer(m_cache_interface) \in CacheState
         /\ Idle(WithoutAnswer(m_cache_interface))
<1>1. /\ m_cache_interface \in CacheState
      /\ sent \in Existing /\ OneRead(m_cache_interface, sent)
  BY DEF IInv, Types, Place
<1> QED BY <1>1, TakeAnswer, WithoutAnswerEffect DEF Answered, Answer

\* The list is worked on from its first watcher.
LEMMA TakeMetaInv == IInv /\ TakeMeta => IInv'
<1> SUFFICES ASSUME IInv, TakeMeta PROVE IInv'
  OBVIOUS
<1>1. /\ pc = "meta" /\ Answered /\ out_req' = Answer /\ pc' = "list"
      /\ m_cache_interface' = WithoutAnswer(m_cache_interface)
      /\ UNCHANGED <<in_reqs, empty, tasks, sent, written, started, examined>>
  BY DEF TakeMeta, queues, history
<1>2. /\ out_req' = sent /\ sent \in Existing
      /\ m_cache_interface' \in CacheState /\ Idle(m_cache_interface')
  BY <1>1, AnswerTaken
<1>3. /\ out_req' \in Request /\ out_req'.watcherId = 0
      /\ get_watcher_size[out_req'.as] \in Nat
  BY <1>1, <1>2, RequestType DEF IInv, Position, Existing
<1>4. Types'
  BY <1>1, <1>2, <1>3 DEF IInv, Types
<1>5. Place' /\ Position'
  BY <1>1, <1>2, <1>3 DEF IInv, Place, Position
<1>6. ASSUME NEW c \in is_read_clause PROVE Passed(c)' <=> Passed(c)
  <2>1. c[2] \in Nat
    BY ClauseType
  <2> QED BY <1>1, <1>2, <1>3, <2>1 DEF Passed
<1>7. Progress'
  BY <1>1, <1>6 DEF IInv, Progress
<1>8. Fresh'
  BY <1>1 DEF IInv, Fresh, Trail
<1> QED BY <1>4, <1>5, <1>7, <1>8 DEF IInv

\* At the end of the list every clause of it has been passed.
LEMMA ListDoneInv == IInv /\ ListDone => IInv'
<1> SUFFICES ASSUME IInv, ListDone PROVE IInv'
  OBVIOUS
<1>1. /\ pc = "list" /\ pc' = "trail" /\ out_req.watcherId = get_watcher_size[out_req.as]
      /\ UNCHANGED <<in_reqs, empty, tasks, m_cache_interface, out_req, sent, written,
                     started, examined>>
  BY DEF ListDone, EndOfList, queues, history
<1>2. Types'
  BY <1>1 DEF IInv, Types
<1>3. Place' /\ Position'
  BY <1>1 DEF IInv, Place, Position
<1>4. ASSUME NEW c \in is_read_clause PROVE Passed(c)' /\ Passed(c)
  <2>1. c[2] < get_watcher_size[c[1]]
    BY ClauseType
  <2> QED BY <1>1, <2>1 DEF Passed
<1>5. Progress'
  BY <1>1, <1>4 DEF IInv, Progress
<1>6. Fresh'
  BY <1>1 DEF IInv, Fresh, Trail
<1> QED BY <1>2, <1>3, <1>5, <1>6 DEF IInv

\* The place in the list is an existing watcher when it is not the end.
LEMMA ReadWatcherInv == IInv /\ ReadWatcher => IInv'
<1> SUFFICES ASSUME IInv, ReadWatcher PROVE IInv'
  OBVIOUS
<1>1. /\ pc = "list" /\ pc' = "data" /\ out_req.watcherId # get_watcher_size[out_req.as]
      /\ sent' = [out_req EXCEPT !.type = "ReadWatcherData"]
      /\ m_cache_interface' = Given(m_cache_interface, sent')
      /\ UNCHANGED <<in_reqs, empty, tasks, out_req, written, started, examined>>
  BY DEF ReadWatcher, Send, EndOfList, queues, history
<1>2. out_req \in Existing /\ out_req.watcherId < get_watcher_size[out_req.as]
  BY <1>1, RequestType DEF IInv, Types, Position, Existing
<1>3. /\ sent' \in Existing /\ sent'.type = "ReadWatcherData"
      /\ sent'.as = out_req.as /\ sent'.watcherId = out_req.watcherId
  BY <1>1, <1>2, Retype DEF AccessType
<1>4. m_cache_interface' \in CacheState /\ OneRead(m_cache_interface', sent')
  <2>1. m_cache_interface \in CacheState /\ Idle(m_cache_interface)
    BY <1>1 DEF IInv, Types, Place
  <2> QED BY <1>1, <1>3, <2>1, GivenEffect, GiveRequest DEF IsRead
<1>5. Types'
  BY <1>1, <1>4 DEF IInv, Types
<1>6. Place'
  BY <1>1, <1>3, <1>4 DEF Place
<1>7. Position'
  BY <1>1, <1>2, <1>3 DEF IInv, Position
<1>8. Progress'
  <2>1. \A c : Passed(c)' <=> Passed(c)
    BY <1>1 DEF Passed
  <2> QED BY <1>1, <2>1 DEF IInv, Progress
<1>9. Fresh'
  BY <1>1 DEF IInv, Fresh, Trail
<1> QED BY <1>5, <1>6, <1>7, <1>8, <1>9 DEF IInv

\* The next place in the list
LEMMA NextWatcherType ==
  ASSUME NEW r \in Request, r.watcherId < get_watcher_size[r.as]
  PROVE  LET n == [r EXCEPT !.watcherId = @ + 1]
         IN  /\ n \in Request /\ n.as = r.as /\ n.watcherId = r.watcherId + 1
             /\ n.watcherId <= get_watcher_size[n.as]
<1>1. r.watcherId \in Nat /\ get_watcher_size[r.as] \in Nat
  BY RequestType
<1> QED BY <1>1 DEF Request

\* A watcher whose clause need not be read leaves no clause behind.
LEMMA TakeWatcherInv == IInv /\ TakeWatcher => IInv'
<1> SUFFICES ASSUME IInv, TakeWatcher PROVE IInv'
  OBVIOUS
<1> DEFINE rest == WithoutAnswer(m_cache_interface)
           place == <<out_req.as, out_req.watcherId>>
<1>1. /\ pc = "data" /\ Answered
      /\ UNCHANGED <<in_reqs, empty, tasks, written, started, examined>>
  BY DEF TakeWatcher, queues, history
<1>2. /\ Answer = sent /\ sent \in Existing
      /\ rest \in CacheState /\ Idle(rest)
  BY <1>1, AnswerTaken
<1>3. /\ sent.as = out_req.as /\ sent.watcherId = out_req.watcherId
      /\ out_req \in Request /\ out_req.watcherId < get_watcher_size[out_req.as]
  BY <1>1 DEF IInv, Position
<1>4. Fresh'
  <2>1. pc' # "outside"
    BY DEF TakeWatcher
  <2> QED BY <1>1, <2>1 DEF IInv, Fresh, Trail
<1>5. CASE place \in is_read_clause
  <2>1. /\ sent' = [sent EXCEPT !.type = "ReadClauseData"]
        /\ m_cache_interface' = Given(rest, sent')
        /\ pc' = "clause" /\ out_req' = out_req
    BY <1>2, <1>3, <1>5 DEF TakeWatcher, Send
  <2>2. /\ sent' \in Existing /\ sent'.type = "ReadClauseData"
        /\ sent'.as = sent.as /\ sent'.watcherId = sent.watcherId
    BY <1>2, <2>1, Retype DEF AccessType
  <2>3. m_cache_interface' \in CacheState /\ OneRead(m_cache_interface', sent')
    BY <1>2, <2>1, <2>2, GivenEffect, GiveRequest DEF IsRead
  <2>4. Types'
    BY <1>1, <2>1, <2>3 DEF IInv, Types
  <2>5. Place' /\ Position'
    BY <1>1, <1>3, <1>5, <2>1, <2>2, <2>3 DEF IInv, Place, Position
  <2>6. Progress'
    <3>1. \A c : Passed(c)' <=> Passed(c)
      BY <1>1, <2>1 DEF Passed
    <3> QED BY <1>1, <3>1 DEF IInv, Progress
  <2> QED BY <1>4, <2>4, <2>5, <2>6 DEF IInv
<1>6. CASE place \notin is_read_clause
  <2>1. /\ m_cache_interface' = rest /\ pc' = "list" /\ sent' = sent
        /\ out_req' = [out_req EXCEPT !.watcherId = @ + 1]
    BY <1>2, <1>3, <1>6 DEF TakeWatcher, NextWatcher
  <2>2. /\ out_req' \in Request /\ out_req'.as = out_req.as
        /\ out_req'.watcherId = out_req.watcherId + 1
        /\ out_req'.watcherId <= get_watcher_size[out_req'.as]
    BY <1>3, <2>1, NextWatcherType
  <2>3. Types'
    BY <1>1, <1>2, <2>1, <2>2 DEF IInv, Types
  <2>4. Place' /\ Position'
    BY <1>1, <1>2, <2>1, <2>2 DEF IInv, Place, Position
  <2>5. ASSUME NEW c \in is_read_clause PROVE Passed(c)' <=> Passed(c)
    <3>1. c[2] \in Nat /\ out_req.watcherId \in Nat /\ c = <<c[1], c[2]>>
      BY <1>3, ClauseType, RequestType
    <3>2. c[1] # out_req.as \/ c[2] # out_req.watcherId
      BY <1>6, <3>1
    <3> QED BY <1>1, <2>1, <2>2, <3>1, <3>2 DEF Passed
  <2>6. Progress'
    BY <1>1, <2>5 DEF IInv, Progress
  <2> QED BY <1>4, <2>3, <2>4, <2>6 DEF IInv
<1> QED BY <1>5, <1>6

\* A list is written back to an idle cache.
LEMMA WriteStep ==
  ASSUME NEW m \in CacheState, Idle(m), NEW r \in Existing, Write(m, r)
  PROVE  /\ m_cache_interface' \in CacheState /\ Idle(m_cache_interface')
         /\ written' = 0 /\ pc' = "write"
<1>1. /\ sent' = [r EXCEPT !.type = "WriteWatcherList"]
      /\ m_cache_interface' = Given(m, sent') /\ written' = 0 /\ pc' = "write"
  BY DEF Write, Send
<1>2. sent' \in Existing /\ sent'.type = "WriteWatcherList"
  BY <1>1, Retype DEF AccessType
<1> QED BY <1>1, <1>2, GivenEffect, GiveRequest DEF IsRead

\* The clause at the current place has not been examined yet.
LEMMA ClauseIsNew ==
  ASSUME IInv, pc = "clause"
  PROVE  LET clause == <<out_req.as, out_req.watcherId>>
         IN  /\ clause \in is_read_clause /\ examined[clause] = 0
             /\ out_req.as \in started
<1> DEFINE clause == <<out_req.as, out_req.watcherId>>
<1>1. /\ clause \in is_read_clause /\ out_req.as \in started
      /\ out_req.watcherId \in Nat
  BY RequestType DEF IInv, Position
<1>2. ~ Passed(clause)
  BY <1>1 DEF Passed
<1>3. examined[clause] \in 0 .. 1 /\ examined[clause] # 1
  BY <1>1, <1>2 DEF IInv, Types, Progress
<1> QED BY <1>1, <1>3

\* The new assignment, if any, joins the end of the trail.
LEMMA NewTaskEffect ==
  ASSUME in_reqs \in Seq({Task(a) : a \in Assign}), NEW c \in is_read_clause,
         in_reqs' = in_reqs \o NewTask(c)
  PROVE  /\ in_reqs' \in Seq({Task(a) : a \in Assign})
         /\ Trail' = Trail \cup ({get_generated[c]} \ {Nothing})
         /\ \/ get_generated[c] = Nothing /\ in_reqs' = in_reqs
            \/ /\ get_generated[c] # Nothing
               /\ Len(in_reqs) \in Nat
               /\ DOMAIN in_reqs = 1 .. Len(in_reqs)
               /\ DOMAIN in_reqs' = 1 .. Len(in_reqs) + 1
               /\ \A i \in 1 .. Len(in_reqs) : in_reqs'[i] = in_reqs[i]
               /\ in_reqs'[Len(in_reqs) + 1].as = get_generated[c]
<1> DEFINE g == get_generated[c]
           T == {Task(a) : a \in Assign}
<1>1. CASE g = Nothing
  <2>1. in_reqs' = in_reqs
    BY <1>1 DEF NewTask
  <2> QED BY <1>1, <2>1 DEF Trail
<1>2. CASE g # Nothing
  <2>1. g \in Assign /\ Task(g) \in T
    BY <1>2, ClauseType
  <2>2. in_reqs' = Append(in_reqs, Task(g))
    BY <1>2, <2>1, AppendIsConcat DEF NewTask
  <2> QED BY <1>2, <2>1, <2>2, TrailAppend
<1> QED BY <1>1, <1>2

\* A clause is examined for the first time, and its assignment is fresh.
LEMMA TakeClauseInv == IInv /\ TakeClause => IInv'
<1> SUFFICES ASSUME IInv, TakeClause PROVE IInv'
  OBVIOUS
<1> DEFINE rest == WithoutAnswer(m_cache_interface)
           clause == <<out_req.as, out_req.watcherId>>
           g == get_generated[clause]
<1>1. /\ pc = "clause" /\ Answered
      /\ UNCHANGED <<empty, tasks, out_req, started>>
  BY DEF TakeClause
<1>2. /\ Answer = sent /\ sent \in Existing
      /\ rest \in CacheState /\ Idle(rest)
  BY <1>1, AnswerTaken
<1>3. /\ sent.as = out_req.as /\ sent.watcherId = out_req.watcherId
      /\ out_req \in Request /\ out_req.watcherId < get_watcher_size[out_req.as]
      /\ out_req.watcherId \in Nat
  BY <1>1, RequestType DEF IInv, Position
<1>4. clause \in is_read_clause /\ examined[clause] = 0 /\ out_req.as \in started
  BY <1>1, ClauseIsNew
<1>5. /\ in_reqs' = in_reqs \o NewTask(clause)
      /\ examined' = [examined EXCEPT ![clause] = @ + 1]
  BY <1>2, <1>3 DEF TakeClause
<1>6. /\ examined' \in [is_read_clause -> 0 .. 1] /\ examined'[clause] = 1
      /\ \A c \in is_read_clause : c # clause => examined'[c] = examined[c]
  BY <1>4, <1>5 DEF IInv, Types
<1>7. /\ m_cache_interface' \in CacheState /\ written' \in 0 .. 2
      /\ \/ pc' = "write" /\ Idle(m_cache_interface')
         \/ /\ pc' = "other" /\ OneRead(m_cache_interface', sent') /\ sent' \in Existing
            /\ sent'.as = sent.as /\ sent'.watcherId = sent.watcherId
  <2>1. CASE get_pushed[clause] # NotPushed
    <3>1. /\ sent' = [sent EXCEPT !.type = "ReadOtherWatcherList"]
          /\ m_cache_interface' = Given(rest, sent') /\ pc' = "other" /\ written' = written
      BY <1>2, <1>3, <2>1 DEF TakeClause, Send
    <3>2. /\ sent' \in Existing /\ sent'.type = "ReadOtherWatcherList"
          /\ sent'.as = sent.as /\ sent'.watcherId = sent.watcherId
      BY <1>2, <3>1, Retype DEF AccessType
    <3>3. m_cache_interface' \in CacheState /\ OneRead(m_cache_interface', sent')
      BY <1>2, <3>1, <3>2, GivenEffect, GiveRequest DEF IsRead
    <3> QED BY <3>1, <3>2, <3>3 DEF IInv, Types
  <2>2. CASE get_pushed[clause] = NotPushed
    <3>1. Write(rest, sent)
      BY <1>2, <1>3, <2>2 DEF TakeClause
    <3> QED BY <1>2, <3>1, WriteStep
  <2> QED BY <2>1, <2>2
<1>8. /\ in_reqs' \in Seq({Task(a) : a \in Assign})
      /\ Trail' = Trail \cup ({g} \ {Nothing})
      /\ \/ g = Nothing /\ in_reqs' = in_reqs
         \/ /\ g # Nothing /\ Len(in_reqs) \in Nat
            /\ DOMAIN in_reqs = 1 .. Len(in_reqs)
            /\ DOMAIN in_reqs' = 1 .. Len(in_reqs) + 1
            /\ \A i \in 1 .. Len(in_reqs) : in_reqs'[i] = in_reqs[i]
            /\ in_reqs'[Len(in_reqs) + 1].as = g
  <2>1. in_reqs \in Seq({Task(a) : a \in Assign})
    BY DEF IInv, Types
  <2> QED BY <1>4, <1>5, <2>1, NewTaskEffect
<1>9. Types'
  BY <1>1, <1>6, <1>7, <1>8 DEF IInv, Types
<1>10. Place' /\ Position'
  BY <1>1, <1>3, <1>4, <1>7 DEF Place, Position
<1>11. Progress'
  <2>0. ASSUME NEW c
        PROVE  /\ Passed(c) <=> (c[1] # out_req.as \/ c[2] < out_req.watcherId)
               /\ Passed(c)' <=> (c[1] # out_req.as \/ c[2] <= out_req.watcherId)
    <3>1. pc' \in {"other", "write"} /\ out_req' = out_req
      BY <1>1, <1>7
    <3>2. Passed(c) <=> (c[1] # out_req.as \/ c[2] < out_req.watcherId)
      BY <1>1 DEF Passed
    <3>3. Passed(c)' <=> (c[1] # out_req.as \/ c[2] <= out_req.watcherId)
      BY <3>1 DEF Passed
    <3> QED BY <3>2, <3>3
  <2>1. ASSUME NEW c \in is_read_clause, c # clause PROVE Passed(c)' <=> Passed(c)
    <3>1. c[2] \in Nat /\ c = <<c[1], c[2]>>
      BY ClauseType
    <3>2. c[1] # out_req.as \/ c[2] # out_req.watcherId
      BY <2>1, <3>1
    <3> QED BY <1>3, <2>0, <3>1, <3>2
  <2>2. \A c \in is_read_clause : c = clause => Passed(c)'
    BY <1>3, <2>0
  <2> QED BY <1>1, <1>4, <1>6, <2>1, <2>2 DEF IInv, Progress
<1>12. Fresh'
  <2>1. g \notin Trail \cup started
    BY <1>4 DEF IInv, Fresh
  <2>2. g \notin tasks
    BY <1>4, TraceAssumption DEF IInv, Types
  <2>3. \A i, j \in DOMAIN in_reqs' : in_reqs'[i].as = in_reqs'[j].as => i = j
    <3>1. \A i \in DOMAIN in_reqs : in_reqs[i].as # g
      BY <2>1 DEF Trail
    <3>2. \A i, j \in DOMAIN in_reqs : in_reqs[i].as = in_reqs[j].as => i = j
      BY DEF IInv, Fresh
    <3>3. CASE g = Nothing
      BY <1>8, <3>2, <3>3
    <3>4. CASE g # Nothing
      <4> DEFINE last == Len(in_reqs) + 1
      <4>1. /\ DOMAIN in_reqs = 1 .. Len(in_reqs) /\ Len(in_reqs) \in Nat
            /\ DOMAIN in_reqs' = 1 .. last
            /\ \A i \in 1 .. Len(in_reqs) : in_reqs'[i] = in_reqs[i]
            /\ in_reqs'[last].as = g
        BY <1>8, <3>4
      <4> SUFFICES ASSUME NEW i \in 1 .. last, NEW j \in 1 .. last,
                          in_reqs'[i].as = in_reqs'[j].as
                   PROVE  i = j
        BY <4>1
      <4>2. CASE i \in 1 .. Len(in_reqs) /\ j \in 1 .. Len(in_reqs)
        BY <3>2, <4>1, <4>2
      <4>3. CASE i \in 1 .. Len(in_reqs) /\ j = last
        BY <3>1, <4>1, <4>3
      <4>4. CASE i = last /\ j \in 1 .. Len(in_reqs)
        BY <3>1, <4>1, <4>4
      <4>5. CASE i = last /\ j = last
        BY <4>5
      <4> QED BY <4>1, <4>2, <4>3, <4>4, <4>5
    <3> QED BY <3>3, <3>4
  <2>4. ASSUME NEW c \in is_read_clause, examined'[c] = 0
        PROVE  get_generated[c] \notin Trail' \cup started
    <3>1. c # clause /\ examined[c] = 0
      BY <1>6, <2>4
    <3>2. get_generated[c] \notin Trail \cup started
      BY <3>1 DEF IInv, Fresh
    <3>3. get_generated[c] = g => g = Nothing
      BY <1>4, <3>1, TraceAssumption
    <3> QED BY <1>8, <3>2, <3>3
  <2>5. Trail' \cap started = {} /\ tasks \cap (Trail' \cup started) = {}
    BY <1>8, <2>1, <2>2 DEF IInv, Fresh
  <2> QED BY <1>1, <1>7, <2>3, <2>4, <2>5 DEF Fresh
<1> QED BY <1>9, <1>10, <1>11, <1>12 DEF IInv

\* The meta data of the other list are there: the list is written.
LEMMA TakeOtherInv == IInv /\ TakeOther => IInv'
<1> SUFFICES ASSUME IInv, TakeOther PROVE IInv'
  OBVIOUS
<1>1. /\ pc = "other" /\ Answered /\ Write(WithoutAnswer(m_cache_interface), Answer)
      /\ UNCHANGED <<in_reqs, empty, tasks, out_req, started, examined>>
  BY DEF TakeOther, queues, history
<1>2. /\ Answer \in Existing /\ WithoutAnswer(m_cache_interface) \in CacheState
      /\ Idle(WithoutAnswer(m_cache_interface))
  BY <1>1, AnswerTaken
<1>3. /\ m_cache_interface' \in CacheState /\ Idle(m_cache_interface')
      /\ written' = 0 /\ pc' = "write"
  BY <1>1, <1>2, WriteStep
<1>4. Types'
  BY <1>1, <1>3 DEF IInv, Types
<1>5. Place' /\ Position'
  BY <1>1, <1>3 DEF IInv, Place, Position
<1>6. Progress'
  <2>1. \A c : Passed(c)' <=> Passed(c)
    BY <1>1, <1>3 DEF Passed
  <2> QED BY <1>1, <2>1 DEF IInv, Progress
<1>7. Fresh'
  BY <1>1, <1>3 DEF IInv, Fresh, Trail
<1> QED BY <1>4, <1>5, <1>6, <1>7 DEF IInv

\* The list goes on with its next watcher.
LEMMA WriteDoneInv == IInv /\ WriteDone => IInv'
<1> SUFFICES ASSUME IInv, WriteDone PROVE IInv'
  OBVIOUS
<1>1. /\ pc = "write" /\ pc' = "list"
      /\ out_req' = [out_req EXCEPT !.watcherId = @ + 1]
      /\ UNCHANGED <<in_reqs, empty, tasks, m_cache_interface, sent, written,
                     started, examined>>
  BY DEF WriteDone, NextWatcher, queues, history
<1>2. /\ out_req \in Request /\ out_req.watcherId < get_watcher_size[out_req.as]
      /\ out_req.watcherId \in Nat
  BY <1>1, RequestType DEF IInv, Position
<1>3. /\ out_req' \in Request /\ out_req'.as = out_req.as
      /\ out_req'.watcherId = out_req.watcherId + 1
      /\ out_req'.watcherId <= get_watcher_size[out_req'.as]
  BY <1>1, <1>2, NextWatcherType
<1>4. Types'
  BY <1>1, <1>3 DEF IInv, Types
<1>5. Place' /\ Position'
  BY <1>1, <1>3 DEF IInv, Place, Position
<1>6. ASSUME NEW c \in is_read_clause PROVE Passed(c)' <=> Passed(c)
  <2>1. c[2] \in Nat
    BY ClauseType
  <2> QED BY <1>1, <1>2, <1>3, <2>1 DEF Passed
<1>7. Progress'
  BY <1>1, <1>6 DEF IInv, Progress
<1>8. Fresh'
  BY <1>1 DEF IInv, Fresh, Trail
<1> QED BY <1>4, <1>5, <1>7, <1>8 DEF IInv

\* A step that changes nothing
LEMMA StutterInv == IInv /\ UNCHANGED vars => IInv'
<1> SUFFICES ASSUME IInv, UNCHANGED vars PROVE IInv'
  OBVIOUS
<1> USE DEF vars
<1>1. Types' /\ Place' /\ Position'
  BY DEF IInv, Types, Place, Position
<1>2. Progress'
  <2>1. \A c : Passed(c)' <=> Passed(c)
    BY DEF Passed
  <2> QED BY <2>1 DEF IInv, Progress
<1>3. Fresh'
  <2>1. Trail' = Trail
    BY DEF Trail
  <2> QED BY <2>1 DEF IInv, Fresh
<1> QED BY <1>1, <1>2, <1>3 DEF IInv

\* Every step of the pipeline keeps the inductive invariant.
LEMMA NextInv == IInv /\ [Next]_vars => IInv'
BY PushInv, GetReturnInv, TakeTaskInv, CacheCycleInv, TakeMetaInv, ListDoneInv,
   ReadWatcherInv, TakeWatcherInv, TakeClauseInv, TakeOtherInv, WriteDoneInv, StutterInv
   DEF Next

-----------------------------------------------------------------------------
(* What follows for every behaviour                                         *)

\* The inductive invariant holds in every state.
THEOREM SeqPipelineInvariant == Spec => []IInv
<1>1. Init => IInv
  BY InitInv
<1>2. IInv /\ [Next]_vars => IInv'
  BY NextInv
<1> QED BY <1>1, <1>2, PTL DEF Spec

\* Every request that seq_pipeline gives to the cache names an existing watcher
\* of an existing list, and the inner loop of get(), which tests for equality,
\* never passes the end of the list.
THEOREM SeqPipelineTypeOK == Spec => []TypeOK
<1>1. IInv => TypeOK
  <2> SUFFICES ASSUME IInv PROVE TypeOK
    OBVIOUS
  <2>1. InCache \subseteq Existing
    BY ReadsInCache DEF IInv, Types
  <2>2. /\ pc \in {"outside", "trail", "meta", "list", "data", "clause", "other", "write"}
        /\ written \in 0 .. 2
        /\ out_req # NoReq => out_req.watcherId <= get_watcher_size[out_req.as]
    BY DEF IInv, Types, Busy, Inner
  <2> QED BY <2>1, <2>2 DEF TypeOK, Existing
<1> QED BY <1>1, SeqPipelineInvariant, PTL

\* get() takes whatever answer is there for the answer to its last read; there
\* is never another read in the cache, so it is the right one.
THEOREM SeqPipelineAnswers == Spec => []AnswerIsForRead
<1>1. IInv => AnswerIsForRead
  <2> SUFFICES ASSUME IInv PROVE AnswerIsForRead
    OBVIOUS
  <2>1. m_cache_interface \in CacheState
    BY DEF IInv, Types
  <2>2. CASE pc \in Busy
    BY <2>1, <2>2, ReadsInCache DEF IInv, Place, Busy, AnswerIsForRead
  <2>3. CASE pc \notin Busy
    BY <2>1, <2>3, ReadsInCache DEF IInv, Place, Busy, AnswerIsForRead
  <2> QED BY <2>2, <2>3
<1> QED BY <1>1, SeqPipelineInvariant, PTL

\* get() finishes a list before it takes the next assignment, and it returns
\* with an empty trail and nothing left to examine.
THEOREM SeqPipelineOneList == Spec => []OneListAtATime
<1>1. IInv => OneListAtATime
  <2> SUFFICES ASSUME IInv PROVE OneListAtATime
    OBVIOUS
  <2> DEFINE list == CASE pc = "meta" -> {sent.as}
                       [] pc \in {"list", "data", "clause", "other", "write"} -> {out_req.as}
                       [] pc \in {"outside", "trail"} -> {}
  <2>1. ASSUME NEW c \in Engine!Work PROVE c[1] \in list
    <3>1. c \in is_read_clause /\ c[1] \in started /\ examined[c] = 0
      BY <2>1 DEF Engine!Work
    <3>2. ~ Passed(c)
      BY <3>1 DEF IInv, Progress
    <3>3. pc \in Busy \cup Inner \cup {"outside", "trail"}
      BY DEF IInv, Types
    <3>4. CASE pc = "meta"
      BY <3>2, <3>4 DEF Passed
    <3>5. CASE pc \in {"list", "data", "clause", "other", "write"}
      BY <3>2, <3>5 DEF Passed
    <3>6. CASE pc \in {"outside", "trail"}
      BY <3>2, <3>6 DEF Passed
    <3> QED BY <3>3, <3>4, <3>5, <3>6 DEF Busy, Inner
  <2>2. {c[1] : c \in Engine!Work} \subseteq list
    BY <2>1
  <2>3. pc = "outside" /\ empty => in_reqs = <<>>
    BY DEF IInv, Fresh
  <2> QED BY <2>2, <2>3 DEF OneListAtATime
<1> QED BY <1>1, SeqPipelineInvariant, PTL

-----------------------------------------------------------------------------
(* seq_pipeline implements Propagation                                      *)

\* The trail of the abstract engine is the set of assignments in in_reqs.
LEMMA EngineTrail ==
  /\ {req.as : req \in Range(in_reqs)} = Trail
  /\ {req.as : req \in Range(in_reqs)}' = Trail'
BY DEF Range, Trail

\* A step that leaves the trail and the history alone is a stutter.
LEMMA EngineStutters ==
  ASSUME UNCHANGED <<in_reqs, started, examined>>
  PROVE  UNCHANGED Engine!vars
BY DEF Engine!vars

\* push() is a submission of one assignment.
LEMMA PushSubmits == IInv /\ Push => Engine!Next
<1> SUFFICES ASSUME IInv, Push PROVE Engine!Next
  OBVIOUS
<1>1. PICK a \in tasks : in_reqs' = Append(in_reqs, Task(a))
  BY DEF Push
<1>2. a \in Assign /\ a \notin Trail \cup started
  BY SeqAssumption DEF IInv, Types, Fresh
<1>3. Trail' = Trail \cup {a}
  BY <1>1, <1>2, TrailAppend DEF IInv, Types
<1>4. UNCHANGED <<started, examined>>
  BY DEF Push, history
<1>5. Engine!Submit({a})
  BY <1>2, <1>3, <1>4, EngineTrail DEF Engine!Submit
<1> QED BY <1>2, <1>5 DEF Engine!Next

\* Taking a task starts one assignment and examines no clause.
LEMMA TakeTaskPropagates == IInv /\ TakeTask => Engine!Next
<1> SUFFICES ASSUME IInv, TakeTask PROVE Engine!Next
  OBVIOUS
<1> DEFINE a == Head(in_reqs).as
<1>1. /\ in_reqs # <<>> /\ in_reqs' = Tail(in_reqs)
      /\ started' = started \cup {a} /\ examined' = examined
  BY DEF TakeTask
<1>2. Trail' = Trail \ {a} /\ a \in Trail
  BY <1>1, TrailTail
<1>3. examined = [c \in is_read_clause |-> examined[c]]
  BY DEF IInv, Types
<1>4. Engine!Propagate({a}, {})
  BY <1>1, <1>2, <1>3, EngineTrail DEF Engine!Propagate, Engine!Generated
<1> QED BY <1>2, <1>4, EngineTrail DEF Engine!Next

\* Taking a clause examines one clause of a started assignment.
LEMMA TakeClausePropagates == IInv /\ TakeClause => Engine!Next
<1> SUFFICES ASSUME IInv, TakeClause PROVE Engine!Next
  OBVIOUS
<1> DEFINE clause == <<out_req.as, out_req.watcherId>>
<1>1. pc = "clause" /\ Answered /\ started' = started
  BY DEF TakeClause
<1>2. /\ Answer = sent /\ sent.as = out_req.as /\ sent.watcherId = out_req.watcherId
  BY <1>1, AnswerTaken DEF IInv, Position
<1>3. clause \in is_read_clause /\ examined[clause] = 0 /\ out_req.as \in started
  BY <1>1, ClauseIsNew
<1>4. PICK d \in is_read_clause : d = clause
  BY <1>3
<1>5. in_reqs' = in_reqs \o NewTask(d) /\ examined' = [examined EXCEPT ![d] = @ + 1]
  BY <1>2, <1>4 DEF TakeClause
<1>6. Trail' = Trail \cup ({get_generated[d]} \ {Nothing})
  BY <1>5, NewTaskEffect DEF IInv, Types
<1> HIDE DEF clause
<1>7. examined' = [c \in is_read_clause |-> IF c \in {d} THEN 1 ELSE examined[c]]
  <2>1. examined[d] = 0 /\ examined \in [is_read_clause -> 0 .. 1]
    BY <1>3, <1>4 DEF IInv, Types
  <2>2. examined' = [examined EXCEPT ![d] = 1]
    BY <1>5, <2>1
  <2> QED BY <2>1, <2>2
<1>8. {d} \in SUBSET Engine!Work
  BY <1>3, <1>4 DEF Engine!Work, clause
<1>9. Engine!Propagate({}, {d})
  BY <1>1, <1>6, <1>7, EngineTrail DEF Engine!Propagate, Engine!Generated
<1> QED BY <1>8, <1>9 DEF Engine!Next

\* seq_pipeline, the reference the accelerator is compared with, is a propagation
\* engine: it takes every assignment once, and examines every clause of an
\* assignment that it has taken once, however the cache behaves.
THEOREM SeqPipelineRefines == Spec => PropagationSpec
<1>1. Init => Engine!Init
  <2> SUFFICES ASSUME Init PROVE Engine!Init
    OBVIOUS
  <2>1. Trail = {}
    BY DEF Init, Trail
  <2> QED BY <2>1, EngineTrail DEF Init, Engine!Init
<1>2. IInv /\ [Next]_vars => [Engine!Next]_(Engine!vars)
  <2> SUFFICES ASSUME IInv, [Next]_vars PROVE [Engine!Next]_(Engine!vars)
    OBVIOUS
  <2>1. CASE Push
    BY <2>1, PushSubmits
  <2>2. CASE TakeTask
    BY <2>2, TakeTaskPropagates
  <2>3. CASE TakeClause
    BY <2>3, TakeClausePropagates
  <2>4. CASE \/ Get \/ Return \/ WaitForAnswer \/ TakeMeta \/ ListDone \/ ReadWatcher
             \/ TakeWatcher \/ TakeOther \/ WriteCycle \/ WriteDone \/ UNCHANGED vars
    <3>1. UNCHANGED <<in_reqs, started, examined>>
      BY <2>4 DEF Get, Return, WaitForAnswer, TakeMeta, ListDone, ReadWatcher, TakeWatcher,
                  TakeOther, WriteCycle, WriteDone, vars, queues, history
    <3> QED BY <3>1, EngineStutters
  <2> QED BY <2>1, <2>2, <2>3, <2>4 DEF Next
<1> QED BY <1>1, <1>2, SeqPipelineInvariant, PTL DEF Spec, PropagationSpec, Engine!Spec

=============================================================================
