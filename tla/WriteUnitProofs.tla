--------------------------- MODULE WriteUnitProofs ---------------------------
(***************************************************************************)
(* Proofs about one watcher_list_write_unit, for every set of literals and *)
(* assignments, every max_merge and every max_entry.                       *)
(***************************************************************************)
EXTENDS WriteUnit, TLAPS, FiniteSetTheorems, SequenceTheorems, WellFoundedInduction, NaturalsInduction

Incoming == Request({"ReadWatcherValue"})
Write == Request({"WriteWatcherList"})

\* The inductive invariant, for one unit: the parts of MapsAgree,
\* AgingCoversLive and EntriesBounded.
Agree(u) ==
  /\ DOMAIN u.current_map = DOMAIN u.current_req
  /\ \A v \in DOMAIN u.current_req : ValueOf(u.current_req[v]) = v
Covered(u) ==
  \A v \in DOMAIN u.current_req : \E i \in DOMAIN u.entry_aging_queue :
     u.entry_aging_queue[i] = v
Small(u, n) ==
  /\ IsFiniteSet(DOMAIN u.current_map)
  /\ Cardinality(DOMAIN u.current_map) <= n
UnitInv(u, n) == u \in Unit /\ Agree(u) /\ Covered(u) /\ Small(u, n)

\* A nonempty set of naturals has a least element, and Min is it.
LEMMA MinIsLeast ==
  ASSUME NEW S \in SUBSET Nat, S # {}
  PROVE  Min(S) \in S /\ \A y \in S : Min(S) <= y
<1>1. \E x \in S : \A y \in S : <<y, x>> \notin OpToRel(<, Nat)
  BY NatLessThanWellFounded, WFMin
<1>2. PICK x \in S : \A y \in S : <<y, x>> \notin OpToRel(<, Nat)
  BY <1>1
<1>3. ASSUME NEW y \in S, y < x PROVE <<y, x>> \in OpToRel(<, Nat)
  <2>1. <<y, x>> \in Nat \X Nat
    OBVIOUS
  <2> QED BY <1>3, <2>1, Zenon DEF OpToRel
<1>4. \A y \in S : x <= y
  <2>1. \A y \in S : ~ (y < x)
    BY <1>2, <1>3
  <2> QED BY <2>1
<1> QED BY <1>4 DEF Min

\* A request read from the queue names the literal of a real list.
LEMMA ValueOfType ==
  ASSUME NEW types, NEW req \in Request(types)
  PROVE  ValueOf(req) \in Value
<1>1. PICK a \in Assign : req \in [as : {a}, watcherId : 0 .. get_watcher_size[a] - 1, type : types]
  BY DEF Request
<1>2. get_pushed[<<req.as, req.watcherId>>] \in Value \cup {NotPushed}
  BY <1>1, PushedAssumption
<1>3. get_value[req.as] \in Value
  BY <1>1, WriteUnitAssumption
<1> QED BY <1>2, <1>3 DEF ValueOf

\* Turning a request into a write keeps the watcher it names.
LEMMA RetypeRequest ==
  ASSUME NEW req \in Incoming
  PROVE  /\ [req EXCEPT !.type = "WriteWatcherList"] \in Write
         /\ ValueOf([req EXCEPT !.type = "WriteWatcherList"]) = ValueOf(req)
<1>1. PICK a \in Assign : req \in [as : {a}, watcherId : 0 .. get_watcher_size[a] - 1,
                                   type : {"ReadWatcherValue"}]
  BY DEF Request, Incoming
<1>2. [req EXCEPT !.type = "WriteWatcherList"]
        \in [as : {a}, watcherId : 0 .. get_watcher_size[a] - 1, type : {"WriteWatcherList"}]
  BY <1>1
<1>3. [req EXCEPT !.type = "WriteWatcherList"] \in Write
  BY <1>2 DEF Request, Write
<1>4. /\ [req EXCEPT !.type = "WriteWatcherList"].as = req.as
      /\ [req EXCEPT !.type = "WriteWatcherList"].watcherId = req.watcherId
  BY <1>1
<1> QED BY <1>3, <1>4 DEF ValueOf

\* Erasing a key and inserting one give tables again.
LEMMA EraseType ==
  ASSUME NEW S, NEW map \in Map(S), NEW value
  PROVE  Erase(map, value) \in Map(S)
<1>1. PICK D \in SUBSET Value : map \in [D -> S]
  BY DEF Map
<1>2. Erase(map, value) \in [D \ {value} -> S]
  BY <1>1 DEF Erase, Restrict
<1>3. D \ {value} \in SUBSET Value
  OBVIOUS
<1> QED BY <1>2, <1>3 DEF Map

\* Inserting an entry of the right type gives a table again.
LEMMA InsertType ==
  ASSUME NEW S, NEW map \in Map(S), NEW value \in Value, NEW x \in S
  PROVE  Insert(map, value, x) \in Map(S)
<1>1. PICK D \in SUBSET Value : map \in [D -> S]
  BY DEF Map
<1>2. Insert(map, value, x) \in [D \cup {value} -> S]
  BY <1>1 DEF Insert
<1>3. D \cup {value} \in SUBSET Value
  OBVIOUS
<1> QED BY <1>2, <1>3 DEF Map

\* The empty table is a table of any type and has no keys.
LEMMA EmptyMapProperties ==
  ASSUME NEW S
  PROVE  EmptyMap \in Map(S) /\ DOMAIN EmptyMap = {}
<1>1. EmptyMap \in [{} -> S]
  BY DEF EmptyMap
<1> QED BY <1>1 DEF Map, EmptyMap

-----------------------------------------------------------------------------
(* What the steps of do_cycle and flush do to one unit.                     *)

\* Sending a write changes only the queue of writes.
LEMMA EmitKeeps ==
  ASSUME NEW u \in Unit, NEW req \in Write
  PROVE  /\ Emit(u, req) \in Unit
         /\ Emit(u, req).in_request = u.in_request
         /\ Emit(u, req).out_mem_requst = Append(u.out_mem_requst, req)
         /\ Emit(u, req).current_map = u.current_map
         /\ Emit(u, req).current_req = u.current_req
         /\ Emit(u, req).entry_aging_queue = u.entry_aging_queue
<1>1. Append(u.out_mem_requst, req) \in Seq(Write)
  BY AppendProperties DEF Unit, Write
<1> QED BY <1>1 DEF Emit, Unit, Write

\* Dropping an entry changes only the two tables.
LEMMA DropKeeps ==
  ASSUME NEW u \in Unit, NEW value
  PROVE  /\ DropEntry(u, value) \in Unit
         /\ DropEntry(u, value).in_request = u.in_request
         /\ DropEntry(u, value).out_mem_requst = u.out_mem_requst
         /\ DropEntry(u, value).current_map = Erase(u.current_map, value)
         /\ DropEntry(u, value).current_req = Erase(u.current_req, value)
         /\ DropEntry(u, value).entry_aging_queue = u.entry_aging_queue
<1>1. /\ u.current_map \in Map(1 .. max_merge)
      /\ u.current_req \in Map(Request({"WriteWatcherList"}))
  BY DEF Unit
<1>2. /\ Erase(u.current_map, value) \in Map(1 .. max_merge)
      /\ Erase(u.current_req, value) \in Map(Request({"WriteWatcherList"}))
  BY <1>1, EraseType
<1> QED BY <1>2 DEF DropEntry, Unit

\* Dropping an entry that is in the tables makes room for one more.
LEMMA DropEntryInv ==
  ASSUME NEW u \in Unit, NEW n \in Nat, Agree(u), Small(u, n),
         NEW value \in DOMAIN u.current_map
  PROVE  /\ Agree(DropEntry(u, value))
         /\ Small(DropEntry(u, value), n - 1)
<1>1. /\ u.current_map \in Map(1 .. max_merge)
      /\ u.current_req \in Map(Request({"WriteWatcherList"}))
  BY DEF Unit
<1>2. /\ DOMAIN DropEntry(u, value).current_map = DOMAIN u.current_map \ {value}
      /\ DOMAIN DropEntry(u, value).current_req = DOMAIN u.current_req \ {value}
      /\ \A v \in DOMAIN u.current_req \ {value} :
            DropEntry(u, value).current_req[v] = u.current_req[v]
  <2>1. /\ DropEntry(u, value).current_map = Erase(u.current_map, value)
        /\ DropEntry(u, value).current_req = Erase(u.current_req, value)
    BY DropKeeps
  <2> QED BY <2>1 DEF Erase, Restrict
<1>3. Agree(DropEntry(u, value))
  BY <1>2 DEF Agree
<1>4. /\ IsFiniteSet(DOMAIN u.current_map \ {value})
      /\ Cardinality(DOMAIN u.current_map \ {value}) = Cardinality(DOMAIN u.current_map) - 1
      /\ Cardinality(DOMAIN u.current_map) \in Nat
  BY FS_RemoveElement, FS_CardinalityType DEF Small
<1>5. Small(DropEntry(u, value), n - 1)
  BY <1>2, <1>4 DEF Small
<1> QED BY <1>3, <1>5

\* A merge, or the write of a full entry, keeps the invariant.
LEMMA MergeEntryInv ==
  ASSUME NEW u, UnitInv(u, max_entry), NEW value \in DOMAIN u.current_map,
         NEW req \in Write
  PROVE  UnitInv(MergeEntry(u, value, req), max_entry)
<1> DEFINE r == MergeEntry(u, value, req)
<1>1. /\ u \in Unit /\ Agree(u) /\ Covered(u) /\ Small(u, max_entry)
      /\ max_entry \in Nat
  BY WriteUnitAssumption DEF UnitInv
<1>2. CASE u.current_map[value] < max_merge
  <2>1. PICK D \in SUBSET Value : u.current_map \in [D -> 1 .. max_merge]
    BY <1>1 DEF Unit, Map
  <2>2. [u.current_map EXCEPT ![value] = @ + 1] \in [D -> 1 .. max_merge]
    <3> DEFINE m == u.current_map
    <3>1. m \in [D -> 1 .. max_merge] /\ value \in D /\ m[value] < max_merge
      BY <1>2, <2>1
    <3> HIDE DEF m
    <3>2. [m EXCEPT ![value] = @ + 1] \in [D -> 1 .. max_merge]
      BY <3>1, WriteUnitAssumption
    <3> QED BY <3>2 DEF m
  <2>3. [u.current_map EXCEPT ![value] = @ + 1] \in Map(1 .. max_merge)
    BY <2>2 DEF Map
  <2>4. r = [u EXCEPT !.current_map = [u.current_map EXCEPT ![value] = @ + 1]]
    BY <1>1, <1>2 DEF MergeEntry, Unit
  <2>5. /\ r \in Unit
        /\ DOMAIN r.current_map = DOMAIN u.current_map
        /\ r.current_req = u.current_req
        /\ r.entry_aging_queue = u.entry_aging_queue
    BY <1>1, <2>1, <2>3, <2>4 DEF Unit
  <2> QED BY <1>1, <2>5 DEF UnitInv, Agree, Covered, Small
<1>3. CASE ~ (u.current_map[value] < max_merge)
  <2> DEFINE e == Emit(u, req)
  <2>1. r = DropEntry(e, value)
    BY <1>3 DEF MergeEntry
  <2>2. e \in Unit /\ Agree(e) /\ Covered(e) /\ Small(e, max_entry)
        /\ value \in DOMAIN e.current_map
    BY <1>1, EmitKeeps DEF Agree, Covered, Small
  <2>3. r \in Unit /\ Agree(r) /\ Small(r, max_entry - 1)
    BY <1>1, <2>1, <2>2, DropKeeps, DropEntryInv
  <2>4. Covered(r)
    <3>1. /\ e.current_req \in Map(Request({"WriteWatcherList"}))
          /\ r.current_req = Erase(e.current_req, value)
          /\ r.entry_aging_queue = e.entry_aging_queue
      BY <2>1, <2>2, DropKeeps DEF Unit
    <3> QED BY <2>2, <3>1 DEF Covered, Erase, Restrict
  <2>5. Small(r, max_entry)
    BY <1>1, <2>3, FS_CardinalityType DEF Small
  <2> QED BY <2>3, <2>4, <2>5 DEF UnitInv
<1> QED BY <1>2, <1>3

\* The loop over stale entries stops inside the queue, at its first live entry.
LEMMA OldestLiveIsLive ==
  ASSUME NEW u \in Unit, Covered(u), DOMAIN u.current_req # {}
  PROVE  /\ OldestLive(u) \in DOMAIN u.entry_aging_queue
         /\ u.entry_aging_queue[OldestLive(u)] \in DOMAIN u.current_req
         /\ \A j \in DOMAIN u.entry_aging_queue :
               u.entry_aging_queue[j] \in DOMAIN u.current_req => OldestLive(u) <= j
<1> DEFINE live == {i \in 1 .. Len(u.entry_aging_queue) :
                      u.entry_aging_queue[i] \in DOMAIN u.current_req}
<1>1. DOMAIN u.entry_aging_queue = 1 .. Len(u.entry_aging_queue)
      /\ Len(u.entry_aging_queue) \in Nat
  BY DEF Unit
<1>2. live # {} /\ live \in SUBSET Nat
  BY <1>1 DEF Covered
<1>3. OldestLive(u) = Min(live)
  BY <1>2 DEF OldestLive, SelectInSeq
<1>4. Min(live) \in live /\ \A y \in live : Min(live) <= y
  BY <1>2, MinIsLeast
<1> QED BY <1>1, <1>3, <1>4

\* An eviction keeps the invariant and makes room for one more entry.
LEMMA EvictEntryInv ==
  ASSUME NEW u, UnitInv(u, max_entry), DOMAIN u.current_req # {}
  PROVE  /\ UnitInv(EvictEntry(u), max_entry - 1)
         /\ \E w \in DOMAIN u.current_req :
              /\ DOMAIN EvictEntry(u).current_req = DOMAIN u.current_req \ {w}
              /\ EvictEntry(u).in_request = u.in_request
              /\ EvictEntry(u).out_mem_requst = Append(u.out_mem_requst, u.current_req[w])
<1> DEFINE i == OldestLive(u)
           w == u.entry_aging_queue[i]
           req == u.current_req[w]
           rest == SubSeq(u.entry_aging_queue, i + 1, Len(u.entry_aging_queue))
           e == Emit(u, req)
           f == [e EXCEPT !.entry_aging_queue = rest]
           r == EvictEntry(u)
<1>1. /\ u \in Unit /\ Agree(u) /\ Covered(u) /\ Small(u, max_entry)
      /\ max_entry \in Nat
  BY WriteUnitAssumption DEF UnitInv
<1>2. /\ i \in 1 .. Len(u.entry_aging_queue)
      /\ w \in DOMAIN u.current_req
      /\ \A j \in 1 .. Len(u.entry_aging_queue) :
               u.entry_aging_queue[j] \in DOMAIN u.current_req => i <= j
      /\ u.entry_aging_queue \in Seq(Value)
      /\ Len(u.entry_aging_queue) \in Nat
  BY <1>1, OldestLiveIsLive DEF Unit
<1>3. req \in Write
  BY <1>1, <1>2 DEF Unit, Map, Write
<1>4. /\ rest \in Seq(Value)
      /\ Len(rest) = Len(u.entry_aging_queue) - i
      /\ \A k \in 1 .. Len(rest) : rest[k] = u.entry_aging_queue[k + i]
  <2> DEFINE q == u.entry_aging_queue
  <2>1. q \in Seq(Value) /\ Len(q) \in Nat /\ i \in 1 .. Len(q)
    BY <1>2
  <2> HIDE DEF q, i
  <2> QED BY <2>1 DEF q
<1>5. /\ e \in Unit
      /\ e.in_request = u.in_request
      /\ e.out_mem_requst = Append(u.out_mem_requst, req)
      /\ e.current_map = u.current_map
      /\ e.current_req = u.current_req
      /\ e.entry_aging_queue = u.entry_aging_queue
  BY <1>1, <1>3, EmitKeeps
<1>6. /\ f \in Unit
      /\ f.in_request = u.in_request
      /\ f.out_mem_requst = Append(u.out_mem_requst, req)
      /\ f.current_map = u.current_map
      /\ f.current_req = u.current_req
      /\ f.entry_aging_queue = rest
  <2> HIDE DEF e, rest
  <2> QED BY <1>4, <1>5 DEF Unit
<1>7. r = DropEntry(f, w)
  BY <1>5 DEF EvictEntry, Unit
<1>8. Agree(f) /\ Small(f, max_entry) /\ w \in DOMAIN f.current_map
  BY <1>1, <1>2, <1>6 DEF Agree, Small
<1> HIDE DEF f, r, e, rest, i, w, req
<1>9. r \in Unit /\ Agree(r) /\ Small(r, max_entry - 1)
  BY <1>1, <1>6, <1>7, <1>8, DropKeeps, DropEntryInv
<1>10. /\ f.current_req \in Map(Request({"WriteWatcherList"}))
       /\ r.current_req = Erase(f.current_req, w)
       /\ r.entry_aging_queue = rest
       /\ r.in_request = u.in_request
       /\ r.out_mem_requst = Append(u.out_mem_requst, req)
  BY <1>6, <1>7, DropKeeps DEF Unit
<1>11. DOMAIN r.current_req = DOMAIN u.current_req \ {w}
  BY <1>6, <1>10 DEF Erase, Restrict
<1>12. Covered(r)
  <2> SUFFICES ASSUME NEW v \in DOMAIN u.current_req \ {w}
               PROVE  \E k \in DOMAIN rest : rest[k] = v
    BY <1>10, <1>11 DEF Covered
  <2>1. PICK j \in 1 .. Len(u.entry_aging_queue) : u.entry_aging_queue[j] = v
    BY <1>1, <1>2 DEF Covered
  <2>2. i <= j /\ i # j
    BY <1>2, <2>1 DEF w
  <2>3. j - i \in 1 .. Len(rest) /\ rest[j - i] = u.entry_aging_queue[(j - i) + i]
    BY <1>2, <1>4, <2>1, <2>2
  <2>4. (j - i) + i = j /\ DOMAIN rest = 1 .. Len(rest)
    BY <1>2, <1>4, <2>1
  <2> QED BY <2>1, <2>3, <2>4
<1> QED BY <1>2, <1>9, <1>10, <1>11, <1>12 DEF UnitInv, r, req, w

\* A new entry with its place in the aging queue keeps the invariant.
LEMMA NewEntryInv ==
  ASSUME NEW u, UnitInv(u, max_entry - 1), NEW req \in Write, NEW value \in Value,
         value = ValueOf(req), value \notin DOMAIN u.current_req
  PROVE  /\ UnitInv(NewEntry(u, value, req), max_entry)
         /\ DOMAIN NewEntry(u, value, req).current_req = DOMAIN u.current_req \cup {value}
         /\ NewEntry(u, value, req).in_request = u.in_request
         /\ NewEntry(u, value, req).out_mem_requst = u.out_mem_requst
<1> DEFINE r == NewEntry(u, value, req)
<1>1. /\ u \in Unit /\ Agree(u) /\ Covered(u) /\ Small(u, max_entry - 1)
      /\ max_entry \in Nat \ {0} /\ 1 \in 1 .. max_merge
  BY WriteUnitAssumption DEF UnitInv
<1>2. /\ u.current_map \in Map(1 .. max_merge)
      /\ u.current_req \in Map(Write)
      /\ u.entry_aging_queue \in Seq(Value)
  BY <1>1 DEF Unit, Write
<1>3. /\ Insert(u.current_map, value, 1) \in Map(1 .. max_merge)
      /\ DOMAIN Insert(u.current_map, value, 1) = DOMAIN u.current_map \cup {value}
  BY <1>1, <1>2, InsertType DEF Insert
<1>4. /\ Insert(u.current_req, value, req) \in Map(Write)
      /\ DOMAIN Insert(u.current_req, value, req) = DOMAIN u.current_req \cup {value}
      /\ Insert(u.current_req, value, req)[value] = req
      /\ \A v \in DOMAIN u.current_req \ {value} :
           Insert(u.current_req, value, req)[v] = u.current_req[v]
  BY <1>2, InsertType DEF Insert
<1>5. /\ Append(u.entry_aging_queue, value) \in Seq(Value)
      /\ DOMAIN Append(u.entry_aging_queue, value) = 1 .. Len(u.entry_aging_queue) + 1
      /\ \A k \in 1 .. Len(u.entry_aging_queue) :
           Append(u.entry_aging_queue, value)[k] = u.entry_aging_queue[k]
      /\ Append(u.entry_aging_queue, value)[Len(u.entry_aging_queue) + 1] = value
      /\ DOMAIN u.entry_aging_queue = 1 .. Len(u.entry_aging_queue)
      /\ Len(u.entry_aging_queue) \in Nat
  BY <1>2
<1>6. /\ r \in Unit
      /\ r.in_request = u.in_request
      /\ r.out_mem_requst = u.out_mem_requst
      /\ r.current_map = Insert(u.current_map, value, 1)
      /\ r.current_req = Insert(u.current_req, value, req)
      /\ r.entry_aging_queue = Append(u.entry_aging_queue, value)
  BY <1>1, <1>3, <1>4, <1>5 DEF NewEntry, Unit, Write
<1> HIDE DEF r
<1>7. Agree(r)
  BY <1>1, <1>3, <1>4, <1>6 DEF Agree
<1>8. Covered(r)
  <2>1. ASSUME NEW v \in DOMAIN u.current_req
        PROVE  \E k \in DOMAIN r.entry_aging_queue : r.entry_aging_queue[k] = v
    BY <1>1, <1>5, <1>6 DEF Covered
  <2>2. \E k \in DOMAIN r.entry_aging_queue : r.entry_aging_queue[k] = value
    BY <1>5, <1>6
  <2> QED BY <1>4, <1>6, <2>1, <2>2 DEF Covered
<1>9. Small(r, max_entry)
  <2>1. /\ IsFiniteSet(DOMAIN u.current_map \cup {value})
        /\ Cardinality(DOMAIN u.current_map \cup {value}) = Cardinality(DOMAIN u.current_map) + 1
        /\ Cardinality(DOMAIN u.current_map) \in Nat
    BY <1>1, FS_AddElement, FS_CardinalityType DEF Small, Agree
  <2> QED BY <1>1, <1>3, <1>6, <2>1 DEF Small
<1> QED BY <1>4, <1>6, <1>7, <1>8, <1>9 DEF UnitInv, r

\* One cycle keeps the invariant and does one of the three things a write
\* buffer may do with the next update.
LEMMA DoCycleStep ==
  ASSUME NEW u, UnitInv(u, max_entry), u.in_request # <<>>
  PROVE  LET v == ValueOf(Head(u.in_request))
             r == DoCycle(u)
             before == DOMAIN u.current_req
             after == DOMAIN r.current_req
         IN  /\ UnitInv(r, max_entry)
             /\ r.in_request = Tail(u.in_request)
             /\ \/ after = before \cup {v} /\ r.out_mem_requst = u.out_mem_requst
                \/ /\ v \in before /\ after = before \ {v}
                   /\ \E req \in Write : ValueOf(req) = v
                        /\ r.out_mem_requst = Append(u.out_mem_requst, req)
                \/ /\ v \notin before
                   /\ \E w \in before, req \in Write :
                        /\ ValueOf(req) = w
                        /\ after = (before \ {w}) \cup {v}
                        /\ r.out_mem_requst = Append(u.out_mem_requst, req)
<1> DEFINE head == Head(u.in_request)
           req == [head EXCEPT !.type = "WriteWatcherList"]
           v == ValueOf(head)
           p == [u EXCEPT !.in_request = Tail(@)]
           r == DoCycle(u)
<1>1. /\ u \in Unit /\ Agree(u) /\ Covered(u) /\ Small(u, max_entry)
      /\ max_entry \in Nat \ {0}
      /\ u.in_request \in Seq(Incoming)
  BY WriteUnitAssumption DEF UnitInv, Unit, Incoming
<1>2. head \in Incoming /\ Tail(u.in_request) \in Seq(Incoming)
  BY <1>1, HeadTailProperties
<1>3. req \in Write /\ ValueOf(req) = v /\ v \in Value
  <2>1. req \in Write /\ ValueOf(req) = v
    BY <1>2, RetypeRequest
  <2>2. v \in Value
    BY <1>2, ValueOfType DEF Incoming
  <2> QED BY <2>1, <2>2
<1>4. /\ p \in Unit
      /\ p.in_request = Tail(u.in_request)
      /\ p.out_mem_requst = u.out_mem_requst
      /\ p.current_map = u.current_map
      /\ p.current_req = u.current_req
      /\ p.entry_aging_queue = u.entry_aging_queue
  BY <1>1, <1>2 DEF Unit, Incoming
<1>5. UnitInv(p, max_entry)
  BY <1>1, <1>4 DEF UnitInv, Agree, Covered, Small
<1>6. CASE v \in DOMAIN u.current_map
  <2>1. r = MergeEntry(p, v, req)
    BY <1>3, <1>6 DEF DoCycle
  <2> HIDE DEF r, p, req, v, head
  <2>2. UnitInv(r, max_entry)
    BY <1>3, <1>4, <1>5, <1>6, <2>1, MergeEntryInv
  <2>3. CASE p.current_map[v] < max_merge
    <3>1. r = [p EXCEPT !.current_map[v] = @ + 1]
      BY <2>1, <2>3 DEF MergeEntry
    <3>2. /\ r.in_request = p.in_request
          /\ r.out_mem_requst = p.out_mem_requst
          /\ r.current_req = p.current_req
      BY <1>4, <3>1 DEF Unit
    <3>3. DOMAIN r.current_req = DOMAIN u.current_req \cup {v}
      BY <1>1, <1>4, <1>6, <3>2 DEF Agree
    <3> QED BY <1>4, <2>2, <3>2, <3>3 DEF r, v, head
  <2>4. CASE ~ (p.current_map[v] < max_merge)
    <3>1. r = DropEntry(Emit(p, req), v)
      BY <2>1, <2>4 DEF MergeEntry
    <3>2. /\ Emit(p, req) \in Unit
          /\ Emit(p, req).in_request = p.in_request
          /\ Emit(p, req).out_mem_requst = Append(p.out_mem_requst, req)
          /\ Emit(p, req).current_req = p.current_req
      BY <1>3, <1>4, EmitKeeps
    <3>3. /\ r.in_request = p.in_request
          /\ r.out_mem_requst = Append(p.out_mem_requst, req)
          /\ r.current_req = Erase(p.current_req, v)
      BY <3>1, <3>2, DropKeeps
    <3>4. DOMAIN r.current_req = DOMAIN u.current_req \ {v}
      BY <1>4, <3>3 DEF Erase, Restrict
    <3>5. v \in DOMAIN u.current_req
      BY <1>1, <1>6 DEF Agree
    <3> QED BY <1>3, <1>4, <2>2, <3>3, <3>4, <3>5 DEF r, v, head
  <2> QED BY <2>3, <2>4
<1>7. CASE v \notin DOMAIN u.current_map
  <2> DEFINE full == Full(u)
             q == IF full THEN EvictEntry(p) ELSE p
  <2>1. r = NewEntry(q, v, req)
    BY <1>3, <1>7 DEF DoCycle, Full
  <2> HIDE DEF r, p, req, v, head
  <2>2. v \notin DOMAIN u.current_req
    BY <1>1, <1>7 DEF Agree
  <2>3. CASE full
    <3>1. DOMAIN p.current_req # {}
      <4>1. DOMAIN u.current_map # {}
        <5>1. ASSUME DOMAIN u.current_map = {} PROVE FALSE
          <6>1. Cardinality(DOMAIN u.current_map) = 0
            BY <5>1, FS_EmptySet, Zenon
          <6> QED BY <1>1, <2>3, <6>1 DEF Full
        <5> QED BY <5>1
      <4> QED BY <1>1, <1>4, <4>1 DEF Agree
    <3>2. UnitInv(EvictEntry(p), max_entry - 1)
      BY <1>5, <3>1, EvictEntryInv
    <3>3. PICK w \in DOMAIN p.current_req :
              /\ DOMAIN EvictEntry(p).current_req = DOMAIN p.current_req \ {w}
              /\ EvictEntry(p).in_request = p.in_request
              /\ EvictEntry(p).out_mem_requst = Append(p.out_mem_requst, p.current_req[w])
      BY <1>5, <3>1, EvictEntryInv
    <3>4. /\ p.current_req[w] \in Write /\ ValueOf(p.current_req[w]) = w
      BY <1>4, <1>5, <3>3 DEF Unit, Map, Write, UnitInv, Agree
    <3>5. /\ UnitInv(r, max_entry)
          /\ DOMAIN r.current_req = DOMAIN EvictEntry(p).current_req \cup {v}
          /\ r.in_request = EvictEntry(p).in_request
          /\ r.out_mem_requst = EvictEntry(p).out_mem_requst
      BY <1>3, <1>4, <2>1, <2>2, <2>3, <3>2, <3>3, NewEntryInv
    <3>6. /\ DOMAIN r.current_req = (DOMAIN u.current_req \ {w}) \cup {v}
          /\ w \in DOMAIN u.current_req
      BY <1>4, <3>3, <3>5
    <3> QED BY <1>4, <2>2, <3>3, <3>4, <3>5, <3>6 DEF r, v, head
  <2>4. CASE ~ full
    <3>1. UnitInv(p, max_entry - 1)
      <4>1. Cardinality(DOMAIN p.current_map) <= max_entry - 1
        BY <1>1, <1>4, <2>4, FS_CardinalityType DEF Small, Full
      <4> QED BY <1>5, <4>1 DEF UnitInv, Small
    <3>2. /\ UnitInv(r, max_entry)
          /\ DOMAIN r.current_req = DOMAIN p.current_req \cup {v}
          /\ r.in_request = p.in_request
          /\ r.out_mem_requst = p.out_mem_requst
      BY <1>3, <1>4, <2>1, <2>2, <2>4, <3>1, NewEntryInv
    <3> QED BY <1>4, <3>2 DEF r, v, head
  <2> QED BY <2>3, <2>4
<1> QED BY <1>6, <1>7

\* flush empties the tables and sends every request in them.
LEMMA FlushStep ==
  ASSUME NEW u, UnitInv(u, max_entry), NEW order \in SetToSeqs(DOMAIN u.current_req)
  PROVE  /\ UnitInv(FlushUnit(u, order), max_entry)
         /\ DOMAIN FlushUnit(u, order).current_req = {}
         /\ FlushUnit(u, order).in_request = u.in_request
         /\ InOrder(u.current_req, order) \in Seq(Write)
         /\ FlushUnit(u, order).out_mem_requst
              = u.out_mem_requst \o InOrder(u.current_req, order)
<1> DEFINE r == FlushUnit(u, order)
           n == Cardinality(DOMAIN u.current_req)
           sent == InOrder(u.current_req, order)
<1>1. /\ u \in Unit /\ Agree(u) /\ Small(u, max_entry)
      /\ max_entry \in Nat \ {0}
  BY WriteUnitAssumption DEF UnitInv
<1>2. order \in [1 .. n -> DOMAIN u.current_req] /\ n \in Nat
  BY <1>1, FS_CardinalityType DEF SetToSeqs, Agree, Small
<1>3. sent \in [1 .. n -> Write]
  BY <1>1, <1>2 DEF Unit, Map, Write, InOrder
<1>4. sent \in Seq(Write)
  BY <1>2, <1>3
<1>5. u.out_mem_requst \o sent \in Seq(Write)
  BY <1>1, <1>4, ConcatProperties DEF Unit, Write
<1>6. /\ EmptyMap \in Map(1 .. max_merge)
      /\ EmptyMap \in Map(Request({"WriteWatcherList"}))
      /\ DOMAIN EmptyMap = {}
  BY EmptyMapProperties
<1>7. /\ r \in Unit
      /\ r.in_request = u.in_request
      /\ r.out_mem_requst = u.out_mem_requst \o sent
      /\ r.current_map = EmptyMap
      /\ r.current_req = EmptyMap
  <2> HIDE DEF sent
  <2>1. << >> \in Seq(Value)
    OBVIOUS
  <2>2. r = [u EXCEPT !.entry_aging_queue = <<>>, !.out_mem_requst = @ \o sent,
                      !.current_map = EmptyMap, !.current_req = EmptyMap]
    BY DEF FlushUnit, sent
  <2> QED BY <1>1, <1>5, <1>6, <2>1, <2>2 DEF Unit, Write
<1>8. UnitInv(r, max_entry)
  BY <1>1, <1>6, <1>7, FS_EmptySet DEF UnitInv, Agree, Covered, Small
<1> QED BY <1>4, <1>6, <1>7, <1>8

-----------------------------------------------------------------------------
(* The invariants of the specification.                                     *)

Inv == UnitInv(unit, max_entry)

\* A new unit satisfies the invariant.
LEMMA InitInv == Init => Inv
<1> SUFFICES ASSUME Init PROVE Inv
  OBVIOUS
<1>1. unit \in Unit
  BY EmptyMapProperties DEF Init, NewUnit, Unit
<1>2. unit.current_map = EmptyMap /\ unit.current_req = EmptyMap /\ max_entry \in Nat
  BY WriteUnitAssumption DEF Init, NewUnit
<1> QED BY <1>1, <1>2, EmptyMapProperties, FS_EmptySet DEF Inv, UnitInv, Agree, Covered, Small

\* A request from a hook of acc keeps the invariant and is an arrival.
LEMMA ReceiveStep ==
  ASSUME Inv, NEW req \in Incoming, Receive(req)
  PROVE  /\ Inv'
         /\ unit'.in_request = Append(unit.in_request, req)
         /\ unit'.current_req = unit.current_req
         /\ unit'.out_mem_requst = unit.out_mem_requst
<1>1. Append(unit.in_request, req) \in Seq(Incoming)
  BY AppendProperties DEF Inv, UnitInv, Unit, Incoming
<1>2. unit' \in Unit
      /\ unit'.in_request = Append(unit.in_request, req)
      /\ unit'.out_mem_requst = unit.out_mem_requst
      /\ unit'.current_map = unit.current_map
      /\ unit'.current_req = unit.current_req
      /\ unit'.entry_aging_queue = unit.entry_aging_queue
  BY <1>1 DEF Inv, UnitInv, Unit, Incoming, Receive
<1> QED BY <1>2 DEF Inv, UnitInv, Agree, Covered, Small

\* Handing a write to the memory network keeps the invariant and is an Accept.
LEMMA DrainStep ==
  ASSUME Inv, Drain
  PROVE  /\ Inv'
         /\ unit'.in_request = unit.in_request
         /\ unit'.current_req = unit.current_req
         /\ unit'.out_mem_requst = Tail(unit.out_mem_requst)
<1>1. Tail(unit.out_mem_requst) \in Seq(Write)
  BY HeadTailProperties DEF Inv, UnitInv, Unit, Write, Drain
<1>2. unit' \in Unit
      /\ unit'.in_request = unit.in_request
      /\ unit'.out_mem_requst = Tail(unit.out_mem_requst)
      /\ unit'.current_map = unit.current_map
      /\ unit'.current_req = unit.current_req
      /\ unit'.entry_aging_queue = unit.entry_aging_queue
  BY <1>1 DEF Inv, UnitInv, Unit, Write, Drain
<1> QED BY <1>2 DEF Inv, UnitInv, Agree, Covered, Small

\* Every step of the unit keeps the invariant.
LEMMA NextInv == Inv /\ [Next]_unit => Inv'
<1> SUFFICES ASSUME Inv, [Next]_unit PROVE Inv'
  OBVIOUS
<1>1. CASE \E req \in Request({"ReadWatcherValue"}) : Receive(req)
  BY <1>1, ReceiveStep DEF Incoming
<1>2. CASE Drain
  BY <1>2, DrainStep
<1>3. CASE Cycle
  BY <1>3, DoCycleStep DEF Cycle, Inv
<1>4. CASE Flush
  <2>1. PICK order \in KeyOrders(unit.current_req) : unit' = FlushUnit(unit, order)
    BY <1>4 DEF Flush
  <2>2. order \in SetToSeqs(DOMAIN unit.current_req)
    BY DEF KeyOrders
  <2> QED BY <2>1, <2>2, FlushStep DEF Inv
<1>5. CASE UNCHANGED unit
  BY <1>5 DEF Inv, UnitInv, Agree, Covered, Small
<1> QED BY <1>1, <1>2, <1>3, <1>4, <1>5 DEF Next

\* The invariant holds of every reachable unit.
LEMMA UnitKeepsInv == Spec => []Inv
BY InitInv, NextInv, PTL DEF Spec

\* The tables of a write unit map lists to counts of merges within max_merge and
\* to the pending write of the list, whatever requests arrive.
THEOREM WriteUnitTypeOK == Spec => []TypeOK
<1>1. Inv => TypeOK
  BY DEF Inv, UnitInv, TypeOK
<1> QED BY <1>1, UnitKeepsInv, PTL

\* current_map and current_req always have the same keys, and the request kept
\* for a list writes that list: find() on the one table and erase() on the other
\* never disagree.
THEOREM WriteUnitMapsAgree == Spec => []MapsAgree
<1>1. Inv => MapsAgree
  BY DEF Inv, UnitInv, Agree, MapsAgree
<1> QED BY <1>1, UnitKeepsInv, PTL

\* Every live entry has a place in entry_aging_queue, so the loop of an eviction
\* that skips the stale places finds a victim before the queue runs empty.
THEOREM WriteUnitAging == Spec => []AgingCoversLive
<1>1. Inv => AgingCoversLive
  BY DEF Inv, UnitInv, Covered, AgingCoversLive
<1> QED BY <1>1, UnitKeepsInv, PTL

\* The tables never hold more than max_entry lists.
THEOREM WriteUnitBounded == Spec => []EntriesBounded
<1>1. Inv => EntriesBounded
  BY DEF Inv, UnitInv, Small, EntriesBounded
<1> QED BY <1>1, UnitKeepsInv, PTL

-----------------------------------------------------------------------------
(* The write unit implements WriteBuffer.                                   *)

\* The lists a queue of requests updates, in order.
Lists(q) == [i \in DOMAIN q |-> ValueOf(q[i])]

\* The lists named by a queue of requests form a sequence of literals.
LEMMA ListsOfQueue ==
  ASSUME NEW S, NEW q \in Seq(S)
  PROVE  /\ \A req \in S : Lists(Append(q, req)) = Append(Lists(q), ValueOf(req))
         /\ \A t \in Seq(S) : Lists(q \o t) = Lists(q) \o Lists(t)
         /\ q # <<>> => /\ Lists(q) # <<>>
                        /\ Head(Lists(q)) = ValueOf(Head(q))
                        /\ Lists(Tail(q)) = Tail(Lists(q))
<1>1. /\ Len(q) \in Nat /\ DOMAIN q = 1 .. Len(q) /\ Lists(q) \in Seq(Range(Lists(q)))
      /\ Len(Lists(q)) = Len(q) /\ \A i \in 1 .. Len(q) : Lists(q)[i] = ValueOf(q[i])
  BY DEF Lists, Range
<1>2. ASSUME NEW req \in S PROVE Lists(Append(q, req)) = Append(Lists(q), ValueOf(req))
  BY <1>1 DEF Lists
<1>3. ASSUME NEW t \in Seq(S) PROVE Lists(q \o t) = Lists(q) \o Lists(t)
  <2>1. /\ Len(t) \in Nat /\ DOMAIN t = 1 .. Len(t) /\ Lists(t) \in Seq(Range(Lists(t)))
        /\ Len(Lists(t)) = Len(t) /\ \A i \in 1 .. Len(t) : Lists(t)[i] = ValueOf(t[i])
    BY DEF Lists, Range
  <2>2. /\ DOMAIN (q \o t) = 1 .. Len(q) + Len(t)
        /\ \A i \in 1 .. Len(q) + Len(t) :
             (q \o t)[i] = IF i <= Len(q) THEN q[i] ELSE t[i - Len(q)]
    BY <1>1, <2>1
  <2>3. Lists(q) \o Lists(t)
          = [i \in 1 .. Len(q) + Len(t) |->
               IF i <= Len(q) THEN Lists(q)[i] ELSE Lists(t)[i - Len(q)]]
    <3> DEFINE x == Lists(q)
               y == Lists(t)
               S2 == Range(x) \cup Range(y)
    <3>1. x \in Seq(S2) /\ y \in Seq(S2) /\ Len(x) = Len(q) /\ Len(y) = Len(t)
      BY <1>1, <2>1
    <3> HIDE DEF x, y, S2
    <3> DEFINE c == x \o y
    <3>2. /\ c \in Seq(S2) /\ Len(c) = Len(x) + Len(y)
          /\ \A i \in 1 .. Len(x) + Len(y) :
               c[i] = IF i <= Len(x) THEN x[i] ELSE y[i - Len(x)]
      BY <3>1, ConcatProperties, Zenon
    <3> HIDE DEF c
    <3>3. c = [i \in 1 .. Len(c) |-> c[i]]
      BY <3>2
    <3>4. c = [i \in 1 .. Len(q) + Len(t) |-> IF i <= Len(q) THEN x[i] ELSE y[i - Len(q)]]
      BY <3>1, <3>2, <3>3
    <3> QED BY <3>4 DEF c, x, y
  <2>4. ASSUME NEW i \in 1 .. Len(q) + Len(t)
        PROVE  ValueOf((q \o t)[i]) = IF i <= Len(q) THEN Lists(q)[i] ELSE Lists(t)[i - Len(q)]
    BY <1>1, <2>1, <2>2
  <2>5. Lists(q \o t) = [i \in 1 .. Len(q) + Len(t) |-> ValueOf((q \o t)[i])]
    BY <2>2 DEF Lists
  <2> QED BY <2>3, <2>4, <2>5
<1>4. ASSUME q # <<>>
      PROVE  /\ Lists(q) # <<>> /\ Head(Lists(q)) = ValueOf(Head(q))
             /\ Lists(Tail(q)) = Tail(Lists(q))
  BY <1>1, <1>4 DEF Lists
<1> QED BY <1>2, <1>3, <1>4

\* WriteBuffer has its own copies of the library's operators.
LEMMA BufferCardinality == \A S : Buffer!Cardinality(S) = Cardinality(S)
BY DEF Cardinality, Buffer!Cardinality

\* The same for the orders of a set.
LEMMA BufferSetToSeqs == \A S : Buffer!SetToSeqs(S) = SetToSeqs(S)
BY BufferCardinality DEF SetToSeqs, Buffer!SetToSeqs

\* A unit never loses an update and never writes a list that is not dirty: its
\* behaviours are behaviours of a write buffer of max_entry lists.
THEOREM WriteUnitRefines == Spec => BufferSpec
<1> USE DEF Buffer!vars
<1>1. Init => Buffer!Init
  BY EmptyMapProperties DEF Init, NewUnit, Buffer!Init
<1>2. Inv /\ [Next]_unit => [Buffer!Next]_(Buffer!vars)
  <2> SUFFICES ASSUME Inv, [Next]_unit PROVE [Buffer!Next]_(Buffer!vars)
    OBVIOUS
  <2>0. /\ unit.in_request \in Seq(Incoming)
        /\ unit.out_mem_requst \in Seq(Write)
    BY DEF Inv, UnitInv, Unit, Incoming, Write
  <2>1. ASSUME NEW req \in Request({"ReadWatcherValue"}), Receive(req) PROVE Buffer!Next
    <3>1. Buffer!Arrive(ValueOf(req))
      <4>1. /\ unit'.in_request = Append(unit.in_request, req)
            /\ unit'.current_req = unit.current_req
            /\ unit'.out_mem_requst = unit.out_mem_requst
        BY <2>1, ReceiveStep DEF Incoming
      <4>2. Lists(Append(unit.in_request, req)) = Append(Lists(unit.in_request), ValueOf(req))
        BY <2>0, <2>1, ListsOfQueue DEF Incoming
      <4>3. /\ Lists(unit'.in_request) = Append(Lists(unit.in_request), ValueOf(req))
            /\ Lists(unit'.out_mem_requst) = Lists(unit.out_mem_requst)
            /\ DOMAIN unit'.current_req = DOMAIN unit.current_req
        BY <4>1, <4>2, Zenon
      <4> QED BY <4>3 DEF Lists, Buffer!Arrive
    <3>2. ValueOf(req) \in Value
      BY ValueOfType
    <3> QED BY <3>1, <3>2 DEF Buffer!Next
  <2>2. CASE Drain
    <3>1. Buffer!Accept
      <4>1. /\ unit'.in_request = unit.in_request /\ unit'.current_req = unit.current_req
            /\ unit'.out_mem_requst = Tail(unit.out_mem_requst) /\ unit.out_mem_requst # <<>>
        BY <2>2, DrainStep DEF Drain
      <4>2. /\ Lists(unit.out_mem_requst) # <<>>
            /\ Lists(Tail(unit.out_mem_requst)) = Tail(Lists(unit.out_mem_requst))
        BY <2>0, <4>1, ListsOfQueue
      <4>3. /\ Lists(unit'.out_mem_requst) = Tail(Lists(unit.out_mem_requst))
            /\ Lists(unit'.in_request) = Lists(unit.in_request)
            /\ DOMAIN unit'.current_req = DOMAIN unit.current_req
        BY <4>1, <4>2, Zenon
      <4> QED BY <4>2, <4>3 DEF Lists, Buffer!Accept
    <3> QED BY <3>1 DEF Buffer!Next
  <2>3. CASE Cycle
    <3> DEFINE v == ValueOf(Head(unit.in_request))
               before == DOMAIN unit.current_req
               after == DOMAIN unit'.current_req
    <3>1. /\ Inv'
          /\ unit'.in_request = Tail(unit.in_request)
          /\ unit.in_request # <<>>
      BY <2>3, DoCycleStep DEF Cycle, Inv
    <3>2. /\ Lists(unit.in_request) # <<>>
          /\ Head(Lists(unit.in_request)) = v
          /\ Lists(unit'.in_request) = Tail(Lists(unit.in_request))
      BY <2>0, <3>1, ListsOfQueue
    <3>3. CASE after = before \cup {v} /\ unit'.out_mem_requst = unit.out_mem_requst
      <4>1. Cardinality(before \cup {v}) <= max_entry
        BY <3>1, <3>3 DEF Inv, UnitInv, Agree, Small
      <4>2. Buffer!Keep
        BY <3>2, <3>3, <4>1, BufferCardinality DEF Lists, Buffer!Keep
      <4> QED BY <4>2 DEF Buffer!Next
    <3>4. CASE /\ v \in before /\ after = before \ {v}
               /\ \E req \in Write : ValueOf(req) = v
                    /\ unit'.out_mem_requst = Append(unit.out_mem_requst, req)
      <4>1. Lists(unit'.out_mem_requst) = Append(Lists(unit.out_mem_requst), v)
        BY <2>0, <3>4, ListsOfQueue
      <4>2. Buffer!WriteThrough
        BY <3>2, <3>4, <4>1 DEF Lists, Buffer!WriteThrough
      <4> QED BY <4>2 DEF Buffer!Next
    <3>5. CASE /\ v \notin before
               /\ \E w \in before, req \in Write :
                    /\ ValueOf(req) = w
                    /\ after = (before \ {w}) \cup {v}
                    /\ unit'.out_mem_requst = Append(unit.out_mem_requst, req)
      <4>1. PICK w \in before : /\ after = (before \ {w}) \cup {v}
                                /\ \E req \in Write : /\ ValueOf(req) = w
                                     /\ unit'.out_mem_requst = Append(unit.out_mem_requst, req)
        BY <3>5
      <4>2. Lists(unit'.out_mem_requst) = Append(Lists(unit.out_mem_requst), w)
        BY <2>0, <4>1, ListsOfQueue
      <4>3. Buffer!Replace
        BY <3>2, <3>5, <4>1, <4>2 DEF Lists, Buffer!Replace
      <4> QED BY <4>3 DEF Buffer!Next
    <3> QED BY <2>3, <3>3, <3>4, <3>5, DoCycleStep DEF Cycle, Inv
  <2>4. CASE Flush
    <3>1. PICK order \in KeyOrders(unit.current_req) : unit' = FlushUnit(unit, order)
      BY <2>4 DEF Flush
    <3>2. order \in SetToSeqs(DOMAIN unit.current_req)
      BY DEF KeyOrders
    <3> DEFINE sent == InOrder(unit.current_req, order)
    <3>3. /\ DOMAIN unit'.current_req = {}
          /\ unit'.in_request = unit.in_request
          /\ sent \in Seq(Write)
          /\ unit'.out_mem_requst = unit.out_mem_requst \o sent
      BY <3>1, <3>2, FlushStep DEF Inv
    <3>4. Lists(sent) = order
      <4>1. order \in [DOMAIN order -> DOMAIN unit.current_req]
        BY <3>2 DEF SetToSeqs
      <4>2. \A i \in DOMAIN order : ValueOf(unit.current_req[order[i]]) = order[i]
        BY <4>1 DEF Inv, UnitInv, Agree
      <4> QED BY <4>1, <4>2 DEF Lists, InOrder
    <3>5. Lists(unit'.out_mem_requst) = Lists(unit.out_mem_requst) \o order
      <4> HIDE DEF sent
      <4> QED BY <2>0, <3>3, <3>4, ListsOfQueue
    <3>6. Buffer!WriteAll
      BY <3>2, <3>3, <3>5, BufferSetToSeqs DEF Lists, Buffer!WriteAll
    <3> QED BY <3>6 DEF Buffer!Next
  <2>5. CASE UNCHANGED unit
    BY <2>5
  <2> QED BY <2>1, <2>2, <2>3, <2>4, <2>5 DEF Next
<1> QED BY <1>1, <1>2, InitInv, NextInv, PTL DEF Spec, BufferSpec, Buffer!Spec
=============================================================================
