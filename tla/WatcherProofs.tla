---------------------------- MODULE WatcherProofs -----------------------------
(***************************************************************************)
(* Proofs about one watcher, for any set of assignments, any lengths of    *)
(* their lists, any line size and any size of the queues.                  *)
(***************************************************************************)
EXTENDS Watcher, UnitLemmas

Meta == "ReadWatcherMetaData"
Data == "ReadWatcherData"
Value == "ReadWatcherValue"

\* The three types of reads are different.
LEMMA Types == Meta # Data /\ Meta # Value /\ Data # Value /\ ReadType = {Meta, Data, Value}
BY DEF Meta, Data, Value, ReadType

-----------------------------------------------------------------------------
(* The inductive invariant                                                  *)

\* The stages of a list: on the trail, in one of the five queues, or between two
\* of them with its meta data, its last line or its last value under way.
Stage == {"trail", "task", "meta", "metaread", "list", "listread",
          "value", "valueread", "process", "done"}

\* st is the stage of each list, pos the index of its request.
AsOf == [r \in Request |-> r.as]
IdOf == [r \in Request |-> r.watcherId]
InStage(q, k, st, pos) == StageQueue(Assign, Request, AsOf, IdOf, q, k, st, pos)
Queues(w, st, pos) ==
  /\ InStage(w.in_task_queue, "task", st, pos)
  /\ InStage(w.waiting_read_meta_queue, "meta", st, pos)
  /\ InStage(w.waiting_read_watcher_queue, "list", st, pos)
  /\ InStage(w.waiting_value_watcher_queue, "value", st, pos)
  /\ InStage(w.waiting_process_queue, "process", st, pos)

\* The index is behind the end only for an empty list, which is never read.
Positions(st, pos) ==
  \A a \in Assign :
    /\ st[a] \in {"trail", "task", "meta", "metaread"} => pos[a] = 0
    /\ st[a] = "list" => pos[a] = 0 \/ pos[a] < get_watcher_size[a]
    /\ st[a] \in {"value", "process"} => pos[a] < get_watcher_size[a]
    /\ st[a] \in {"listread", "valueread"} => 0 < get_watcher_size[a]

\* The lists on the trail, and the indices of the others
Placed(t, st, pos) ==
  t \subseteq Assign /\ (\A a \in Assign : a \in t <=> st[a] = "trail") /\ Positions(st, pos)

\* A read r under way, and the list it belongs to.  Lines may still be on their
\* way when the list is long done; the last line ends the stage of the lines,
\* the last value that of the values.
ReadOf(r, st, pos) ==
  /\ r \in Request
  /\ r.type = Meta => r.watcherId = 0 /\ st[r.as] = "metaread"
  /\ r.type = Data =>
       /\ r.watcherId < Size(r)
       /\ st[r.as] \in {"list", "listread", "value", "valueread", "process", "done"}
       /\ st[r.as] = "list" => r.watcherId + LineSize <= pos[r.as]
       /\ LastLine(r) => st[r.as] = "listread"
  /\ r.type = Value =>
       /\ r.watcherId < Size(r)
       /\ st[r.as] \in {"value", "valueread"}
       /\ st[r.as] = "value" => r.watcherId < pos[r.as]
       /\ LastValue(r) => st[r.as] = "valueread"

\* Two lines of a list do not overlap.
Apart(r, s) ==
  r.type = Data /\ s.type = Data /\ r.as = s.as /\ r # s
    => r.watcherId + LineSize <= s.watcherId \/ s.watcherId + LineSize <= r.watcherId

MetaRead(a) == [as |-> a, watcherId |-> 0, clauseId |-> 0, type |-> Meta]
Reads(R, st, pos) ==
  /\ \A r \in R : ReadOf(r, st, pos)
  /\ \A r, s \in R : Apart(r, s)
  /\ \A a \in Assign : st[a] = "metaread" => MetaRead(a) \in R

\* Only the values of a list come back in the order in which they are read.
Ahead(r, s) ==
  r.type = Value /\ s.type = Value /\ r.as = s.as => r.watcherId < s.watcherId
Before == {x \in Request \X Request : Ahead(x[1], x[2])}
NoValue == {r \in Request : r.type # Value}
Path(w, l, p) ==
  OnPath(Request, NoValue, Before, w.out_memory_read_queue, l, p, w.in_memory_resp_queue)
ReadsOf(w, l, p) == UnderWay(w.out_memory_read_queue, l, p, w.in_memory_resp_queue)

\* The counters
OfType(R, t) == {r \in R : r.type = t}
Idle == {"trail", "task", "done"}
Active(st) == {a \in Assign : st[a] \notin Idle}
Counters(w, R, st) ==
  /\ IsFiniteSet(R) /\ IsFiniteSet(Active(st))
  /\ w.outgoing_read_watcher_data = Cardinality(OfType(R, Data))
  /\ w.outgoing_read_watcher_value = Cardinality(OfType(R, Value))
  /\ w.num_inflight_request = Cardinality(Active(st))

\* All about the reads
Traffic(w, l, p, st, pos) ==
  Path(w, l, p) /\ Reads(ReadsOf(w, l, p), st, pos) /\ Counters(w, ReadsOf(w, l, p), st)

\* The watchers of list a that have been processed, and what has been sent
Processed(a, st, pos) ==
  IF st[a] = "done" THEN 0 .. get_watcher_size[a] - 1
  ELSE IF st[a] = "process" THEN 0 .. pos[a] - 1 ELSE {}
Ids(a, X) == {r.watcherId : r \in {x \in X : x.as = a}}
OutIds(a, X, q) == Ids(a, X \cup Range(q))
OutQueue(X, q) ==
  X \subseteq Request /\ q \in Seq(Request) /\ IsInjective(q) /\ X \cap Range(q) = {}
Outputs(w, s, x, st, pos) ==
  /\ OutQueue(x, w.out_write_watcher_list_queue) /\ OutQueue(s, w.out_send_queue)
  /\ \A a \in Assign :
       /\ OutIds(a, x, w.out_write_watcher_list_queue) = Processed(a, st, pos)
       /\ OutIds(a, s, w.out_send_queue)
            = {i \in Processed(a, st, pos) : <<a, i>> \in is_read_clause}

WatcherType ==
  [in_task_queue : Seq(Request), waiting_read_meta_queue : Seq(Request),
   waiting_read_watcher_queue : Seq(Request), waiting_value_watcher_queue : Seq(Request),
   waiting_process_queue : Seq(Request),
   out_memory_read_queue : Seq(Request), in_memory_resp_queue : Seq(Request),
   out_send_queue : Seq(Request), out_write_watcher_list_queue : Seq(Request),
   outgoing_read_watcher_data : Int, outgoing_read_watcher_value : Int,
   num_inflight_request : Int]

Consistent(w, l, p, t, s, x, st, pos) ==
  /\ w \in WatcherType
  /\ Queues(w, st, pos) /\ Placed(t, st, pos) /\ Traffic(w, l, p, st, pos)
  /\ Outputs(w, s, x, st, pos)

Good(w, l, p, t, s, x) ==
  \E st \in [Assign -> Stage], pos \in [Assign -> Nat] : Consistent(w, l, p, t, s, x, st, pos)

IInv == Good(watcher, l3, pcache, trail, sent, written)

-----------------------------------------------------------------------------
(* Requests                                                                 *)

\* The fields of a request
LEMMA RequestFields ==
  ASSUME NEW r \in Request
  PROVE  /\ r.as \in Assign /\ r.watcherId \in Nat /\ r.clauseId = 0 /\ r.type \in ReadType
         /\ r = [as |-> r.as, watcherId |-> r.watcherId, clauseId |-> 0, type |-> r.type]
         /\ Size(r) \in Nat /\ Size(r) = get_watcher_size[r.as]
         /\ r.watcherId = 0 \/ r.watcherId < Size(r)
         /\ AsOf[r] = r.as /\ IdOf[r] = r.watcherId
<1>1. PICK a \in Assign : r \in [as : {a}, watcherId : Index(a), clauseId : {0}, type : ReadType]
  BY DEF Request
<1>2. get_watcher_size[a] \in Nat
  BY WatcherAssumption
<1>3. /\ r.as = a /\ r.watcherId \in Index(a) /\ r.clauseId = 0 /\ r.type \in ReadType
      /\ r = [as |-> r.as, watcherId |-> r.watcherId, clauseId |-> 0, type |-> r.type]
  BY <1>1
<1>4. r.watcherId \in Nat /\ (r.watcherId = 0 \/ r.watcherId < get_watcher_size[a])
  BY <1>2, <1>3 DEF Index
<1> QED BY <1>2, <1>3, <1>4 DEF Size, AsOf, IdOf

\* A record that names an existing watcher is a request.
LEMMA RequestMade ==
  ASSUME NEW a \in Assign, NEW n \in Nat, n = 0 \/ n < get_watcher_size[a], NEW t \in ReadType
  PROVE  [as |-> a, watcherId |-> n, clauseId |-> 0, type |-> t] \in Request
<1>1. n \in Index(a)
  BY WatcherAssumption DEF Index
<1> QED BY <1>1 DEF Request

\* What the steps write into a request
LEMMA RequestEdited ==
  ASSUME NEW r \in Request, NEW n, NEW k
  PROVE  /\ [r EXCEPT !.type = k] = [as |-> r.as, watcherId |-> r.watcherId, clauseId |-> 0, type |-> k]
         /\ [r EXCEPT !.type = k, !.watcherId = n]
              = [as |-> r.as, watcherId |-> n, clauseId |-> 0, type |-> k]
         /\ [r EXCEPT !.watcherId = n]
              = [as |-> r.as, watcherId |-> n, clauseId |-> 0, type |-> r.type]
         /\ [[r EXCEPT !.watcherId = n] EXCEPT !.type = k]
              = [as |-> r.as, watcherId |-> n, clauseId |-> 0, type |-> k]
         /\ [r EXCEPT !.clauseId = 0] = r
<1>1. PICK a, i, y : r = [as |-> a, watcherId |-> i, clauseId |-> 0, type |-> y]
  BY RequestFields
<1>2. /\ [r EXCEPT !.type = k] = [as |-> a, watcherId |-> i, clauseId |-> 0, type |-> k]
      /\ [r EXCEPT !.watcherId = n] = [as |-> a, watcherId |-> n, clauseId |-> 0, type |-> y]
      /\ [r EXCEPT !.clauseId = 0] = [as |-> a, watcherId |-> i, clauseId |-> 0, type |-> y]
  BY <1>1
<1>3. /\ [[as |-> a, watcherId |-> i, clauseId |-> 0, type |-> k] EXCEPT !.watcherId = n]
           = [as |-> a, watcherId |-> n, clauseId |-> 0, type |-> k]
      /\ [[as |-> a, watcherId |-> n, clauseId |-> 0, type |-> y] EXCEPT !.type = k]
           = [as |-> a, watcherId |-> n, clauseId |-> 0, type |-> k]
  OBVIOUS
<1>4. r.as = a /\ r.watcherId = i /\ r.type = y
  BY <1>1
<1> QED BY <1>1, <1>2, <1>3, <1>4, Zenon

\* The meta data are back: the same request asks for the first line.
LEMMA RequestRetyped ==
  \A r \in Request : [[r EXCEPT !.watcherId = 0] EXCEPT !.type = "ReadWatcherData"]
                     = [as |-> r.as, watcherId |-> 0, clauseId |-> 0, type |-> "ReadWatcherData"]
BY RequestEdited

\* The key of a request is its list.
LEMMA KeyType == AsOf \in [Request -> Assign]
BY RequestFields DEF AsOf

\* The order of the reads, as UnitLemmas needs it
LEMMA BeforeIsAhead ==
  /\ \A r, s \in Request : <<r, s>> \in Before <=> Ahead(r, s)
  /\ FreeIn(Request, NoValue, Before)
<1>1. \A r, s \in Request : <<r, s>> \in Before <=> Ahead(r, s)
  BY DEF Before
<1>2. \A r \in Request \cap NoValue, s \in Request : Ahead(r, s) /\ Ahead(s, r)
  BY DEF NoValue, Ahead
<1> QED BY <1>1, <1>2 DEF FreeIn

\* A line holds at least one watcher.
LEMMA LineSizeType == LineSize \in Nat /\ LineSize >= 1
BY WatcherAssumption

-----------------------------------------------------------------------------
(* What a step of one list leaves as it was                                 *)

\* One list a goes to stage n, with index m.
Goes(st, pos, a, n, m, st2, pos2) ==
  /\ st \in [Assign -> Stage] /\ pos \in [Assign -> Nat]
  /\ a \in Assign /\ n \in Stage /\ m \in Nat
  /\ st2 = [st EXCEPT ![a] = n] /\ pos2 = [pos EXCEPT ![a] = m]

\* What that says, list by list
LEMMA Moved ==
  ASSUME NEW st, NEW pos, NEW a, NEW n, NEW m, NEW st2, NEW pos2,
         Goes(st, pos, a, n, m, st2, pos2)
  PROVE  /\ a \in Assign /\ n \in Stage /\ m \in Nat
         /\ st2 \in [Assign -> Stage] /\ pos2 \in [Assign -> Nat]
         /\ st2[a] = n /\ pos2[a] = m
         /\ \A b \in Assign : b # a => st2[b] = st[b] /\ pos2[b] = pos[b]
BY DEF Goes

\* The trail and the indices
LEMMA PlacedMoved ==
  ASSUME NEW st, NEW pos, NEW a, NEW n, NEW m, NEW st2, NEW pos2,
         Goes(st, pos, a, n, m, st2, pos2), NEW t, Placed(t, st, pos),
         st[a] # "trail", n # "trail",
         n \in {"task", "meta", "metaread"} => m = 0,
         n = "list" => m = 0 \/ m < get_watcher_size[a],
         n \in {"value", "process"} => m < get_watcher_size[a],
         n \in {"listread", "valueread"} => 0 < get_watcher_size[a]
  PROVE  Placed(t, st2, pos2)
<1>1. \A b \in Assign : /\ st2[b] = IF b = a THEN n ELSE st[b]
                        /\ pos2[b] = IF b = a THEN m ELSE pos[b]
  BY Moved
<1> QED BY <1>1 DEF Placed, Positions

\* The reads of the other lists keep their relation to their lists.
LEMMA ReadsMoved ==
  ASSUME NEW st, NEW pos, NEW a, NEW n, NEW m, NEW st2, NEW pos2,
         Goes(st, pos, a, n, m, st2, pos2), NEW R, NEW R2,
         Reads(R, st, pos),
         \A r \in R2 : r \in R \/ (r \in Request /\ r.as = a),
         \A r \in R2 : r.as = a => ReadOf(r, st2, pos2),
         \A r, s \in R2 : r.as = a /\ s.as = a => Apart(r, s),
         \A r \in R : r.as # a => r \in R2,
         n = "metaread" => MetaRead(a) \in R2
  PROVE  Reads(R2, st2, pos2)
<1>1. \A b \in Assign : b # a => st2[b] = st[b] /\ pos2[b] = pos[b]
  BY Moved
<1>2. st2[a] = n
  BY Moved
<1>3. ASSUME NEW r \in R2 PROVE ReadOf(r, st2, pos2)
  <2>1. CASE r.as = a
    BY <2>1
  <2>2. CASE r.as # a
    <3>1. r \in R /\ ReadOf(r, st, pos)
      BY <2>2 DEF Reads
    <3>2. r.as \in Assign
      BY <3>1, RequestFields DEF ReadOf
    <3> QED BY <1>1, <2>2, <3>1, <3>2 DEF ReadOf
  <2> QED BY <2>1, <2>2
<1>4. ASSUME NEW r \in R2, NEW s \in R2 PROVE Apart(r, s)
  <2>1. CASE r.as = a /\ s.as = a
    BY <2>1
  <2>2. CASE r.as # s.as
    BY <2>2 DEF Apart
  <2>3. CASE r.as # a /\ s.as # a
    BY <2>3 DEF Reads
  <2> QED BY <2>1, <2>2, <2>3
<1>5. ASSUME NEW b \in Assign, st2[b] = "metaread" PROVE MetaRead(b) \in R2
  <2>1. CASE b = a
    BY <1>2, <1>5, <2>1
  <2>2. CASE b # a
    <3>1. MetaRead(b) \in R
      BY <1>1, <1>5, <2>2 DEF Reads
    <3>2. MetaRead(b).as = b
      BY DEF MetaRead
    <3> QED BY <2>2, <3>1, <3>2
  <2> QED BY <2>1, <2>2
<1> QED BY <1>3, <1>4, <1>5 DEF Reads

\* The outputs stay what the other lists and this one have processed.
LEMMA OutputsMoved ==
  ASSUME NEW st, NEW pos, NEW a, NEW n, NEW m, NEW st2, NEW pos2,
         Goes(st, pos, a, n, m, st2, pos2),
         NEW w, NEW w2, NEW s, NEW x, Outputs(w, s, x, st, pos),
         w2.out_write_watcher_list_queue = w.out_write_watcher_list_queue,
         w2.out_send_queue = w.out_send_queue,
         Processed(a, st2, pos2) = Processed(a, st, pos)
  PROVE  Outputs(w2, s, x, st2, pos2)
<1>1. \A b \in Assign : b # a => st2[b] = st[b] /\ pos2[b] = pos[b]
  BY Moved
<1>2. \A b \in Assign : Processed(b, st2, pos2) = Processed(b, st, pos)
  <2> TAKE b \in Assign
  <2>1. CASE b = a
    BY <2>1
  <2>2. CASE b # a
    BY <1>1, <2>2 DEF Processed
  <2> QED BY <2>1, <2>2
<1> QED BY <1>2 DEF Outputs

\* A list that is between its first and its last step is counted.
LEMMA ActiveMoved ==
  ASSUME NEW st, NEW pos, NEW a, NEW n, NEW m, NEW st2, NEW pos2,
         Goes(st, pos, a, n, m, st2, pos2), IsFiniteSet(Active(st))
  PROVE  /\ IsFiniteSet(Active(st2)) /\ Cardinality(Active(st)) \in Nat
         /\ n \in Idle /\ st[a] \notin Idle
              => Cardinality(Active(st2)) = Cardinality(Active(st)) - 1
         /\ n \notin Idle /\ st[a] \in Idle
              => Cardinality(Active(st2)) = Cardinality(Active(st)) + 1
         /\ (n \in Idle <=> st[a] \in Idle)
              => Cardinality(Active(st2)) = Cardinality(Active(st))
<1>1. /\ \A b \in Assign : st2[b] = IF b = a THEN n ELSE st[b]
      /\ a \in Assign
  BY Moved
<1>2. Cardinality(Active(st)) \in Nat
  BY FS_CardinalityType
<1>3. CASE n \in Idle /\ st[a] \notin Idle
  <2>1. Active(st2) = Active(st) \ {a} /\ a \in Active(st)
    BY <1>1, <1>3 DEF Active
  <2>2. /\ IsFiniteSet(Active(st) \ {a})
        /\ Cardinality(Active(st) \ {a}) = Cardinality(Active(st)) - 1
    BY <2>1, FS_RemoveElement
  <2> QED BY <1>2, <1>3, <2>1, <2>2
<1>4. CASE n \notin Idle /\ st[a] \in Idle
  <2>1. Active(st2) = Active(st) \cup {a} /\ a \notin Active(st)
    BY <1>1, <1>4 DEF Active
  <2>2. /\ IsFiniteSet(Active(st) \cup {a})
        /\ Cardinality(Active(st) \cup {a}) = Cardinality(Active(st)) + 1
    BY <2>1, FS_AddElement
  <2> QED BY <1>2, <1>4, <2>1, <2>2
<1>5. CASE n \in Idle <=> st[a] \in Idle
  <2>1. Active(st2) = Active(st)
    BY <1>1, <1>5 DEF Active
  <2> QED BY <1>2, <1>5, <2>1
<1> QED BY <1>3, <1>4, <1>5

-----------------------------------------------------------------------------
(* The reads                                                                *)

\* A read is sent, or answered: the reads of its type change by one.
LEMMA OfTypeChanged ==
  ASSUME NEW R, IsFiniteSet(R), NEW r, NEW t
  PROVE  /\ Cardinality(OfType(R, t)) \in Nat
         /\ IsFiniteSet(R \cup {r}) /\ IsFiniteSet(R \ {r})
         /\ r.type # t => OfType(R \cup {r}, t) = OfType(R, t) /\ OfType(R \ {r}, t) = OfType(R, t)
         /\ r \notin R /\ r.type = t
              => Cardinality(OfType(R \cup {r}, t)) = Cardinality(OfType(R, t)) + 1
         /\ r \in R /\ r.type = t
              => Cardinality(OfType(R \ {r}, t)) = Cardinality(OfType(R, t)) - 1
<1> DEFINE X == OfType(R, t)
<1>1. IsFiniteSet(X) /\ Cardinality(X) \in Nat
  BY FS_Subset, FS_CardinalityType DEF OfType
<1>2. /\ r.type = t => OfType(R \cup {r}, t) = X \cup {r} /\ OfType(R \ {r}, t) = X \ {r}
      /\ r.type # t => OfType(R \cup {r}, t) = X /\ OfType(R \ {r}, t) = X
  BY DEF OfType
<1>3. /\ r \notin R => r \notin X
      /\ r \in R /\ r.type = t => r \in X
  BY DEF OfType
<1>4. IsFiniteSet(R \cup {r}) /\ IsFiniteSet(R \ {r})
  BY FS_AddElement, FS_RemoveElement
<1> HIDE DEF X
<1>5. r \notin X => Cardinality(X \cup {r}) = Cardinality(X) + 1
  BY <1>1, FS_AddElement
<1>6. r \in X => Cardinality(X \ {r}) = Cardinality(X) - 1
  BY <1>1, FS_RemoveElement
<1> QED BY <1>1, <1>2, <1>3, <1>4, <1>5, <1>6 DEF X

\* What the steps do to the queues of reads and their counters: read r is sent,
\* the oldest answer r is taken, nothing happens.
Sends(w, w2, r) ==
  /\ r \in Request
  /\ w2.out_memory_read_queue = Append(w.out_memory_read_queue, r)
  /\ w2.in_memory_resp_queue = w.in_memory_resp_queue
  /\ w2.outgoing_read_watcher_data = w.outgoing_read_watcher_data + (IF r.type = Data THEN 1 ELSE 0)
  /\ w2.outgoing_read_watcher_value = w.outgoing_read_watcher_value + (IF r.type = Value THEN 1 ELSE 0)
Takes(w, w2, r) ==
  /\ w.in_memory_resp_queue # <<>> /\ r = Head(w.in_memory_resp_queue)
  /\ w2.out_memory_read_queue = w.out_memory_read_queue
  /\ w2.in_memory_resp_queue = Tail(w.in_memory_resp_queue)
  /\ w2.outgoing_read_watcher_data = w.outgoing_read_watcher_data - (IF r.type = Data THEN 1 ELSE 0)
  /\ w2.outgoing_read_watcher_value = w.outgoing_read_watcher_value - (IF r.type = Value THEN 1 ELSE 0)
Keeps(w, w2) ==
  /\ w2.out_memory_read_queue = w.out_memory_read_queue
  /\ w2.in_memory_resp_queue = w.in_memory_resp_queue
  /\ w2.outgoing_read_watcher_data = w.outgoing_read_watcher_data
  /\ w2.outgoing_read_watcher_value = w.outgoing_read_watcher_value

\* A read is sent that is not under way yet.
LEMMA ReadSent ==
  ASSUME NEW w, NEW w2, NEW l, NEW p, NEW r, Path(w, l, p), Sends(w, w2, r),
         \A y \in ReadsOf(w, l, p) : y \in Request /\ y # r /\ Ahead(y, r)
  PROVE  /\ Path(w2, l, p) /\ ReadsOf(w2, l, p) = ReadsOf(w, l, p) \cup {r}
         /\ r \notin ReadsOf(w, l, p)
<1> DEFINE o == w.out_memory_read_queue
           i == w.in_memory_resp_queue
           R == ReadsOf(w, l, p)
<1>1. OnPath(Request, NoValue, Before, o, l, p, i) /\ R = UnderWay(o, l, p, i)
  BY DEF Path, ReadsOf
<1>2. \A y \in R : <<y, r>> \in Before
  BY BeforeIsAhead DEF Sends
<1>3. r \notin R /\ r \in Request
  BY DEF Sends
<1> HIDE DEF o, i, R
<1>4. /\ OnPath(Request, NoValue, Before, Append(o, r), l, p, i)
      /\ UnderWay(Append(o, r), l, p, i) = R \cup {r}
  BY <1>1, <1>2, <1>3, PathSend
<1> QED BY <1>3, <1>4 DEF Path, ReadsOf, Sends, o, i, R

\* The oldest answer is taken.
Without(R, r) == R \ {r}
LEMMA ReadTaken ==
  ASSUME NEW w, NEW w2, NEW l, NEW p, NEW r, Path(w, l, p), Takes(w, w2, r)
  PROVE  /\ Path(w2, l, p) /\ ReadsOf(w2, l, p) = Without(ReadsOf(w, l, p), r)
         /\ r \in ReadsOf(w, l, p) /\ r \in Request
         /\ \A y \in ReadsOf(w, l, p) : y \in Request
         /\ \A y \in Without(ReadsOf(w, l, p), r) : Ahead(r, y)
<1> DEFINE o == w.out_memory_read_queue
           i == w.in_memory_resp_queue
           R == ReadsOf(w, l, p)
<1>1. OnPath(Request, NoValue, Before, o, l, p, i) /\ R = UnderWay(o, l, p, i)
  BY DEF Path, ReadsOf
<1>2. i # <<>> /\ r = Head(i)
  BY DEF Takes
<1>3. \A y \in R : y \in Request
  <2>1. Range(o) \subseteq Request /\ Range(p) \subseteq Request /\ Range(i) \subseteq Request
    BY <1>1, RangeElements DEF OnPath
  <2> QED BY <1>1, <2>1 DEF OnPath, UnderWay
<1> HIDE DEF o, i, R
<1>4. /\ OnPath(Request, NoValue, Before, o, l, p, Tail(i))
      /\ UnderWay(o, l, p, Tail(i)) = R \ {r} /\ r \in R /\ r \in Request
      /\ \A y \in R \ {r} : <<r, y>> \in Before
  <2>1. FreeIn(Request, NoValue, Before)
    BY BeforeIsAhead
  <2>2. /\ OnPath(Request, NoValue, Before, o, l, p, Tail(i))
        /\ Head(i) \in UnderWay(o, l, p, i) /\ Head(i) \in Request
        /\ UnderWay(o, l, p, Tail(i)) = UnderWay(o, l, p, i) \ {Head(i)}
        /\ \A y \in UnderWay(o, l, p, Tail(i)) : <<Head(i), y>> \in Before
    BY <1>1, <1>2, <2>1, PathTake
  <2> QED BY <1>1, <1>2, <2>2, Zenon
<1>5. \A y \in Without(R, r) : Ahead(r, y)
  BY <1>3, <1>4, BeforeIsAhead DEF Without
<1> QED BY <1>3, <1>4, <1>5 DEF Path, ReadsOf, Takes, Without, o, i, R

\* A list that sends a read.
LEMMA SendRead ==
  ASSUME NEW st, NEW pos, NEW a, NEW n, NEW m, NEW st2, NEW pos2,
         Goes(st, pos, a, n, m, st2, pos2), n \in Idle <=> st[a] \in Idle,
         NEW w, NEW w2, NEW l, NEW p, Traffic(w, l, p, st, pos),
         NEW r, Sends(w, w2, r), w2.num_inflight_request = w.num_inflight_request,
         r.as = a, ReadOf(r, st2, pos2), n = "metaread" => r = MetaRead(a),
         \A y \in ReadsOf(w, l, p) : y.as = a =>
            y # r /\ ReadOf(y, st2, pos2) /\ Ahead(y, r) /\ Apart(y, r) /\ Apart(r, y)
  PROVE  Traffic(w2, l, p, st2, pos2)
<1> DEFINE R == ReadsOf(w, l, p)
           R2 == R \cup {r}
<1>1. Path(w, l, p) /\ Reads(R, st, pos) /\ Counters(w, R, st)
  BY DEF Traffic
<1>2. \A y \in R : y \in Request /\ y # r /\ Ahead(y, r)
  BY <1>1 DEF Reads, ReadOf, Ahead
<1>3. Path(w2, l, p) /\ ReadsOf(w2, l, p) = R2 /\ r \notin R
  BY <1>1, <1>2, ReadSent
<1> HIDE DEF R
<1>4. Reads(R2, st2, pos2)
  <2>1. /\ \A y \in R2 : y \in R \/ (y \in Request /\ y.as = a)
        /\ \A y \in R2 : y.as = a => ReadOf(y, st2, pos2)
        /\ \A y \in R : y.as # a => y \in R2
        /\ n = "metaread" => MetaRead(a) \in R2
    BY DEF R, Sends
  <2>2. Apart(r, r)
    BY DEF Apart
  <2>3. \A y, z \in R2 : y.as = a /\ z.as = a => Apart(y, z)
    BY <1>1, <2>2 DEF Reads, R
  <2> HIDE DEF R2
  <2> QED BY <1>1, <2>1, <2>3, ReadsMoved
<1>5. Counters(w2, R2, st2)
  <2>1. IsFiniteSet(Active(st2)) /\ Cardinality(Active(st2)) = Cardinality(Active(st))
    BY <1>1, ActiveMoved DEF Counters
  <2>2. /\ IsFiniteSet(R2) /\ IsFiniteSet(R)
        /\ w.outgoing_read_watcher_data = Cardinality(OfType(R, Data))
        /\ w.outgoing_read_watcher_value = Cardinality(OfType(R, Value))
        /\ w.num_inflight_request = Cardinality(Active(st))
    BY <1>1, OfTypeChanged DEF Counters
  <2>3. w2.outgoing_read_watcher_data = Cardinality(OfType(R2, Data))
    BY <1>3, <2>2, OfTypeChanged DEF Sends
  <2>4. w2.outgoing_read_watcher_value = Cardinality(OfType(R2, Value))
    BY <1>3, <2>2, OfTypeChanged DEF Sends
  <2> QED BY <2>1, <2>2, <2>3, <2>4 DEF Counters
<1> QED BY <1>3, <1>4, <1>5 DEF Traffic

\* A list that takes the answer to one of its reads.
LEMMA TakeRead ==
  ASSUME NEW st, NEW pos, NEW a, NEW n, NEW m, NEW st2, NEW pos2,
         Goes(st, pos, a, n, m, st2, pos2), n \in Idle <=> st[a] \in Idle, n # "metaread",
         NEW w, NEW w2, NEW l, NEW p, Traffic(w, l, p, st, pos),
         NEW r, Takes(w, w2, r), w2.num_inflight_request = w.num_inflight_request,
         r.as = a, \A y \in ReadsOf(w, l, p) : y.as = a /\ y # r => ReadOf(y, st2, pos2)
  PROVE  Traffic(w2, l, p, st2, pos2)
<1> DEFINE R == ReadsOf(w, l, p)
           R2 == Without(R, r)
<1>1. Path(w, l, p) /\ Reads(R, st, pos) /\ Counters(w, R, st)
  BY DEF Traffic
<1>2. Path(w2, l, p) /\ ReadsOf(w2, l, p) = R2 /\ r \in R
  BY <1>1, ReadTaken
<1> HIDE DEF R
<1>3. Reads(R2, st2, pos2)
  <2>1. /\ \A y \in R2 : y \in R \/ (y \in Request /\ y.as = a)
        /\ \A y \in R2 : y.as = a => ReadOf(y, st2, pos2)
        /\ \A y \in R : y.as # a => y \in R2
    BY DEF R, Without
  <2>2. \A y, z \in R2 : y.as = a /\ z.as = a => Apart(y, z)
    BY <1>1 DEF Reads, Without
  <2> HIDE DEF R2
  <2> QED BY <1>1, <2>1, <2>2, ReadsMoved
<1>4. Counters(w2, R2, st2)
  <2>1. IsFiniteSet(Active(st2)) /\ Cardinality(Active(st2)) = Cardinality(Active(st))
    BY <1>1, ActiveMoved DEF Counters
  <2>2. /\ IsFiniteSet(R2) /\ IsFiniteSet(R)
        /\ w.outgoing_read_watcher_data = Cardinality(OfType(R, Data))
        /\ w.outgoing_read_watcher_value = Cardinality(OfType(R, Value))
        /\ w.num_inflight_request = Cardinality(Active(st))
    BY <1>1, OfTypeChanged DEF Counters, Without
  <2>3. w2.outgoing_read_watcher_data = Cardinality(OfType(R2, Data))
    BY <1>2, <2>2, OfTypeChanged DEF Takes, Without
  <2>4. w2.outgoing_read_watcher_value = Cardinality(OfType(R2, Value))
    BY <1>2, <2>2, OfTypeChanged DEF Takes, Without
  <2> QED BY <2>1, <2>2, <2>3, <2>4 DEF Counters
<1> QED BY <1>2, <1>3, <1>4 DEF Traffic

\* A list that sends and takes no read.
LEMMA KeepReads ==
  ASSUME NEW st, NEW pos, NEW a, NEW n, NEW m, NEW st2, NEW pos2,
         Goes(st, pos, a, n, m, st2, pos2), n # "metaread",
         NEW w, NEW w2, NEW l, NEW p, Traffic(w, l, p, st, pos), Keeps(w, w2),
         \A y \in ReadsOf(w, l, p) : y.as = a => ReadOf(y, st2, pos2),
         \/ n \in Idle /\ st[a] \notin Idle /\ w2.num_inflight_request = w.num_inflight_request - 1
         \/ n \notin Idle /\ st[a] \in Idle /\ w2.num_inflight_request = w.num_inflight_request + 1
         \/ (n \in Idle <=> st[a] \in Idle) /\ w2.num_inflight_request = w.num_inflight_request
  PROVE  Traffic(w2, l, p, st2, pos2)
<1> DEFINE R == ReadsOf(w, l, p)
<1>1. Path(w, l, p) /\ Reads(R, st, pos) /\ Counters(w, R, st)
  BY DEF Traffic
<1>2. Path(w2, l, p) /\ ReadsOf(w2, l, p) = R
  BY <1>1 DEF Path, ReadsOf, Keeps
<1>3. Reads(R, st2, pos2)
  <2>1. \A y, z \in R : y.as = a /\ z.as = a => Apart(y, z)
    BY <1>1 DEF Reads
  <2> QED BY <1>1, <2>1, ReadsMoved
<1> HIDE DEF R
<1>4. Counters(w2, R, st2)
  <2>1. IsFiniteSet(Active(st2)) /\ w2.num_inflight_request = Cardinality(Active(st2))
    BY <1>1, ActiveMoved DEF Counters
  <2> QED BY <1>1, <2>1 DEF Counters, Keeps
<1> QED BY <1>2, <1>3, <1>4 DEF Traffic

-----------------------------------------------------------------------------
(* The queues of the stages                                                 *)

\* The request at the head of a stage's queue
LEMMA StageFront ==
  ASSUME NEW st, NEW pos, NEW q, NEW k, InStage(q, k, st, pos), q # <<>>
  PROVE  /\ Head(q) \in Request /\ Head(q).as \in Assign /\ Head(q).type \in ReadType
         /\ st[Head(q).as] = k /\ pos[Head(q).as] = Head(q).watcherId
         /\ Head(q) = q[1] /\ q \in Seq(Request) /\ Head(q).watcherId \in Nat
         /\ Tail(q) \in Seq(Request)
<1>1. /\ Head(q) \in Request /\ Head(q) = q[1] /\ st[AsOf[Head(q)]] = k
      /\ IdOf[Head(q)] = pos[AsOf[Head(q)]] /\ q \in Seq(Request)
  BY KeyType, StageHead DEF InStage, StageQueue
<1>2. Tail(q) \in Seq(Request)
  BY <1>1, TailElements
<1> QED BY <1>1, <1>2, RequestFields

\* It leaves the queue, with its list.
LEMMA StageLeft ==
  ASSUME NEW st, NEW pos, NEW a, NEW n, NEW m, NEW st2, NEW pos2,
         Goes(st, pos, a, n, m, st2, pos2), NEW q, NEW k,
         InStage(q, k, st, pos), q # <<>>, a = Head(q).as, n # k
  PROVE  InStage(Tail(q), k, st2, pos2)
<1>1. AsOf[Head(q)] = a
  BY StageFront, RequestFields
<1> QED BY <1>1, KeyType, StagePop DEF InStage, Goes

\* A list joins the queue of its next stage.
LEMMA StageJoined ==
  ASSUME NEW st, NEW pos, NEW a, NEW n, NEW m, NEW st2, NEW pos2,
         Goes(st, pos, a, n, m, st2, pos2), NEW q, NEW k,
         InStage(q, k, st, pos), NEW r \in Request, a = r.as, m = r.watcherId, st[a] # k, n = k
  PROVE  InStage(Append(q, r), k, st2, pos2)
<1>1. AsOf[r] = a /\ IdOf[r] = m
  BY RequestFields
<1>2. StageQueue(Assign, Request, AsOf, IdOf, Append(q, r), k,
                 [st EXCEPT ![AsOf[r]] = k], [pos EXCEPT ![AsOf[r]] = IdOf[r]])
  BY <1>1, KeyType, StagePush DEF InStage, Goes
<1> QED BY <1>1, <1>2 DEF InStage, Goes

\* The other queues do not care.
LEMMA StageKept ==
  ASSUME NEW st, NEW pos, NEW a, NEW n, NEW m, NEW st2, NEW pos2,
         Goes(st, pos, a, n, m, st2, pos2), NEW q, NEW k,
         InStage(q, k, st, pos), st[a] # k, n # k
  PROVE  InStage(q, k, st2, pos2)
BY KeyType, StageOther DEF InStage, Goes

\* The list at the head has dealt with d more watchers, and stays.
LEMMA StageAdvanced ==
  ASSUME NEW st, NEW pos, NEW a, NEW n, NEW m, NEW st2, NEW pos2,
         Goes(st, pos, a, n, m, st2, pos2), NEW q, NEW k,
         InStage(q, k, st, pos), q # <<>>, a = Head(q).as, n = k, NEW d \in Nat,
         m = Head(q).watcherId + d, m < get_watcher_size[a]
  PROVE  InStage(Advance(q, d), k, st2, pos2) /\ Advance(q, d) \in Seq(Request)
<1> DEFINE h == Head(q)
           r == [h EXCEPT !.watcherId = m]
<1>1. /\ h \in Request /\ h = q[1] /\ a \in Assign /\ st[a] = k /\ q \in Seq(Request)
      /\ h.watcherId \in Nat /\ h.type \in ReadType
      /\ get_watcher_size[a] \in Nat /\ Size(h) = get_watcher_size[a]
      /\ AsOf[h] = a
  BY StageFront, RequestFields
<1>2. r = [as |-> a, watcherId |-> m, clauseId |-> 0, type |-> h.type]
  <2> HIDE DEF h
  <2>1. h \in Request /\ h.as = a
    BY <1>1, RequestFields DEF h
  <2>2. r = [as |-> h.as, watcherId |-> m, clauseId |-> 0, type |-> h.type]
    BY <2>1, RequestEdited, Zenon
  <2> QED BY <2>1, <2>2
<1>3. r \in Request
  BY <1>1, <1>2, RequestMade DEF Goes
<1>4. AsOf[r] = a /\ IdOf[r] = m
  BY <1>2, <1>3, RequestFields
<1>5. Len(q) \in Nat /\ Len(q) >= 1 /\ DOMAIN q = 1 .. Len(q)
  BY <1>1, TailElements
<1>6. Advance(q, d) = [q EXCEPT ![1] = r]
  <2>1. ~(Head(q).watcherId + d >= Size(Head(q)))
    BY <1>1 DEF Goes
  <2> QED BY <1>1, <1>5, <2>1 DEF Advance
<1> HIDE DEF r
<1>7. StageQueue(Assign, Request, AsOf, IdOf, [q EXCEPT ![1] = r], k, st,
                 [pos EXCEPT ![AsOf[r]] = IdOf[r]])
  BY <1>1, <1>3, <1>4, KeyType, StageAdvance DEF InStage, Goes
<1>8. st2 = st /\ pos2 = [pos EXCEPT ![a] = m]
  BY <1>1 DEF Goes
<1> QED BY <1>4, <1>6, <1>7, <1>8 DEF InStage, StageQueue

\* The list at the head has dealt with its last watchers.
LEMMA AdvanceLeaves ==
  ASSUME NEW q, NEW d \in Nat, Head(q).watcherId + d >= Size(Head(q))
  PROVE  Advance(q, d) = Tail(q)
BY DEF Advance

-----------------------------------------------------------------------------
(* The steps of do_cycle                                                    *)

\* from_watcher_meta_to_memory
LEMMA MetaStep ==
  ASSUME NEW w, NEW l, NEW p, NEW t, NEW s, NEW x, Good(w, l, p, t, s, x)
  PROVE  Good(FromWatcherMetaToMemory(w), l, p, t, s, x)
<1>1. PICK st \in [Assign -> Stage], pos \in [Assign -> Nat] :
        Consistent(w, l, p, t, s, x, st, pos)
  BY DEF Good
<1> DEFINE q == w.waiting_read_meta_queue
           w2 == FromWatcherMetaToMemory(w)
<1>2. CASE q = <<>>
  BY <1>2 DEF FromWatcherMetaToMemory
<1>3. CASE q # <<>>
  <2>1. /\ w \in WatcherType /\ Queues(w, st, pos) /\ Placed(t, st, pos)
        /\ Traffic(w, l, p, st, pos) /\ Outputs(w, s, x, st, pos)
    BY <1>1 DEF Consistent
  <2> DEFINE a == Head(q).as
             R == ReadsOf(w, l, p)
             st2 == [st EXCEPT ![a] = "metaread"]
             pos2 == [pos EXCEPT ![a] = 0]
  <2>2. Head(q) \in Request /\ a \in Assign /\ st[a] = "meta" /\ Tail(q) \in Seq(Request)
    BY <1>3, <2>1, StageFront DEF Queues
  <2>3. Goes(st, pos, a, "metaread", 0, st2, pos2)
    BY <2>2 DEF Goes, Stage
  <2>4. /\ [Head(q) EXCEPT !.type = "ReadWatcherMetaData", !.watcherId = 0] = MetaRead(a)
        /\ MetaRead(a) \in Request /\ MetaRead(a).as = a /\ MetaRead(a).type = Meta
        /\ MetaRead(a).watcherId = 0
    <3>1. [Head(q) EXCEPT !.type = "ReadWatcherMetaData", !.watcherId = 0] = MetaRead(a)
      <4> DEFINE h == Head(q)
      <4>1. h \in Request /\ h.as = a
        BY <2>2
      <4> HIDE DEF h
      <4>2. [h EXCEPT !.type = "ReadWatcherMetaData", !.watcherId = 0]
              = [as |-> h.as, watcherId |-> 0, clauseId |-> 0, type |-> "ReadWatcherMetaData"]
        BY <4>1, RequestEdited, Zenon
      <4> QED BY <4>1, <4>2 DEF MetaRead, Meta, h
    <3>2. MetaRead(a) \in Request
      BY <2>2, RequestMade DEF MetaRead, Meta, ReadType
    <3> QED BY <3>1, <3>2 DEF MetaRead
  <2>5. w2 = [w EXCEPT !.out_memory_read_queue = Append(@, MetaRead(a)),
                       !.waiting_read_meta_queue = Tail(@)]
    BY <1>3, <2>4 DEF FromWatcherMetaToMemory
  <2>6. /\ w2 \in WatcherType
        /\ w2.out_memory_read_queue = Append(w.out_memory_read_queue, MetaRead(a))
        /\ w2.waiting_read_meta_queue = Tail(q)
        /\ w2.in_task_queue = w.in_task_queue
        /\ w2.waiting_read_watcher_queue = w.waiting_read_watcher_queue
        /\ w2.waiting_value_watcher_queue = w.waiting_value_watcher_queue
        /\ w2.waiting_process_queue = w.waiting_process_queue
        /\ w2.in_memory_resp_queue = w.in_memory_resp_queue
        /\ w2.out_send_queue = w.out_send_queue
        /\ w2.out_write_watcher_list_queue = w.out_write_watcher_list_queue
        /\ w2.outgoing_read_watcher_data = w.outgoing_read_watcher_data
        /\ w2.outgoing_read_watcher_value = w.outgoing_read_watcher_value
        /\ w2.num_inflight_request = w.num_inflight_request
    <3>1. Append(w.out_memory_read_queue, MetaRead(a)) \in Seq(Request)
      BY <2>1, <2>4, AppendElements DEF WatcherType
    <3> HIDE DEF a, w2
    <3> QED BY <2>1, <2>2, <2>5, <3>1 DEF WatcherType
  <2> HIDE DEF a, R, w2, st2, pos2
  <2>7. Queues(w2, st2, pos2)
    <3>1. InStage(Tail(q), "meta", st2, pos2)
      BY <1>3, <2>1, <2>3, StageLeft DEF Queues, a
    <3> HIDE DEF q
    <3>2. /\ InStage(w.in_task_queue, "task", st2, pos2)
          /\ InStage(w.waiting_read_watcher_queue, "list", st2, pos2)
          /\ InStage(w.waiting_value_watcher_queue, "value", st2, pos2)
          /\ InStage(w.waiting_process_queue, "process", st2, pos2)
      BY <2>1, <2>2, <2>3, StageKept DEF Queues
    <3> QED BY <2>6, <3>1, <3>2 DEF Queues
  <2> HIDE DEF q
  <2>8. Placed(t, st2, pos2)
    BY <2>1, <2>2, <2>3, PlacedMoved
  <2>9. \A y \in R : y.as # a
    BY <2>1, <2>2, RequestFields, Types DEF Traffic, Reads, ReadOf, R
  <2>10. MetaRead(a).type # Data /\ MetaRead(a).type # Value
    BY <2>4, Types
  <2>11. ReadOf(MetaRead(a), st2, pos2)
    BY <2>3, <2>4, <2>10, Moved DEF ReadOf
  <2>12. Sends(w, w2, MetaRead(a))
    BY <2>1, <2>4, <2>6, <2>10 DEF Sends, WatcherType
  <2>13. Traffic(w2, l, p, st2, pos2)
    <3>1. "metaread" \notin Idle /\ st[a] \notin Idle
      BY <2>2 DEF Idle
    <3>2. MetaRead(a).as = a /\ w2.num_inflight_request = w.num_inflight_request
      BY <2>4, <2>6
    <3>3. Traffic(w, l, p, st, pos)
      BY <2>1
    <3>4. \A y \in ReadsOf(w, l, p) : y.as # a
      BY <2>9 DEF R
    <3> QED BY <2>3, <2>11, <2>12, <3>1, <3>2, <3>3, <3>4, SendRead
  <2>14. Outputs(w2, s, x, st2, pos2)
    <3>1. Processed(a, st2, pos2) = Processed(a, st, pos)
      BY <2>2, <2>3, Moved DEF Processed
    <3> QED BY <2>1, <2>3, <2>6, <3>1, OutputsMoved
  <2>15. Consistent(w2, l, p, t, s, x, st2, pos2)
    BY <2>6, <2>7, <2>8, <2>13, <2>14 DEF Consistent
  <2> QED BY <2>3, <2>15, Moved DEF Good, w2
<1> QED BY <1>2, <1>3

\* from_in_to_read
LEMMA InStep ==
  ASSUME NEW w, NEW l, NEW p, NEW t, NEW s, NEW x, Good(w, l, p, t, s, x)
  PROVE  Good(FromInToRead(w), l, p, t, s, x)
<1>1. PICK st \in [Assign -> Stage], pos \in [Assign -> Nat] :
        Consistent(w, l, p, t, s, x, st, pos)
  BY DEF Good
<1> DEFINE q == w.in_task_queue
           w2 == FromInToRead(w)
<1>2. CASE q = <<>>
  BY <1>2 DEF FromInToRead
<1>3. CASE q # <<>>
  <2>1. /\ w \in WatcherType /\ Queues(w, st, pos) /\ Placed(t, st, pos)
        /\ Traffic(w, l, p, st, pos) /\ Outputs(w, s, x, st, pos)
    BY <1>1 DEF Consistent
  <2> DEFINE a == Head(q).as
             r == [Head(q) EXCEPT !.type = "ReadWatcherMetaData"]
             st2 == [st EXCEPT ![a] = "meta"]
             pos2 == [pos EXCEPT ![a] = 0]
  <2>2. /\ Head(q) \in Request /\ a \in Assign /\ st[a] = "task" /\ Tail(q) \in Seq(Request)
        /\ Head(q).watcherId = pos[a]
    BY <1>3, <2>1, StageFront DEF Queues
  <2>3. Goes(st, pos, a, "meta", 0, st2, pos2)
    BY <2>2 DEF Goes, Stage
  <2>4. pos[a] = 0
    BY <2>1, <2>2 DEF Placed, Positions
  <2>5. r \in Request /\ r.as = a /\ r.watcherId = 0
    <3>1. r = MetaRead(a)
      <4>1. r = [as |-> a, watcherId |-> Head(q).watcherId, clauseId |-> 0, type |-> Meta]
        BY <2>2, RequestEdited DEF Meta
      <4>2. Head(q).watcherId = 0
        BY <2>2, <2>4
      <4> QED BY <4>1, <4>2 DEF MetaRead
    <3>2. MetaRead(a) \in Request
      BY <2>2, RequestMade DEF MetaRead, Meta, ReadType
    <3> QED BY <3>1, <3>2 DEF MetaRead
  <2>6. w2 = [w EXCEPT !.num_inflight_request = @ + 1, !.waiting_read_meta_queue = Append(@, r),
                       !.in_task_queue = Tail(@)]
    BY <1>3 DEF FromInToRead
  <2> HIDE DEF a, r, w2, st2, pos2
  <2>7. /\ w2 \in WatcherType
        /\ w2.num_inflight_request = w.num_inflight_request + 1
        /\ w2.waiting_read_meta_queue = Append(w.waiting_read_meta_queue, r)
        /\ w2.in_task_queue = Tail(q)
        /\ w2.waiting_read_watcher_queue = w.waiting_read_watcher_queue
        /\ w2.waiting_value_watcher_queue = w.waiting_value_watcher_queue
        /\ w2.waiting_process_queue = w.waiting_process_queue
        /\ w2.out_memory_read_queue = w.out_memory_read_queue
        /\ w2.in_memory_resp_queue = w.in_memory_resp_queue
        /\ w2.out_send_queue = w.out_send_queue
        /\ w2.out_write_watcher_list_queue = w.out_write_watcher_list_queue
        /\ w2.outgoing_read_watcher_data = w.outgoing_read_watcher_data
        /\ w2.outgoing_read_watcher_value = w.outgoing_read_watcher_value
    <3>1. Append(w.waiting_read_meta_queue, r) \in Seq(Request)
      BY <2>1, <2>5, AppendElements DEF WatcherType
    <3>2. w \in WatcherType /\ Tail(q) \in Seq(Request) /\ w.num_inflight_request + 1 \in Int
      BY <2>1, <2>2 DEF WatcherType
    <3> QED BY <2>6, <3>1, <3>2 DEF WatcherType
  <2>8. Queues(w2, st2, pos2)
    <3>1. InStage(Tail(q), "task", st2, pos2)
      BY <1>3, <2>1, <2>3, StageLeft DEF Queues, a
    <3> HIDE DEF q
    <3>2. InStage(Append(w.waiting_read_meta_queue, r), "meta", st2, pos2)
      BY <2>1, <2>2, <2>3, <2>5, StageJoined DEF Queues
    <3>3. /\ InStage(w.waiting_read_watcher_queue, "list", st2, pos2)
          /\ InStage(w.waiting_value_watcher_queue, "value", st2, pos2)
          /\ InStage(w.waiting_process_queue, "process", st2, pos2)
      BY <2>1, <2>2, <2>3, StageKept DEF Queues
    <3> QED BY <2>7, <3>1, <3>2, <3>3 DEF Queues
  <2> HIDE DEF q
  <2>9. Placed(t, st2, pos2)
    BY <2>1, <2>2, <2>3, PlacedMoved
  <2>10. \A y \in ReadsOf(w, l, p) : y.as # a
    BY <2>1, <2>2, RequestFields, Types DEF Traffic, Reads, ReadOf
  <2>11. Traffic(w2, l, p, st2, pos2)
    <3>1. "meta" \notin Idle /\ st[a] \in Idle
      BY <2>2 DEF Idle
    <3>2. Keeps(w, w2) /\ w2.num_inflight_request = w.num_inflight_request + 1
      BY <2>7 DEF Keeps
    <3>3. Traffic(w, l, p, st, pos)
      BY <2>1
    <3> QED BY <2>3, <2>10, <3>1, <3>2, <3>3, KeepReads
  <2>12. Outputs(w2, s, x, st2, pos2)
    <3>1. Processed(a, st2, pos2) = Processed(a, st, pos)
      BY <2>2, <2>3, Moved DEF Processed
    <3> QED BY <2>1, <2>3, <2>7, <3>1, OutputsMoved
  <2>13. Consistent(w2, l, p, t, s, x, st2, pos2)
    BY <2>7, <2>8, <2>9, <2>11, <2>12 DEF Consistent
  <2> QED BY <2>3, <2>13, Moved DEF Good, w2
<1> QED BY <1>2, <1>3

\* from_value_to_out_mem
LEMMA ValueStep ==
  ASSUME NEW w, NEW l, NEW p, NEW t, NEW s, NEW x, Good(w, l, p, t, s, x)
  PROVE  Good(FromValueToOutMem(w), l, p, t, s, x)
<1>1. PICK st \in [Assign -> Stage], pos \in [Assign -> Nat] :
        Consistent(w, l, p, t, s, x, st, pos)
  BY DEF Good
<1> DEFINE q == w.waiting_value_watcher_queue
           w2 == FromValueToOutMem(w)
<1>2. CASE q = <<>>
  BY <1>2 DEF FromValueToOutMem
<1>3. CASE q # <<>>
  <2>1. /\ w \in WatcherType /\ Queues(w, st, pos) /\ Placed(t, st, pos)
        /\ Traffic(w, l, p, st, pos) /\ Outputs(w, s, x, st, pos)
    BY <1>1 DEF Consistent
  <2> DEFINE a == Head(q).as
             i == Head(q).watcherId
             r == [Head(q) EXCEPT !.type = "ReadWatcherValue"]
             n == IF i + 1 >= get_watcher_size[a] THEN "valueread" ELSE "value"
             st2 == [st EXCEPT ![a] = n]
             pos2 == [pos EXCEPT ![a] = i + 1]
  <2>2. /\ Head(q) \in Request /\ a \in Assign /\ st[a] = "value" /\ Tail(q) \in Seq(Request)
        /\ i = pos[a] /\ i \in Nat
    BY <1>3, <2>1, StageFront DEF Queues
  <2>3. Goes(st, pos, a, n, i + 1, st2, pos2)
    BY <2>2 DEF Goes, Stage
  <2>4. /\ i < get_watcher_size[a] /\ get_watcher_size[a] \in Nat
        /\ Size(Head(q)) = get_watcher_size[a]
    BY <2>1, <2>2, RequestFields DEF Placed, Positions
  <2>5. r \in Request /\ r.as = a /\ r.watcherId = i /\ r.type = Value
    <3>1. r = [as |-> a, watcherId |-> i, clauseId |-> 0, type |-> Value]
      BY <2>2, RequestEdited DEF Value
    <3>2. [as |-> a, watcherId |-> i, clauseId |-> 0, type |-> Value] \in Request
      BY <2>2, <2>4, RequestMade, Types
    <3> QED BY <3>1, <3>2
  <2>6. w2 = [w EXCEPT !.out_memory_read_queue = Append(@, r),
                       !.outgoing_read_watcher_value = @ + 1,
                       !.waiting_value_watcher_queue = Advance(@, 1)]
    BY <1>3 DEF FromValueToOutMem
  <2>7. \/ i + 1 >= get_watcher_size[a] /\ n = "valueread"
        \/ i + 1 < get_watcher_size[a] /\ n = "value"
    BY <2>2, <2>4
  <2> HIDE DEF r, w2, n, st2, pos2
  <2>8. Advance(q, 1) \in Seq(Request) /\ InStage(Advance(q, 1), "value", st2, pos2)
    <3>1. InStage(q, "value", st, pos)
      BY <2>1 DEF Queues
    <3>2. CASE n = "valueread" /\ i + 1 >= get_watcher_size[a]
      <4>1. Advance(q, 1) = Tail(q)
        BY <2>4, <3>2, AdvanceLeaves
      <4>2. InStage(Tail(q), "value", st2, pos2)
        BY <1>3, <2>3, <3>1, <3>2, StageLeft
      <4> QED BY <2>2, <4>1, <4>2
    <3>3. CASE n = "value" /\ i + 1 < get_watcher_size[a]
      BY <1>3, <2>2, <2>3, <3>1, <3>3, StageAdvanced
    <3> QED BY <2>7, <3>2, <3>3
  <2> HIDE DEF a, i, q
  <2>9. /\ w2 \in WatcherType
        /\ w2.out_memory_read_queue = Append(w.out_memory_read_queue, r)
        /\ w2.outgoing_read_watcher_value = w.outgoing_read_watcher_value + 1
        /\ w2.waiting_value_watcher_queue = Advance(q, 1)
        /\ w2.in_task_queue = w.in_task_queue
        /\ w2.waiting_read_meta_queue = w.waiting_read_meta_queue
        /\ w2.waiting_read_watcher_queue = w.waiting_read_watcher_queue
        /\ w2.waiting_process_queue = w.waiting_process_queue
        /\ w2.in_memory_resp_queue = w.in_memory_resp_queue
        /\ w2.out_send_queue = w.out_send_queue
        /\ w2.out_write_watcher_list_queue = w.out_write_watcher_list_queue
        /\ w2.outgoing_read_watcher_data = w.outgoing_read_watcher_data
        /\ w2.num_inflight_request = w.num_inflight_request
    <3>1. Append(w.out_memory_read_queue, r) \in Seq(Request)
      BY <2>1, <2>5, AppendElements DEF WatcherType
    <3>2. w \in WatcherType /\ w.outgoing_read_watcher_value + 1 \in Int
      BY <2>1 DEF WatcherType
    <3>3. Advance(q, 1) \in Seq(Request) /\ q = w.waiting_value_watcher_queue
      BY <2>8 DEF q
    <3> QED BY <2>6, <3>1, <3>2, <3>3 DEF WatcherType
  <2>10. Queues(w2, st2, pos2)
    <3>1. /\ InStage(w.in_task_queue, "task", st2, pos2)
          /\ InStage(w.waiting_read_meta_queue, "meta", st2, pos2)
          /\ InStage(w.waiting_read_watcher_queue, "list", st2, pos2)
          /\ InStage(w.waiting_process_queue, "process", st2, pos2)
      BY <2>1, <2>2, <2>3, <2>7, StageKept DEF Queues
    <3> QED BY <2>8, <2>9, <3>1 DEF Queues
  <2>11. Placed(t, st2, pos2)
    BY <2>1, <2>2, <2>3, <2>4, <2>7, PlacedMoved
  <2>12. Traffic(w2, l, p, st2, pos2)
    <3>1. n \notin Idle /\ st[a] \notin Idle /\ n # "metaread"
      BY <2>2, <2>7 DEF Idle
    <3>2. Sends(w, w2, r) /\ w2.num_inflight_request = w.num_inflight_request
      BY <2>1, <2>5, <2>9, Types DEF Sends, WatcherType
    <3>3. Traffic(w, l, p, st, pos)
      BY <2>1
    <3>4. st2[a] = n /\ pos2[a] = i + 1
      BY <2>3, Moved
    <3>5. ReadOf(r, st2, pos2)
      BY <2>2, <2>4, <2>5, <2>7, <3>4, Types DEF ReadOf, LastValue, Size
    <3>6. ASSUME NEW y \in ReadsOf(w, l, p), y.as = a
          PROVE  y # r /\ ReadOf(y, st2, pos2) /\ Ahead(y, r) /\ Apart(y, r) /\ Apart(r, y)
      <4>1. ReadOf(y, st, pos) /\ y \in Request /\ y.watcherId \in Nat /\ y.type \in {Meta, Data, Value}
        BY <3>3, RequestFields, Types DEF Traffic, Reads, ReadOf
      <4>2. CASE y.type = Data
        BY <2>2, <2>5, <2>7, <3>4, <3>6, <4>1, <4>2, Types DEF ReadOf, Ahead, Apart
      <4>3. CASE y.type = Value
        <5>1. y.watcherId < i /\ ~LastValue(y) /\ y.watcherId < Size(y)
          BY <2>2, <3>6, <4>1, <4>3 DEF ReadOf
        <5>2. ReadOf(y, st2, pos2)
          BY <2>2, <2>7, <3>4, <3>6, <4>1, <4>3, <5>1, Types DEF ReadOf
        <5> QED BY <2>2, <2>5, <4>1, <4>3, <5>1, <5>2, Types DEF Ahead, Apart
      <4>4. y.type # Meta
        BY <2>2, <3>6, <4>1 DEF ReadOf
      <4> QED BY <4>1, <4>2, <4>3, <4>4
    <3> QED BY <2>3, <2>5, <3>1, <3>2, <3>3, <3>5, <3>6, SendRead
  <2>13. Outputs(w2, s, x, st2, pos2)
    <3>1. Processed(a, st2, pos2) = Processed(a, st, pos)
      BY <2>2, <2>3, <2>7, Moved DEF Processed
    <3> QED BY <2>1, <2>3, <2>9, <3>1, OutputsMoved
  <2>14. Consistent(w2, l, p, t, s, x, st2, pos2)
    BY <2>9, <2>10, <2>11, <2>12, <2>13 DEF Consistent
  <2> QED BY <2>3, <2>14, Moved DEF Good, w2
<1> QED BY <1>2, <1>3

\* from_read_watcher_to_mem
LEMMA ListStep ==
  ASSUME NEW w, NEW l, NEW p, NEW t, NEW s, NEW x, Good(w, l, p, t, s, x)
  PROVE  Good(FromReadWatcherToMem(w), l, p, t, s, x)
<1>1. PICK st \in [Assign -> Stage], pos \in [Assign -> Nat] :
        Consistent(w, l, p, t, s, x, st, pos)
  BY DEF Good
<1> DEFINE q == w.waiting_read_watcher_queue
           w2 == FromReadWatcherToMem(w)
<1>2. CASE q = <<>>
  BY <1>2 DEF FromReadWatcherToMem
<1> DEFINE a == Head(q).as
           i == Head(q).watcherId
<1>3. CASE q # <<>> /\ i >= get_watcher_size[a]
  <2>1. /\ w \in WatcherType /\ Queues(w, st, pos) /\ Placed(t, st, pos)
        /\ Traffic(w, l, p, st, pos) /\ Outputs(w, s, x, st, pos)
    BY <1>1 DEF Consistent
  <2> DEFINE st2 == [st EXCEPT ![a] = "done"]
             pos2 == [pos EXCEPT ![a] = 0]
  <2>2. /\ Head(q) \in Request /\ a \in Assign /\ st[a] = "list" /\ Tail(q) \in Seq(Request)
        /\ i = pos[a] /\ i \in Nat
    BY <1>3, <2>1, StageFront DEF Queues
  <2>3. Goes(st, pos, a, "done", 0, st2, pos2)
    BY <2>2 DEF Goes, Stage
  <2>4. get_watcher_size[a] = 0 /\ Size(Head(q)) = get_watcher_size[a]
    BY <1>3, <2>1, <2>2, RequestFields DEF Placed, Positions
  <2>5. w2 = [w EXCEPT !.waiting_read_watcher_queue = Tail(@), !.num_inflight_request = @ - 1]
    <3>1. q # <<>> /\ Head(q).watcherId >= Size(Head(q)) /\ ~(Head(q).watcherId < Size(Head(q)))
      BY <1>3, <2>2, <2>4
    <3> QED BY <3>1 DEF FromReadWatcherToMem
  <2> HIDE DEF w2, st2, pos2
  <2>6. InStage(Tail(q), "list", st2, pos2)
    BY <1>3, <2>1, <2>3, StageLeft DEF Queues
  <2> HIDE DEF a, i
  <2>7. /\ w2 \in WatcherType
        /\ w2.num_inflight_request = w.num_inflight_request - 1
        /\ w2.waiting_read_watcher_queue = Tail(q)
        /\ w2.in_task_queue = w.in_task_queue
        /\ w2.waiting_read_meta_queue = w.waiting_read_meta_queue
        /\ w2.waiting_value_watcher_queue = w.waiting_value_watcher_queue
        /\ w2.waiting_process_queue = w.waiting_process_queue
        /\ w2.out_memory_read_queue = w.out_memory_read_queue
        /\ w2.in_memory_resp_queue = w.in_memory_resp_queue
        /\ w2.out_send_queue = w.out_send_queue
        /\ w2.out_write_watcher_list_queue = w.out_write_watcher_list_queue
        /\ w2.outgoing_read_watcher_data = w.outgoing_read_watcher_data
        /\ w2.outgoing_read_watcher_value = w.outgoing_read_watcher_value
    <3>1. w \in WatcherType /\ Tail(q) \in Seq(Request) /\ w.num_inflight_request - 1 \in Int
      BY <2>1, <2>2 DEF WatcherType
    <3> QED BY <2>5, <3>1 DEF WatcherType
  <2> HIDE DEF q
  <2>8. Queues(w2, st2, pos2)
    <3>1. /\ InStage(w.in_task_queue, "task", st2, pos2)
          /\ InStage(w.waiting_read_meta_queue, "meta", st2, pos2)
          /\ InStage(w.waiting_value_watcher_queue, "value", st2, pos2)
          /\ InStage(w.waiting_process_queue, "process", st2, pos2)
      BY <2>1, <2>2, <2>3, StageKept DEF Queues
    <3> QED BY <2>6, <2>7, <3>1 DEF Queues
  <2>9. Placed(t, st2, pos2)
    BY <2>1, <2>2, <2>3, PlacedMoved
  <2>10. \A y \in ReadsOf(w, l, p) : y.as # a
    <3> SUFFICES ASSUME NEW y \in ReadsOf(w, l, p), y.as = a PROVE FALSE
      OBVIOUS
    <3>1. ReadOf(y, st, pos) /\ y.watcherId \in Nat /\ y.type \in {Meta, Data, Value} /\ Size(y) = 0
      BY <2>1, <2>4, RequestFields, Types DEF Traffic, Reads, ReadOf
    <3> QED BY <2>2, <3>1 DEF ReadOf
  <2>11. Traffic(w2, l, p, st2, pos2)
    <3>1. "done" \in Idle /\ st[a] \notin Idle
      BY <2>2 DEF Idle
    <3>2. Keeps(w, w2) /\ w2.num_inflight_request = w.num_inflight_request - 1
      BY <2>7 DEF Keeps
    <3>3. Traffic(w, l, p, st, pos)
      BY <2>1
    <3> QED BY <2>3, <2>10, <3>1, <3>2, <3>3, KeepReads
  <2>12. Outputs(w2, s, x, st2, pos2)
    <3>1. st2[a] = "done"
      BY <2>3, Moved
    <3>2. Processed(a, st2, pos2) = {} /\ Processed(a, st, pos) = {}
      BY <2>2, <2>4, <3>1 DEF Processed
    <3> QED BY <2>1, <2>3, <2>7, <3>2, OutputsMoved
  <2>13. Consistent(w2, l, p, t, s, x, st2, pos2)
    BY <2>7, <2>8, <2>9, <2>11, <2>12 DEF Consistent
  <2> QED BY <2>3, <2>13, Moved DEF Good, w2
<1>4. CASE q # <<>> /\ ~(i >= get_watcher_size[a])
  <2>1. /\ w \in WatcherType /\ Queues(w, st, pos) /\ Placed(t, st, pos)
        /\ Traffic(w, l, p, st, pos) /\ Outputs(w, s, x, st, pos)
    BY <1>1 DEF Consistent
  <2> DEFINE r == [Head(q) EXCEPT !.type = "ReadWatcherData"]
             n == IF i + LineSize >= get_watcher_size[a] THEN "listread" ELSE "list"
             st2 == [st EXCEPT ![a] = n]
             pos2 == [pos EXCEPT ![a] = i + LineSize]
  <2>2. /\ Head(q) \in Request /\ a \in Assign /\ st[a] = "list" /\ Tail(q) \in Seq(Request)
        /\ i = pos[a] /\ i \in Nat
    BY <1>4, <2>1, StageFront DEF Queues
  <2>3. Goes(st, pos, a, n, i + LineSize, st2, pos2)
    BY <2>2, LineSizeType DEF Goes, Stage
  <2>4. /\ i < get_watcher_size[a] /\ get_watcher_size[a] \in Nat
        /\ Size(Head(q)) = get_watcher_size[a]
    BY <1>4, <2>2, RequestFields
  <2>5. r \in Request /\ r.as = a /\ r.watcherId = i /\ r.type = Data
    <3>1. r = [as |-> a, watcherId |-> i, clauseId |-> 0, type |-> Data]
      BY <2>2, RequestEdited DEF Data
    <3>2. [as |-> a, watcherId |-> i, clauseId |-> 0, type |-> Data] \in Request
      BY <2>2, <2>4, RequestMade, Types
    <3> QED BY <3>1, <3>2
  <2>6. w2 = [w EXCEPT !.out_memory_read_queue = Append(@, r),
                       !.outgoing_read_watcher_data = @ + 1,
                       !.waiting_read_watcher_queue = Advance(@, LineSize)]
    <3>1. q # <<>> /\ Head(q).watcherId < Size(Head(q)) /\ ~(Head(q).watcherId >= Size(Head(q)))
      BY <1>4, <2>2, <2>4
    <3> QED BY <3>1 DEF FromReadWatcherToMem
  <2>7. \/ i + LineSize >= get_watcher_size[a] /\ n = "listread"
        \/ i + LineSize < get_watcher_size[a] /\ n = "list"
    BY <2>2, <2>4, LineSizeType
  <2> HIDE DEF r, w2, n, st2, pos2
  <2>8. Advance(q, LineSize) \in Seq(Request) /\ InStage(Advance(q, LineSize), "list", st2, pos2)
    <3>1. InStage(q, "list", st, pos)
      BY <2>1 DEF Queues
    <3>2. CASE n = "listread" /\ i + LineSize >= get_watcher_size[a]
      <4>1. Advance(q, LineSize) = Tail(q)
        BY <2>4, <3>2, LineSizeType, AdvanceLeaves
      <4>2. InStage(Tail(q), "list", st2, pos2)
        BY <1>4, <2>3, <3>1, <3>2, StageLeft
      <4> QED BY <2>2, <4>1, <4>2
    <3>3. CASE n = "list" /\ i + LineSize < get_watcher_size[a]
      BY <1>4, <2>2, <2>3, <3>1, <3>3, LineSizeType, StageAdvanced
    <3> QED BY <2>7, <3>2, <3>3
  <2> HIDE DEF a, i, q
  <2>9. /\ w2 \in WatcherType
        /\ w2.out_memory_read_queue = Append(w.out_memory_read_queue, r)
        /\ w2.outgoing_read_watcher_data = w.outgoing_read_watcher_data + 1
        /\ w2.waiting_read_watcher_queue = Advance(q, LineSize)
        /\ w2.in_task_queue = w.in_task_queue
        /\ w2.waiting_read_meta_queue = w.waiting_read_meta_queue
        /\ w2.waiting_value_watcher_queue = w.waiting_value_watcher_queue
        /\ w2.waiting_process_queue = w.waiting_process_queue
        /\ w2.in_memory_resp_queue = w.in_memory_resp_queue
        /\ w2.out_send_queue = w.out_send_queue
        /\ w2.out_write_watcher_list_queue = w.out_write_watcher_list_queue
        /\ w2.outgoing_read_watcher_value = w.outgoing_read_watcher_value
        /\ w2.num_inflight_request = w.num_inflight_request
    <3>1. Append(w.out_memory_read_queue, r) \in Seq(Request)
      BY <2>1, <2>5, AppendElements DEF WatcherType
    <3>2. w \in WatcherType /\ w.outgoing_read_watcher_data + 1 \in Int
      BY <2>1 DEF WatcherType
    <3>3. Advance(q, LineSize) \in Seq(Request) /\ q = w.waiting_read_watcher_queue
      BY <2>8 DEF q
    <3> QED BY <2>6, <3>1, <3>2, <3>3 DEF WatcherType
  <2>10. Queues(w2, st2, pos2)
    <3>1. /\ InStage(w.in_task_queue, "task", st2, pos2)
          /\ InStage(w.waiting_read_meta_queue, "meta", st2, pos2)
          /\ InStage(w.waiting_value_watcher_queue, "value", st2, pos2)
          /\ InStage(w.waiting_process_queue, "process", st2, pos2)
      BY <2>1, <2>2, <2>3, <2>7, StageKept DEF Queues
    <3> QED BY <2>8, <2>9, <3>1 DEF Queues
  <2>11. Placed(t, st2, pos2)
    BY <2>1, <2>2, <2>3, <2>4, <2>7, PlacedMoved
  <2>12. Traffic(w2, l, p, st2, pos2)
    <3>1. n \notin Idle /\ st[a] \notin Idle /\ n # "metaread"
      BY <2>2, <2>7 DEF Idle
    <3>2. Sends(w, w2, r) /\ w2.num_inflight_request = w.num_inflight_request
      BY <2>1, <2>5, <2>9, Types DEF Sends, WatcherType
    <3>3. Traffic(w, l, p, st, pos)
      BY <2>1
    <3>4. st2[a] = n /\ pos2[a] = i + LineSize
      BY <2>3, Moved
    <3>5. ReadOf(r, st2, pos2)
      BY <2>2, <2>4, <2>5, <2>7, <3>4, LineSizeType, Types DEF ReadOf, LastLine, Size
    <3>6. ASSUME NEW y \in ReadsOf(w, l, p), y.as = a
          PROVE  y # r /\ ReadOf(y, st2, pos2) /\ Ahead(y, r) /\ Apart(y, r) /\ Apart(r, y)
      <4>1. ReadOf(y, st, pos) /\ y \in Request /\ y.watcherId \in Nat /\ y.type \in {Meta, Data, Value}
        BY <3>3, RequestFields, Types DEF Traffic, Reads, ReadOf
      <4>2. y.type = Data /\ y.watcherId + LineSize <= i /\ ~LastLine(y) /\ y.watcherId < Size(y)
        BY <2>2, <3>6, <4>1, Types DEF ReadOf
      <4>3. ReadOf(y, st2, pos2)
        BY <2>2, <2>7, <3>4, <3>6, <4>1, <4>2, LineSizeType, Types DEF ReadOf
      <4> QED BY <2>2, <2>5, <4>1, <4>2, <4>3, LineSizeType, Types DEF Ahead, Apart
    <3> QED BY <2>3, <2>5, <3>1, <3>2, <3>3, <3>5, <3>6, SendRead
  <2>13. Outputs(w2, s, x, st2, pos2)
    <3>1. Processed(a, st2, pos2) = Processed(a, st, pos)
      BY <2>2, <2>3, <2>7, Moved DEF Processed
    <3> QED BY <2>1, <2>3, <2>9, <3>1, OutputsMoved
  <2>14. Consistent(w2, l, p, t, s, x, st2, pos2)
    BY <2>9, <2>10, <2>11, <2>12, <2>13 DEF Consistent
  <2> QED BY <2>3, <2>14, Moved DEF Good, w2
<1> QED BY <1>2, <1>3, <1>4

\* One more request of list h.as among the outputs
LEMMA OutputAdded ==
  ASSUME NEW X, NEW q, OutQueue(X, q), NEW h \in Request, h.watcherId \notin OutIds(h.as, X, q)
  PROVE  /\ OutQueue(X, Append(q, h))
         /\ \A b, k : k \in OutIds(b, X, Append(q, h))
                        <=> k \in OutIds(b, X, q) \/ (b = h.as /\ k = h.watcherId)
<1>1. q \in Seq(Request) /\ IsInjective(q) /\ X \cap Range(q) = {} /\ X \subseteq Request
  BY DEF OutQueue
<1>2. h \notin X \cup Range(q)
  BY DEF Ids, OutIds
<1>3. Append(q, h) \in Seq(Request) /\ IsInjective(Append(q, h))
  BY <1>1, <1>2, InjectiveAppend
<1>4. Range(Append(q, h)) = Range(q) \cup {h}
  BY <1>1, RangeAppend
<1>5. OutQueue(X, Append(q, h))
  BY <1>1, <1>2, <1>3, <1>4 DEF OutQueue
<1>6. \A b, k : k \in OutIds(b, X, Append(q, h))
                <=> k \in OutIds(b, X, q) \/ (b = h.as /\ k = h.watcherId)
  BY <1>4 DEF OutIds, Ids
<1> QED BY <1>5, <1>6

\* One more watcher of list a is processed: its list is written, and its clause
\* sent if it has to be read.
LEMMA OutputsGrow ==
  ASSUME NEW st, NEW pos, NEW a, NEW n, NEW m, NEW st2, NEW pos2,
         Goes(st, pos, a, n, m, st2, pos2), NEW w, NEW w2, NEW s, NEW x,
         Outputs(w, s, x, st, pos), NEW h \in Request, h.as = a, h.watcherId = pos[a],
         st[a] = "process", pos[a] < get_watcher_size[a], m = pos[a] + 1,
         n = "process" \/ (n = "done" /\ m = get_watcher_size[a]),
         w2.out_write_watcher_list_queue = Append(w.out_write_watcher_list_queue, h),
         w2.out_send_queue = IF <<a, pos[a]>> \in is_read_clause
                             THEN Append(w.out_send_queue, h) ELSE w.out_send_queue
  PROVE  Outputs(w2, s, x, st2, pos2)
<1> DEFINE i == pos[a]
           ow == w.out_write_watcher_list_queue
           os == w.out_send_queue
           old(b) == Processed(b, st, pos)
           new(b) == Processed(b, st2, pos2)
           read(b, X) == {k \in X : <<b, k>> \in is_read_clause}
<1>1. a \in Assign /\ i \in Nat /\ get_watcher_size[a] \in Nat
  BY WatcherAssumption DEF Goes
<1>2. st2[a] = n /\ pos2[a] = m
  BY Moved
<1>3. new(a) = old(a) \cup {i} /\ i \notin old(a)
  <2>1. old(a) = 0 .. i - 1
    BY DEF Processed
  <2>2. new(a) = 0 .. i
    BY <1>1, <1>2 DEF Processed
  <2> QED BY <1>1, <2>1, <2>2
<1>4. \A b \in Assign : b # a => new(b) = old(b)
  BY Moved DEF Processed
<1>5. /\ OutQueue(x, ow) /\ OutQueue(s, os)
      /\ \A b \in Assign : OutIds(b, x, ow) = old(b) /\ OutIds(b, s, os) = read(b, old(b))
  BY DEF Outputs
<1>6. h.watcherId = i /\ h.as = a
  OBVIOUS
<1> HIDE DEF i, old, new, ow, os
<1>7. OutQueue(x, Append(ow, h)) /\ \A b \in Assign : OutIds(b, x, Append(ow, h)) = new(b)
  <2>1. h.watcherId \notin OutIds(h.as, x, ow)
    BY <1>1, <1>3, <1>5, <1>6
  <2>2. /\ OutQueue(x, Append(ow, h))
        /\ \A b, k : k \in OutIds(b, x, Append(ow, h))
                       <=> k \in OutIds(b, x, ow) \/ (b = h.as /\ k = h.watcherId)
    BY <1>5, <2>1, OutputAdded
  <2>3. \A b \in Assign : \A k : k \in OutIds(b, x, Append(ow, h)) <=> k \in new(b)
    BY <1>3, <1>4, <1>5, <1>6, <2>2
  <2> QED BY <2>2, <2>3
<1>8. CASE <<a, i>> \in is_read_clause
  <2>1. \A b \in Assign : \A k : k \in read(b, new(b)) <=> k \in read(b, old(b)) \/ (b = a /\ k = i)
    BY <1>3, <1>4, <1>8
  <2>2. h.watcherId \notin OutIds(h.as, s, os)
    BY <1>1, <1>3, <1>5, <1>6
  <2>3. /\ OutQueue(s, Append(os, h))
        /\ \A b, k : k \in OutIds(b, s, Append(os, h))
                       <=> k \in OutIds(b, s, os) \/ (b = h.as /\ k = h.watcherId)
    BY <1>5, <2>2, OutputAdded
  <2> HIDE DEF read
  <2>4. \A b \in Assign : \A k : k \in OutIds(b, s, Append(os, h)) <=> k \in read(b, new(b))
    BY <1>5, <1>6, <2>1, <2>3
  <2>5. \A b \in Assign : OutIds(b, s, Append(os, h)) = read(b, new(b))
    BY <2>4
  <2>6. w2.out_send_queue = Append(os, h) /\ w2.out_write_watcher_list_queue = Append(ow, h)
    BY <1>8 DEF i, ow, os
  <2> QED BY <1>7, <2>3, <2>5, <2>6 DEF Outputs, new, read
<1>9. CASE <<a, i>> \notin is_read_clause
  <2>1. \A b \in Assign : read(b, new(b)) = read(b, old(b))
    BY <1>3, <1>4, <1>9
  <2>2. w2.out_send_queue = os /\ w2.out_write_watcher_list_queue = Append(ow, h)
    BY <1>9 DEF i, ow, os
  <2> QED BY <1>5, <1>7, <2>1, <2>2 DEF Outputs, new
<1> QED BY <1>8, <1>9

\* from_process_to_out
LEMMA ProcessStep ==
  ASSUME NEW w, NEW l, NEW p, NEW t, NEW s, NEW x, Good(w, l, p, t, s, x)
  PROVE  Good(FromProcessToOut(w), l, p, t, s, x)
<1>1. PICK st \in [Assign -> Stage], pos \in [Assign -> Nat] :
        Consistent(w, l, p, t, s, x, st, pos)
  BY DEF Good
<1> DEFINE q == w.waiting_process_queue
           w2 == FromProcessToOut(w)
<1>2. CASE q = <<>>
  BY <1>2 DEF FromProcessToOut
<1>3. CASE q # <<>>
  <2>1. /\ w \in WatcherType /\ Queues(w, st, pos) /\ Placed(t, st, pos)
        /\ Traffic(w, l, p, st, pos) /\ Outputs(w, s, x, st, pos)
    BY <1>1 DEF Consistent
  <2> DEFINE h == Head(q)
             a == h.as
             i == h.watcherId
             n == IF i + 1 >= get_watcher_size[a] THEN "done" ELSE "process"
             os == IF <<a, i>> \in is_read_clause THEN Append(w.out_send_queue, h) ELSE w.out_send_queue
             c == IF i + 1 >= get_watcher_size[a] THEN w.num_inflight_request - 1
                  ELSE w.num_inflight_request
             st2 == [st EXCEPT ![a] = n]
             pos2 == [pos EXCEPT ![a] = i + 1]
  <2>2. /\ h \in Request /\ a \in Assign /\ st[a] = "process" /\ Tail(q) \in Seq(Request)
        /\ i = pos[a] /\ i \in Nat
    BY <1>3, <2>1, StageFront DEF Queues
  <2>3. Goes(st, pos, a, n, i + 1, st2, pos2)
    BY <2>2 DEF Goes, Stage
  <2>4. /\ i < get_watcher_size[a] /\ get_watcher_size[a] \in Nat
        /\ Size(h) = get_watcher_size[a]
    BY <2>1, <2>2, RequestFields DEF Placed, Positions
  <2>5. [h EXCEPT !.clauseId = 0] = h
    BY <2>2, RequestEdited
  <2>6. w2 = [w EXCEPT !.out_write_watcher_list_queue = Append(@, h),
                       !.out_send_queue = os,
                       !.num_inflight_request = c,
                       !.waiting_process_queue = Advance(@, 1)]
    BY <1>3, <2>4, <2>5 DEF FromProcessToOut
  <2>7. \/ i + 1 >= get_watcher_size[a] /\ n = "done" /\ c = w.num_inflight_request - 1
        \/ i + 1 < get_watcher_size[a] /\ n = "process" /\ c = w.num_inflight_request
    BY <2>2, <2>4
  <2> HIDE DEF w2, n, st2, pos2, c
  <2>8. Advance(q, 1) \in Seq(Request) /\ InStage(Advance(q, 1), "process", st2, pos2)
    <3>1. InStage(q, "process", st, pos)
      BY <2>1 DEF Queues
    <3>2. CASE n = "done" /\ i + 1 >= get_watcher_size[a]
      <4>1. Advance(q, 1) = Tail(q)
        BY <2>4, <3>2, AdvanceLeaves
      <4>2. InStage(Tail(q), "process", st2, pos2)
        BY <1>3, <2>3, <3>1, <3>2, StageLeft
      <4> QED BY <2>2, <4>1, <4>2
    <3>3. CASE n = "process" /\ i + 1 < get_watcher_size[a]
      BY <1>3, <2>2, <2>3, <3>1, <3>3, StageAdvanced
    <3> QED BY <2>7, <3>2, <3>3
  <2>9. os \in Seq(Request) /\ Append(w.out_write_watcher_list_queue, h) \in Seq(Request)
    BY <2>1, <2>2, AppendElements DEF WatcherType
  <2> HIDE DEF a, i, q, h, os
  <2>10. /\ w2 \in WatcherType
         /\ w2.out_write_watcher_list_queue = Append(w.out_write_watcher_list_queue, h)
         /\ w2.out_send_queue = os
         /\ w2.num_inflight_request = c
         /\ w2.waiting_process_queue = Advance(q, 1)
         /\ w2.in_task_queue = w.in_task_queue
         /\ w2.waiting_read_meta_queue = w.waiting_read_meta_queue
         /\ w2.waiting_read_watcher_queue = w.waiting_read_watcher_queue
         /\ w2.waiting_value_watcher_queue = w.waiting_value_watcher_queue
         /\ w2.out_memory_read_queue = w.out_memory_read_queue
         /\ w2.in_memory_resp_queue = w.in_memory_resp_queue
         /\ w2.outgoing_read_watcher_data = w.outgoing_read_watcher_data
         /\ w2.outgoing_read_watcher_value = w.outgoing_read_watcher_value
    <3>1. w \in WatcherType /\ c \in Int
      BY <2>1, <2>7 DEF WatcherType
    <3>2. Advance(q, 1) \in Seq(Request) /\ q = w.waiting_process_queue
      BY <2>8 DEF q
    <3> QED BY <2>6, <2>9, <3>1, <3>2 DEF WatcherType
  <2>11. Queues(w2, st2, pos2)
    <3>1. /\ InStage(w.in_task_queue, "task", st2, pos2)
          /\ InStage(w.waiting_read_meta_queue, "meta", st2, pos2)
          /\ InStage(w.waiting_read_watcher_queue, "list", st2, pos2)
          /\ InStage(w.waiting_value_watcher_queue, "value", st2, pos2)
      BY <2>1, <2>2, <2>3, <2>7, StageKept DEF Queues
    <3> QED BY <2>8, <2>10, <3>1 DEF Queues
  <2>12. Placed(t, st2, pos2)
    BY <2>1, <2>2, <2>3, <2>7, PlacedMoved
  <2>13. Traffic(w2, l, p, st2, pos2)
    <3>1. n # "metaread" /\ st[a] \notin Idle /\ (n = "done" => n \in Idle) /\ (n = "process" => n \notin Idle)
      BY <2>2, <2>7 DEF Idle
    <3>2. Keeps(w, w2) /\ w2.num_inflight_request = c
      BY <2>10 DEF Keeps
    <3>3. Traffic(w, l, p, st, pos)
      BY <2>1
    <3>4. st2[a] = n
      BY <2>3, Moved
    <3>5. ASSUME NEW y \in ReadsOf(w, l, p), y.as = a
          PROVE  ReadOf(y, st2, pos2)
      <4>1. ReadOf(y, st, pos) /\ y \in Request /\ y.type \in {Meta, Data, Value}
        BY <3>3, RequestFields, Types DEF Traffic, Reads, ReadOf
      <4> QED BY <2>2, <2>7, <3>4, <3>5, <4>1, Types DEF ReadOf
    <3> QED BY <2>3, <2>7, <3>1, <3>2, <3>3, <3>5, KeepReads
  <2>14. Outputs(w2, s, x, st2, pos2)
    <3>1. /\ h.as = a /\ h.watcherId = pos[a] /\ pos[a] < get_watcher_size[a] /\ i + 1 = pos[a] + 1
          /\ n = "process" \/ (n = "done" /\ i + 1 = get_watcher_size[a])
      BY <2>2, <2>4, <2>7 DEF a, i
    <3>2. /\ w2.out_write_watcher_list_queue = Append(w.out_write_watcher_list_queue, h)
          /\ w2.out_send_queue = IF <<a, pos[a]>> \in is_read_clause
                                 THEN Append(w.out_send_queue, h) ELSE w.out_send_queue
      BY <2>2, <2>10 DEF os
    <3> QED BY <2>1, <2>2, <2>3, <3>1, <3>2, OutputsGrow
  <2>15. Consistent(w2, l, p, t, s, x, st2, pos2)
    BY <2>10, <2>11, <2>12, <2>13, <2>14 DEF Consistent
  <2> QED BY <2>3, <2>15, Moved DEF Good, w2
<1> QED BY <1>2, <1>3

\* The oldest answer
LEMMA FrontAnswer ==
  ASSUME NEW w, NEW l, NEW p, NEW st, NEW pos, NEW q, q = w.in_memory_resp_queue,
         Traffic(w, l, p, st, pos), q # <<>>
  PROVE  /\ Head(q) \in Request /\ Head(q).as \in Assign /\ Head(q).watcherId \in Nat
         /\ Tail(q) \in Seq(Request) /\ ReadOf(Head(q), st, pos)
         /\ Head(q) \in ReadsOf(w, l, p)
         /\ \A y \in ReadsOf(w, l, p) :
              /\ y \in Request /\ y.watcherId \in Nat /\ y.type \in {Meta, Data, Value}
              /\ ReadOf(y, st, pos) /\ Apart(Head(q), y)
              /\ y # Head(q) => Ahead(Head(q), y)
<1>1. Path(w, l, p) /\ Reads(ReadsOf(w, l, p), st, pos)
  BY DEF Traffic
<1>2. OnPath(Request, NoValue, Before, w.out_memory_read_queue, l, p, q)
  BY <1>1 DEF Path
<1> DEFINE w2 == [out_memory_read_queue |-> w.out_memory_read_queue,
                  in_memory_resp_queue |-> Tail(q),
                  outgoing_read_watcher_data
                    |-> w.outgoing_read_watcher_data - (IF Head(q).type = Data THEN 1 ELSE 0),
                  outgoing_read_watcher_value
                    |-> w.outgoing_read_watcher_value - (IF Head(q).type = Value THEN 1 ELSE 0)]
<1>3. Takes(w, w2, Head(q))
  BY DEF Takes
<1> HIDE DEF w2
<1>4. /\ Head(q) \in ReadsOf(w, l, p) /\ Head(q) \in Request
      /\ \A y \in ReadsOf(w, l, p) : y \in Request /\ (y # Head(q) => Ahead(Head(q), y))
  <2> DEFINE r == Head(q)
  <2>1. Takes(w, w2, r) /\ Path(w, l, p)
    BY <1>1, <1>3
  <2> HIDE DEF r
  <2>2. /\ Path(w2, l, p) /\ ReadsOf(w2, l, p) = Without(ReadsOf(w, l, p), r)
        /\ r \in ReadsOf(w, l, p) /\ r \in Request
        /\ \A y \in ReadsOf(w, l, p) : y \in Request
        /\ \A y \in Without(ReadsOf(w, l, p), r) : Ahead(r, y)
    BY <2>1, ReadTaken
  <2> QED BY <2>2 DEF r, Without
<1>5. Tail(q) \in Seq(Request)
  BY <1>2, TailElements DEF OnPath
<1> QED BY <1>1, <1>4, <1>5, RequestFields, Types DEF Reads

\* The meta data of a list: its lines are read next.
LEMMA MetaAnswer ==
  ASSUME NEW w, NEW l, NEW p, NEW t, NEW s, NEW x,
         NEW st \in [Assign -> Stage], NEW pos \in [Assign -> Nat],
         Consistent(w, l, p, t, s, x, st, pos),
         w.in_memory_resp_queue # <<>>, Head(w.in_memory_resp_queue).type = Meta
  PROVE  Good(FromRespToInsider(w), l, p, t, s, x)
<1> DEFINE q == w.in_memory_resp_queue
           r == Head(q)
           a == r.as
           R == ReadsOf(w, l, p)
           w2 == FromRespToInsider(w)
<1>1. /\ w \in WatcherType /\ Queues(w, st, pos) /\ Placed(t, st, pos)
      /\ Traffic(w, l, p, st, pos) /\ Outputs(w, s, x, st, pos)
  BY DEF Consistent
<1>2. /\ r \in Request /\ a \in Assign /\ r.watcherId \in Nat /\ Tail(q) \in Seq(Request)
      /\ ReadOf(r, st, pos) /\ r \in R
  BY <1>1, FrontAnswer
<1>3. \A y \in R : /\ y \in Request /\ y.watcherId \in Nat /\ y.type \in {Meta, Data, Value}
                   /\ ReadOf(y, st, pos) /\ Apart(r, y) /\ (y # r => Ahead(r, y))
  BY <1>1, FrontAnswer
<1>4. r.type = Meta
  OBVIOUS
<1> DEFINE e == [as |-> a, watcherId |-> 0, clauseId |-> 0, type |-> Data]
           st2 == [st EXCEPT ![a] = "list"]
           pos2 == [pos EXCEPT ![a] = 0]
<1>5. st[a] = "metaread" /\ r.watcherId = 0
  BY <1>2, <1>4 DEF ReadOf
<1>6. Goes(st, pos, a, "list", 0, st2, pos2)
  BY <1>2 DEF Goes, Stage
<1>7. [[r EXCEPT !.watcherId = 0] EXCEPT !.type = "ReadWatcherData"] = e
  <2> HIDE DEF r
  <2>1. [[r EXCEPT !.watcherId = 0] EXCEPT !.type = "ReadWatcherData"]
          = [as |-> r.as, watcherId |-> 0, clauseId |-> 0, type |-> "ReadWatcherData"]
    BY <1>2, RequestRetyped, Zenon
  <2> QED BY <2>1 DEF Data
<1>8. e \in Request /\ e.as = a /\ e.watcherId = 0
  BY <1>2, RequestMade, Types
<1>9. w2 = [w EXCEPT !.in_memory_resp_queue = Tail(@),
                     !.waiting_read_watcher_queue = Append(@, e)]
  <2>1. r.type = "ReadWatcherMetaData" /\ q # <<>>
    BY <1>4 DEF Meta
  <2>2. CountAnswer([w EXCEPT !.in_memory_resp_queue = Tail(@)], r)
          = [w EXCEPT !.in_memory_resp_queue = Tail(@)]
    BY <2>1 DEF CountAnswer
  <2>3. w2 = [[w EXCEPT !.in_memory_resp_queue = Tail(@)] EXCEPT
                !.waiting_read_watcher_queue = Append(@, e)]
    BY <1>7, <2>1, <2>2 DEF FromRespToInsider
  <2> QED BY <1>1, <2>3 DEF WatcherType
<1> HIDE DEF q, r, a, R, w2, e, st2, pos2
<1>10. /\ w2 \in WatcherType
       /\ w2.in_memory_resp_queue = Tail(q)
       /\ w2.waiting_read_watcher_queue = Append(w.waiting_read_watcher_queue, e)
       /\ w2.in_task_queue = w.in_task_queue
       /\ w2.waiting_read_meta_queue = w.waiting_read_meta_queue
       /\ w2.waiting_value_watcher_queue = w.waiting_value_watcher_queue
       /\ w2.waiting_process_queue = w.waiting_process_queue
       /\ w2.out_memory_read_queue = w.out_memory_read_queue
       /\ w2.out_send_queue = w.out_send_queue
       /\ w2.out_write_watcher_list_queue = w.out_write_watcher_list_queue
       /\ w2.outgoing_read_watcher_data = w.outgoing_read_watcher_data
       /\ w2.outgoing_read_watcher_value = w.outgoing_read_watcher_value
       /\ w2.num_inflight_request = w.num_inflight_request
  <2>1. w \in WatcherType /\ Append(w.waiting_read_watcher_queue, e) \in Seq(Request)
    BY <1>1, <1>8, AppendElements DEF WatcherType
  <2>2. Tail(q) \in Seq(Request) /\ q = w.in_memory_resp_queue
    BY <1>2 DEF q
  <2> QED BY <1>9, <2>1, <2>2 DEF WatcherType
<1>11. Queues(w2, st2, pos2)
  <2>1. InStage(Append(w.waiting_read_watcher_queue, e), "list", st2, pos2)
    BY <1>1, <1>5, <1>6, <1>8, StageJoined DEF Queues
  <2>2. /\ InStage(w.in_task_queue, "task", st2, pos2)
        /\ InStage(w.waiting_read_meta_queue, "meta", st2, pos2)
        /\ InStage(w.waiting_value_watcher_queue, "value", st2, pos2)
        /\ InStage(w.waiting_process_queue, "process", st2, pos2)
    BY <1>1, <1>5, <1>6, StageKept DEF Queues
  <2> QED BY <1>10, <2>1, <2>2 DEF Queues
<1>12. Placed(t, st2, pos2)
  BY <1>1, <1>5, <1>6, PlacedMoved
<1>13. Traffic(w2, l, p, st2, pos2)
  <2>1. "list" \notin Idle /\ st[a] \notin Idle
    BY <1>5 DEF Idle
  <2>2. Takes(w, w2, r) /\ w2.num_inflight_request = w.num_inflight_request
    <3> HIDE DEF q, r, a, R, w2, e, st2, pos2
    <3>1. r = Head(w.in_memory_resp_queue) /\ w.in_memory_resp_queue # <<>>
      BY DEF q, r
    <3>4. w.outgoing_read_watcher_data \in Int /\ w.outgoing_read_watcher_value \in Int
      BY <1>1 DEF WatcherType
    <3>2. w2.in_memory_resp_queue = Tail(w.in_memory_resp_queue)
      BY <1>10 DEF q
    <3>3. r.type # Data /\ r.type # Value
      BY <1>4, Types
    <3>5. /\ w.outgoing_read_watcher_data - (IF r.type = Data THEN 1 ELSE 0)
               = w.outgoing_read_watcher_data
          /\ w.outgoing_read_watcher_value - (IF r.type = Value THEN 1 ELSE 0)
               = w.outgoing_read_watcher_value
      BY <3>3, <3>4
    <3> QED BY <1>10, <3>1, <3>2, <3>5, Zenon DEF Takes
  <2>3. Traffic(w, l, p, st, pos) /\ r.as = a
    BY <1>1 DEF a
  <2>4. ASSUME NEW y \in R, y.as = a PROVE y = r
    <3>1. y.type = Meta /\ y.watcherId = 0 /\ y \in Request
      BY <1>3, <1>5, <2>4 DEF ReadOf
    <3>2. /\ y = [as |-> y.as, watcherId |-> y.watcherId, clauseId |-> 0, type |-> y.type]
          /\ r = [as |-> r.as, watcherId |-> r.watcherId, clauseId |-> 0, type |-> r.type]
      BY <1>2, <3>1, RequestFields
    <3> QED BY <1>4, <1>5, <2>3, <2>4, <3>1, <3>2, Zenon
  <2>5. \A y \in ReadsOf(w, l, p) : y.as = a => y = r
    BY <2>4 DEF R
  <2> QED BY <1>6, <2>1, <2>2, <2>3, <2>5, TakeRead
<1>14. Outputs(w2, s, x, st2, pos2)
  <2>1. Processed(a, st2, pos2) = Processed(a, st, pos)
    BY <1>5, <1>6, Moved DEF Processed
  <2> QED BY <1>1, <1>6, <1>10, <2>1, OutputsMoved
<1>15. Consistent(w2, l, p, t, s, x, st2, pos2)
  BY <1>10, <1>11, <1>12, <1>13, <1>14 DEF Consistent
<1> QED BY <1>6, <1>15, Moved DEF Good, w2

\* A line of a list: after the last one the values are read.
LEMMA LineAnswer ==
  ASSUME NEW w, NEW l, NEW p, NEW t, NEW s, NEW x,
         NEW st \in [Assign -> Stage], NEW pos \in [Assign -> Nat],
         Consistent(w, l, p, t, s, x, st, pos),
         w.in_memory_resp_queue # <<>>, Head(w.in_memory_resp_queue).type = Data
  PROVE  Good(FromRespToInsider(w), l, p, t, s, x)
<1> DEFINE q == w.in_memory_resp_queue
           r == Head(q)
           a == r.as
           R == ReadsOf(w, l, p)
           w2 == FromRespToInsider(w)
<1>1. /\ w \in WatcherType /\ Queues(w, st, pos) /\ Placed(t, st, pos)
      /\ Traffic(w, l, p, st, pos) /\ Outputs(w, s, x, st, pos)
  BY DEF Consistent
<1>2. /\ r \in Request /\ a \in Assign /\ r.watcherId \in Nat /\ Tail(q) \in Seq(Request)
      /\ ReadOf(r, st, pos) /\ r \in R
  BY <1>1, FrontAnswer
<1>3. \A y \in R : /\ y \in Request /\ y.watcherId \in Nat /\ y.type \in {Meta, Data, Value}
                   /\ ReadOf(y, st, pos) /\ Apart(r, y) /\ (y # r => Ahead(r, y))
  BY <1>1, FrontAnswer
<1>4. r.type = Data
  OBVIOUS
<1>5. r.watcherId < Size(r) /\ Size(r) = get_watcher_size[a] /\ Size(r) \in Nat
  BY <1>2, <1>4, RequestFields DEF ReadOf
<1>6. w2 = [w EXCEPT !.in_memory_resp_queue = Tail(@), !.outgoing_read_watcher_data = @ - 1,
                     !.waiting_value_watcher_queue
                       = IF LastLine(r) THEN Append(@, [r EXCEPT !.watcherId = 0]) ELSE @]
  <2>1. r.type = "ReadWatcherData" /\ q # <<>>
    BY <1>4 DEF Data
  <2>2. CountAnswer([w EXCEPT !.in_memory_resp_queue = Tail(@)], r)
          = [w EXCEPT !.in_memory_resp_queue = Tail(@), !.outgoing_read_watcher_data = @ - 1]
    BY <1>1, <2>1 DEF CountAnswer, WatcherType
  <2>3. w2 = [[w EXCEPT !.in_memory_resp_queue = Tail(@), !.outgoing_read_watcher_data = @ - 1]
              EXCEPT !.waiting_value_watcher_queue
                       = IF LastLine(r) THEN Append(@, [r EXCEPT !.watcherId = 0]) ELSE @]
    BY <2>1, <2>2 DEF FromRespToInsider
  <2> QED BY <1>1, <2>3 DEF WatcherType
<1>7. /\ w \in WatcherType /\ w.outgoing_read_watcher_data - 1 \in Int
      /\ Tail(q) \in Seq(Request) /\ q = w.in_memory_resp_queue /\ r.as = a
  BY <1>1, <1>2 DEF WatcherType
<1> HIDE DEF q, a, R, w2
<1>8. CASE LastLine(r)
  <2> DEFINE e == [r EXCEPT !.watcherId = 0]
             st2 == [st EXCEPT ![a] = "value"]
             pos2 == [pos EXCEPT ![a] = 0]
  <2>1. st[a] = "listread"
    BY <1>2, <1>4, <1>7, <1>8 DEF ReadOf
  <2>2. Goes(st, pos, a, "value", 0, st2, pos2)
    BY <1>2 DEF Goes, Stage
  <2>3. e \in Request /\ e.as = a /\ e.watcherId = 0
    <3>1. e = [as |-> a, watcherId |-> 0, clauseId |-> 0, type |-> Data]
      <4> HIDE DEF r
      <4>1. r \in Request
        BY <1>2
      <4>2. [r EXCEPT !.watcherId = 0]
              = [as |-> r.as, watcherId |-> 0, clauseId |-> 0, type |-> r.type]
        BY <4>1, RequestEdited
      <4> QED BY <1>4, <1>7, <4>2
    <3>2. [as |-> a, watcherId |-> 0, clauseId |-> 0, type |-> Data] \in Request
      BY <1>2, RequestMade, Types
    <3> QED BY <3>1, <3>2
  <2>4. w2 = [w EXCEPT !.in_memory_resp_queue = Tail(@), !.outgoing_read_watcher_data = @ - 1,
                       !.waiting_value_watcher_queue = Append(@, e)]
    BY <1>6, <1>8
  <2> HIDE DEF e, r, st2, pos2
  <2>5. /\ w2 \in WatcherType
        /\ w2.in_memory_resp_queue = Tail(q)
        /\ w2.outgoing_read_watcher_data = w.outgoing_read_watcher_data - 1
        /\ w2.waiting_value_watcher_queue = Append(w.waiting_value_watcher_queue, e)
        /\ w2.in_task_queue = w.in_task_queue
        /\ w2.waiting_read_meta_queue = w.waiting_read_meta_queue
        /\ w2.waiting_read_watcher_queue = w.waiting_read_watcher_queue
        /\ w2.waiting_process_queue = w.waiting_process_queue
        /\ w2.out_memory_read_queue = w.out_memory_read_queue
        /\ w2.out_send_queue = w.out_send_queue
        /\ w2.out_write_watcher_list_queue = w.out_write_watcher_list_queue
        /\ w2.outgoing_read_watcher_value = w.outgoing_read_watcher_value
        /\ w2.num_inflight_request = w.num_inflight_request
    <3>1. Append(w.waiting_value_watcher_queue, e) \in Seq(Request)
      BY <1>1, <2>3, AppendElements DEF WatcherType
    <3> QED BY <1>7, <2>4, <3>1 DEF WatcherType
  <2>6. Queues(w2, st2, pos2)
    <3>1. InStage(Append(w.waiting_value_watcher_queue, e), "value", st2, pos2)
      BY <1>1, <2>1, <2>2, <2>3, StageJoined DEF Queues
    <3>2. /\ InStage(w.in_task_queue, "task", st2, pos2)
          /\ InStage(w.waiting_read_meta_queue, "meta", st2, pos2)
          /\ InStage(w.waiting_read_watcher_queue, "list", st2, pos2)
          /\ InStage(w.waiting_process_queue, "process", st2, pos2)
      BY <1>1, <2>1, <2>2, StageKept DEF Queues
    <3> QED BY <2>5, <3>1, <3>2 DEF Queues
  <2>7. Placed(t, st2, pos2)
    BY <1>1, <1>2, <1>5, <2>1, <2>2, PlacedMoved
  <2>8. Traffic(w2, l, p, st2, pos2)
    <3>1. "value" \notin Idle /\ st[a] \notin Idle
      BY <2>1 DEF Idle
    <3>2. Takes(w, w2, r) /\ w2.num_inflight_request = w.num_inflight_request
      <4>1. w.outgoing_read_watcher_data \in Int /\ w.outgoing_read_watcher_value \in Int
        BY <1>7 DEF WatcherType
      <4> HIDE DEF r
      <4>2. Data # Value /\ r = Head(w.in_memory_resp_queue)
        BY <1>7, Types DEF r
      <4> QED BY <1>4, <1>7, <2>5, <4>1, <4>2 DEF Takes
    <3>3. Traffic(w, l, p, st, pos)
      BY <1>1
    <3>4. st2[a] = "value"
      BY <2>2, Moved
    <3>5. ASSUME NEW y \in R, y.as = a, y # r PROVE ReadOf(y, st2, pos2)
      <4>1. y.type = Data /\ y.watcherId < Size(y) /\ y \in Request /\ y.watcherId \in Nat /\ Apart(r, y)
        BY <1>3, <2>1, <3>5, Types DEF ReadOf
      <4>2. Size(y) = Size(r)
        BY <1>7, <3>5 DEF Size
      <4>3. y.watcherId + LineSize <= r.watcherId
        BY <1>2, <1>4, <1>5, <1>7, <1>8, <3>5, <4>1, <4>2, LineSizeType DEF Apart, LastLine
      <4>4. ~LastLine(y)
        BY <1>2, <1>5, <4>1, <4>2, <4>3, LineSizeType DEF LastLine
      <4> QED BY <3>4, <3>5, <4>1, <4>4, Types DEF ReadOf
    <3>6. \A y \in ReadsOf(w, l, p) : y.as = a /\ y # r => ReadOf(y, st2, pos2)
      BY <3>5 DEF R
    <3> QED BY <1>7, <2>2, <3>1, <3>2, <3>3, <3>6, TakeRead
  <2>9. Outputs(w2, s, x, st2, pos2)
    <3>1. st2[a] = "value" /\ pos2[a] = 0
      BY <2>2, Moved
    <3>2. Processed(a, st2, pos2) = {} /\ Processed(a, st, pos) = {}
      BY <2>1, <3>1 DEF Processed
    <3>3. /\ w2.out_write_watcher_list_queue = w.out_write_watcher_list_queue
          /\ w2.out_send_queue = w.out_send_queue
      BY <2>5
    <3>4. Outputs(w, s, x, st, pos)
      BY <1>1
    <3>5. Processed(a, st2, pos2) = Processed(a, st, pos)
      BY <3>2
    <3> HIDE DEF w2, st2, pos2, a
    <3> QED BY <2>2, <3>3, <3>4, <3>5, OutputsMoved, Zenon
  <2>10. Consistent(w2, l, p, t, s, x, st2, pos2)
    BY <2>5, <2>6, <2>7, <2>8, <2>9 DEF Consistent
  <2> QED BY <2>2, <2>10, Moved DEF Good, w2
<1>9. CASE ~LastLine(r)
  <2>1. w2 = [w EXCEPT !.in_memory_resp_queue = Tail(@), !.outgoing_read_watcher_data = @ - 1]
    <3>1. w2 = [w EXCEPT !.in_memory_resp_queue = Tail(@), !.outgoing_read_watcher_data = @ - 1,
                         !.waiting_value_watcher_queue = @]
      BY <1>6, <1>9
    <3> QED BY <1>7, <3>1 DEF WatcherType
  <2> HIDE DEF r
  <2>2. /\ w2 \in WatcherType
        /\ w2.in_memory_resp_queue = Tail(q)
        /\ w2.outgoing_read_watcher_data = w.outgoing_read_watcher_data - 1
        /\ w2.in_task_queue = w.in_task_queue
        /\ w2.waiting_read_meta_queue = w.waiting_read_meta_queue
        /\ w2.waiting_read_watcher_queue = w.waiting_read_watcher_queue
        /\ w2.waiting_value_watcher_queue = w.waiting_value_watcher_queue
        /\ w2.waiting_process_queue = w.waiting_process_queue
        /\ w2.out_memory_read_queue = w.out_memory_read_queue
        /\ w2.out_send_queue = w.out_send_queue
        /\ w2.out_write_watcher_list_queue = w.out_write_watcher_list_queue
        /\ w2.outgoing_read_watcher_value = w.outgoing_read_watcher_value
        /\ w2.num_inflight_request = w.num_inflight_request
    BY <1>7, <2>1 DEF WatcherType
  <2>3. Goes(st, pos, a, st[a], pos[a], st, pos)
    BY <1>2 DEF Goes
  <2>4. Traffic(w2, l, p, st, pos)
    <3>1. Takes(w, w2, r) /\ w2.num_inflight_request = w.num_inflight_request
      <4>1. w.outgoing_read_watcher_data \in Int /\ w.outgoing_read_watcher_value \in Int
        BY <1>7 DEF WatcherType
      <4> HIDE DEF r
      <4>2. Data # Value /\ r = Head(w.in_memory_resp_queue)
        BY <1>7, Types DEF r
      <4> QED BY <1>4, <1>7, <2>2, <4>1, <4>2 DEF Takes
    <3>2. st[a] # "metaread"
      BY <1>2, <1>4, <1>7, Types DEF ReadOf
    <3>3. Traffic(w, l, p, st, pos)
      BY <1>1
    <3>4. \A y \in ReadsOf(w, l, p) : ReadOf(y, st, pos)
      BY <1>3 DEF R
    <3> QED BY <1>7, <2>3, <3>1, <3>2, <3>3, <3>4, TakeRead
  <2>5. Queues(w2, st, pos) /\ Outputs(w2, s, x, st, pos)
    BY <1>1, <2>2 DEF Queues, Outputs
  <2>6. Consistent(w2, l, p, t, s, x, st, pos)
    BY <1>1, <2>2, <2>4, <2>5 DEF Consistent
  <2> QED BY <2>6 DEF Good, w2
<1> QED BY <1>8, <1>9

\* A value: after the last one the list is processed.
LEMMA ValueAnswer ==
  ASSUME NEW w, NEW l, NEW p, NEW t, NEW s, NEW x,
         NEW st \in [Assign -> Stage], NEW pos \in [Assign -> Nat],
         Consistent(w, l, p, t, s, x, st, pos),
         w.in_memory_resp_queue # <<>>, Head(w.in_memory_resp_queue).type = Value
  PROVE  Good(FromRespToInsider(w), l, p, t, s, x)
<1> DEFINE q == w.in_memory_resp_queue
           r == Head(q)
           a == r.as
           R == ReadsOf(w, l, p)
           w2 == FromRespToInsider(w)
<1>1. /\ w \in WatcherType /\ Queues(w, st, pos) /\ Placed(t, st, pos)
      /\ Traffic(w, l, p, st, pos) /\ Outputs(w, s, x, st, pos)
  BY DEF Consistent
<1>2. /\ r \in Request /\ a \in Assign /\ r.watcherId \in Nat /\ Tail(q) \in Seq(Request)
      /\ ReadOf(r, st, pos) /\ r \in R
  BY <1>1, FrontAnswer
<1>3. \A y \in R : /\ y \in Request /\ y.watcherId \in Nat /\ y.type \in {Meta, Data, Value}
                   /\ ReadOf(y, st, pos) /\ Apart(r, y) /\ (y # r => Ahead(r, y))
  BY <1>1, FrontAnswer
<1>4. r.type = Value
  OBVIOUS
<1>5. r.watcherId < Size(r) /\ Size(r) = get_watcher_size[a] /\ Size(r) \in Nat
  BY <1>2, <1>4, RequestFields DEF ReadOf
<1>6. w2 = [w EXCEPT !.in_memory_resp_queue = Tail(@), !.outgoing_read_watcher_value = @ - 1,
                     !.waiting_process_queue
                       = IF LastValue(r) THEN Append(@, [r EXCEPT !.watcherId = 0]) ELSE @]
  <2>1. r.type = "ReadWatcherValue" /\ q # <<>>
    BY <1>4 DEF Value
  <2>2. CountAnswer([w EXCEPT !.in_memory_resp_queue = Tail(@)], r)
          = [w EXCEPT !.in_memory_resp_queue = Tail(@), !.outgoing_read_watcher_value = @ - 1]
    BY <1>1, <2>1 DEF CountAnswer, WatcherType
  <2>3. w2 = [[w EXCEPT !.in_memory_resp_queue = Tail(@), !.outgoing_read_watcher_value = @ - 1]
              EXCEPT !.waiting_process_queue
                       = IF LastValue(r) THEN Append(@, [r EXCEPT !.watcherId = 0]) ELSE @]
    BY <2>1, <2>2 DEF FromRespToInsider
  <2> QED BY <1>1, <2>3 DEF WatcherType
<1>7. /\ w \in WatcherType /\ w.outgoing_read_watcher_value - 1 \in Int
      /\ Tail(q) \in Seq(Request) /\ q = w.in_memory_resp_queue /\ r.as = a
  BY <1>1, <1>2 DEF WatcherType
<1> HIDE DEF q, a, R, w2
<1>8. CASE LastValue(r)
  <2> DEFINE e == [r EXCEPT !.watcherId = 0]
             st2 == [st EXCEPT ![a] = "process"]
             pos2 == [pos EXCEPT ![a] = 0]
  <2>1. st[a] = "valueread"
    BY <1>2, <1>4, <1>7, <1>8 DEF ReadOf
  <2>2. Goes(st, pos, a, "process", 0, st2, pos2)
    BY <1>2 DEF Goes, Stage
  <2>3. e \in Request /\ e.as = a /\ e.watcherId = 0
    <3>1. e = [as |-> a, watcherId |-> 0, clauseId |-> 0, type |-> Value]
      <4> HIDE DEF r
      <4>1. r \in Request
        BY <1>2
      <4>2. [r EXCEPT !.watcherId = 0]
              = [as |-> r.as, watcherId |-> 0, clauseId |-> 0, type |-> r.type]
        BY <4>1, RequestEdited
      <4> QED BY <1>4, <1>7, <4>2
    <3>2. [as |-> a, watcherId |-> 0, clauseId |-> 0, type |-> Value] \in Request
      BY <1>2, RequestMade, Types
    <3> QED BY <3>1, <3>2
  <2>4. w2 = [w EXCEPT !.in_memory_resp_queue = Tail(@), !.outgoing_read_watcher_value = @ - 1,
                       !.waiting_process_queue = Append(@, e)]
    BY <1>6, <1>8
  <2> HIDE DEF e, r, st2, pos2
  <2>5. /\ w2 \in WatcherType
        /\ w2.in_memory_resp_queue = Tail(q)
        /\ w2.outgoing_read_watcher_value = w.outgoing_read_watcher_value - 1
        /\ w2.waiting_process_queue = Append(w.waiting_process_queue, e)
        /\ w2.in_task_queue = w.in_task_queue
        /\ w2.waiting_read_meta_queue = w.waiting_read_meta_queue
        /\ w2.waiting_read_watcher_queue = w.waiting_read_watcher_queue
        /\ w2.waiting_value_watcher_queue = w.waiting_value_watcher_queue
        /\ w2.out_memory_read_queue = w.out_memory_read_queue
        /\ w2.out_send_queue = w.out_send_queue
        /\ w2.out_write_watcher_list_queue = w.out_write_watcher_list_queue
        /\ w2.outgoing_read_watcher_data = w.outgoing_read_watcher_data
        /\ w2.num_inflight_request = w.num_inflight_request
    <3>1. Append(w.waiting_process_queue, e) \in Seq(Request)
      BY <1>1, <2>3, AppendElements DEF WatcherType
    <3> QED BY <1>7, <2>4, <3>1 DEF WatcherType
  <2>6. Queues(w2, st2, pos2)
    <3>1. InStage(Append(w.waiting_process_queue, e), "process", st2, pos2)
      BY <1>1, <2>1, <2>2, <2>3, StageJoined DEF Queues
    <3>2. /\ InStage(w.in_task_queue, "task", st2, pos2)
          /\ InStage(w.waiting_read_meta_queue, "meta", st2, pos2)
          /\ InStage(w.waiting_read_watcher_queue, "list", st2, pos2)
          /\ InStage(w.waiting_value_watcher_queue, "value", st2, pos2)
      BY <1>1, <2>1, <2>2, StageKept DEF Queues
    <3> QED BY <2>5, <3>1, <3>2 DEF Queues
  <2>7. Placed(t, st2, pos2)
    BY <1>1, <1>2, <1>5, <2>1, <2>2, PlacedMoved
  <2>8. Traffic(w2, l, p, st2, pos2)
    <3>1. "process" \notin Idle /\ st[a] \notin Idle
      BY <2>1 DEF Idle
    <3>2. Takes(w, w2, r) /\ w2.num_inflight_request = w.num_inflight_request
      <4>1. w.outgoing_read_watcher_data \in Int /\ w.outgoing_read_watcher_value \in Int
        BY <1>7 DEF WatcherType
      <4> HIDE DEF r
      <4>2. Data # Value /\ r = Head(w.in_memory_resp_queue)
        BY <1>7, Types DEF r
      <4> QED BY <1>4, <1>7, <2>5, <4>1, <4>2 DEF Takes
    <3>3. Traffic(w, l, p, st, pos)
      BY <1>1
    <3>4. st2[a] = "process"
      BY <2>2, Moved
    <3>5. ASSUME NEW y \in R, y.as = a, y # r PROVE ReadOf(y, st2, pos2)
      <4>1. /\ y.type \in {Data, Value} /\ y.watcherId < Size(y) /\ y \in Request
            /\ y.watcherId \in Nat /\ Ahead(r, y)
        BY <1>3, <2>1, <3>5, Types DEF ReadOf
      <4>2. Size(y) = Size(r)
        BY <1>7, <3>5 DEF Size
      <4>3. y.type # Value
        BY <1>2, <1>4, <1>5, <1>7, <1>8, <3>5, <4>1, <4>2 DEF Ahead, LastValue
      <4>4. ~LastLine(y)
        BY <1>3, <2>1, <3>5, <4>1, <4>3 DEF ReadOf
      <4> QED BY <3>4, <3>5, <4>1, <4>3, <4>4, Types DEF ReadOf
    <3>6. \A y \in ReadsOf(w, l, p) : y.as = a /\ y # r => ReadOf(y, st2, pos2)
      BY <3>5 DEF R
    <3> QED BY <1>7, <2>2, <3>1, <3>2, <3>3, <3>6, TakeRead
  <2>9. Outputs(w2, s, x, st2, pos2)
    <3>1. st2[a] = "process" /\ pos2[a] = 0
      BY <2>2, Moved
    <3>2. Processed(a, st2, pos2) = {} /\ Processed(a, st, pos) = {}
      BY <2>1, <3>1 DEF Processed
    <3>3. /\ w2.out_write_watcher_list_queue = w.out_write_watcher_list_queue
          /\ w2.out_send_queue = w.out_send_queue
      BY <2>5
    <3>4. Outputs(w, s, x, st, pos)
      BY <1>1
    <3>5. Processed(a, st2, pos2) = Processed(a, st, pos)
      BY <3>2
    <3> HIDE DEF w2, st2, pos2, a
    <3> QED BY <2>2, <3>3, <3>4, <3>5, OutputsMoved, Zenon
  <2>10. Consistent(w2, l, p, t, s, x, st2, pos2)
    BY <2>5, <2>6, <2>7, <2>8, <2>9 DEF Consistent
  <2> QED BY <2>2, <2>10, Moved DEF Good, w2
<1>9. CASE ~LastValue(r)
  <2>1. w2 = [w EXCEPT !.in_memory_resp_queue = Tail(@), !.outgoing_read_watcher_value = @ - 1]
    <3>1. w2 = [w EXCEPT !.in_memory_resp_queue = Tail(@), !.outgoing_read_watcher_value = @ - 1,
                         !.waiting_process_queue = @]
      BY <1>6, <1>9
    <3> QED BY <1>7, <3>1 DEF WatcherType
  <2> HIDE DEF r
  <2>2. /\ w2 \in WatcherType
        /\ w2.in_memory_resp_queue = Tail(q)
        /\ w2.outgoing_read_watcher_value = w.outgoing_read_watcher_value - 1
        /\ w2.in_task_queue = w.in_task_queue
        /\ w2.waiting_read_meta_queue = w.waiting_read_meta_queue
        /\ w2.waiting_read_watcher_queue = w.waiting_read_watcher_queue
        /\ w2.waiting_value_watcher_queue = w.waiting_value_watcher_queue
        /\ w2.waiting_process_queue = w.waiting_process_queue
        /\ w2.out_memory_read_queue = w.out_memory_read_queue
        /\ w2.out_send_queue = w.out_send_queue
        /\ w2.out_write_watcher_list_queue = w.out_write_watcher_list_queue
        /\ w2.outgoing_read_watcher_data = w.outgoing_read_watcher_data
        /\ w2.num_inflight_request = w.num_inflight_request
    BY <1>7, <2>1 DEF WatcherType
  <2>3. Goes(st, pos, a, st[a], pos[a], st, pos)
    BY <1>2 DEF Goes
  <2>4. Traffic(w2, l, p, st, pos)
    <3>1. Takes(w, w2, r) /\ w2.num_inflight_request = w.num_inflight_request
      <4>1. w.outgoing_read_watcher_data \in Int /\ w.outgoing_read_watcher_value \in Int
        BY <1>7 DEF WatcherType
      <4> HIDE DEF r
      <4>2. Data # Value /\ r = Head(w.in_memory_resp_queue)
        BY <1>7, Types DEF r
      <4> QED BY <1>4, <1>7, <2>2, <4>1, <4>2 DEF Takes
    <3>2. st[a] # "metaread"
      BY <1>2, <1>4, <1>7, Types DEF ReadOf
    <3>3. Traffic(w, l, p, st, pos)
      BY <1>1
    <3>4. \A y \in ReadsOf(w, l, p) : ReadOf(y, st, pos)
      BY <1>3 DEF R
    <3> QED BY <1>7, <2>3, <3>1, <3>2, <3>3, <3>4, TakeRead
  <2>5. Queues(w2, st, pos) /\ Outputs(w2, s, x, st, pos)
    BY <1>1, <2>2 DEF Queues, Outputs
  <2>6. Consistent(w2, l, p, t, s, x, st, pos)
    BY <1>1, <2>2, <2>4, <2>5 DEF Consistent
  <2> QED BY <2>6 DEF Good, w2
<1> QED BY <1>8, <1>9

\* from_resp_to_insider
LEMMA RespStep ==
  ASSUME NEW w, NEW l, NEW p, NEW t, NEW s, NEW x, Good(w, l, p, t, s, x)
  PROVE  Good(FromRespToInsider(w), l, p, t, s, x)
<1>1. PICK st \in [Assign -> Stage], pos \in [Assign -> Nat] :
        Consistent(w, l, p, t, s, x, st, pos)
  BY DEF Good
<1>2. CASE w.in_memory_resp_queue = <<>>
  BY <1>2 DEF FromRespToInsider
<1>3. CASE w.in_memory_resp_queue # <<>>
  <2>1. Head(w.in_memory_resp_queue) \in Request
    BY <1>1, <1>3, FrontAnswer DEF Consistent
  <2>2. Head(w.in_memory_resp_queue).type \in {Meta, Data, Value}
    BY <2>1, RequestFields, Types
  <2> QED BY <1>1, <1>3, <2>2, MetaAnswer, LineAnswer, ValueAnswer
<1> QED BY <1>2, <1>3

-----------------------------------------------------------------------------
(* The hooks of acc                                                         *)

\* An assignment of the trail becomes a task.
LEMMA TrailStep ==
  ASSUME NEW w, NEW l, NEW p, NEW t, NEW s, NEW x, Good(w, l, p, t, s, x), NEW a \in t
  PROVE  Good([w EXCEPT !.in_task_queue = Append(@, Task(a))], l, p, t \ {a}, s, x)
<1>1. PICK st \in [Assign -> Stage], pos \in [Assign -> Nat] :
        Consistent(w, l, p, t, s, x, st, pos)
  BY DEF Good
<1> DEFINE w2 == [w EXCEPT !.in_task_queue = Append(@, Task(a))]
           st2 == [st EXCEPT ![a] = "task"]
           pos2 == [pos EXCEPT ![a] = 0]
<1>2. /\ w \in WatcherType /\ Queues(w, st, pos) /\ Placed(t, st, pos)
      /\ Traffic(w, l, p, st, pos) /\ Outputs(w, s, x, st, pos)
  BY <1>1 DEF Consistent
<1>3. a \in Assign /\ st[a] = "trail"
  BY <1>2 DEF Placed
<1>4. Goes(st, pos, a, "task", 0, st2, pos2)
  BY <1>3 DEF Goes, Stage
<1>5. Task(a) \in Request /\ Task(a).as = a /\ Task(a).watcherId = 0
  BY <1>3, RequestMade DEF Task, ReadType
<1> HIDE DEF st2, pos2
<1>6. /\ w2 \in WatcherType
      /\ w2.in_task_queue = Append(w.in_task_queue, Task(a))
      /\ w2.waiting_read_meta_queue = w.waiting_read_meta_queue
      /\ w2.waiting_read_watcher_queue = w.waiting_read_watcher_queue
      /\ w2.waiting_value_watcher_queue = w.waiting_value_watcher_queue
      /\ w2.waiting_process_queue = w.waiting_process_queue
      /\ w2.out_memory_read_queue = w.out_memory_read_queue
      /\ w2.in_memory_resp_queue = w.in_memory_resp_queue
      /\ w2.out_send_queue = w.out_send_queue
      /\ w2.out_write_watcher_list_queue = w.out_write_watcher_list_queue
      /\ w2.outgoing_read_watcher_data = w.outgoing_read_watcher_data
      /\ w2.outgoing_read_watcher_value = w.outgoing_read_watcher_value
      /\ w2.num_inflight_request = w.num_inflight_request
  <2>1. Append(w.in_task_queue, Task(a)) \in Seq(Request)
    BY <1>2, <1>5, AppendElements DEF WatcherType
  <2> QED BY <1>2, <2>1 DEF WatcherType
<1> HIDE DEF w2
<1>7. Queues(w2, st2, pos2)
  <2>1. InStage(Append(w.in_task_queue, Task(a)), "task", st2, pos2)
    BY <1>2, <1>3, <1>4, <1>5, StageJoined DEF Queues
  <2>2. /\ InStage(w.waiting_read_meta_queue, "meta", st2, pos2)
        /\ InStage(w.waiting_read_watcher_queue, "list", st2, pos2)
        /\ InStage(w.waiting_value_watcher_queue, "value", st2, pos2)
        /\ InStage(w.waiting_process_queue, "process", st2, pos2)
    BY <1>2, <1>3, <1>4, StageKept DEF Queues
  <2> QED BY <1>6, <2>1, <2>2 DEF Queues
<1>8. Placed(t \ {a}, st2, pos2)
  <2>1. \A b \in Assign : /\ st2[b] = IF b = a THEN "task" ELSE st[b]
                          /\ pos2[b] = IF b = a THEN 0 ELSE pos[b]
    BY <1>4, Moved
  <2>2. \A b \in Assign : b \in t \ {a} <=> st2[b] = "trail"
    BY <1>2, <2>1 DEF Placed
  <2>3. Positions(st2, pos2)
    BY <1>2, <2>1 DEF Placed, Positions
  <2> QED BY <1>2, <2>2, <2>3 DEF Placed
<1>9. Traffic(w2, l, p, st2, pos2)
  <2>1. "task" \in Idle /\ st[a] \in Idle
    BY <1>3 DEF Idle
  <2>2. Keeps(w, w2) /\ w2.num_inflight_request = w.num_inflight_request
    BY <1>6 DEF Keeps
  <2>3. Traffic(w, l, p, st, pos)
    BY <1>2
  <2>4. \A y \in ReadsOf(w, l, p) : y.as # a
    BY <1>2, <1>3, RequestFields, Types DEF Traffic, Reads, ReadOf
  <2> QED BY <1>4, <2>1, <2>2, <2>3, <2>4, KeepReads
<1>10. Outputs(w2, s, x, st2, pos2)
  <2>1. Processed(a, st2, pos2) = Processed(a, st, pos)
    BY <1>3, <1>4, Moved DEF Processed
  <2> QED BY <1>2, <1>4, <1>6, <2>1, OutputsMoved
<1>11. Consistent(w2, l, p, t \ {a}, s, x, st2, pos2)
  BY <1>6, <1>7, <1>8, <1>9, <1>10 DEF Consistent
<1> QED BY <1>4, <1>11, Moved DEF Good, w2

\* Reads go on, from the unit to the memory or from the memory to the unit.
LEMMA TrafficOnward ==
  ASSUME NEW w, NEW l, NEW p, NEW t, NEW s, NEW x, Good(w, l, p, t, s, x),
         NEW w2, NEW l2, NEW p2, NEW o \in Seq(Request), NEW i \in Seq(Request),
         w2 = [w EXCEPT !.out_memory_read_queue = o, !.in_memory_resp_queue = i],
         OnPath(Request, NoValue, Before, o, l2, p2, i),
         UnderWay(o, l2, p2, i) = ReadsOf(w, l, p)
  PROVE  Good(w2, l2, p2, t, s, x)
<1>1. PICK st \in [Assign -> Stage], pos \in [Assign -> Nat] :
        Consistent(w, l, p, t, s, x, st, pos)
  BY DEF Good
<1>2. /\ w \in WatcherType /\ Queues(w, st, pos) /\ Placed(t, st, pos)
      /\ Traffic(w, l, p, st, pos) /\ Outputs(w, s, x, st, pos)
  BY <1>1 DEF Consistent
<1>3. /\ w2 \in WatcherType
      /\ w2.out_memory_read_queue = o
      /\ w2.in_memory_resp_queue = i
      /\ w2.in_task_queue = w.in_task_queue
      /\ w2.waiting_read_meta_queue = w.waiting_read_meta_queue
      /\ w2.waiting_read_watcher_queue = w.waiting_read_watcher_queue
      /\ w2.waiting_value_watcher_queue = w.waiting_value_watcher_queue
      /\ w2.waiting_process_queue = w.waiting_process_queue
      /\ w2.out_send_queue = w.out_send_queue
      /\ w2.out_write_watcher_list_queue = w.out_write_watcher_list_queue
      /\ w2.outgoing_read_watcher_data = w.outgoing_read_watcher_data
      /\ w2.outgoing_read_watcher_value = w.outgoing_read_watcher_value
      /\ w2.num_inflight_request = w.num_inflight_request
  BY <1>2 DEF WatcherType
<1>4. Path(w2, l2, p2) /\ ReadsOf(w2, l2, p2) = ReadsOf(w, l, p)
  BY <1>3 DEF Path, ReadsOf
<1>5. Traffic(w2, l2, p2, st, pos)
  <2>1. Reads(ReadsOf(w2, l2, p2), st, pos) /\ Counters(w, ReadsOf(w2, l2, p2), st)
    BY <1>2, <1>4 DEF Traffic
  <2>2. Counters(w2, ReadsOf(w2, l2, p2), st)
    BY <1>3, <2>1 DEF Counters
  <2> QED BY <1>4, <2>1, <2>2 DEF Traffic
<1>6. Queues(w2, st, pos) /\ Outputs(w2, s, x, st, pos)
  BY <1>2, <1>3 DEF Queues, Outputs
<1>7. Consistent(w2, l2, p2, t, s, x, st, pos)
  BY <1>2, <1>3, <1>5, <1>6 DEF Consistent
<1> QED BY <1>7 DEF Good

\* The hooks between the unit and its memories
LEMMA MemoryStep ==
  ASSUME IInv
  PROVE  /\ WatcherToMemory => IInv'
         /\ \A req \in l3 : MemoryToWatcher(req) => IInv'
         /\ PrivateCacheToWatcher => IInv'
<1> DEFINE w == watcher
           o == w.out_memory_read_queue
           i == w.in_memory_resp_queue
<1>1. PICK st \in [Assign -> Stage], pos \in [Assign -> Nat] :
        Consistent(w, l3, pcache, trail, sent, written, st, pos)
  BY DEF IInv, Good
<1>2. /\ w \in WatcherType /\ OnPath(Request, NoValue, Before, o, l3, pcache, i)
      /\ o \in Seq(Request) /\ i \in Seq(Request) /\ pcache \in Seq(Request)
      /\ l3 \subseteq Request
      /\ ReadsOf(w, l3, pcache) = UnderWay(o, l3, pcache, i)
  BY <1>1 DEF Consistent, Traffic, Path, OnPath, ReadsOf
<1>3. Good(w, l3, pcache, trail, sent, written)
  BY DEF IInv
<1>4. FreeIn(Request, NoValue, Before)
  BY BeforeIsAhead
<1> HIDE DEF w, o, i
<1>5. ASSUME WatcherToMemory PROVE IInv'
  <2> DEFINE o2 == Tail(o)
  <2>1. /\ o # <<>> /\ watcher' = [w EXCEPT !.out_memory_read_queue = o2]
        /\ trail' = trail /\ sent' = sent /\ written' = written
    BY <1>5 DEF WatcherToMemory, w, o
  <2>2. o2 \in Seq(Request) /\ Head(o) \in Request
    BY <1>2, <2>1, TailElements
  <2>3. watcher' = [w EXCEPT !.out_memory_read_queue = o2, !.in_memory_resp_queue = i]
    BY <1>2, <2>1, <2>2 DEF WatcherType, i
  <2>4. CASE Head(o).type = Value
    <3>1. pcache' = Append(pcache, Head(o)) /\ l3' = l3
      BY <1>5, <2>4 DEF WatcherToMemory, Value, w, o
    <3>2. /\ OnPath(Request, NoValue, Before, o2, l3', pcache', i)
          /\ UnderWay(o2, l3', pcache', i) = ReadsOf(w, l3, pcache)
      BY <1>2, <2>1, <3>1, PathToPrivate
    <3> HIDE DEF o2
    <3> QED BY <1>2, <1>3, <2>1, <2>2, <2>3, <3>2, TrafficOnward DEF IInv
  <2>5. CASE Head(o).type # Value
    <3>1. pcache' = pcache /\ l3' = With(l3, Head(o))
      BY <1>5, <2>5 DEF WatcherToMemory, With, Value, w, o
    <3>2. Head(o) \in NoValue
      BY <2>2, <2>5 DEF NoValue
    <3>3. /\ OnPath(Request, NoValue, Before, o2, l3', pcache', i)
          /\ UnderWay(o2, l3', pcache', i) = ReadsOf(w, l3, pcache)
      BY <1>2, <2>1, <3>1, <3>2, PathToL3
    <3> HIDE DEF o2
    <3> QED BY <1>2, <1>3, <2>1, <2>2, <2>3, <3>3, TrafficOnward DEF IInv
  <2> QED BY <2>4, <2>5
<1>6. ASSUME NEW req \in l3, MemoryToWatcher(req) PROVE IInv'
  <2> DEFINE i2 == Append(i, req)
  <2>1. /\ watcher' = [w EXCEPT !.in_memory_resp_queue = i2]
        /\ pcache' = pcache /\ l3' = l3 \ {req}
        /\ trail' = trail /\ sent' = sent /\ written' = written
    BY <1>6 DEF MemoryToWatcher, w, i
  <2>2. i2 \in Seq(Request)
    BY <1>2, AppendElements
  <2>3. watcher' = [w EXCEPT !.out_memory_read_queue = o, !.in_memory_resp_queue = i2]
    BY <1>2, <2>1, <2>2 DEF WatcherType, o
  <2>4. /\ OnPath(Request, NoValue, Before, o, l3', pcache', i2)
        /\ UnderWay(o, l3', pcache', i2) = ReadsOf(w, l3, pcache)
    BY <1>2, <1>4, <2>1, PathFromL3
  <2> HIDE DEF i2
  <2> QED BY <1>2, <1>3, <2>1, <2>2, <2>3, <2>4, TrafficOnward DEF IInv
<1>7. ASSUME PrivateCacheToWatcher PROVE IInv'
  <2> DEFINE i2 == Append(i, Head(pcache))
  <2>1. /\ watcher' = [w EXCEPT !.in_memory_resp_queue = i2]
        /\ pcache # <<>> /\ pcache' = Tail(pcache) /\ l3' = l3
        /\ trail' = trail /\ sent' = sent /\ written' = written
    BY <1>7 DEF PrivateCacheToWatcher, w, i
  <2>2. i2 \in Seq(Request)
    BY <1>2, <2>1, AppendElements, TailElements
  <2>3. watcher' = [w EXCEPT !.out_memory_read_queue = o, !.in_memory_resp_queue = i2]
    BY <1>2, <2>1, <2>2 DEF WatcherType, o
  <2>4. /\ OnPath(Request, NoValue, Before, o, l3', pcache', i2)
        /\ UnderWay(o, l3', pcache', i2) = ReadsOf(w, l3, pcache)
    BY <1>2, <2>1, PathFromPrivate
  <2> HIDE DEF i2
  <2> QED BY <1>2, <1>3, <2>1, <2>2, <2>3, <2>4, TrafficOnward DEF IInv
<1> QED BY <1>5, <1>6, <1>7

\* A hook takes the head of an output queue.
LEMMA OutputTaken ==
  ASSUME NEW X, NEW q, OutQueue(X, q), q # <<>>
  PROVE  /\ OutQueue(X \cup {Head(q)}, Tail(q))
         /\ \A a : OutIds(a, X \cup {Head(q)}, Tail(q)) = OutIds(a, X, q)
<1>1. /\ Tail(q) \in Seq(Request) /\ IsInjective(Tail(q)) /\ Head(q) \notin Range(Tail(q))
      /\ Range(Tail(q)) = Range(q) \ {Head(q)}
  BY InjectiveTail DEF OutQueue
<1>2. Head(q) \in Range(q) /\ Head(q) \in Request
  BY RangeElements DEF OutQueue
<1>3. (X \cup {Head(q)}) \cup Range(Tail(q)) = X \cup Range(q)
  BY <1>1, <1>2
<1>4. OutQueue(X \cup {Head(q)}, Tail(q))
  BY <1>1, <1>2 DEF OutQueue
<1> QED BY <1>3, <1>4 DEF OutIds

\* The hooks that take the unit's outputs
LEMMA OutputStep ==
  ASSUME IInv
  PROVE  /\ WatcherToClause => IInv'
         /\ WatcherToWriteUnit => IInv'
<1> DEFINE w == watcher
           w2 == watcher'
<1>1. PICK st \in [Assign -> Stage], pos \in [Assign -> Nat] :
        Consistent(w, l3, pcache, trail, sent, written, st, pos)
  BY DEF IInv, Good
<1>2. /\ w \in WatcherType /\ Queues(w, st, pos) /\ Placed(trail, st, pos)
      /\ Traffic(w, l3, pcache, st, pos) /\ Outputs(w, sent, written, st, pos)
  BY <1>1 DEF Consistent
<1> HIDE DEF w, w2
<1>3. ASSUME WatcherToClause PROVE IInv'
  <2> DEFINE q == w.out_send_queue
  <2>1. /\ q # <<>> /\ w2 = [w EXCEPT !.out_send_queue = Tail(q)]
        /\ sent' = sent \cup {Head(q)}
        /\ l3' = l3 /\ pcache' = pcache /\ trail' = trail /\ written' = written
    BY <1>3 DEF WatcherToClause, w, w2
  <2>2. OutQueue(sent, q)
    BY <1>2 DEF Outputs
  <2> HIDE DEF q
  <2>3. /\ OutQueue(sent', Tail(q)) /\ Tail(q) \in Seq(Request)
        /\ \A a : OutIds(a, sent', Tail(q)) = OutIds(a, sent, q)
    <3>1. /\ OutQueue(sent', Tail(q)) /\ \A a : OutIds(a, sent', Tail(q)) = OutIds(a, sent, q)
      BY <2>1, <2>2, OutputTaken
    <3> QED BY <3>1 DEF OutQueue
  <2>4. /\ w2 \in WatcherType
        /\ w2.out_send_queue = Tail(q)
        /\ w2.in_task_queue = w.in_task_queue
        /\ w2.waiting_read_meta_queue = w.waiting_read_meta_queue
        /\ w2.waiting_read_watcher_queue = w.waiting_read_watcher_queue
        /\ w2.waiting_value_watcher_queue = w.waiting_value_watcher_queue
        /\ w2.waiting_process_queue = w.waiting_process_queue
        /\ w2.out_memory_read_queue = w.out_memory_read_queue
        /\ w2.in_memory_resp_queue = w.in_memory_resp_queue
        /\ w2.out_write_watcher_list_queue = w.out_write_watcher_list_queue
        /\ w2.outgoing_read_watcher_data = w.outgoing_read_watcher_data
        /\ w2.outgoing_read_watcher_value = w.outgoing_read_watcher_value
        /\ w2.num_inflight_request = w.num_inflight_request
    BY <1>2, <2>1, <2>3 DEF WatcherType
  <2>5. Outputs(w2, sent', written, st, pos)
    BY <1>2, <2>3, <2>4 DEF Outputs, q
  <2>6. Queues(w2, st, pos) /\ Traffic(w2, l3, pcache, st, pos)
    BY <1>2, <2>4 DEF Queues, Traffic, Path, ReadsOf, Counters
  <2>7. Consistent(w2, l3', pcache', trail', sent', written', st, pos)
    BY <1>2, <2>1, <2>4, <2>5, <2>6 DEF Consistent
  <2> QED BY <2>7 DEF IInv, Good, w2
<1>4. ASSUME WatcherToWriteUnit PROVE IInv'
  <2> DEFINE q == w.out_write_watcher_list_queue
  <2>1. /\ q # <<>> /\ w2 = [w EXCEPT !.out_write_watcher_list_queue = Tail(q)]
        /\ written' = written \cup {Head(q)}
        /\ l3' = l3 /\ pcache' = pcache /\ trail' = trail /\ sent' = sent
    BY <1>4 DEF WatcherToWriteUnit, w, w2
  <2>2. OutQueue(written, q)
    BY <1>2 DEF Outputs
  <2> HIDE DEF q
  <2>3. /\ OutQueue(written', Tail(q)) /\ Tail(q) \in Seq(Request)
        /\ \A a : OutIds(a, written', Tail(q)) = OutIds(a, written, q)
    <3>1. /\ OutQueue(written', Tail(q)) /\ \A a : OutIds(a, written', Tail(q)) = OutIds(a, written, q)
      BY <2>1, <2>2, OutputTaken
    <3> QED BY <3>1 DEF OutQueue
  <2>4. /\ w2 \in WatcherType
        /\ w2.out_write_watcher_list_queue = Tail(q)
        /\ w2.in_task_queue = w.in_task_queue
        /\ w2.waiting_read_meta_queue = w.waiting_read_meta_queue
        /\ w2.waiting_read_watcher_queue = w.waiting_read_watcher_queue
        /\ w2.waiting_value_watcher_queue = w.waiting_value_watcher_queue
        /\ w2.waiting_process_queue = w.waiting_process_queue
        /\ w2.out_memory_read_queue = w.out_memory_read_queue
        /\ w2.in_memory_resp_queue = w.in_memory_resp_queue
        /\ w2.out_send_queue = w.out_send_queue
        /\ w2.outgoing_read_watcher_data = w.outgoing_read_watcher_data
        /\ w2.outgoing_read_watcher_value = w.outgoing_read_watcher_value
        /\ w2.num_inflight_request = w.num_inflight_request
    BY <1>2, <2>1, <2>3 DEF WatcherType
  <2>5. Outputs(w2, sent, written', st, pos)
    BY <1>2, <2>3, <2>4 DEF Outputs, q
  <2>6. Queues(w2, st, pos) /\ Traffic(w2, l3, pcache, st, pos)
    BY <1>2, <2>4 DEF Queues, Traffic, Path, ReadsOf, Counters
  <2>7. Consistent(w2, l3', pcache', trail', sent', written', st, pos)
    BY <1>2, <2>1, <2>4, <2>5, <2>6 DEF Consistent
  <2> QED BY <2>7 DEF IInv, Good, w2
<1> QED BY <1>3, <1>4

-----------------------------------------------------------------------------
(* The theorems                                                             *)

\* At the start every list is on the trail and nothing is under way.
LEMMA InitGood == Init => IInv
<1> SUFFICES ASSUME Init PROVE IInv
  OBVIOUS
<1> DEFINE st == [a \in Assign |-> "trail"]
           pos == [a \in Assign |-> 0]
           w == NewWatcher
<1>1. /\ watcher = w /\ l3 = {} /\ pcache = <<>> /\ trail = Assign /\ sent = {} /\ written = {}
  BY DEF Init
<1>2. st \in [Assign -> Stage] /\ pos \in [Assign -> Nat]
  BY DEF Stage
<1>3. \A a \in Assign : st[a] = "trail" /\ pos[a] = 0
  OBVIOUS
<1> HIDE DEF st, pos
<1>4. w \in WatcherType
  BY DEF NewWatcher, WatcherType
<1>5. Queues(w, st, pos)
  <2>1. /\ InStage(<<>>, "task", st, pos) /\ InStage(<<>>, "meta", st, pos)
        /\ InStage(<<>>, "list", st, pos) /\ InStage(<<>>, "value", st, pos)
        /\ InStage(<<>>, "process", st, pos)
    BY <1>3, StageEmpty DEF InStage
  <2> QED BY <2>1 DEF Queues, NewWatcher
<1>6. Placed(Assign, st, pos)
  BY <1>3 DEF Placed, Positions
<1>7. Range(<<>>) = {} /\ IsInjective(<<>>) /\ <<>> \in Seq(Request) /\ DOMAIN <<>> = {}
  BY DEF Range, IsInjective
<1>8. Path(w, {}, <<>>) /\ ReadsOf(w, {}, <<>>) = {}
  BY <1>7 DEF Path, ReadsOf, OnPath, UnderWay, Ordered, AllBefore, NewWatcher
<1>9. Traffic(w, {}, <<>>, st, pos)
  <2>1. Reads({}, st, pos)
    BY <1>3 DEF Reads
  <2>2. Active(st) = {} /\ OfType({}, Data) = {} /\ OfType({}, Value) = {}
    BY <1>3 DEF Active, Idle, OfType
  <2>3. Counters(w, {}, st)
    BY <2>2, FS_EmptySet DEF Counters, NewWatcher
  <2> QED BY <1>8, <2>1, <2>3 DEF Traffic
<1>10. Outputs(w, {}, {}, st, pos)
  <2>1. \A a \in Assign : Processed(a, st, pos) = {}
    BY <1>3 DEF Processed
  <2>2. \A a : OutIds(a, {}, <<>>) = {}
    BY <1>7 DEF OutIds, Ids
  <2>3. OutQueue({}, <<>>)
    BY <1>7 DEF OutQueue
  <2> QED BY <2>1, <2>2, <2>3 DEF Outputs, NewWatcher
<1>11. Consistent(w, {}, <<>>, Assign, {}, {}, st, pos)
  BY <1>4, <1>5, <1>6, <1>9, <1>10 DEF Consistent
<1> QED BY <1>1, <1>2, <1>11 DEF IInv, Good

\* do_cycle takes its six steps one after the other.
LEMMA CycleStep ==
  ASSUME NEW w, NEW l, NEW p, NEW t, NEW s, NEW x, Good(w, l, p, t, s, x)
  PROVE  Good(DoCycle(w), l, p, t, s, x)
<1> DEFINE w1 == FromWatcherMetaToMemory(w)
           w2 == FromValueToOutMem(w1)
           w3 == FromProcessToOut(w2)
           w4 == FromReadWatcherToMem(w3)
           w5 == FromInToRead(w4)
           w6 == FromRespToInsider(w5)
<1>1. Good(w1, l, p, t, s, x)
  BY MetaStep
<1> HIDE DEF w1
<1>2. Good(w2, l, p, t, s, x)
  BY <1>1, ValueStep
<1> HIDE DEF w2
<1>3. Good(w3, l, p, t, s, x)
  BY <1>2, ProcessStep
<1> HIDE DEF w3
<1>4. Good(w4, l, p, t, s, x)
  BY <1>3, ListStep
<1> HIDE DEF w4
<1>5. Good(w5, l, p, t, s, x)
  BY <1>4, InStep
<1> HIDE DEF w5
<1>6. Good(w6, l, p, t, s, x)
  BY <1>5, RespStep
<1> HIDE DEF w6
<1>7. DoCycle(w) = w6
  BY Zenon DEF DoCycle, w1, w2, w3, w4, w5, w6
<1> QED BY <1>6, <1>7

\* Every step of the unit and of its neighbours keeps the invariant.
LEMMA NextKeepsIInv == IInv /\ [Next]_vars => IInv'
<1> SUFFICES ASSUME IInv, [Next]_vars PROVE IInv'
  OBVIOUS
<1>1. ASSUME NEW a \in Assign, TrailToWatcher(a) PROVE IInv'
  <2>1. /\ a \in trail /\ watcher' = [watcher EXCEPT !.in_task_queue = Append(@, Task(a))]
        /\ trail' = trail \ {a}
        /\ l3' = l3 /\ pcache' = pcache /\ sent' = sent /\ written' = written
    BY <1>1 DEF TrailToWatcher
  <2>2. Good([watcher EXCEPT !.in_task_queue = Append(@, Task(a))],
             l3, pcache, trail \ {a}, sent, written)
    BY <2>1, TrailStep DEF IInv
  <2> QED BY <2>1, <2>2, Zenon DEF IInv
<1>2. ASSUME NEW req \in l3, MemoryToWatcher(req) PROVE IInv'
  BY <1>2, MemoryStep
<1>3. CASE WatcherToMemory
  BY <1>3, MemoryStep
<1>4. CASE PrivateCacheToWatcher
  BY <1>4, MemoryStep
<1>5. CASE WatcherToClause
  BY <1>5, OutputStep
<1>6. CASE WatcherToWriteUnit
  BY <1>6, OutputStep
<1>7. CASE Cycle
  <2>1. Good(DoCycle(watcher), l3, pcache, trail, sent, written)
    BY CycleStep DEF IInv
  <2> QED BY <1>7, <2>1 DEF Cycle, IInv
<1>8. CASE UNCHANGED vars
  BY <1>8 DEF vars, IInv
<1> QED BY <1>1, <1>2, <1>3, <1>4, <1>5, <1>6, <1>7, <1>8 DEF Next

\* The invariant holds in every state of every behaviour.
LEMMA WatcherInvariant == Spec => []IInv
BY InitGood, NextKeepsIInv, PTL DEF Spec

\* What the invariant says of the state, for one choice of stages and indices.
LEMMA Unfolded ==
  ASSUME IInv
  PROVE  \E st \in [Assign -> Stage], pos \in [Assign -> Nat] :
           /\ watcher \in WatcherType /\ Queues(watcher, st, pos) /\ Placed(trail, st, pos)
           /\ Path(watcher, l3, pcache) /\ Reads(ReadsOf(watcher, l3, pcache), st, pos)
           /\ Counters(watcher, ReadsOf(watcher, l3, pcache), st)
           /\ Outputs(watcher, sent, written, st, pos)
BY DEF IInv, Good, Consistent, Traffic

\* The reads of a type, as the properties name them
LEMMA OutstandingIs ==
  \A y : Outstanding(y) = OfType(ReadsOf(watcher, l3, pcache), y)
BY DEF Outstanding, OfType, ReadsOf, UnderWay

\* The outputs, as the properties name them
LEMMA OutIdsAre ==
  \A a : /\ Written(a) = OutIds(a, written, watcher.out_write_watcher_list_queue)
         /\ Sent(a) = OutIds(a, sent, watcher.out_send_queue)
BY DEF Written, Sent, OutIds, Ids

\* The requests in the queue of a stage, and the lists at that stage
LEMMA StageElement ==
  ASSUME NEW st, NEW pos, NEW q, NEW k, InStage(q, k, st, pos)
  PROVE  /\ q \in Seq(Request)
         /\ \A n \in DOMAIN q : /\ q[n] \in Request /\ q[n].as \in Assign
                               /\ AsOf[q[n]] = q[n].as /\ st[q[n].as] = k
         /\ \A a \in Assign : st[a] = k <=> \E n \in DOMAIN q : q[n].as = a
         /\ \A m, n \in DOMAIN q : AsOf[q[m]] = AsOf[q[n]] => m = n
<1>1. /\ q \in Seq(Request)
      /\ \A a \in Assign : st[a] = k <=> \E n \in DOMAIN q : AsOf[q[n]] = a
      /\ \A m, n \in DOMAIN q : AsOf[q[m]] = AsOf[q[n]] => m = n
  BY DEF InStage, StageQueue
<1>2. \A n \in DOMAIN q : q[n] \in Request
  BY <1>1, RangeElements
<1>3. \A n \in DOMAIN q : q[n].as \in Assign /\ AsOf[q[n]] = q[n].as
  BY <1>2, RequestFields
<1> QED BY <1>1, <1>2, <1>3

\* Queue q holds one request for each list at one of the stages K, and no other.
Holds(q, K, st) ==
  /\ q \in Seq(Request)
  /\ DistinctKeys(AsOf, q)
  /\ \A r \in Range(q) : st[r.as] \in K
  /\ \A a \in Assign : st[a] \in K => \E r \in Range(q) : r.as = a

\* So does the queue of one stage.
LEMMA HoldsStage ==
  ASSUME NEW st, NEW pos, NEW q, NEW k, InStage(q, k, st, pos)
  PROVE  Holds(q, {k}, st)
BY StageElement DEF Holds, Range, DistinctKeys

\* So do the queues of different stages, one after the other.
LEMMA HoldsConcat ==
  ASSUME NEW st, NEW q, NEW t, NEW J, NEW K, Holds(q, J, st), Holds(t, K, st), J \cap K = {}
  PROVE  Holds(q \o t, J \cup K, st)
<1>1. q \in Seq(Request) /\ t \in Seq(Request)
  BY DEF Holds
<1>2. Range(q \o t) = Range(q) \cup Range(t)
  BY <1>1, RangeConcat
<1>3. NoKeyInBoth(AsOf, q, t)
  <2> SUFFICES \A m \in DOMAIN q, n \in DOMAIN t : AsOf[q[m]] # AsOf[t[n]]
    BY DEF NoKeyInBoth
  <2> TAKE m \in DOMAIN q, n \in DOMAIN t
  <2>1. q[m] \in Range(q) /\ t[n] \in Range(t) /\ q[m] \in Request /\ t[n] \in Request
    BY <1>1, RangeElements
  <2>2. st[q[m].as] \in J /\ st[t[n].as] \in K
    BY <2>1 DEF Holds
  <2>3. AsOf[q[m]] = q[m].as /\ AsOf[t[n]] = t[n].as
    BY <2>1, RequestFields
  <2> QED BY <2>2, <2>3
<1>4. q \o t \in Seq(Request) /\ DistinctKeys(AsOf, q \o t)
  <2>1. DistinctKeys(AsOf, q) /\ DistinctKeys(AsOf, t)
    BY DEF Holds
  <2> QED BY <1>1, <1>3, <2>1, StageConcat
<1> QED BY <1>2, <1>4 DEF Holds

\* The four waiting queues
WaitStage == {"meta", "list", "value", "process"}
LEMMA WaitingLists ==
  ASSUME NEW st, NEW pos, Queues(watcher, st, pos)
  PROVE  Holds(Waiting, WaitStage, st)
<1> DEFINE q1 == watcher.waiting_read_meta_queue
           q2 == watcher.waiting_read_watcher_queue
           q3 == watcher.waiting_value_watcher_queue
           q4 == watcher.waiting_process_queue
<1>1. /\ Holds(q1, {"meta"}, st) /\ Holds(q2, {"list"}, st)
      /\ Holds(q3, {"value"}, st) /\ Holds(q4, {"process"}, st)
  BY HoldsStage DEF Queues
<1>2. Waiting = ((q1 \o q2) \o q3) \o q4
  BY DEF Waiting
<1> HIDE DEF q1, q2, q3, q4
<1>3. Holds(q1 \o q2, {"meta"} \cup {"list"}, st)
  BY <1>1, HoldsConcat
<1>4. Holds((q1 \o q2) \o q3, ({"meta"} \cup {"list"}) \cup {"value"}, st)
  BY <1>1, <1>3, HoldsConcat
<1>5. Holds(((q1 \o q2) \o q3) \o q4, (({"meta"} \cup {"list"}) \cup {"value"}) \cup {"process"}, st)
  BY <1>1, <1>4, HoldsConcat
<1>6. (({"meta"} \cup {"list"}) \cup {"value"}) \cup {"process"} = WaitStage
  BY DEF WaitStage
<1> QED BY <1>2, <1>5, <1>6

\* A list is started when it has left the task queue, and retired when its last
\* watcher has been processed, or, if it is empty, when nothing is left of it.
Lives(st) ==
  \A a \in Assign : /\ Started(a) <=> st[a] \notin {"trail", "task"}
                    /\ Started(a) => (Retired(a) <=> st[a] = "done")
LEMMA Lifetime ==
  ASSUME IInv
  PROVE  \E st \in [Assign -> Stage], pos \in [Assign -> Nat] :
           /\ Counters(watcher, ReadsOf(watcher, l3, pcache), st)
           /\ Outputs(watcher, sent, written, st, pos) /\ Lives(st)
<1>1. PICK st \in [Assign -> Stage], pos \in [Assign -> Nat] :
        /\ Queues(watcher, st, pos) /\ Placed(trail, st, pos)
        /\ Reads(ReadsOf(watcher, l3, pcache), st, pos)
        /\ Counters(watcher, ReadsOf(watcher, l3, pcache), st)
        /\ Outputs(watcher, sent, written, st, pos)
  BY Unfolded
<1> SUFFICES ASSUME NEW a \in Assign
             PROVE  /\ Started(a) <=> st[a] \notin {"trail", "task"}
                    /\ Started(a) => (Retired(a) <=> st[a] = "done")
  BY <1>1 DEF Lives
<1> DEFINE R == ReadsOf(watcher, l3, pcache)
           n == get_watcher_size[a]
<1>2. n \in Nat /\ pos[a] \in Nat /\ st[a] \in Stage
  BY WatcherAssumption
<1>3. Started(a) <=> st[a] \notin {"trail", "task"}
  <2>1. InStage(watcher.in_task_queue, "task", st, pos)
    BY <1>1 DEF Queues
  <2>2. st[a] = "task" <=> \E k \in DOMAIN watcher.in_task_queue : watcher.in_task_queue[k].as = a
    BY <2>1, StageElement
  <2> QED BY <1>1, <2>2 DEF Started, Placed
<1> HIDE DEF R, n
<1>4. CASE n > 0
  <2>1. Written(a) = Processed(a, st, pos)
    BY <1>1, OutIdsAre DEF Outputs
  <2>2. Retired(a) <=> n - 1 \in Processed(a, st, pos)
    BY <1>4, <2>1 DEF Retired, n
  <2>3. st[a] = "process" => pos[a] < n
    BY <1>1 DEF Placed, Positions, n
  <2>4. n - 1 \in Processed(a, st, pos) <=> st[a] = "done"
    BY <1>2, <1>4, <2>3 DEF Processed, n
  <2> QED BY <1>3, <2>2, <2>4
<1>5. CASE n = 0
  <2>1. \A y : Outstanding(y) = OfType(R, y)
    BY OutstandingIs DEF R
  <2>2. UNION {Outstanding(y) : y \in ReadType} = R
    <3>1. \A r \in R : r.type \in ReadType
      BY <1>1, RequestFields DEF Reads, ReadOf, R
    <3> QED BY <2>1, <3>1 DEF OfType
  <2>3. Retired(a) <=> \A r \in Range(Waiting) \cup R : r.as # a
    BY <1>2, <1>5, <2>2 DEF Retired, n
  <2>4. Holds(Waiting, WaitStage, st)
    BY <1>1, WaitingLists
  <2>5. ASSUME st[a] = "done" PROVE Retired(a)
    <3>1. \A r \in Range(Waiting) : r.as # a
      BY <2>4, <2>5 DEF Holds, WaitStage
    <3>2. ASSUME NEW r \in R, r.as = a PROVE FALSE
      <4>1. ReadOf(r, st, pos) /\ r \in Request
        BY <1>1 DEF Reads, ReadOf, R
      <4>2. r.watcherId \in Nat /\ Size(r) = 0 /\ r.type \in {Meta, Data, Value}
        BY <1>5, <3>2, <4>1, RequestFields, Types DEF n
      <4>3. ~(r.watcherId < Size(r))
        BY <4>2
      <4> QED BY <2>5, <3>2, <4>1, <4>2, <4>3 DEF ReadOf
    <3> QED BY <2>3, <3>1, <3>2
  <2>6. ASSUME st[a] \in WaitStage PROVE ~Retired(a)
    BY <2>3, <2>4, <2>6 DEF Holds
  <2>7. ASSUME st[a] = "metaread" PROVE ~Retired(a)
    <3>1. MetaRead(a) \in R /\ MetaRead(a).as = a
      BY <1>1, <2>7 DEF Reads, MetaRead, R
    <3> QED BY <2>3, <3>1
  <2>8. st[a] \notin {"listread", "valueread"}
    BY <1>1, <1>2, <1>5 DEF Placed, Positions, n
  <2> QED BY <1>2, <1>3, <2>5, <2>6, <2>7, <2>8 DEF Stage, WaitStage
<1> QED BY <1>2, <1>3, <1>4, <1>5

\* Every request in every queue, on every path, names an existing watcher of
\* an existing list, and the counters are numbers.
THEOREM WatcherTypeOK == Spec => []TypeOK
<1>1. IInv => TypeOK
  <2> SUFFICES ASSUME IInv PROVE TypeOK
    OBVIOUS
  <2>1. PICK st \in [Assign -> Stage], pos \in [Assign -> Nat] :
          /\ watcher \in WatcherType /\ Placed(trail, st, pos) /\ Path(watcher, l3, pcache)
          /\ Outputs(watcher, sent, written, st, pos)
    BY Unfolded
  <2>2. l3 \subseteq Request /\ pcache \in Seq(Request)
    BY <2>1 DEF Path, OnPath
  <2>3. trail \subseteq Assign /\ sent \subseteq Request /\ written \subseteq Request
    BY <2>1 DEF Placed, Outputs, OutQueue
  <2> QED BY <2>1, <2>2, <2>3, Zenon DEF TypeOK, WatcherType
<1> QED BY <1>1, WatcherInvariant, PTL

\* The counters of outgoing reads are the numbers of reads under way, so the
\* asserts of from_resp_to_insider hold.
THEOREM WatcherCounts == Spec => []OutgoingCountsExact
<1>1. IInv => OutgoingCountsExact
  <2> SUFFICES ASSUME IInv PROVE OutgoingCountsExact
    OBVIOUS
  <2>1. PICK st \in [Assign -> Stage] : Counters(watcher, ReadsOf(watcher, l3, pcache), st)
    BY Unfolded
  <2> QED BY <2>1, OutstandingIs DEF Counters, OutgoingCountsExact, Data, Value
<1> QED BY <1>1, WatcherInvariant, PTL

\* A list is processed only when all its values are back.
THEOREM WatcherProcess == Spec => []ProcessAfterValues
<1>1. IInv => ProcessAfterValues
  <2> SUFFICES ASSUME IInv, NEW n \in DOMAIN watcher.waiting_process_queue,
                      NEW r \in Outstanding("ReadWatcherValue")
               PROVE  r.as # watcher.waiting_process_queue[n].as
    BY DEF ProcessAfterValues
  <2>1. PICK st \in [Assign -> Stage], pos \in [Assign -> Nat] :
          Queues(watcher, st, pos) /\ Reads(ReadsOf(watcher, l3, pcache), st, pos)
    BY Unfolded
  <2>2. r \in ReadsOf(watcher, l3, pcache) /\ r.type = Value
    BY OutstandingIs DEF OfType, Value
  <2>3. st[r.as] # "process"
    BY <2>1, <2>2, Types DEF Reads, ReadOf
  <2>4. InStage(watcher.waiting_process_queue, "process", st, pos)
    BY <2>1 DEF Queues
  <2>5. st[watcher.waiting_process_queue[n].as] = "process"
    BY <2>4, StageElement
  <2> QED BY <2>3, <2>5
<1> QED BY <1>1, WatcherInvariant, PTL

\* "waiting_value_watcher_queue only contain each assign once": no list waits
\* twice, in one queue or in two.
THEOREM WatcherOnce == Spec => []EachAssignOnce
<1>1. IInv => EachAssignOnce
  <2> SUFFICES ASSUME IInv PROVE EachAssignOnce
    OBVIOUS
  <2>1. PICK st \in [Assign -> Stage], pos \in [Assign -> Nat] : Queues(watcher, st, pos)
    BY Unfolded
  <2>2. /\ Waiting \in Seq(Request)
        /\ \A m, n \in DOMAIN Waiting : AsOf[Waiting[m]] = AsOf[Waiting[n]] => m = n
    BY <2>1, WaitingLists DEF Holds, DistinctKeys
  <2>3. \A n \in DOMAIN Waiting : AsOf[Waiting[n]] = Waiting[n].as
    BY <2>2, RangeElements, RequestFields
  <2> QED BY <2>2, <2>3 DEF EachAssignOnce
<1> QED BY <1>1, WatcherInvariant, PTL

\* num_inflight_request is the number of lists that have been started and are
\* not yet retired.
THEOREM WatcherInflight == Spec => []InflightExact
<1>1. IInv => InflightExact
  <2> SUFFICES ASSUME IInv PROVE InflightExact
    OBVIOUS
  <2>1. PICK st \in [Assign -> Stage], pos \in [Assign -> Nat] :
          Counters(watcher, ReadsOf(watcher, l3, pcache), st) /\ Lives(st)
    BY Lifetime
  <2>2. {a \in Assign : Started(a) /\ ~Retired(a)} = Active(st)
    BY <2>1 DEF Active, Idle, Lives
  <2> QED BY <2>1, <2>2 DEF Counters, InflightExact
<1> QED BY <1>1, WatcherInvariant, PTL

\* Each watcher of a list is written once, its clause is sent once if it must
\* be read and never otherwise, and all of them are when the list is retired.
THEOREM WatcherWatchersOnce == Spec => []WatchersOnce
<1>1. IInv => WatchersOnce
  <2> SUFFICES ASSUME IInv PROVE WatchersOnce
    OBVIOUS
  <2>1. PICK st \in [Assign -> Stage], pos \in [Assign -> Nat] :
          Outputs(watcher, sent, written, st, pos) /\ Lives(st)
    BY Lifetime
  <2>2. \A a \in Assign : Written(a) = Processed(a, st, pos)
    BY <2>1, OutIdsAre DEF Outputs
  <2>3. \A a \in Assign : Sent(a) = {i \in Processed(a, st, pos) : <<a, i>> \in is_read_clause}
    BY <2>1, OutIdsAre DEF Outputs
  <2>4. /\ OutQueue(written, watcher.out_write_watcher_list_queue)
        /\ OutQueue(sent, watcher.out_send_queue)
    BY <2>1 DEF Outputs
  <2>5. \A a \in Assign : Retired(a) /\ Started(a) => Written(a) = 0 .. get_watcher_size[a] - 1
    BY <2>1, <2>2 DEF Processed, Lives
  <2> QED BY <2>2, <2>3, <2>4, <2>5 DEF OutQueue, WatchersOnce
<1> QED BY <1>1, WatcherInvariant, PTL
=============================================================================
