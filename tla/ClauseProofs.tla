----------------------------- MODULE ClauseProofs -----------------------------
(***************************************************************************)
(* Proofs about one clause unit, for any set of clauses, any lengths and   *)
(* any line size, as long as a last line finds room in the value queue.    *)
(***************************************************************************)
EXTENDS Clause, UnitLemmas

Data == "ReadClauseData"
Value == "ReadClauseValue"

\* mem_in_to_comp finds room in clause_value_read_waiting_queue for the clause
\* whose last line it takes.  Run clause_full shows what happens otherwise.
LineFits(c) ==
  /\ c.in_memory_resp_queue # <<>>
  /\ Head(c.in_memory_resp_queue).type = Data
  /\ LastLine(Head(c.in_memory_resp_queue))
  => Len(c.clause_value_read_waiting_queue) < data_size
LastLineFits == LineFits(clause)

-----------------------------------------------------------------------------
(* The inductive invariant                                                  *)

\* The stages of a clause: not yet sent, in one of the four queues, or between
\* two of them with its last line or its last value under way.
Stage == {"todo", "task", "data", "dataread", "value", "valueread", "process", "done"}

\* st is the stage of each clause, pos the index of its request.
KeyOf == [r \in Request |-> ClauseOf(r)]
IdOf == [r \in Request |-> r.clauseId]
InStage(q, k, st, pos) == StageQueue(Watched, Request, KeyOf, IdOf, q, k, st, pos)
Queues(c, st, pos) ==
  /\ InStage(c.in_task_queue, "task", st, pos)
  /\ InStage(c.clause_data_read_waiting_queue, "data", st, pos)
  /\ InStage(c.clause_value_read_waiting_queue, "value", st, pos)
  /\ InStage(c.clause_process_waiting_queue, "process", st, pos)

\* The clauses the watchers have not sent yet
Placed(t, st) == t \subseteq Watched /\ \A w \in Watched : w \in t <=> st[w] = "todo"

\* A read r under way, and the clause it belongs to.  Lines may still be on
\* their way when the clause is long done; the last line ends the stage of the
\* lines, the last value that of the values.
ReadOf(r, st, pos) ==
  /\ r \in Request /\ r.type \in {Data, Value}
  /\ r.type = Data =>
       /\ st[ClauseOf(r)] \in {"data", "dataread", "value", "valueread", "process", "done"}
       /\ st[ClauseOf(r)] = "data" => r.clauseId + LineSize <= pos[ClauseOf(r)]
       /\ LastLine(r) => st[ClauseOf(r)] = "dataread"
  /\ r.type = Value =>
       /\ st[ClauseOf(r)] \in {"value", "valueread"}
       /\ st[ClauseOf(r)] = "value" => r.clauseId < pos[ClauseOf(r)]
       /\ LastValue(r) => st[ClauseOf(r)] = "valueread"

\* Two lines of a clause do not overlap.
Apart(r, s) ==
  r.type = Data /\ s.type = Data /\ ClauseOf(r) = ClauseOf(s) /\ r # s
    => r.clauseId + LineSize <= s.clauseId \/ s.clauseId + LineSize <= r.clauseId
Reads(R, st, pos) ==
  (\A r \in R : ReadOf(r, st, pos)) /\ (\A r, s \in R : Apart(r, s))

\* Only the values of a clause come back in the order in which they are read.
Ahead(r, s) ==
  r.type = Value /\ s.type = Value /\ ClauseOf(r) = ClauseOf(s) => r.clauseId < s.clauseId
Before == {x \in Request \X Request : Ahead(x[1], x[2])}
NoValue == {r \in Request : r.type # Value}
Path(c, l, p) ==
  OnPath(Request, NoValue, Before, c.out_memory_read_queue, l, p, c.in_memory_resp_queue)
ReadsOf(c, l, p) == UnderWay(c.out_memory_read_queue, l, p, c.in_memory_resp_queue)

\* The counters
Idle == {"todo", "task", "done"}
Active(st) == {w \in Watched : st[w] \notin Idle}
Ongoing(c, l, p) == IsFiniteSet(l) /\ c.on_going_requests = Cardinality(l) + Len(p)
Inflight(c, st) ==
  IsFiniteSet(Active(st)) /\ c.current_inflight_request = Cardinality(Active(st))

\* All about the reads
Traffic(c, l, p, st, pos) ==
  Path(c, l, p) /\ Reads(ReadsOf(c, l, p), st, pos) /\ Ongoing(c, l, p)

\* Each clause that is done is written once, with its last index.
OutQueue(X, q) ==
  X \subseteq Request /\ q \in Seq(Request) /\ IsInjective(q) /\ X \cap Range(q) = {}
OutWrites(X, st) ==
  /\ \A r \in X : st[ClauseOf(r)] = "done" /\ r.clauseId = Size(r) - 1
  /\ \A w \in Watched : st[w] = "done" => \E r \in X : ClauseOf(r) = w

\* Each clause that is done and has become unit has yielded one assignment.
Made(a, st) == {w \in Watched : get_generated[w] = a /\ st[w] = "done"}
TasksFor(a) == {t \in NewTask : t.as = a}
OutTasks(g, o, st) ==
  /\ g \in Seq(Assign) /\ o \in Seq(NewTask)
  /\ \A a \in Assign :
       /\ IsFiniteSet(Made(a, st))
       /\ Count({a}, g) + Count(TasksFor(a), o) = Cardinality(Made(a, st))
Outputs(c, g, x, st) ==
  /\ OutQueue(x, c.out_clause_write_queue)
  /\ OutWrites(x \cup Range(c.out_clause_write_queue), st)
  /\ OutTasks(g, c.out_queue, st)

ClauseType ==
  [in_task_queue : Seq(Request), clause_data_read_waiting_queue : Seq(Request),
   clause_value_read_waiting_queue : Seq(Request),
   clause_process_waiting_queue : Seq(Request),
   out_memory_read_queue : Seq(Request), in_memory_resp_queue : Seq(Request),
   out_queue : Seq(NewTask), out_clause_write_queue : Seq(Request),
   on_going_requests : Int, current_inflight_request : Int]

Consistent(c, l, p, t, g, x, st, pos) ==
  /\ c \in ClauseType
  /\ Queues(c, st, pos) /\ Placed(t, st) /\ Traffic(c, l, p, st, pos) /\ Inflight(c, st)
  /\ Outputs(c, g, x, st)

Good(c, l, p, t, g, x) ==
  \E st \in [Watched -> Stage], pos \in [Watched -> Nat] : Consistent(c, l, p, t, g, x, st, pos)

IInv == Good(clause, l3, pcache, todo, produced, written)

-----------------------------------------------------------------------------
(* Requests                                                                 *)

\* The fields of a request
LEMMA RequestFields ==
  ASSUME NEW r \in Request
  PROVE  /\ ClauseOf(r) \in Watched /\ r.clauseId \in Nat /\ r.type \in AccessType
         /\ r.as = ClauseOf(r)[1] /\ r.watcherId = ClauseOf(r)[2]
         /\ r = [as |-> ClauseOf(r)[1], watcherId |-> ClauseOf(r)[2],
                 clauseId |-> r.clauseId, type |-> r.type]
         /\ Size(r) \in Nat /\ Size(r) = get_clause_literal[ClauseOf(r)]
         /\ r.clauseId < Size(r)
         /\ KeyOf[r] = ClauseOf(r) /\ IdOf[r] = r.clauseId
<1>1. PICK w \in Watched : r \in [as : {w[1]}, watcherId : {w[2]},
                                  clauseId : 0 .. get_clause_literal[w] - 1, type : AccessType]
  BY DEF Request
<1>2. /\ r.as = w[1] /\ r.watcherId = w[2] /\ r.type \in AccessType
      /\ r.clauseId \in 0 .. get_clause_literal[w] - 1
      /\ r = [as |-> w[1], watcherId |-> w[2], clauseId |-> r.clauseId, type |-> r.type]
  BY <1>1
<1>3. w = <<w[1], w[2]>> /\ get_clause_literal[w] \in Nat
  BY ClauseAssumption
<1>4. ClauseOf(r) = w
  BY <1>2, <1>3 DEF ClauseOf
<1>5. r.clauseId \in Nat /\ r.clauseId < get_clause_literal[w]
  BY <1>2, <1>3
<1> QED BY <1>2, <1>3, <1>4, <1>5 DEF Size, KeyOf, IdOf

\* The request for literal n of clause w
Req(w, n, k) == [as |-> w[1], watcherId |-> w[2], clauseId |-> n, type |-> k]
LEMMA RequestMade ==
  ASSUME NEW w \in Watched, NEW n \in Nat, n < get_clause_literal[w], NEW k \in AccessType
  PROVE  /\ Req(w, n, k) \in Request /\ ClauseOf(Req(w, n, k)) = w
         /\ Req(w, n, k).clauseId = n /\ Req(w, n, k).type = k
<1>1. w = <<w[1], w[2]>> /\ get_clause_literal[w] \in Nat
  BY ClauseAssumption
<1>2. n \in 0 .. get_clause_literal[w] - 1
  BY <1>1
<1> QED BY <1>1, <1>2 DEF Req, Request, ClauseOf

\* What the steps write into a request
LEMMA RequestEdited ==
  ASSUME NEW r \in Request, NEW n, NEW k
  PROVE  /\ [r EXCEPT !.type = k] = Req(ClauseOf(r), r.clauseId, k)
         /\ [r EXCEPT !.clauseId = n] = Req(ClauseOf(r), n, r.type)
<1>1. PICK a, i, m, y : r = [as |-> a, watcherId |-> i, clauseId |-> m, type |-> y]
  BY RequestFields
<1>2. /\ [r EXCEPT !.type = k] = [as |-> a, watcherId |-> i, clauseId |-> m, type |-> k]
      /\ [r EXCEPT !.clauseId = n] = [as |-> a, watcherId |-> i, clauseId |-> n, type |-> y]
  BY <1>1
<1>3. r.as = a /\ r.watcherId = i /\ r.clauseId = m /\ r.type = y
  BY <1>1
<1>4. ClauseOf(r)[1] = a /\ ClauseOf(r)[2] = i
  BY <1>3, RequestFields
<1> QED BY <1>2, <1>3, <1>4, Zenon DEF Req

\* A request that starts again with the first literal
Restarted(r, k) == [r EXCEPT !.type = k, !.clauseId = 0]
LEMMA RequestRestarted ==
  ASSUME NEW r \in Request, NEW k \in AccessType
  PROVE  /\ Restarted(r, k) \in Request /\ ClauseOf(Restarted(r, k)) = ClauseOf(r)
         /\ Restarted(r, k).clauseId = 0 /\ Restarted(r, k).type = k
<1> DEFINE w == ClauseOf(r)
<1>1. Restarted(r, k) = Req(w, 0, k)
  <2>1. PICK a, i, m, y : r = [as |-> a, watcherId |-> i, clauseId |-> m, type |-> y]
    BY RequestFields
  <2>2. w[1] = a /\ w[2] = i
    BY <2>1 DEF ClauseOf
  <2>3. [r EXCEPT !.type = k] = [as |-> a, watcherId |-> i, clauseId |-> m, type |-> k]
    BY <2>1
  <2>4. [[as |-> a, watcherId |-> i, clauseId |-> m, type |-> k] EXCEPT !.clauseId = 0]
          = [as |-> a, watcherId |-> i, clauseId |-> 0, type |-> k]
    OBVIOUS
  <2> HIDE DEF w
  <2> QED BY <2>2, <2>3, <2>4, Zenon DEF Restarted, Req
<1>2. w \in Watched /\ 0 \in Nat /\ 0 < get_clause_literal[w]
  BY RequestFields
<1> HIDE DEF w
<1>3. /\ Req(w, 0, k) \in Request /\ ClauseOf(Req(w, 0, k)) = w
      /\ Req(w, 0, k).clauseId = 0 /\ Req(w, 0, k).type = k
  BY <1>2, RequestMade
<1> QED BY <1>1, <1>3 DEF w

\* The key of a request is its clause.
LEMMA KeyType == KeyOf \in [Request -> Watched]
BY RequestFields DEF KeyOf

\* The types of the reads are different.
LEMMA Types == Data # Value /\ Data \in AccessType /\ Value \in AccessType
BY DEF Data, Value, AccessType

\* The order of the reads, as UnitLemmas needs it
LEMMA BeforeIsAhead ==
  /\ \A r, s \in Request : <<r, s>> \in Before <=> Ahead(r, s)
  /\ FreeIn(Request, NoValue, Before)
<1>1. \A r, s \in Request : <<r, s>> \in Before <=> Ahead(r, s)
  BY DEF Before
<1>2. \A r \in Request \cap NoValue, s \in Request : Ahead(r, s) /\ Ahead(s, r)
  BY DEF NoValue, Ahead
<1> QED BY <1>1, <1>2 DEF FreeIn

\* A line holds at least one literal, and a clause has at least one.
LEMMA LineSizeType ==
  /\ LineSize \in Nat /\ LineSize >= 1
  /\ \A w \in Watched : get_clause_literal[w] \in Nat /\ get_clause_literal[w] >= 1
BY ClauseAssumption

-----------------------------------------------------------------------------
(* What a step of one clause leaves as it was                               *)

\* One clause w goes to stage n, with index m.
Goes(st, pos, w, n, m, st2, pos2) ==
  /\ st \in [Watched -> Stage] /\ pos \in [Watched -> Nat]
  /\ w \in Watched /\ n \in Stage /\ m \in Nat
  /\ st2 = [st EXCEPT ![w] = n] /\ pos2 = [pos EXCEPT ![w] = m]

\* What that says, clause by clause
LEMMA Moved ==
  ASSUME NEW st, NEW pos, NEW w, NEW n, NEW m, NEW st2, NEW pos2,
         Goes(st, pos, w, n, m, st2, pos2)
  PROVE  /\ w \in Watched /\ n \in Stage /\ m \in Nat
         /\ st2 \in [Watched -> Stage] /\ pos2 \in [Watched -> Nat]
         /\ st2[w] = n /\ pos2[w] = m
         /\ \A b \in Watched : b # w => st2[b] = st[b] /\ pos2[b] = pos[b]
BY DEF Goes

\* The clauses that are not sent yet
LEMMA PlacedMoved ==
  ASSUME NEW st, NEW pos, NEW w, NEW n, NEW m, NEW st2, NEW pos2,
         Goes(st, pos, w, n, m, st2, pos2), NEW t, Placed(t, st),
         st[w] # "todo", n # "todo"
  PROVE  Placed(t, st2)
<1>1. \A b \in Watched : st2[b] = IF b = w THEN n ELSE st[b]
  BY Moved
<1> QED BY <1>1 DEF Placed

\* The reads of the other clauses keep their relation to their clauses.
LEMMA ReadsMoved ==
  ASSUME NEW st, NEW pos, NEW w, NEW n, NEW m, NEW st2, NEW pos2,
         Goes(st, pos, w, n, m, st2, pos2), NEW R, NEW R2,
         Reads(R, st, pos),
         \A r \in R2 : ClauseOf(r) # w => r \in R,
         \A r \in R2 : ClauseOf(r) = w => ReadOf(r, st2, pos2),
         \A r, s \in R2 : ClauseOf(r) = w /\ ClauseOf(s) = w => Apart(r, s)
  PROVE  Reads(R2, st2, pos2)
<1>1. \A b \in Watched : b # w => st2[b] = st[b] /\ pos2[b] = pos[b]
  BY Moved
<1>2. ASSUME NEW r \in R2 PROVE ReadOf(r, st2, pos2)
  <2>1. CASE ClauseOf(r) = w
    BY <2>1
  <2>2. CASE ClauseOf(r) # w
    <3>1. r \in R /\ ReadOf(r, st, pos)
      BY <2>2 DEF Reads
    <3>2. ClauseOf(r) \in Watched
      BY <3>1, RequestFields DEF ReadOf
    <3> QED BY <1>1, <2>2, <3>1, <3>2 DEF ReadOf
  <2> QED BY <2>1, <2>2
<1>3. ASSUME NEW r \in R2, NEW s \in R2 PROVE Apart(r, s)
  <2>1. CASE ClauseOf(r) = w /\ ClauseOf(s) = w
    BY <2>1
  <2>2. CASE ClauseOf(r) # ClauseOf(s)
    BY <2>2 DEF Apart
  <2>3. CASE ClauseOf(r) # w /\ ClauseOf(s) # w
    BY <2>3 DEF Reads
  <2> QED BY <2>1, <2>2, <2>3
<1> QED BY <1>2, <1>3 DEF Reads

\* The outputs belong to the clauses that are done.
LEMMA OutputsMoved ==
  ASSUME NEW st, NEW pos, NEW w, NEW n, NEW m, NEW st2, NEW pos2,
         Goes(st, pos, w, n, m, st2, pos2), st[w] # "done", n # "done",
         NEW c, NEW c2, NEW g, NEW x, Outputs(c, g, x, st),
         c2.out_queue = c.out_queue, c2.out_clause_write_queue = c.out_clause_write_queue
  PROVE  Outputs(c2, g, x, st2)
<1>1. \A b \in Watched : st2[b] = "done" <=> st[b] = "done"
  BY Moved
<1>2. \A a : Made(a, st2) = Made(a, st)
  BY <1>1 DEF Made
<1>3. OutTasks(g, c.out_queue, st2)
  BY <1>2 DEF Outputs, OutTasks
<1>4. OutWrites(x \cup Range(c.out_clause_write_queue), st2)
  <2> DEFINE X == x \cup Range(c.out_clause_write_queue)
  <2>1. X \subseteq Request /\ OutWrites(X, st)
    BY RangeElements DEF Outputs, OutQueue
  <2>2. \A r \in X : ClauseOf(r) \in Watched
    BY <2>1, RequestFields
  <2> HIDE DEF X
  <2>3. OutWrites(X, st2)
    BY <1>1, <2>1, <2>2 DEF OutWrites
  <2> QED BY <2>3 DEF X
<1> QED BY <1>3, <1>4 DEF Outputs

\* A clause that is between its first and its last step is counted.
LEMMA InflightMoved ==
  ASSUME NEW st, NEW pos, NEW w, NEW n, NEW m, NEW st2, NEW pos2,
         Goes(st, pos, w, n, m, st2, pos2), NEW c, NEW c2, Inflight(c, st),
         \/ n \in Idle /\ st[w] \notin Idle
              /\ c2.current_inflight_request = c.current_inflight_request - 1
         \/ n \notin Idle /\ st[w] \in Idle
              /\ c2.current_inflight_request = c.current_inflight_request + 1
         \/ (n \in Idle <=> st[w] \in Idle)
              /\ c2.current_inflight_request = c.current_inflight_request
  PROVE  Inflight(c2, st2)
<1>1. /\ \A b \in Watched : st2[b] = IF b = w THEN n ELSE st[b]
      /\ w \in Watched
  BY Moved
<1>2. IsFiniteSet(Active(st)) /\ c.current_inflight_request = Cardinality(Active(st))
  BY DEF Inflight
<1>3. CASE n \in Idle /\ st[w] \notin Idle
  <2>1. Active(st2) = Active(st) \ {w} /\ w \in Active(st)
    BY <1>1, <1>3 DEF Active
  <2>2. /\ IsFiniteSet(Active(st) \ {w})
        /\ Cardinality(Active(st) \ {w}) = Cardinality(Active(st)) - 1
    BY <1>2, <2>1, FS_RemoveElement
  <2> QED BY <1>2, <1>3, <2>1, <2>2 DEF Inflight
<1>4. CASE n \notin Idle /\ st[w] \in Idle
  <2>1. Active(st2) = Active(st) \cup {w} /\ w \notin Active(st)
    BY <1>1, <1>4 DEF Active
  <2>2. /\ IsFiniteSet(Active(st) \cup {w})
        /\ Cardinality(Active(st) \cup {w}) = Cardinality(Active(st)) + 1
    BY <1>2, <2>1, FS_AddElement
  <2> QED BY <1>2, <1>4, <2>1, <2>2 DEF Inflight
<1>5. CASE n \in Idle <=> st[w] \in Idle
  <2>1. Active(st2) = Active(st)
    BY <1>1, <1>5 DEF Active
  <2> QED BY <1>2, <1>5, <2>1 DEF Inflight
<1> QED BY <1>3, <1>4, <1>5

-----------------------------------------------------------------------------
(* The reads                                                                *)

\* What the steps do to the queues of reads: read r is sent, the oldest answer r
\* is taken, nothing happens.
Sends(c, c2, r) ==
  /\ r \in Request
  /\ c2.out_memory_read_queue = Append(c.out_memory_read_queue, r)
  /\ c2.in_memory_resp_queue = c.in_memory_resp_queue
  /\ c2.on_going_requests = c.on_going_requests
Takes(c, c2, r) ==
  /\ c.in_memory_resp_queue # <<>> /\ r = Head(c.in_memory_resp_queue)
  /\ c2.out_memory_read_queue = c.out_memory_read_queue
  /\ c2.in_memory_resp_queue = Tail(c.in_memory_resp_queue)
  /\ c2.on_going_requests = c.on_going_requests
Keeps(c, c2) ==
  /\ c2.out_memory_read_queue = c.out_memory_read_queue
  /\ c2.in_memory_resp_queue = c.in_memory_resp_queue
  /\ c2.on_going_requests = c.on_going_requests

\* A read is sent that is not under way yet.
LEMMA ReadSent ==
  ASSUME NEW c, NEW c2, NEW l, NEW p, NEW r, Path(c, l, p), Sends(c, c2, r),
         \A y \in ReadsOf(c, l, p) : y \in Request /\ y # r /\ Ahead(y, r)
  PROVE  Path(c2, l, p) /\ ReadsOf(c2, l, p) = ReadsOf(c, l, p) \cup {r}
<1> DEFINE o == c.out_memory_read_queue
           i == c.in_memory_resp_queue
           R == ReadsOf(c, l, p)
<1>1. OnPath(Request, NoValue, Before, o, l, p, i) /\ R = UnderWay(o, l, p, i)
  BY DEF Path, ReadsOf
<1>2. \A y \in R : <<y, r>> \in Before
  BY BeforeIsAhead DEF Sends
<1>3. r \notin R /\ r \in Request
  BY DEF Sends
<1> HIDE DEF o, i, R
<1>4. /\ OnPath(Request, NoValue, Before, Append(o, r), l, p, i)
      /\ UnderWay(Append(o, r), l, p, i) = R \cup {r}
  BY <1>1, <1>2, <1>3, PathSend
<1> QED BY <1>4 DEF Path, ReadsOf, Sends, o, i, R

Without(R, r) == R \ {r}

\* The oldest answer is taken.
LEMMA ReadTaken ==
  ASSUME NEW c, NEW c2, NEW l, NEW p, NEW r, Path(c, l, p), Takes(c, c2, r)
  PROVE  /\ Path(c2, l, p) /\ ReadsOf(c2, l, p) = Without(ReadsOf(c, l, p), r)
         /\ r \in ReadsOf(c, l, p) /\ r \in Request
         /\ \A y \in ReadsOf(c, l, p) : y \in Request
         /\ \A y \in Without(ReadsOf(c, l, p), r) : Ahead(r, y)
<1> DEFINE o == c.out_memory_read_queue
           i == c.in_memory_resp_queue
           R == ReadsOf(c, l, p)
<1>1. OnPath(Request, NoValue, Before, o, l, p, i) /\ R = UnderWay(o, l, p, i)
  BY DEF Path, ReadsOf
<1>2. i # <<>> /\ r = Head(i)
  BY DEF Takes
<1>3. \A y \in R : y \in Request
  <2>1. Range(o) \subseteq Request /\ Range(p) \subseteq Request /\ Range(i) \subseteq Request
    BY <1>1, RangeElements DEF OnPath
  <2> QED BY <1>1, <2>1 DEF OnPath, UnderWay
<1> HIDE DEF o, i, R
<1>4. /\ OnPath(Request, NoValue, Before, o, l, p, Tail(i))
      /\ UnderWay(o, l, p, Tail(i)) = R \ {r} /\ r \in R /\ r \in Request
      /\ \A y \in R \ {r} : <<r, y>> \in Before
  <2>1. FreeIn(Request, NoValue, Before)
    BY BeforeIsAhead
  <2>2. /\ OnPath(Request, NoValue, Before, o, l, p, Tail(i))
        /\ Head(i) \in UnderWay(o, l, p, i) /\ Head(i) \in Request
        /\ UnderWay(o, l, p, Tail(i)) = UnderWay(o, l, p, i) \ {Head(i)}
        /\ \A y \in UnderWay(o, l, p, Tail(i)) : <<Head(i), y>> \in Before
    BY <1>1, <1>2, <2>1, PathTake
  <2> QED BY <1>1, <1>2, <2>2, Zenon
<1>5. \A y \in R \ {r} : Ahead(r, y)
  BY <1>3, <1>4, BeforeIsAhead
<1> QED BY <1>3, <1>4, <1>5 DEF Path, ReadsOf, Takes, Without, o, i, R

\* A clause that sends a read.
LEMMA SendRead ==
  ASSUME NEW st, NEW pos, NEW w, NEW n, NEW m, NEW st2, NEW pos2,
         Goes(st, pos, w, n, m, st2, pos2),
         NEW c, NEW c2, NEW l, NEW p, Traffic(c, l, p, st, pos), NEW r, Sends(c, c2, r),
         ClauseOf(r) = w, ReadOf(r, st2, pos2),
         \A y \in ReadsOf(c, l, p) : ClauseOf(y) = w =>
            y # r /\ ReadOf(y, st2, pos2) /\ Ahead(y, r) /\ Apart(y, r) /\ Apart(r, y)
  PROVE  Traffic(c2, l, p, st2, pos2)
<1> DEFINE R == ReadsOf(c, l, p)
           R2 == R \cup {r}
<1>1. Path(c, l, p) /\ Reads(R, st, pos) /\ Ongoing(c, l, p)
  BY DEF Traffic
<1>2. \A y \in R : y \in Request /\ y # r /\ Ahead(y, r)
  BY <1>1 DEF Reads, ReadOf, Ahead
<1>3. Path(c2, l, p) /\ ReadsOf(c2, l, p) = R2
  BY <1>1, <1>2, ReadSent
<1> HIDE DEF R
<1>4. Reads(R2, st2, pos2)
  <2>1. /\ \A y \in R2 : ClauseOf(y) # w => y \in R
        /\ \A y \in R2 : ClauseOf(y) = w => ReadOf(y, st2, pos2)
    BY DEF R
  <2>2. Apart(r, r)
    BY DEF Apart
  <2>3. \A y, z \in R2 : ClauseOf(y) = w /\ ClauseOf(z) = w => Apart(y, z)
    BY <1>1, <2>2 DEF Reads, R
  <2> HIDE DEF R2
  <2> QED BY <1>1, <2>1, <2>3, ReadsMoved
<1> QED BY <1>1, <1>3, <1>4 DEF Traffic, Ongoing, Sends

\* A clause that takes the answer to one of its reads.
LEMMA TakeRead ==
  ASSUME NEW st, NEW pos, NEW w, NEW n, NEW m, NEW st2, NEW pos2,
         Goes(st, pos, w, n, m, st2, pos2),
         NEW c, NEW c2, NEW l, NEW p, Traffic(c, l, p, st, pos), NEW r, Takes(c, c2, r),
         \A y \in Without(ReadsOf(c, l, p), r) : ClauseOf(y) = w => ReadOf(y, st2, pos2)
  PROVE  Traffic(c2, l, p, st2, pos2)
<1> DEFINE R == ReadsOf(c, l, p)
           R2 == Without(R, r)
<1>1. Path(c, l, p) /\ Reads(R, st, pos) /\ Ongoing(c, l, p)
  BY DEF Traffic
<1>2. Path(c2, l, p) /\ ReadsOf(c2, l, p) = R2
  BY <1>1, ReadTaken
<1> HIDE DEF R
<1>3. Reads(R2, st2, pos2)
  <2>1. /\ \A y \in R2 : ClauseOf(y) # w => y \in R
        /\ \A y \in R2 : ClauseOf(y) = w => ReadOf(y, st2, pos2)
    BY DEF R, Without
  <2>2. \A y, z \in R2 : ClauseOf(y) = w /\ ClauseOf(z) = w => Apart(y, z)
    BY <1>1 DEF Reads, Without
  <2> HIDE DEF R2
  <2> QED BY <1>1, <2>1, <2>2, ReadsMoved
<1> QED BY <1>1, <1>2, <1>3 DEF Traffic, Ongoing, Takes

\* A clause that sends and takes no read.
LEMMA KeepReads ==
  ASSUME NEW st, NEW pos, NEW w, NEW n, NEW m, NEW st2, NEW pos2,
         Goes(st, pos, w, n, m, st2, pos2),
         NEW c, NEW c2, NEW l, NEW p, Traffic(c, l, p, st, pos), Keeps(c, c2),
         \A y \in ReadsOf(c, l, p) : ClauseOf(y) = w => ReadOf(y, st2, pos2)
  PROVE  Traffic(c2, l, p, st2, pos2)
<1> DEFINE R == ReadsOf(c, l, p)
<1>1. Path(c, l, p) /\ Reads(R, st, pos) /\ Ongoing(c, l, p)
  BY DEF Traffic
<1>2. Path(c2, l, p) /\ ReadsOf(c2, l, p) = R
  BY <1>1 DEF Path, ReadsOf, Keeps
<1>3. Reads(R, st2, pos2)
  <2>1. \A y, z \in R : ClauseOf(y) = w /\ ClauseOf(z) = w => Apart(y, z)
    BY <1>1 DEF Reads
  <2> QED BY <1>1, <2>1, ReadsMoved
<1> QED BY <1>1, <1>2, <1>3 DEF Traffic, Ongoing, Keeps

-----------------------------------------------------------------------------
(* The queues of the stages                                                 *)

\* The request at the head of a stage's queue
LEMMA StageFront ==
  ASSUME NEW st, NEW pos, NEW q, NEW k, InStage(q, k, st, pos), q # <<>>
  PROVE  /\ Head(q) \in Request /\ ClauseOf(Head(q)) \in Watched /\ Head(q).type \in AccessType
         /\ st[ClauseOf(Head(q))] = k /\ pos[ClauseOf(Head(q))] = Head(q).clauseId
         /\ Head(q) = q[1] /\ q \in Seq(Request) /\ Head(q).clauseId \in Nat
         /\ Head(q).clauseId < Size(Head(q)) /\ Size(Head(q)) \in Nat
         /\ Size(Head(q)) = get_clause_literal[ClauseOf(Head(q))]
         /\ Tail(q) \in Seq(Request)
<1>1. /\ Head(q) \in Request /\ Head(q) = q[1] /\ st[KeyOf[Head(q)]] = k
      /\ IdOf[Head(q)] = pos[KeyOf[Head(q)]] /\ q \in Seq(Request)
  BY KeyType, StageHead DEF InStage, StageQueue
<1>2. Tail(q) \in Seq(Request)
  BY <1>1, TailElements
<1> QED BY <1>1, <1>2, RequestFields

\* It leaves the queue, with its clause.
LEMMA StageLeft ==
  ASSUME NEW st, NEW pos, NEW w, NEW n, NEW m, NEW st2, NEW pos2,
         Goes(st, pos, w, n, m, st2, pos2), NEW q, NEW k,
         InStage(q, k, st, pos), q # <<>>, w = ClauseOf(Head(q)), n # k
  PROVE  InStage(Tail(q), k, st2, pos2)
<1>1. KeyOf[Head(q)] = w
  BY StageFront, RequestFields
<1> QED BY <1>1, KeyType, StagePop DEF InStage, Goes

\* A clause joins the queue of its next stage.
LEMMA StageJoined ==
  ASSUME NEW st, NEW pos, NEW w, NEW n, NEW m, NEW st2, NEW pos2,
         Goes(st, pos, w, n, m, st2, pos2), NEW q, NEW k,
         InStage(q, k, st, pos), NEW r \in Request, w = ClauseOf(r), m = r.clauseId,
         st[w] # k, n = k
  PROVE  InStage(Append(q, r), k, st2, pos2)
<1>1. KeyOf[r] = w /\ IdOf[r] = m
  BY RequestFields
<1>2. StageQueue(Watched, Request, KeyOf, IdOf, Append(q, r), k,
                 [st EXCEPT ![KeyOf[r]] = k], [pos EXCEPT ![KeyOf[r]] = IdOf[r]])
  BY <1>1, KeyType, StagePush DEF InStage, Goes
<1> QED BY <1>1, <1>2 DEF InStage, Goes

\* The other queues do not care.
LEMMA StageKept ==
  ASSUME NEW st, NEW pos, NEW w, NEW n, NEW m, NEW st2, NEW pos2,
         Goes(st, pos, w, n, m, st2, pos2), NEW q, NEW k,
         InStage(q, k, st, pos), st[w] # k, n # k
  PROVE  InStage(q, k, st2, pos2)
BY KeyType, StageOther DEF InStage, Goes

\* The clause at the head has dealt with d more literals, and stays.
LEMMA StageAdvanced ==
  ASSUME NEW st, NEW pos, NEW w, NEW n, NEW m, NEW st2, NEW pos2,
         Goes(st, pos, w, n, m, st2, pos2), NEW q, NEW k,
         InStage(q, k, st, pos), q # <<>>, w = ClauseOf(Head(q)), n = k, NEW d \in Nat,
         m = Head(q).clauseId + d, m < get_clause_literal[w]
  PROVE  InStage(Advance(q, d), k, st2, pos2) /\ Advance(q, d) \in Seq(Request)
<1> DEFINE h == Head(q)
           r == [h EXCEPT !.clauseId = m]
<1>1. /\ h \in Request /\ h = q[1] /\ w \in Watched /\ st[w] = k /\ q \in Seq(Request)
      /\ h.clauseId \in Nat /\ h.type \in AccessType
      /\ get_clause_literal[w] \in Nat /\ Size(h) = get_clause_literal[w]
      /\ KeyOf[h] = w
  BY StageFront, RequestFields
<1>2. r = Req(w, m, h.type)
  BY <1>1, RequestEdited
<1>3. r \in Request /\ ClauseOf(r) = w /\ r.clauseId = m
  BY <1>1, <1>2, RequestMade DEF Goes
<1>4. KeyOf[r] = w /\ IdOf[r] = m
  BY <1>3, RequestFields
<1>5. Len(q) \in Nat /\ Len(q) >= 1 /\ DOMAIN q = 1 .. Len(q)
  BY <1>1, TailElements
<1>6. Advance(q, d) = [q EXCEPT ![1] = r]
  <2>1. ~(Head(q).clauseId + d >= Size(Head(q)))
    BY <1>1 DEF Goes
  <2> QED BY <1>1, <1>5, <2>1 DEF Advance
<1> HIDE DEF r
<1>7. StageQueue(Watched, Request, KeyOf, IdOf, [q EXCEPT ![1] = r], k, st,
                 [pos EXCEPT ![KeyOf[r]] = IdOf[r]])
  BY <1>1, <1>3, <1>4, KeyType, StageAdvance DEF InStage, Goes
<1>8. st2 = st /\ pos2 = [pos EXCEPT ![w] = m]
  BY <1>1 DEF Goes
<1> QED BY <1>4, <1>6, <1>7, <1>8 DEF InStage, StageQueue

\* The clause at the head has dealt with its last literals.
LEMMA AdvanceLeaves ==
  ASSUME NEW q, NEW d \in Nat, Head(q).clauseId + d >= Size(Head(q))
  PROVE  Advance(q, d) = Tail(q)
BY DEF Advance

-----------------------------------------------------------------------------
(* The steps of do_cycle                                                    *)

\* clause_value_waiting_to_mem_out
LEMMA ValueStep ==
  ASSUME NEW c, NEW l, NEW p, NEW t, NEW g, NEW x, Good(c, l, p, t, g, x)
  PROVE  Good(ValueWaitingToMemOut(c), l, p, t, g, x)
<1>1. PICK st \in [Watched -> Stage], pos \in [Watched -> Nat] :
        Consistent(c, l, p, t, g, x, st, pos)
  BY DEF Good
<1> DEFINE q == c.clause_value_read_waiting_queue
           c2 == ValueWaitingToMemOut(c)
<1>2. CASE q = <<>>
  BY <1>2 DEF ValueWaitingToMemOut
<1>3. CASE q # <<>>
  <2>1. /\ c \in ClauseType /\ Queues(c, st, pos) /\ Placed(t, st)
        /\ Traffic(c, l, p, st, pos) /\ Inflight(c, st) /\ Outputs(c, g, x, st)
    BY <1>1 DEF Consistent
  <2> DEFINE h == Head(q)
             w == ClauseOf(h)
             i == h.clauseId
             r == [h EXCEPT !.type = "ReadClauseValue"]
             n == IF i + 1 >= get_clause_literal[w] THEN "valueread" ELSE "value"
             st2 == [st EXCEPT ![w] = n]
             pos2 == [pos EXCEPT ![w] = i + 1]
  <2>2. /\ h \in Request /\ w \in Watched /\ st[w] = "value" /\ Tail(q) \in Seq(Request)
        /\ i = pos[w] /\ i \in Nat /\ i + 1 \in Nat
    BY <1>3, <2>1, StageFront, LineSizeType DEF Queues
  <2>3. Goes(st, pos, w, n, i + 1, st2, pos2)
    BY <2>2 DEF Goes, Stage
  <2>4. /\ i < get_clause_literal[w] /\ get_clause_literal[w] \in Nat
        /\ Size(h) = get_clause_literal[w]
    BY <2>2, RequestFields
  <2>5. r \in Request /\ ClauseOf(r) = w /\ r.clauseId = i /\ r.type = Value
    <3>1. r = Req(w, i, Value)
      BY <2>2, RequestEdited DEF Value
    <3>2. i \in Nat /\ w \in Watched /\ i < get_clause_literal[w]
      BY <2>2, <2>4
    <3> HIDE DEF r, i, w, h
    <3>3. /\ Req(w, i, Value) \in Request /\ ClauseOf(Req(w, i, Value)) = w
          /\ Req(w, i, Value).clauseId = i /\ Req(w, i, Value).type = Value
      BY <3>2, RequestMade, Types
    <3> QED BY <3>1, <3>3
  <2>6. c2 = [c EXCEPT !.out_memory_read_queue = Append(@, r),
                       !.clause_value_read_waiting_queue = Advance(@, 1)]
    BY <1>3 DEF ValueWaitingToMemOut
  <2>7. \/ i + 1 >= get_clause_literal[w] /\ n = "valueread"
        \/ i + 1 < get_clause_literal[w] /\ n = "value"
    BY <2>2, <2>4
  <2> HIDE DEF r, c2, n, st2, pos2
  <2>8. Advance(q, 1) \in Seq(Request) /\ InStage(Advance(q, 1), "value", st2, pos2)
    <3>1. InStage(q, "value", st, pos) /\ 1 \in Nat
      BY <2>1, LineSizeType DEF Queues
    <3>2. CASE n = "valueread" /\ i + 1 >= get_clause_literal[w]
      <4>1. Advance(q, 1) = Tail(q)
        BY <2>4, <3>1, <3>2, AdvanceLeaves
      <4>2. InStage(Tail(q), "value", st2, pos2)
        BY <1>3, <2>3, <3>1, <3>2, StageLeft
      <4> QED BY <2>2, <4>1, <4>2
    <3>3. CASE n = "value" /\ i + 1 < get_clause_literal[w]
      BY <1>3, <2>2, <2>3, <3>1, <3>3, StageAdvanced
    <3> QED BY <2>7, <3>2, <3>3
  <2> HIDE DEF w, i, h, q
  <2>9. /\ c2 \in ClauseType
        /\ c2.out_memory_read_queue = Append(c.out_memory_read_queue, r)
        /\ c2.clause_value_read_waiting_queue = Advance(q, 1)
        /\ c2.in_task_queue = c.in_task_queue
        /\ c2.clause_data_read_waiting_queue = c.clause_data_read_waiting_queue
        /\ c2.clause_process_waiting_queue = c.clause_process_waiting_queue
        /\ c2.in_memory_resp_queue = c.in_memory_resp_queue
        /\ c2.out_queue = c.out_queue
        /\ c2.out_clause_write_queue = c.out_clause_write_queue
        /\ c2.on_going_requests = c.on_going_requests
        /\ c2.current_inflight_request = c.current_inflight_request
    <3>1. Append(c.out_memory_read_queue, r) \in Seq(Request) /\ c \in ClauseType
      BY <2>1, <2>5, AppendElements DEF ClauseType
    <3>2. Advance(q, 1) \in Seq(Request) /\ q = c.clause_value_read_waiting_queue
      BY <2>8 DEF q
    <3> QED BY <2>6, <3>1, <3>2 DEF ClauseType
  <2>10. Queues(c2, st2, pos2)
    <3>1. /\ InStage(c.in_task_queue, "task", st2, pos2)
          /\ InStage(c.clause_data_read_waiting_queue, "data", st2, pos2)
          /\ InStage(c.clause_process_waiting_queue, "process", st2, pos2)
      BY <2>1, <2>2, <2>3, <2>7, StageKept DEF Queues
    <3> QED BY <2>8, <2>9, <3>1 DEF Queues
  <2>11. Placed(t, st2)
    BY <2>1, <2>2, <2>3, <2>7, PlacedMoved
  <2>12. Traffic(c2, l, p, st2, pos2)
    <3>1. Sends(c, c2, r) /\ Traffic(c, l, p, st, pos)
      BY <2>1, <2>5, <2>9 DEF Sends
    <3>2. st2[w] = n /\ pos2[w] = i + 1
      BY <2>3, Moved
    <3>3. ReadOf(r, st2, pos2)
      BY <2>2, <2>4, <2>5, <2>7, <3>2, Types, LineSizeType DEF ReadOf, LastValue, Size
    <3>4. ASSUME NEW y \in ReadsOf(c, l, p), ClauseOf(y) = w
          PROVE  y # r /\ ReadOf(y, st2, pos2) /\ Ahead(y, r) /\ Apart(y, r) /\ Apart(r, y)
      <4>1. ReadOf(y, st, pos) /\ y \in Request /\ y.clauseId \in Nat /\ y.type \in {Data, Value}
        BY <3>1, RequestFields DEF Traffic, Reads, ReadOf
      <4>2. CASE y.type = Data
        BY <2>2, <2>5, <2>7, <3>2, <3>4, <4>1, <4>2, Types DEF ReadOf, Ahead, Apart
      <4>3. CASE y.type = Value
        <5>1. y.clauseId < i /\ ~LastValue(y)
          BY <2>2, <3>4, <4>1, <4>3 DEF ReadOf
        <5>2. ReadOf(y, st2, pos2)
          BY <2>2, <2>7, <3>2, <3>4, <4>1, <4>3, <5>1, Types DEF ReadOf
        <5> QED BY <2>2, <2>5, <4>1, <4>3, <5>1, <5>2, Types DEF Ahead, Apart
      <4> QED BY <4>1, <4>2, <4>3
    <3> QED BY <2>3, <2>5, <3>1, <3>3, <3>4, SendRead
  <2>13. Inflight(c2, st2)
    <3>1. n \notin Idle /\ st[w] \notin Idle
      BY <2>2, <2>7 DEF Idle
    <3> QED BY <2>1, <2>3, <2>9, <3>1, InflightMoved
  <2>14. Outputs(c2, g, x, st2)
    BY <2>1, <2>2, <2>3, <2>7, <2>9, OutputsMoved
  <2>15. Consistent(c2, l, p, t, g, x, st2, pos2)
    BY <2>9, <2>10, <2>11, <2>12, <2>13, <2>14 DEF Consistent
  <2> QED BY <2>3, <2>15, Moved DEF Good, c2
<1> QED BY <1>2, <1>3

\* clause_data_waiting_to_mem_out
LEMMA DataStep ==
  ASSUME NEW c, NEW l, NEW p, NEW t, NEW g, NEW x, Good(c, l, p, t, g, x)
  PROVE  Good(DataWaitingToMemOut(c), l, p, t, g, x)
<1>1. PICK st \in [Watched -> Stage], pos \in [Watched -> Nat] :
        Consistent(c, l, p, t, g, x, st, pos)
  BY DEF Good
<1> DEFINE q == c.clause_data_read_waiting_queue
           c2 == DataWaitingToMemOut(c)
<1>2. CASE q = <<>>
  BY <1>2 DEF DataWaitingToMemOut
<1>3. CASE q # <<>>
  <2>1. /\ c \in ClauseType /\ Queues(c, st, pos) /\ Placed(t, st)
        /\ Traffic(c, l, p, st, pos) /\ Inflight(c, st) /\ Outputs(c, g, x, st)
    BY <1>1 DEF Consistent
  <2> DEFINE h == Head(q)
             w == ClauseOf(h)
             i == h.clauseId
             r == [h EXCEPT !.type = "ReadClauseData"]
             n == IF i + LineSize >= get_clause_literal[w] THEN "dataread" ELSE "data"
             st2 == [st EXCEPT ![w] = n]
             pos2 == [pos EXCEPT ![w] = i + LineSize]
  <2>2. /\ h \in Request /\ w \in Watched /\ st[w] = "data" /\ Tail(q) \in Seq(Request)
        /\ i = pos[w] /\ i \in Nat /\ i + LineSize \in Nat
    BY <1>3, <2>1, StageFront, LineSizeType DEF Queues
  <2>3. Goes(st, pos, w, n, i + LineSize, st2, pos2)
    BY <2>2 DEF Goes, Stage
  <2>4. /\ i < get_clause_literal[w] /\ get_clause_literal[w] \in Nat
        /\ Size(h) = get_clause_literal[w]
    BY <2>2, RequestFields
  <2>5. r \in Request /\ ClauseOf(r) = w /\ r.clauseId = i /\ r.type = Data
    <3>1. r = Req(w, i, Data)
      BY <2>2, RequestEdited DEF Data
    <3>2. i \in Nat /\ w \in Watched /\ i < get_clause_literal[w]
      BY <2>2, <2>4
    <3> HIDE DEF r, i, w, h
    <3>3. /\ Req(w, i, Data) \in Request /\ ClauseOf(Req(w, i, Data)) = w
          /\ Req(w, i, Data).clauseId = i /\ Req(w, i, Data).type = Data
      BY <3>2, RequestMade, Types
    <3> QED BY <3>1, <3>3
  <2>6. c2 = [c EXCEPT !.out_memory_read_queue = Append(@, r),
                       !.clause_data_read_waiting_queue = Advance(@, LineSize)]
    BY <1>3 DEF DataWaitingToMemOut
  <2>7. \/ i + LineSize >= get_clause_literal[w] /\ n = "dataread"
        \/ i + LineSize < get_clause_literal[w] /\ n = "data"
    BY <2>2, <2>4
  <2> HIDE DEF r, c2, n, st2, pos2
  <2>8. Advance(q, LineSize) \in Seq(Request) /\ InStage(Advance(q, LineSize), "data", st2, pos2)
    <3>1. InStage(q, "data", st, pos) /\ LineSize \in Nat
      BY <2>1, LineSizeType DEF Queues
    <3>2. CASE n = "dataread" /\ i + LineSize >= get_clause_literal[w]
      <4>1. Advance(q, LineSize) = Tail(q)
        BY <2>4, <3>1, <3>2, AdvanceLeaves
      <4>2. InStage(Tail(q), "data", st2, pos2)
        BY <1>3, <2>3, <3>1, <3>2, StageLeft
      <4> QED BY <2>2, <4>1, <4>2
    <3>3. CASE n = "data" /\ i + LineSize < get_clause_literal[w]
      BY <1>3, <2>2, <2>3, <3>1, <3>3, StageAdvanced
    <3> QED BY <2>7, <3>2, <3>3
  <2> HIDE DEF w, i, h, q
  <2>9. /\ c2 \in ClauseType
        /\ c2.out_memory_read_queue = Append(c.out_memory_read_queue, r)
        /\ c2.clause_data_read_waiting_queue = Advance(q, LineSize)
        /\ c2.in_task_queue = c.in_task_queue
        /\ c2.clause_value_read_waiting_queue = c.clause_value_read_waiting_queue
        /\ c2.clause_process_waiting_queue = c.clause_process_waiting_queue
        /\ c2.in_memory_resp_queue = c.in_memory_resp_queue
        /\ c2.out_queue = c.out_queue
        /\ c2.out_clause_write_queue = c.out_clause_write_queue
        /\ c2.on_going_requests = c.on_going_requests
        /\ c2.current_inflight_request = c.current_inflight_request
    <3>1. Append(c.out_memory_read_queue, r) \in Seq(Request) /\ c \in ClauseType
      BY <2>1, <2>5, AppendElements DEF ClauseType
    <3>2. Advance(q, LineSize) \in Seq(Request) /\ q = c.clause_data_read_waiting_queue
      BY <2>8 DEF q
    <3> QED BY <2>6, <3>1, <3>2 DEF ClauseType
  <2>10. Queues(c2, st2, pos2)
    <3>1. /\ InStage(c.in_task_queue, "task", st2, pos2)
          /\ InStage(c.clause_value_read_waiting_queue, "value", st2, pos2)
          /\ InStage(c.clause_process_waiting_queue, "process", st2, pos2)
      BY <2>1, <2>2, <2>3, <2>7, StageKept DEF Queues
    <3> QED BY <2>8, <2>9, <3>1 DEF Queues
  <2>11. Placed(t, st2)
    BY <2>1, <2>2, <2>3, <2>7, PlacedMoved
  <2>12. Traffic(c2, l, p, st2, pos2)
    <3>1. Sends(c, c2, r) /\ Traffic(c, l, p, st, pos)
      BY <2>1, <2>5, <2>9 DEF Sends
    <3>2. st2[w] = n /\ pos2[w] = i + LineSize
      BY <2>3, Moved
    <3>3. ReadOf(r, st2, pos2)
      BY <2>2, <2>4, <2>5, <2>7, <3>2, Types, LineSizeType DEF ReadOf, LastLine, Size
    <3>4. ASSUME NEW y \in ReadsOf(c, l, p), ClauseOf(y) = w
          PROVE  y # r /\ ReadOf(y, st2, pos2) /\ Ahead(y, r) /\ Apart(y, r) /\ Apart(r, y)
      <4>1. ReadOf(y, st, pos) /\ y \in Request /\ y.clauseId \in Nat /\ y.type \in {Data, Value}
        BY <3>1, RequestFields DEF Traffic, Reads, ReadOf
      <4>2. y.type = Data
        BY <2>2, <3>4, <4>1 DEF ReadOf
      <4>3. y.clauseId + LineSize <= i /\ ~LastLine(y)
        BY <2>2, <3>4, <4>1, <4>2 DEF ReadOf
      <4>4. ReadOf(y, st2, pos2)
        BY <2>2, <2>7, <3>2, <3>4, <4>1, <4>2, <4>3, Types, LineSizeType DEF ReadOf
      <4> QED BY <2>2, <2>5, <4>1, <4>2, <4>3, <4>4, Types, LineSizeType DEF Ahead, Apart
    <3> QED BY <2>3, <2>5, <3>1, <3>3, <3>4, SendRead
  <2>13. Inflight(c2, st2)
    <3>1. n \notin Idle /\ st[w] \notin Idle
      BY <2>2, <2>7 DEF Idle
    <3> QED BY <2>1, <2>3, <2>9, <3>1, InflightMoved
  <2>14. Outputs(c2, g, x, st2)
    BY <2>1, <2>2, <2>3, <2>7, <2>9, OutputsMoved
  <2>15. Consistent(c2, l, p, t, g, x, st2, pos2)
    BY <2>9, <2>10, <2>11, <2>12, <2>13, <2>14 DEF Consistent
  <2> QED BY <2>3, <2>15, Moved DEF Good, c2
<1> QED BY <1>2, <1>3

\* task_to_data_waiting
LEMMA TaskStep ==
  ASSUME NEW c, NEW l, NEW p, NEW t, NEW g, NEW x, Good(c, l, p, t, g, x)
  PROVE  Good(TaskToDataWaiting(c), l, p, t, g, x)
<1>1. PICK st \in [Watched -> Stage], pos \in [Watched -> Nat] :
        Consistent(c, l, p, t, g, x, st, pos)
  BY DEF Good
<1> DEFINE q == c.in_task_queue
           c2 == TaskToDataWaiting(c)
<1>2. CASE q = <<>>
  BY <1>2 DEF TaskToDataWaiting
<1>3. CASE Len(c.clause_data_read_waiting_queue) >= data_size
  BY <1>3 DEF TaskToDataWaiting
<1>4. CASE q # <<>> /\ ~(Len(c.clause_data_read_waiting_queue) >= data_size)
  <2>1. /\ c \in ClauseType /\ Queues(c, st, pos) /\ Placed(t, st)
        /\ Traffic(c, l, p, st, pos) /\ Inflight(c, st) /\ Outputs(c, g, x, st)
    BY <1>1 DEF Consistent
  <2> DEFINE h == Head(q)
             w == ClauseOf(h)
             r == [h EXCEPT !.type = "ReadClauseData", !.clauseId = 0]
             st2 == [st EXCEPT ![w] = "data"]
             pos2 == [pos EXCEPT ![w] = 0]
  <2>2. h \in Request /\ w \in Watched /\ st[w] = "task" /\ Tail(q) \in Seq(Request)
    BY <1>4, <2>1, StageFront DEF Queues
  <2>3. Goes(st, pos, w, "data", 0, st2, pos2)
    BY <2>2 DEF Goes, Stage
  <2>4. r \in Request /\ ClauseOf(r) = w /\ r.clauseId = 0
    <3>1. h \in Request /\ "ReadClauseData" \in AccessType
      BY <2>2 DEF AccessType
    <3> HIDE DEF h, r, w
    <3>2. r = Restarted(h, "ReadClauseData")
      BY DEF r, Restarted
    <3> QED BY <3>1, <3>2, RequestRestarted DEF w
  <2>5. c2 = [c EXCEPT !.current_inflight_request = @ + 1,
                       !.clause_data_read_waiting_queue = Append(@, r),
                       !.in_task_queue = Tail(@)]
    BY <1>4 DEF TaskToDataWaiting
  <2> HIDE DEF r, c2, st2, pos2
  <2>6. InStage(Tail(q), "task", st2, pos2)
    BY <1>4, <2>1, <2>3, StageLeft DEF Queues
  <2> HIDE DEF w, h, q
  <2>7. /\ c2 \in ClauseType
        /\ c2.current_inflight_request = c.current_inflight_request + 1
        /\ c2.clause_data_read_waiting_queue = Append(c.clause_data_read_waiting_queue, r)
        /\ c2.in_task_queue = Tail(q)
        /\ c2.clause_value_read_waiting_queue = c.clause_value_read_waiting_queue
        /\ c2.clause_process_waiting_queue = c.clause_process_waiting_queue
        /\ c2.out_memory_read_queue = c.out_memory_read_queue
        /\ c2.in_memory_resp_queue = c.in_memory_resp_queue
        /\ c2.out_queue = c.out_queue
        /\ c2.out_clause_write_queue = c.out_clause_write_queue
        /\ c2.on_going_requests = c.on_going_requests
    <3>1. /\ Append(c.clause_data_read_waiting_queue, r) \in Seq(Request) /\ c \in ClauseType
          /\ c.current_inflight_request + 1 \in Int
      BY <2>1, <2>4, AppendElements DEF ClauseType
    <3>2. Tail(q) \in Seq(Request) /\ q = c.in_task_queue
      BY <2>2 DEF q
    <3> QED BY <2>5, <3>1, <3>2 DEF ClauseType
  <2>8. Queues(c2, st2, pos2)
    <3>1. InStage(Append(c.clause_data_read_waiting_queue, r), "data", st2, pos2)
      BY <2>1, <2>2, <2>3, <2>4, StageJoined DEF Queues
    <3>2. /\ InStage(c.clause_value_read_waiting_queue, "value", st2, pos2)
          /\ InStage(c.clause_process_waiting_queue, "process", st2, pos2)
      BY <2>1, <2>2, <2>3, StageKept DEF Queues
    <3> QED BY <2>6, <2>7, <3>1, <3>2 DEF Queues
  <2>9. Placed(t, st2)
    BY <2>1, <2>2, <2>3, PlacedMoved
  <2>10. Traffic(c2, l, p, st2, pos2)
    <3>1. Keeps(c, c2) /\ Traffic(c, l, p, st, pos)
      BY <2>1, <2>7 DEF Keeps
    <3>2. \A y \in ReadsOf(c, l, p) : ClauseOf(y) # w
      BY <2>2, <3>1 DEF Traffic, Reads, ReadOf
    <3> QED BY <2>3, <3>1, <3>2, KeepReads
  <2>11. Inflight(c2, st2)
    <3>1. "data" \notin Idle /\ st[w] \in Idle
      BY <2>2 DEF Idle
    <3> QED BY <2>1, <2>3, <2>7, <3>1, InflightMoved
  <2>12. Outputs(c2, g, x, st2)
    BY <2>1, <2>2, <2>3, <2>7, OutputsMoved
  <2>13. Consistent(c2, l, p, t, g, x, st2, pos2)
    BY <2>7, <2>8, <2>9, <2>10, <2>11, <2>12 DEF Consistent
  <2> QED BY <2>3, <2>13, Moved DEF Good, c2
<1> QED BY <1>2, <1>3, <1>4

\* The assignment that a clause yields
Unit(r, a) == [r EXCEPT !.as = a, !.watcherId = 0, !.clauseId = 0, !.type = "ReadWatcherMetaData"]
LEMMA UnitMade ==
  ASSUME NEW r \in Request, NEW a \in Assign
  PROVE  Unit(r, a) \in NewTask /\ Unit(r, a).as = a
<1> DEFINE e(b, i, n, k) == [as |-> b, watcherId |-> i, clauseId |-> n, type |-> k]
           k == "ReadWatcherMetaData"
<1>1. PICK b, i, n, y : r = e(b, i, n, y)
  BY RequestFields
<1>2. [r EXCEPT !.as = a] = e(a, i, n, y)
  BY <1>1
<1>3. [e(a, i, n, y) EXCEPT !.watcherId = 0] = e(a, 0, n, y)
  OBVIOUS
<1>4. [e(a, 0, n, y) EXCEPT !.clauseId = 0] = e(a, 0, 0, y)
  OBVIOUS
<1>5. [e(a, 0, 0, y) EXCEPT !.type = k] = e(a, 0, 0, k)
  OBVIOUS
<1>6. e(a, 0, 0, k) \in NewTask /\ e(a, 0, 0, k).as = a
  BY DEF NewTask
<1> HIDE DEF e
<1>7. Unit(r, a) = e(a, 0, 0, k)
  BY <1>2, <1>3, <1>4, <1>5, Zenon DEF Unit
<1> QED BY <1>6, <1>7

\* A clause that is done is written, and yields its assignment if it is unit.
Yields(c, c2, w) ==
  \/ get_generated[w] = Nothing /\ c2.out_queue = c.out_queue
  \/ \E u \in NewTask : u.as = get_generated[w] /\ c2.out_queue = Append(c.out_queue, u)
LEMMA OutputsDone ==
  ASSUME NEW st, NEW pos, NEW w, NEW n, NEW m, NEW st2, NEW pos2,
         Goes(st, pos, w, n, m, st2, pos2), st[w] # "done", n = "done",
         NEW c, NEW c2, NEW g, NEW x, Outputs(c, g, x, st), NEW r \in Request,
         ClauseOf(r) = w, r.clauseId = Size(r) - 1,
         c2.out_clause_write_queue = Append(c.out_clause_write_queue, r), Yields(c, c2, w)
  PROVE  /\ Outputs(c2, g, x, st2)
         /\ c2.out_queue \in Seq(NewTask) /\ c2.out_clause_write_queue \in Seq(Request)
<1> DEFINE q == c.out_clause_write_queue
           q2 == Append(q, r)
           o == c.out_queue
           o2 == c2.out_queue
<1>1. /\ w \in Watched
      /\ \A b \in Watched : st2[b] = IF b = w THEN "done" ELSE st[b]
  BY Moved
<1>2. OutQueue(x, q) /\ OutWrites(x \cup Range(q), st) /\ OutTasks(g, o, st)
  BY DEF Outputs
<1>3. /\ q \in Seq(Request) /\ x \subseteq Request /\ Range(q) \subseteq Request
      /\ IsInjective(q) /\ x \cap Range(q) = {}
  BY <1>2, RangeElements DEF OutQueue
<1>4. r \notin x /\ r \notin Range(q)
  BY <1>2 DEF OutWrites
<1>5. q2 \in Seq(Request) /\ IsInjective(q2) /\ Range(q2) = Range(q) \cup {r}
  BY <1>3, <1>4, InjectiveAppend, RangeAppend
<1> HIDE DEF q, q2, o, o2
<1>6. OutQueue(x, q2)
  BY <1>3, <1>4, <1>5 DEF OutQueue
<1>7. OutWrites(x \cup Range(q2), st2)
  <2>1. ASSUME NEW y \in x \cup Range(q2)
        PROVE  st2[ClauseOf(y)] = "done" /\ y.clauseId = Size(y) - 1
    <3>1. CASE y = r
      BY <1>1, <3>1
    <3>2. CASE y # r
      <4>1. y \in x \cup Range(q) /\ y \in Request
        BY <1>3, <1>5, <3>2
      <4>2. ClauseOf(y) \in Watched
        BY <4>1, RequestFields
      <4>3. st[ClauseOf(y)] = "done" /\ y.clauseId = Size(y) - 1
        BY <1>2, <4>1 DEF OutWrites
      <4> QED BY <1>1, <4>2, <4>3
    <3> QED BY <3>1, <3>2
  <2>2. ASSUME NEW b \in Watched, st2[b] = "done"
        PROVE  \E y \in x \cup Range(q2) : ClauseOf(y) = b
    <3>1. CASE b = w
      BY <1>5, <3>1
    <3>2. CASE b # w
      <4>1. st[b] = "done"
        BY <1>1, <2>2, <3>2
      <4>2. PICK y \in x \cup Range(q) : ClauseOf(y) = b
        BY <1>2, <4>1 DEF OutWrites
      <4> QED BY <1>5, <4>2
    <3> QED BY <3>1, <3>2
  <2> QED BY <2>1, <2>2 DEF OutWrites
<1>8. OutTasks(g, o2, st2)
  <2>1. g \in Seq(Assign) /\ o \in Seq(NewTask)
    BY <1>2 DEF OutTasks
  <2>2. ASSUME NEW a \in Assign, get_generated[w] # a
        PROVE  Made(a, st2) = Made(a, st)
    BY <1>1, <2>2 DEF Made
  <2>3. ASSUME NEW a \in Assign, get_generated[w] = a
        PROVE  Made(a, st2) = Made(a, st) \cup {w} /\ w \notin Made(a, st)
    BY <1>1, <2>3 DEF Made
  <2>4. CASE get_generated[w] = Nothing /\ o2 = o
    <3>1. \A a \in Assign : Made(a, st2) = Made(a, st)
      BY <2>2, <2>4, ClauseAssumption
    <3> QED BY <1>2, <2>4, <3>1 DEF OutTasks
  <2>5. ASSUME NEW u \in NewTask, u.as = get_generated[w], o2 = Append(o, u)
        PROVE  OutTasks(g, o2, st2)
    <3>1. o2 \in Seq(NewTask)
      BY <2>1, <2>5, AppendElements
    <3>2. ASSUME NEW a \in Assign
          PROVE  /\ IsFiniteSet(Made(a, st2))
                 /\ Count({a}, g) + Count(TasksFor(a), o2) = Cardinality(Made(a, st2))
      <4>1. /\ IsFiniteSet(Made(a, st))
            /\ Count({a}, g) + Count(TasksFor(a), o) = Cardinality(Made(a, st))
            /\ Count({a}, g) \in Nat /\ Count(TasksFor(a), o) \in Nat
        BY <1>2, <2>1, CountType DEF OutTasks
      <4>2. Count(TasksFor(a), o2) = Count(TasksFor(a), o) + (IF u \in TasksFor(a) THEN 1 ELSE 0)
        BY <2>1, <2>5, CountAppend
      <4>3. u \in TasksFor(a) <=> get_generated[w] = a
        BY <2>5 DEF TasksFor
      <4>4. CASE get_generated[w] = a
        <5>1. /\ IsFiniteSet(Made(a, st) \cup {w})
              /\ Cardinality(Made(a, st) \cup {w}) = Cardinality(Made(a, st)) + 1
          BY <2>3, <4>1, <4>4, FS_AddElement
        <5>2. Count(TasksFor(a), o2) = Count(TasksFor(a), o) + 1
          BY <4>2, <4>3, <4>4
        <5>3. Made(a, st2) = Made(a, st) \cup {w}
          BY <2>3, <4>4
        <5> QED BY <4>1, <5>1, <5>2, <5>3
      <4>5. CASE get_generated[w] # a
        <5>1. Count(TasksFor(a), o2) = Count(TasksFor(a), o)
          BY <4>1, <4>2, <4>3, <4>5
        <5> QED BY <2>2, <4>1, <4>5, <5>1
      <4> QED BY <4>4, <4>5
    <3> QED BY <2>1, <3>1, <3>2 DEF OutTasks
  <2> QED BY <2>4, <2>5 DEF Yields, o, o2
<1>9. o2 \in Seq(NewTask)
  BY <1>8 DEF OutTasks
<1> QED BY <1>5, <1>6, <1>7, <1>8, <1>9 DEF Outputs, q, q2, o2

\* clause_process_waiting_to_out
LEMMA ProcessStep ==
  ASSUME NEW c, NEW l, NEW p, NEW t, NEW g, NEW x, Good(c, l, p, t, g, x)
  PROVE  Good(ProcessWaitingToOut(c), l, p, t, g, x)
<1>1. PICK st \in [Watched -> Stage], pos \in [Watched -> Nat] :
        Consistent(c, l, p, t, g, x, st, pos)
  BY DEF Good
<1> DEFINE q == c.clause_process_waiting_queue
           c2 == ProcessWaitingToOut(c)
<1>2. CASE q = <<>>
  BY <1>2 DEF ProcessWaitingToOut
<1>3. CASE q # <<>> /\ ~LastLiteral(Head(q))
  <2>1. /\ c \in ClauseType /\ Queues(c, st, pos) /\ Placed(t, st)
        /\ Traffic(c, l, p, st, pos) /\ Inflight(c, st) /\ Outputs(c, g, x, st)
    BY <1>1 DEF Consistent
  <2> DEFINE h == Head(q)
             w == ClauseOf(h)
             i == h.clauseId
             st2 == [st EXCEPT ![w] = "process"]
             pos2 == [pos EXCEPT ![w] = i + 1]
  <2>2. /\ h \in Request /\ w \in Watched /\ st[w] = "process" /\ Tail(q) \in Seq(Request)
        /\ i = pos[w] /\ i \in Nat /\ i + 1 \in Nat
        /\ InStage(q, "process", st, pos)
    BY <1>3, <2>1, StageFront DEF Queues
  <2>3. Goes(st, pos, w, "process", i + 1, st2, pos2)
    BY <2>2 DEF Goes, Stage
  <2>4. /\ i < get_clause_literal[w] /\ get_clause_literal[w] \in Nat
        /\ Size(h) = get_clause_literal[w]
    BY <2>2, RequestFields
  <2>5. c2 = [c EXCEPT !.clause_process_waiting_queue = Advance(q, 1)]
    BY <1>3 DEF ProcessWaitingToOut
  <2>6. i + 1 < get_clause_literal[w]
    BY <1>3, <2>2, <2>4 DEF LastLiteral
  <2> HIDE DEF c2, st2, pos2
  <2>7. InStage(Advance(q, 1), "process", st2, pos2) /\ Advance(q, 1) \in Seq(Request)
    BY <1>3, <2>2, <2>3, <2>6, StageAdvanced
  <2> HIDE DEF w, i, h, q
  <2>8. /\ c2 \in ClauseType
        /\ c2.clause_process_waiting_queue = Advance(q, 1)
        /\ c2.in_task_queue = c.in_task_queue
        /\ c2.clause_data_read_waiting_queue = c.clause_data_read_waiting_queue
        /\ c2.clause_value_read_waiting_queue = c.clause_value_read_waiting_queue
        /\ c2.out_memory_read_queue = c.out_memory_read_queue
        /\ c2.in_memory_resp_queue = c.in_memory_resp_queue
        /\ c2.out_queue = c.out_queue
        /\ c2.out_clause_write_queue = c.out_clause_write_queue
        /\ c2.on_going_requests = c.on_going_requests
        /\ c2.current_inflight_request = c.current_inflight_request
    BY <2>1, <2>5, <2>7 DEF ClauseType
  <2>9. Queues(c2, st2, pos2)
    <3>1. /\ InStage(c.in_task_queue, "task", st2, pos2)
          /\ InStage(c.clause_data_read_waiting_queue, "data", st2, pos2)
          /\ InStage(c.clause_value_read_waiting_queue, "value", st2, pos2)
      BY <2>1, <2>2, <2>3, StageKept DEF Queues
    <3> QED BY <2>7, <2>8, <3>1 DEF Queues
  <2>10. Placed(t, st2)
    BY <2>1, <2>2, <2>3, PlacedMoved
  <2>11. Traffic(c2, l, p, st2, pos2)
    <3>1. Keeps(c, c2) /\ Traffic(c, l, p, st, pos)
      BY <2>1, <2>8 DEF Keeps
    <3>2. st2[w] = "process"
      BY <2>3, Moved
    <3>3. ASSUME NEW y \in ReadsOf(c, l, p), ClauseOf(y) = w PROVE ReadOf(y, st2, pos2)
      <4>1. ReadOf(y, st, pos)
        BY <3>1 DEF Traffic, Reads
      <4> QED BY <2>2, <3>2, <3>3, <4>1, Types DEF ReadOf
    <3> QED BY <2>3, <3>1, <3>3, KeepReads
  <2>12. Inflight(c2, st2)
    <3>1. "process" \notin Idle /\ st[w] \notin Idle
      BY <2>2 DEF Idle
    <3> QED BY <2>1, <2>3, <2>8, <3>1, InflightMoved
  <2>13. Outputs(c2, g, x, st2)
    BY <2>1, <2>2, <2>3, <2>8, OutputsMoved
  <2>14. Consistent(c2, l, p, t, g, x, st2, pos2)
    BY <2>8, <2>9, <2>10, <2>11, <2>12, <2>13 DEF Consistent
  <2> QED BY <2>3, <2>14, Moved DEF Good, c2
<1>4. CASE q # <<>> /\ LastLiteral(Head(q))
  <2>1. /\ c \in ClauseType /\ Queues(c, st, pos) /\ Placed(t, st)
        /\ Traffic(c, l, p, st, pos) /\ Inflight(c, st) /\ Outputs(c, g, x, st)
    BY <1>1 DEF Consistent
  <2> DEFINE h == Head(q)
             w == ClauseOf(h)
             i == h.clauseId
             st2 == [st EXCEPT ![w] = "done"]
             pos2 == [pos EXCEPT ![w] = i + 1]
  <2>2. /\ h \in Request /\ w \in Watched /\ st[w] = "process" /\ Tail(q) \in Seq(Request)
        /\ i = pos[w] /\ i \in Nat /\ i + 1 \in Nat
        /\ InStage(q, "process", st, pos)
    BY <1>4, <2>1, StageFront DEF Queues
  <2>3. Goes(st, pos, w, "done", i + 1, st2, pos2)
    BY <2>2 DEF Goes, Stage
  <2>4. /\ i < get_clause_literal[w] /\ get_clause_literal[w] \in Nat
        /\ Size(h) = get_clause_literal[w]
    BY <2>2, RequestFields
  <2> DEFINE new == get_generated[w]
             o2 == IF new # Nothing THEN Append(c.out_queue, Unit(h, new)) ELSE c.out_queue
             x2 == Append(c.out_clause_write_queue, h)
  <2>5. c2 = [c EXCEPT !.out_queue = o2, !.out_clause_write_queue = x2,
                       !.clause_process_waiting_queue = Advance(q, 1),
                       !.current_inflight_request = @ - 1]
    BY <1>4 DEF ProcessWaitingToOut, Unit
  <2>6. Advance(q, 1) = Tail(q) /\ i = Size(h) - 1
    <3>1. i + 1 >= Size(h)
      BY <1>4 DEF LastLiteral
    <3>2. Advance(q, 1) = Tail(q)
      BY <3>1, AdvanceLeaves
    <3> HIDE DEF i, h
    <3>3. i = Size(h) - 1
      BY <2>2, <2>4, <3>1
    <3> QED BY <3>2, <3>3
  <2> HIDE DEF c2, st2, pos2, o2, x2
  <2>7. InStage(Tail(q), "process", st2, pos2)
    BY <1>4, <2>2, <2>3, StageLeft
  <2> HIDE DEF w, i, h, q
  <2>8. DOMAIN c2 = DOMAIN c /\ c2.out_queue = o2 /\ c2.out_clause_write_queue = x2
    BY <2>1, <2>5 DEF ClauseType
  <2>9. Yields(c, c2, w)
    <3>1. CASE new = Nothing
      BY <2>8, <3>1 DEF Yields, o2
    <3>2. CASE new # Nothing
      <4>1. new \in Assign
        BY <2>2, <3>2, ClauseAssumption
      <4>2. Unit(h, new) \in NewTask /\ Unit(h, new).as = new
        BY <2>2, <4>1, UnitMade
      <4>3. c2.out_queue = Append(c.out_queue, Unit(h, new))
        BY <2>8, <3>2 DEF o2
      <4> HIDE DEF new
      <4>4. \E u \in NewTask : u.as = new /\ c2.out_queue = Append(c.out_queue, u)
        BY <4>2, <4>3
      <4> QED BY <4>4 DEF Yields, new
    <3> QED BY <3>1, <3>2
  <2>10. /\ Outputs(c2, g, x, st2)
         /\ c2.out_queue \in Seq(NewTask) /\ c2.out_clause_write_queue \in Seq(Request)
    <3>1. h \in Request /\ ClauseOf(h) = w /\ h.clauseId = Size(h) - 1 /\ st[w] # "done"
      BY <2>2, <2>6 DEF w, i
    <3>2. c2.out_clause_write_queue = Append(c.out_clause_write_queue, h)
      BY <2>8 DEF x2
    <3> QED BY <2>1, <2>3, <2>9, <3>1, <3>2, OutputsDone
  <2>11. /\ c2 \in ClauseType
        /\ c2.clause_process_waiting_queue = Tail(q)
        /\ c2.out_queue = o2
        /\ c2.out_clause_write_queue = x2
        /\ c2.current_inflight_request = c.current_inflight_request - 1
        /\ c2.in_task_queue = c.in_task_queue
        /\ c2.clause_data_read_waiting_queue = c.clause_data_read_waiting_queue
        /\ c2.clause_value_read_waiting_queue = c.clause_value_read_waiting_queue
        /\ c2.out_memory_read_queue = c.out_memory_read_queue
        /\ c2.in_memory_resp_queue = c.in_memory_resp_queue
        /\ c2.on_going_requests = c.on_going_requests
    <3>1. c.current_inflight_request - 1 \in Int
      BY <2>1 DEF ClauseType
    <3>2. o2 \in Seq(NewTask) /\ x2 \in Seq(Request) /\ Tail(q) \in Seq(Request)
      BY <2>2, <2>8, <2>10
    <3> QED BY <2>1, <2>5, <2>6, <3>1, <3>2 DEF ClauseType
  <2>12. Queues(c2, st2, pos2)
    <3>1. /\ InStage(c.in_task_queue, "task", st2, pos2)
          /\ InStage(c.clause_data_read_waiting_queue, "data", st2, pos2)
          /\ InStage(c.clause_value_read_waiting_queue, "value", st2, pos2)
      BY <2>1, <2>2, <2>3, StageKept DEF Queues
    <3> QED BY <2>7, <2>11, <3>1 DEF Queues
  <2>13. Placed(t, st2)
    BY <2>1, <2>2, <2>3, PlacedMoved
  <2>14. Traffic(c2, l, p, st2, pos2)
    <3>1. Keeps(c, c2) /\ Traffic(c, l, p, st, pos)
      BY <2>1, <2>11 DEF Keeps
    <3>2. st2[w] = "done"
      BY <2>3, Moved
    <3>3. ASSUME NEW y \in ReadsOf(c, l, p), ClauseOf(y) = w PROVE ReadOf(y, st2, pos2)
      <4>1. ReadOf(y, st, pos)
        BY <3>1 DEF Traffic, Reads
      <4> QED BY <2>2, <3>2, <3>3, <4>1, Types DEF ReadOf
    <3> QED BY <2>3, <3>1, <3>3, KeepReads
  <2>15. Inflight(c2, st2)
    <3>1. "done" \in Idle /\ st[w] \notin Idle
      BY <2>2 DEF Idle
    <3> QED BY <2>1, <2>3, <2>11, <3>1, InflightMoved
  <2>16. Consistent(c2, l, p, t, g, x, st2, pos2)
    BY <2>10, <2>11, <2>12, <2>13, <2>14, <2>15 DEF Consistent
  <2> QED BY <2>3, <2>16, Moved DEF Good, c2
<1> QED BY <1>2, <1>3, <1>4

\* What mem_in_to_comp does with the oldest answer
Popped(c, c2) == c2 = [c EXCEPT !.in_memory_resp_queue = Tail(@)]
ToValue(c, c2, e) ==
  c2 = [c EXCEPT !.in_memory_resp_queue = Tail(@),
                 !.clause_value_read_waiting_queue = Append(@, e)]
ToProcess(c, c2, e) ==
  c2 = [c EXCEPT !.in_memory_resp_queue = Tail(@),
                 !.clause_process_waiting_queue = Append(@, e)]

\* The oldest answer and the reads it leaves under way
LEMMA FrontAnswer ==
  ASSUME NEW c, NEW c2, NEW l, NEW p, NEW st, NEW pos, NEW r,
         Traffic(c, l, p, st, pos), Takes(c, c2, r)
  PROVE  /\ r \in Request /\ ClauseOf(r) \in Watched /\ r.clauseId \in Nat
         /\ ReadOf(r, st, pos) /\ r.type \in {Data, Value}
         /\ r.clauseId < Size(r) /\ Size(r) \in Nat /\ Size(r) = get_clause_literal[ClauseOf(r)]
         /\ \A y \in ReadsOf(c, l, p) :
              /\ y \in Request /\ y.clauseId \in Nat /\ y.type \in {Data, Value}
              /\ y.clauseId < Size(y) /\ Size(y) = get_clause_literal[ClauseOf(y)]
              /\ ReadOf(y, st, pos) /\ Apart(r, y)
              /\ y # r => Ahead(r, y)
<1>1. Path(c, l, p) /\ Reads(ReadsOf(c, l, p), st, pos)
  BY DEF Traffic
<1>2. /\ r \in ReadsOf(c, l, p) /\ r \in Request
      /\ \A y \in ReadsOf(c, l, p) : y \in Request /\ (y # r => Ahead(r, y))
  <2>1. /\ r \in ReadsOf(c, l, p) /\ r \in Request
        /\ \A y \in ReadsOf(c, l, p) : y \in Request
        /\ \A y \in Without(ReadsOf(c, l, p), r) : Ahead(r, y)
    BY <1>1, ReadTaken
  <2> QED BY <2>1 DEF Without
<1>3. \A y \in ReadsOf(c, l, p) : ReadOf(y, st, pos) /\ Apart(r, y)
  BY <1>1, <1>2 DEF Reads
<1>4. \A y \in Request : /\ y.clauseId \in Nat /\ y.clauseId < Size(y) /\ Size(y) \in Nat
                         /\ ClauseOf(y) \in Watched /\ Size(y) = get_clause_literal[ClauseOf(y)]
  BY RequestFields
<1>5. \A y \in ReadsOf(c, l, p) : y.type \in {Data, Value}
  BY <1>3 DEF ReadOf
<1> QED BY <1>2, <1>3, <1>4, <1>5

\* An answer that is not the last one is only taken.
LEMMA AnswerTaken ==
  ASSUME NEW c, NEW l, NEW p, NEW t, NEW g, NEW x,
         NEW st \in [Watched -> Stage], NEW pos \in [Watched -> Nat],
         Consistent(c, l, p, t, g, x, st, pos), NEW c2, NEW r,
         c.in_memory_resp_queue # <<>>, r = Head(c.in_memory_resp_queue), Popped(c, c2)
  PROVE  Good(c2, l, p, t, g, x)
<1> DEFINE w == ClauseOf(r)
           R == ReadsOf(c, l, p)
<1>1. /\ c \in ClauseType /\ Queues(c, st, pos) /\ Placed(t, st)
      /\ Traffic(c, l, p, st, pos) /\ Inflight(c, st) /\ Outputs(c, g, x, st)
  BY DEF Consistent
<1>2. /\ c2 \in ClauseType
      /\ c2.in_memory_resp_queue = Tail(c.in_memory_resp_queue)
      /\ c2.in_task_queue = c.in_task_queue
      /\ c2.clause_data_read_waiting_queue = c.clause_data_read_waiting_queue
      /\ c2.clause_value_read_waiting_queue = c.clause_value_read_waiting_queue
      /\ c2.clause_process_waiting_queue = c.clause_process_waiting_queue
      /\ c2.out_memory_read_queue = c.out_memory_read_queue
      /\ c2.out_queue = c.out_queue
      /\ c2.out_clause_write_queue = c.out_clause_write_queue
      /\ c2.on_going_requests = c.on_going_requests
      /\ c2.current_inflight_request = c.current_inflight_request
  <2>1. Tail(c.in_memory_resp_queue) \in Seq(Request)
    BY <1>1, TailElements DEF ClauseType
  <2> QED BY <1>1, <2>1 DEF ClauseType, Popped
<1>3. Takes(c, c2, r)
  BY <1>2 DEF Takes
<1>4. /\ r \in Request /\ w \in Watched /\ r.clauseId \in Nat
      /\ ReadOf(r, st, pos) /\ r.clauseId < Size(r) /\ Size(r) \in Nat
      /\ Size(r) = get_clause_literal[w]
  BY <1>1, <1>3, FrontAnswer
<1>5. \A y \in R : /\ y \in Request /\ y.clauseId \in Nat /\ y.type \in {Data, Value}
                   /\ y.clauseId < Size(y) /\ Size(y) = get_clause_literal[ClauseOf(y)]
                   /\ ReadOf(y, st, pos) /\ Apart(r, y) /\ (y # r => Ahead(r, y))
  BY <1>1, <1>3, FrontAnswer
<1> HIDE DEF R, w
<1>6. Goes(st, pos, w, st[w], pos[w], st, pos)
  BY <1>4 DEF Goes
<1>7. Traffic(c2, l, p, st, pos)
  <2>1. \A y \in Without(ReadsOf(c, l, p), r) : ClauseOf(y) = w => ReadOf(y, st, pos)
    BY <1>5 DEF R, Without
  <2> QED BY <1>1, <1>3, <1>6, <2>1, TakeRead
<1>8. Queues(c2, st, pos) /\ Inflight(c2, st) /\ Outputs(c2, g, x, st)
  BY <1>1, <1>2 DEF Queues, Inflight, Outputs
<1>9. Consistent(c2, l, p, t, g, x, st, pos)
  BY <1>1, <1>2, <1>7, <1>8 DEF Consistent
<1> QED BY <1>9 DEF Good

\* With its last line a clause goes on to its values.
LEMMA LastLineTaken ==
  ASSUME NEW c, NEW l, NEW p, NEW t, NEW g, NEW x,
         NEW st \in [Watched -> Stage], NEW pos \in [Watched -> Nat],
         Consistent(c, l, p, t, g, x, st, pos), NEW c2, NEW r,
         c.in_memory_resp_queue # <<>>, r = Head(c.in_memory_resp_queue), r.type = Data, LastLine(r),
         NEW e \in Request, ClauseOf(e) = ClauseOf(r), e.clauseId = 0, ToValue(c, c2, e)
  PROVE  Good(c2, l, p, t, g, x)
<1> DEFINE w == ClauseOf(r)
           R == ReadsOf(c, l, p)
<1>1. /\ c \in ClauseType /\ Queues(c, st, pos) /\ Placed(t, st)
      /\ Traffic(c, l, p, st, pos) /\ Inflight(c, st) /\ Outputs(c, g, x, st)
  BY DEF Consistent
<1>2. /\ c2 \in ClauseType
      /\ c2.in_memory_resp_queue = Tail(c.in_memory_resp_queue)
      /\ c2.clause_value_read_waiting_queue = Append(c.clause_value_read_waiting_queue, e)
      /\ c2.in_task_queue = c.in_task_queue
      /\ c2.clause_data_read_waiting_queue = c.clause_data_read_waiting_queue
      /\ c2.clause_process_waiting_queue = c.clause_process_waiting_queue
      /\ c2.out_memory_read_queue = c.out_memory_read_queue
      /\ c2.out_queue = c.out_queue
      /\ c2.out_clause_write_queue = c.out_clause_write_queue
      /\ c2.on_going_requests = c.on_going_requests
      /\ c2.current_inflight_request = c.current_inflight_request
  <2>1. Tail(c.in_memory_resp_queue) \in Seq(Request) /\ Append(c.clause_value_read_waiting_queue, e) \in Seq(Request)
    BY <1>1, TailElements, AppendElements DEF ClauseType
  <2> QED BY <1>1, <2>1 DEF ClauseType, ToValue
<1>3. Takes(c, c2, r)
  BY <1>2 DEF Takes
<1>4. /\ r \in Request /\ w \in Watched /\ r.clauseId \in Nat
      /\ ReadOf(r, st, pos) /\ r.clauseId < Size(r) /\ Size(r) \in Nat
      /\ Size(r) = get_clause_literal[w]
  BY <1>1, <1>3, FrontAnswer
<1>5. \A y \in R : /\ y \in Request /\ y.clauseId \in Nat /\ y.type \in {Data, Value}
                   /\ y.clauseId < Size(y) /\ Size(y) = get_clause_literal[ClauseOf(y)]
                   /\ ReadOf(y, st, pos) /\ Apart(r, y) /\ (y # r => Ahead(r, y))
  BY <1>1, <1>3, FrontAnswer
<1> DEFINE st2 == [st EXCEPT ![w] = "value"]
           pos2 == [pos EXCEPT ![w] = 0]
<1>6. st[w] = "dataread" /\ ClauseOf(e) = w
  BY <1>4, Types DEF ReadOf
<1>7. Goes(st, pos, w, "value", 0, st2, pos2)
  BY <1>4 DEF Goes, Stage
<1> HIDE DEF R, w, st2, pos2
<1>8. Queues(c2, st2, pos2)
  <2>1. InStage(Append(c.clause_value_read_waiting_queue, e), "value", st2, pos2)
    BY <1>1, <1>6, <1>7, StageJoined DEF Queues
  <2>2. /\ InStage(c.in_task_queue, "task", st2, pos2)
        /\ InStage(c.clause_data_read_waiting_queue, "data", st2, pos2)
        /\ InStage(c.clause_process_waiting_queue, "process", st2, pos2)
    BY <1>1, <1>6, <1>7, StageKept DEF Queues
  <2> QED BY <1>2, <2>1, <2>2 DEF Queues
<1>9. Placed(t, st2)
  BY <1>1, <1>6, <1>7, PlacedMoved
<1>10. Traffic(c2, l, p, st2, pos2)
  <2>1. st2[w] = "value"
    BY <1>7, Moved
  <2>2. ASSUME NEW y \in ReadsOf(c, l, p), ClauseOf(y) = w, y # r PROVE ReadOf(y, st2, pos2)
    <3>1. /\ y \in Request /\ y.clauseId \in Nat /\ y.type \in {Data, Value}
          /\ y.clauseId < Size(y) /\ Size(y) = Size(r)
          /\ ReadOf(y, st, pos) /\ Apart(r, y) /\ Ahead(r, y)
      BY <1>4, <1>5, <2>2 DEF R
    <3>2. y.type = Data
      BY <1>6, <2>2, <3>1 DEF ReadOf
    <3>3. y.clauseId + LineSize <= r.clauseId
      BY <1>4, <2>2, <3>1, <3>2, LineSizeType DEF Apart, LastLine, w
    <3>4. ~LastLine(y)
      BY <1>4, <3>1, <3>3, LineSizeType DEF LastLine
    <3> QED BY <2>1, <2>2, <3>1, <3>2, <3>4, Types DEF ReadOf
  <2>3. \A y \in Without(ReadsOf(c, l, p), r) : ClauseOf(y) = w => ReadOf(y, st2, pos2)
    BY <2>2 DEF Without
  <2> QED BY <1>1, <1>3, <1>7, <2>3, TakeRead
<1>11. Inflight(c2, st2)
  <2>1. "value" \notin Idle /\ st[w] \notin Idle
    BY <1>6 DEF Idle
  <2> QED BY <1>1, <1>2, <1>7, <2>1, InflightMoved
<1>12. Outputs(c2, g, x, st2)
  BY <1>1, <1>2, <1>6, <1>7, OutputsMoved
<1>13. Consistent(c2, l, p, t, g, x, st2, pos2)
  BY <1>2, <1>8, <1>9, <1>10, <1>11, <1>12 DEF Consistent
<1> QED BY <1>7, <1>13, Moved DEF Good

\* With its last value a clause goes on to be examined.
LEMMA LastValueTaken ==
  ASSUME NEW c, NEW l, NEW p, NEW t, NEW g, NEW x,
         NEW st \in [Watched -> Stage], NEW pos \in [Watched -> Nat],
         Consistent(c, l, p, t, g, x, st, pos), NEW c2, NEW r,
         c.in_memory_resp_queue # <<>>, r = Head(c.in_memory_resp_queue), r.type = Value, LastValue(r),
         NEW e \in Request, ClauseOf(e) = ClauseOf(r), e.clauseId = 0, ToProcess(c, c2, e)
  PROVE  Good(c2, l, p, t, g, x)
<1> DEFINE w == ClauseOf(r)
           R == ReadsOf(c, l, p)
<1>1. /\ c \in ClauseType /\ Queues(c, st, pos) /\ Placed(t, st)
      /\ Traffic(c, l, p, st, pos) /\ Inflight(c, st) /\ Outputs(c, g, x, st)
  BY DEF Consistent
<1>2. /\ c2 \in ClauseType
      /\ c2.in_memory_resp_queue = Tail(c.in_memory_resp_queue)
      /\ c2.clause_process_waiting_queue = Append(c.clause_process_waiting_queue, e)
      /\ c2.in_task_queue = c.in_task_queue
      /\ c2.clause_data_read_waiting_queue = c.clause_data_read_waiting_queue
      /\ c2.clause_value_read_waiting_queue = c.clause_value_read_waiting_queue
      /\ c2.out_memory_read_queue = c.out_memory_read_queue
      /\ c2.out_queue = c.out_queue
      /\ c2.out_clause_write_queue = c.out_clause_write_queue
      /\ c2.on_going_requests = c.on_going_requests
      /\ c2.current_inflight_request = c.current_inflight_request
  <2>1. Tail(c.in_memory_resp_queue) \in Seq(Request) /\ Append(c.clause_process_waiting_queue, e) \in Seq(Request)
    BY <1>1, TailElements, AppendElements DEF ClauseType
  <2> QED BY <1>1, <2>1 DEF ClauseType, ToProcess
<1>3. Takes(c, c2, r)
  BY <1>2 DEF Takes
<1>4. /\ r \in Request /\ w \in Watched /\ r.clauseId \in Nat
      /\ ReadOf(r, st, pos) /\ r.clauseId < Size(r) /\ Size(r) \in Nat
      /\ Size(r) = get_clause_literal[w]
  BY <1>1, <1>3, FrontAnswer
<1>5. \A y \in R : /\ y \in Request /\ y.clauseId \in Nat /\ y.type \in {Data, Value}
                   /\ y.clauseId < Size(y) /\ Size(y) = get_clause_literal[ClauseOf(y)]
                   /\ ReadOf(y, st, pos) /\ Apart(r, y) /\ (y # r => Ahead(r, y))
  BY <1>1, <1>3, FrontAnswer
<1> DEFINE st2 == [st EXCEPT ![w] = "process"]
           pos2 == [pos EXCEPT ![w] = 0]
<1>6. st[w] = "valueread" /\ ClauseOf(e) = w
  BY <1>4, Types DEF ReadOf
<1>7. Goes(st, pos, w, "process", 0, st2, pos2)
  BY <1>4 DEF Goes, Stage
<1> HIDE DEF R, w, st2, pos2
<1>8. Queues(c2, st2, pos2)
  <2>1. InStage(Append(c.clause_process_waiting_queue, e), "process", st2, pos2)
    BY <1>1, <1>6, <1>7, StageJoined DEF Queues
  <2>2. /\ InStage(c.in_task_queue, "task", st2, pos2)
        /\ InStage(c.clause_data_read_waiting_queue, "data", st2, pos2)
        /\ InStage(c.clause_value_read_waiting_queue, "value", st2, pos2)
    BY <1>1, <1>6, <1>7, StageKept DEF Queues
  <2> QED BY <1>2, <2>1, <2>2 DEF Queues
<1>9. Placed(t, st2)
  BY <1>1, <1>6, <1>7, PlacedMoved
<1>10. Traffic(c2, l, p, st2, pos2)
  <2>1. st2[w] = "process"
    BY <1>7, Moved
  <2>2. ASSUME NEW y \in ReadsOf(c, l, p), ClauseOf(y) = w, y # r PROVE ReadOf(y, st2, pos2)
    <3>1. /\ y \in Request /\ y.clauseId \in Nat /\ y.type \in {Data, Value}
          /\ y.clauseId < Size(y) /\ Size(y) = Size(r)
          /\ ReadOf(y, st, pos) /\ Apart(r, y) /\ Ahead(r, y)
      BY <1>4, <1>5, <2>2 DEF R
    <3>2. y.type # Value
      BY <1>4, <2>2, <3>1 DEF Ahead, LastValue, w
    <3>3. y.type = Data /\ ~LastLine(y)
      BY <1>6, <2>2, <3>1, <3>2 DEF ReadOf
    <3> QED BY <2>1, <2>2, <3>1, <3>3, Types DEF ReadOf
  <2>3. \A y \in Without(ReadsOf(c, l, p), r) : ClauseOf(y) = w => ReadOf(y, st2, pos2)
    BY <2>2 DEF Without
  <2> QED BY <1>1, <1>3, <1>7, <2>3, TakeRead
<1>11. Inflight(c2, st2)
  <2>1. "process" \notin Idle /\ st[w] \notin Idle
    BY <1>6 DEF Idle
  <2> QED BY <1>1, <1>2, <1>7, <2>1, InflightMoved
<1>12. Outputs(c2, g, x, st2)
  BY <1>1, <1>2, <1>6, <1>7, OutputsMoved
<1>13. Consistent(c2, l, p, t, g, x, st2, pos2)
  BY <1>2, <1>8, <1>9, <1>10, <1>11, <1>12 DEF Consistent
<1> QED BY <1>7, <1>13, Moved DEF Good

\* mem_in_to_comp, when a last line finds room
LEMMA RespStep ==
  ASSUME NEW c, NEW l, NEW p, NEW t, NEW g, NEW x, Good(c, l, p, t, g, x), LineFits(c)
  PROVE  Good(MemInToComp(c), l, p, t, g, x)
<1>1. PICK st \in [Watched -> Stage], pos \in [Watched -> Nat] :
        Consistent(c, l, p, t, g, x, st, pos)
  BY DEF Good
<1> DEFINE q == c.in_memory_resp_queue
           r == Head(q)
           c2 == MemInToComp(c)
           popped == [c EXCEPT !.in_memory_resp_queue = Tail(@)]
<1>2. CASE ~TakesDataBranch(c) /\ ~TakesValueBranch(c)
  BY <1>2 DEF MemInToComp
<1>3. CASE q # <<>> /\ (TakesDataBranch(c) \/ TakesValueBranch(c))
  <2>1. c \in ClauseType /\ Traffic(c, l, p, st, pos)
    BY <1>1 DEF Consistent
  <2>2. /\ r \in Request /\ r.type \in {Data, Value} /\ r.clauseId \in Nat
        /\ Size(r) \in Nat
    <3>1. Takes(c, popped, r)
      BY <1>3, <2>1 DEF Takes, ClauseType
    <3> HIDE DEF popped, r
    <3> QED BY <2>1, <3>1, FrontAnswer
  <2>3. Good(popped, l, p, t, g, x)
    <3>1. Popped(c, popped)
      BY DEF Popped
    <3> HIDE DEF popped
    <3> QED BY <1>1, <1>3, <3>1, AnswerTaken
  <2>4. TakesDataBranch(c) => ~TakesValueBranch(c)
    BY DEF TakesValueBranch
  <2>5. CASE TakesDataBranch(c) /\ LastLine(r)
    <3> DEFINE e == [r EXCEPT !.type = "ReadClauseValue", !.clauseId = 0]
    <3>1. ToValue(c, c2, e)
      <4>1. c2 = [popped EXCEPT !.clause_value_read_waiting_queue = Append(@, e)]
        BY <2>4, <2>5 DEF MemInToComp
      <4> HIDE DEF e, c2
      <4> QED BY <2>1, <4>1 DEF ToValue, ClauseType
    <3>2. e = Restarted(r, Value)
      BY DEF Restarted, Value
    <3>3. r.type = Data
      BY <2>5 DEF TakesDataBranch, Data
    <3> HIDE DEF e, c2, r
    <3>4. e \in Request /\ ClauseOf(e) = ClauseOf(r) /\ e.clauseId = 0
      BY <2>2, <3>2, RequestRestarted, Types
    <3>5. Good(c2, l, p, t, g, x)
      BY <1>1, <1>3, <2>5, <3>1, <3>3, <3>4, LastLineTaken DEF r
    <3> QED BY <3>5 DEF c2
  <2>6. CASE TakesDataBranch(c) /\ ~LastLine(r)
    <3>1. c2 = [popped EXCEPT !.clause_value_read_waiting_queue = @]
      BY <2>4, <2>6 DEF MemInToComp
    <3> HIDE DEF c2
    <3>2. c2 = popped
      BY <2>1, <3>1 DEF ClauseType
    <3> QED BY <2>3, <3>2 DEF c2
  <2>7. CASE ~TakesDataBranch(c) /\ LastValue(r)
    <3>1. TakesValueBranch(c)
      BY <1>3, <2>7
    <3>2. r.type = Value
      <4>1. CASE r.type = Data
        <5>1. LastLine(r)
          BY <2>2, <2>7, LineSizeType DEF LastLine, LastValue
        <5> QED BY <1>3, <2>7, <4>1, <5>1 DEF LineFits, TakesDataBranch, Data
      <4> QED BY <2>2, <4>1
    <3> DEFINE e == [r EXCEPT !.clauseId = 0]
    <3>3. ToProcess(c, c2, e)
      <4>1. c2 = [popped EXCEPT !.clause_process_waiting_queue = Append(@, e)]
        BY <2>7, <3>1 DEF MemInToComp
      <4> HIDE DEF e, c2
      <4> QED BY <2>1, <4>1 DEF ToProcess, ClauseType
    <3>4. e = Req(ClauseOf(r), 0, r.type)
      BY <2>2, RequestEdited
    <3> HIDE DEF e, c2, r
    <3>5. e \in Request /\ ClauseOf(e) = ClauseOf(r) /\ e.clauseId = 0
      <4> DEFINE w == ClauseOf(r)
      <4>1. w \in Watched /\ 0 < get_clause_literal[w] /\ 0 \in Nat
        BY <2>2, RequestFields, LineSizeType
      <4> HIDE DEF w
      <4>2. /\ Req(w, 0, Value) \in Request /\ ClauseOf(Req(w, 0, Value)) = w
            /\ Req(w, 0, Value).clauseId = 0
        BY <4>1, RequestMade, Types
      <4> QED BY <3>2, <3>4, <4>2 DEF w
    <3>6. Good(c2, l, p, t, g, x)
      BY <1>1, <1>3, <2>7, <3>2, <3>3, <3>5, LastValueTaken DEF r
    <3> QED BY <3>6 DEF c2
  <2>8. CASE ~TakesDataBranch(c) /\ ~LastValue(r)
    <3>1. c2 = [popped EXCEPT !.clause_process_waiting_queue = @]
      BY <1>3, <2>8 DEF MemInToComp
    <3> HIDE DEF c2
    <3>2. c2 = popped
      BY <2>1, <3>1 DEF ClauseType
    <3> QED BY <2>3, <3>2 DEF c2
  <2> QED BY <2>5, <2>6, <2>7, <2>8
<1>4. q = <<>> => ~TakesDataBranch(c) /\ ~TakesValueBranch(c)
  BY DEF TakesDataBranch, TakesValueBranch
<1> QED BY <1>2, <1>3, <1>4

-----------------------------------------------------------------------------
(* The hooks of acc                                                         *)

\* A watcher sends a clause.
LEMMA SentStep ==
  ASSUME NEW c, NEW l, NEW p, NEW t, NEW g, NEW x, Good(c, l, p, t, g, x), NEW w \in t
  PROVE  Good(PushTask(c, Task(w)), l, p, t \ {w}, g, x)
<1>1. PICK st \in [Watched -> Stage], pos \in [Watched -> Nat] :
        Consistent(c, l, p, t, g, x, st, pos)
  BY DEF Good
<1> DEFINE e == Task(w)
           c2 == PushTask(c, e)
           st2 == [st EXCEPT ![w] = "task"]
           pos2 == [pos EXCEPT ![w] = 0]
<1>2. /\ c \in ClauseType /\ Queues(c, st, pos) /\ Placed(t, st)
      /\ Traffic(c, l, p, st, pos) /\ Inflight(c, st) /\ Outputs(c, g, x, st)
  BY <1>1 DEF Consistent
<1>3. w \in Watched /\ st[w] = "todo"
  BY <1>2 DEF Placed
<1>4. Goes(st, pos, w, "task", 0, st2, pos2)
  BY <1>3 DEF Goes, Stage
<1>5. e \in Request /\ ClauseOf(e) = w /\ e.clauseId = 0
  <2>1. e = Req(w, 0, "ReadWatcherValue")
    BY DEF Task, Req
  <2>2. "ReadWatcherValue" \in AccessType /\ 0 \in Nat /\ 0 < get_clause_literal[w]
    BY <1>3, LineSizeType DEF AccessType
  <2> HIDE DEF e
  <2>3. /\ Req(w, 0, "ReadWatcherValue") \in Request
        /\ ClauseOf(Req(w, 0, "ReadWatcherValue")) = w
        /\ Req(w, 0, "ReadWatcherValue").clauseId = 0
    BY <1>3, <2>2, RequestMade
  <2> QED BY <2>1, <2>3
<1> HIDE DEF st2, pos2, e
<1>6. /\ c2 \in ClauseType
      /\ c2.in_task_queue = Append(c.in_task_queue, e)
      /\ c2.clause_data_read_waiting_queue = c.clause_data_read_waiting_queue
      /\ c2.clause_value_read_waiting_queue = c.clause_value_read_waiting_queue
      /\ c2.clause_process_waiting_queue = c.clause_process_waiting_queue
      /\ c2.out_memory_read_queue = c.out_memory_read_queue
      /\ c2.in_memory_resp_queue = c.in_memory_resp_queue
      /\ c2.out_queue = c.out_queue
      /\ c2.out_clause_write_queue = c.out_clause_write_queue
      /\ c2.on_going_requests = c.on_going_requests
      /\ c2.current_inflight_request = c.current_inflight_request
  <2>1. Append(c.in_task_queue, e) \in Seq(Request)
    BY <1>2, <1>5, AppendElements DEF ClauseType
  <2> QED BY <1>2, <2>1 DEF ClauseType, PushTask
<1> HIDE DEF c2
<1>7. Queues(c2, st2, pos2)
  <2>1. InStage(Append(c.in_task_queue, e), "task", st2, pos2)
    BY <1>2, <1>3, <1>4, <1>5, StageJoined DEF Queues
  <2>2. /\ InStage(c.clause_data_read_waiting_queue, "data", st2, pos2)
        /\ InStage(c.clause_value_read_waiting_queue, "value", st2, pos2)
        /\ InStage(c.clause_process_waiting_queue, "process", st2, pos2)
    BY <1>2, <1>3, <1>4, StageKept DEF Queues
  <2> QED BY <1>6, <2>1, <2>2 DEF Queues
<1>8. Placed(t \ {w}, st2)
  <2>1. \A b \in Watched : st2[b] = IF b = w THEN "task" ELSE st[b]
    BY <1>4, Moved
  <2> QED BY <1>2, <2>1 DEF Placed
<1>9. Traffic(c2, l, p, st2, pos2)
  <2>1. Keeps(c, c2) /\ Traffic(c, l, p, st, pos)
    BY <1>2, <1>6 DEF Keeps
  <2>2. \A y \in ReadsOf(c, l, p) : ClauseOf(y) # w
    BY <1>3, <2>1 DEF Traffic, Reads, ReadOf
  <2> QED BY <1>4, <2>1, <2>2, KeepReads
<1>10. Inflight(c2, st2)
  <2>1. "task" \in Idle /\ st[w] \in Idle
    BY <1>3 DEF Idle
  <2> QED BY <1>2, <1>4, <1>6, <2>1, InflightMoved
<1>11. Outputs(c2, g, x, st2)
  BY <1>2, <1>3, <1>4, <1>6, OutputsMoved
<1>12. Consistent(c2, l, p, t \ {w}, g, x, st2, pos2)
  BY <1>6, <1>7, <1>8, <1>9, <1>10, <1>11 DEF Consistent
<1> QED BY <1>4, <1>12, Moved DEF Good, c2, e

\* Reads go on, from the unit to the memory or from the memory to the unit.
Onward(c, c2, o, i, n) ==
  c2 = [c EXCEPT !.out_memory_read_queue = o, !.in_memory_resp_queue = i, !.on_going_requests = n]
LEMMA TrafficOnward ==
  ASSUME NEW c, NEW l, NEW p, NEW t, NEW g, NEW x, Good(c, l, p, t, g, x),
         NEW c2, NEW l2, NEW p2, NEW o \in Seq(Request), NEW i \in Seq(Request), NEW n \in Int,
         Onward(c, c2, o, i, n), IsFiniteSet(l2), n = Cardinality(l2) + Len(p2),
         OnPath(Request, NoValue, Before, o, l2, p2, i),
         UnderWay(o, l2, p2, i) = ReadsOf(c, l, p)
  PROVE  Good(c2, l2, p2, t, g, x)
<1>1. PICK st \in [Watched -> Stage], pos \in [Watched -> Nat] :
        Consistent(c, l, p, t, g, x, st, pos)
  BY DEF Good
<1>2. /\ c \in ClauseType /\ Queues(c, st, pos) /\ Placed(t, st)
      /\ Traffic(c, l, p, st, pos) /\ Inflight(c, st) /\ Outputs(c, g, x, st)
  BY <1>1 DEF Consistent
<1>3. /\ c2 \in ClauseType
      /\ c2.out_memory_read_queue = o
      /\ c2.in_memory_resp_queue = i
      /\ c2.on_going_requests = n
      /\ c2.in_task_queue = c.in_task_queue
      /\ c2.clause_data_read_waiting_queue = c.clause_data_read_waiting_queue
      /\ c2.clause_value_read_waiting_queue = c.clause_value_read_waiting_queue
      /\ c2.clause_process_waiting_queue = c.clause_process_waiting_queue
      /\ c2.out_queue = c.out_queue
      /\ c2.out_clause_write_queue = c.out_clause_write_queue
      /\ c2.current_inflight_request = c.current_inflight_request
  BY <1>2 DEF ClauseType, Onward
<1>4. Path(c2, l2, p2) /\ ReadsOf(c2, l2, p2) = ReadsOf(c, l, p)
  BY <1>3 DEF Path, ReadsOf
<1>5. Traffic(c2, l2, p2, st, pos)
  <2>1. Reads(ReadsOf(c2, l2, p2), st, pos)
    BY <1>2, <1>4 DEF Traffic
  <2>2. Ongoing(c2, l2, p2)
    BY <1>3 DEF Ongoing
  <2> QED BY <1>4, <2>1, <2>2 DEF Traffic
<1>6. Queues(c2, st, pos) /\ Outputs(c2, g, x, st) /\ Inflight(c2, st)
  BY <1>2, <1>3 DEF Queues, Outputs, Inflight
<1>7. Consistent(c2, l2, p2, t, g, x, st, pos)
  BY <1>2, <1>3, <1>5, <1>6 DEF Consistent
<1> QED BY <1>7 DEF Good

\* The hooks between the unit and its memories
LEMMA MemoryStep ==
  ASSUME IInv
  PROVE  /\ ClauseToMemory => IInv'
         /\ \A req \in l3 : MemoryToClause(req) => IInv'
         /\ PrivateCacheToClause => IInv'
<1> DEFINE c == clause
           o == c.out_memory_read_queue
           i == c.in_memory_resp_queue
           n == c.on_going_requests
<1>1. PICK st \in [Watched -> Stage], pos \in [Watched -> Nat] :
        Consistent(c, l3, pcache, todo, produced, written, st, pos)
  BY DEF IInv, Good
<1>2. /\ c \in ClauseType /\ OnPath(Request, NoValue, Before, o, l3, pcache, i)
      /\ o \in Seq(Request) /\ i \in Seq(Request) /\ pcache \in Seq(Request)
      /\ l3 \subseteq Request /\ Range(o) \cap l3 = {}
      /\ ReadsOf(c, l3, pcache) = UnderWay(o, l3, pcache, i)
  BY <1>1 DEF Consistent, Traffic, Path, OnPath, ReadsOf
<1>3. /\ IsFiniteSet(l3) /\ n = Cardinality(l3) + Len(pcache)
      /\ Cardinality(l3) \in Nat /\ Len(pcache) \in Nat /\ n \in Int
  <2>1. Ongoing(c, l3, pcache)
    BY <1>1 DEF Consistent, Traffic
  <2>2. IsFiniteSet(l3) /\ n = Cardinality(l3) + Len(pcache)
    BY <2>1 DEF Ongoing
  <2>3. Cardinality(l3) \in Nat /\ Len(pcache) \in Nat
    BY <1>2, <2>2, FS_CardinalityType, LenProperties
  <2> QED BY <2>2, <2>3
<1>4. Good(c, l3, pcache, todo, produced, written)
  BY DEF IInv
<1>5. FreeIn(Request, NoValue, Before)
  BY BeforeIsAhead
<1> HIDE DEF c, o, i, n
<1>6. ASSUME ClauseToMemory PROVE IInv'
  <2> DEFINE o2 == Tail(o)
             n2 == n + 1
  <2>1. /\ o # <<>> /\ clause' = PopRead(c)
        /\ todo' = todo /\ produced' = produced /\ written' = written
    BY <1>6 DEF ClauseToMemory, c, o
  <2>2. o2 \in Seq(Request) /\ Head(o) \in Request /\ n2 \in Int /\ Head(o) \in Range(o)
    BY <1>2, <1>3, <2>1, TailElements, RangeElements
  <2> HIDE DEF o2, n2
  <2>3. Onward(c, clause', o2, i, n2)
    BY <1>2, <2>1 DEF ClauseType, PopRead, Onward, i, o2, n2, o, n
  <2>4. CASE Head(o).type # Data
    <3>1. pcache' = Append(pcache, Head(o)) /\ l3' = l3
      BY <1>6, <2>4 DEF ClauseToMemory, Data, c, o
    <3>2. /\ OnPath(Request, NoValue, Before, o2, l3', pcache', i)
          /\ UnderWay(o2, l3', pcache', i) = ReadsOf(c, l3, pcache)
      BY <1>2, <2>1, <3>1, PathToPrivate DEF o2
    <3>3. IsFiniteSet(l3') /\ n2 = Cardinality(l3') + Len(pcache')
      <4>1. Len(pcache') = Len(pcache) + 1
        BY <1>2, <2>2, <3>1, AppendElements
      <4> QED BY <1>3, <3>1, <4>1 DEF n2
    <3> QED BY <1>2, <1>4, <2>1, <2>2, <2>3, <3>2, <3>3, TrafficOnward DEF IInv
  <2>5. CASE Head(o).type = Data
    <3>1. pcache' = pcache /\ l3' = With(l3, Head(o))
      BY <1>6, <2>5 DEF ClauseToMemory, With, Data, c, o
    <3>2. Head(o) \in NoValue
      BY <2>2, <2>5, Types DEF NoValue
    <3>3. /\ OnPath(Request, NoValue, Before, o2, l3', pcache', i)
          /\ UnderWay(o2, l3', pcache', i) = ReadsOf(c, l3, pcache)
      BY <1>2, <2>1, <3>1, <3>2, PathToL3 DEF o2
    <3>4. IsFiniteSet(l3') /\ n2 = Cardinality(l3') + Len(pcache')
      <4>1. Head(o) \notin l3
        BY <1>2, <2>2
      <4>2. IsFiniteSet(l3 \cup {Head(o)}) /\ Cardinality(l3 \cup {Head(o)}) = Cardinality(l3) + 1
        BY <1>3, <4>1, FS_AddElement
      <4>3. IsFiniteSet(l3') /\ Cardinality(l3') = Cardinality(l3) + 1
        BY <3>1, <4>2 DEF With
      <4> QED BY <1>3, <3>1, <4>3 DEF n2
    <3> QED BY <1>2, <1>4, <2>1, <2>2, <2>3, <3>3, <3>4, TrafficOnward DEF IInv
  <2> QED BY <2>4, <2>5
<1>7. ASSUME NEW req \in l3, MemoryToClause(req) PROVE IInv'
  <2> DEFINE i2 == Append(i, req)
             n2 == n - 1
  <2>1. /\ clause' = PushResp(c, req) /\ pcache' = pcache /\ l3' = l3 \ {req}
        /\ todo' = todo /\ produced' = produced /\ written' = written
    BY <1>7 DEF MemoryToClause, c
  <2>2. i2 \in Seq(Request) /\ n2 \in Int
    BY <1>2, <1>3, AppendElements
  <2> HIDE DEF i2, n2
  <2>3. Onward(c, clause', o, i2, n2)
    BY <1>2, <2>1 DEF ClauseType, PushResp, Onward, i, i2, n2, o, n
  <2>4. /\ OnPath(Request, NoValue, Before, o, l3', pcache', i2)
        /\ UnderWay(o, l3', pcache', i2) = ReadsOf(c, l3, pcache)
    BY <1>2, <1>5, <2>1, PathFromL3 DEF i2
  <2>5. IsFiniteSet(l3') /\ n2 = Cardinality(l3') + Len(pcache')
    <3>1. IsFiniteSet(l3 \ {req}) /\ Cardinality(l3 \ {req}) = Cardinality(l3) - 1
      BY <1>3, FS_RemoveElement
    <3> QED BY <1>3, <2>1, <3>1 DEF n2
  <2> QED BY <1>2, <1>4, <2>1, <2>2, <2>3, <2>4, <2>5, TrafficOnward DEF IInv
<1>8. ASSUME PrivateCacheToClause PROVE IInv'
  <2> DEFINE i2 == Append(i, Head(pcache))
             n2 == n - 1
  <2>1. /\ clause' = PushResp(c, Head(pcache))
        /\ pcache # <<>> /\ pcache' = Tail(pcache) /\ l3' = l3
        /\ todo' = todo /\ produced' = produced /\ written' = written
    BY <1>8 DEF PrivateCacheToClause, c
  <2>2. i2 \in Seq(Request) /\ n2 \in Int
    BY <1>2, <1>3, <2>1, AppendElements, TailElements
  <2> HIDE DEF i2, n2
  <2>3. Onward(c, clause', o, i2, n2)
    BY <1>2, <2>1 DEF ClauseType, PushResp, Onward, i, i2, n2, o, n
  <2>4. /\ OnPath(Request, NoValue, Before, o, l3', pcache', i2)
        /\ UnderWay(o, l3', pcache', i2) = ReadsOf(c, l3, pcache)
    BY <1>2, <2>1, PathFromPrivate DEF i2
  <2>5. IsFiniteSet(l3') /\ n2 = Cardinality(l3') + Len(pcache')
    <3>1. Len(pcache') = Len(pcache) - 1
      BY <1>2, <2>1, TailElements
    <3> QED BY <1>3, <2>1, <3>1 DEF n2
  <2> QED BY <1>2, <1>4, <2>1, <2>2, <2>3, <2>4, <2>5, TrafficOnward DEF IInv
<1> QED BY <1>6, <1>7, <1>8

\* A hook takes the head of the queue of writes.
LEMMA OutputTaken ==
  ASSUME NEW X, NEW q, OutQueue(X, q), q # <<>>
  PROVE  /\ OutQueue(X \cup {Head(q)}, Tail(q))
         /\ (X \cup {Head(q)}) \cup Range(Tail(q)) = X \cup Range(q)
<1>1. /\ Tail(q) \in Seq(Request) /\ IsInjective(Tail(q)) /\ Head(q) \notin Range(Tail(q))
      /\ Range(Tail(q)) = Range(q) \ {Head(q)}
  BY InjectiveTail DEF OutQueue
<1>2. Head(q) \in Range(q) /\ Head(q) \in Request
  BY RangeElements DEF OutQueue
<1>3. (X \cup {Head(q)}) \cup Range(Tail(q)) = X \cup Range(q)
  BY <1>1, <1>2
<1>4. OutQueue(X \cup {Head(q)}, Tail(q))
  BY <1>1, <1>2 DEF OutQueue
<1> QED BY <1>3, <1>4

\* A hook takes the head of the queue of new assignments.
LEMMA TaskTaken ==
  ASSUME NEW st, NEW g, NEW o, OutTasks(g, o, st), o # <<>>
  PROVE  OutTasks(Append(g, Head(o).as), Tail(o), st) /\ Tail(o) \in Seq(NewTask)
<1> DEFINE u == Head(o)
<1>1. g \in Seq(Assign) /\ o \in Seq(NewTask)
  BY DEF OutTasks
<1>2. u \in NewTask /\ Tail(o) \in Seq(NewTask) /\ u.as \in Assign
  <2>1. u \in NewTask /\ Tail(o) \in Seq(NewTask)
    BY <1>1, TailElements
  <2> HIDE DEF u
  <2>2. u.as \in Assign
    BY <2>1 DEF NewTask
  <2> QED BY <2>1, <2>2
<1>3. Append(g, u.as) \in Seq(Assign)
  BY <1>1, <1>2, AppendElements
<1>4. ASSUME NEW a \in Assign
      PROVE  /\ IsFiniteSet(Made(a, st))
             /\ Count({a}, Append(g, u.as)) + Count(TasksFor(a), Tail(o)) = Cardinality(Made(a, st))
  <2>1. Count({a}, Append(g, u.as)) = Count({a}, g) + (IF u.as \in {a} THEN 1 ELSE 0)
    BY <1>1, <1>2, CountAppend
  <2>2. Count(TasksFor(a), o) = Count(TasksFor(a), Tail(o)) + (IF u \in TasksFor(a) THEN 1 ELSE 0)
    BY <1>1, CountTail
  <2>3. u.as \in {a} <=> u \in TasksFor(a)
    BY <1>2 DEF TasksFor
  <2>4. Count({a}, g) \in Nat /\ Count(TasksFor(a), Tail(o)) \in Nat
    BY <1>1, <1>2, CountType
  <2>5. /\ IsFiniteSet(Made(a, st))
        /\ Count({a}, g) + Count(TasksFor(a), o) = Cardinality(Made(a, st))
    BY DEF OutTasks
  <2> HIDE DEF u
  <2>6. CASE u \in TasksFor(a)
    <3>1. Count({a}, Append(g, u.as)) = Count({a}, g) + 1
      BY <2>1, <2>3, <2>6
    <3>2. Count(TasksFor(a), o) = Count(TasksFor(a), Tail(o)) + 1
      BY <2>2, <2>6
    <3> QED BY <2>4, <2>5, <3>1, <3>2
  <2>7. CASE u \notin TasksFor(a)
    <3>1. Count({a}, Append(g, u.as)) = Count({a}, g)
      BY <2>1, <2>3, <2>4, <2>7
    <3>2. Count(TasksFor(a), o) = Count(TasksFor(a), Tail(o))
      BY <2>2, <2>4, <2>7
    <3> QED BY <2>5, <3>1, <3>2
  <2> QED BY <2>6, <2>7
<1> QED BY <1>2, <1>3, <1>4 DEF OutTasks

\* The hooks that take the unit's outputs
LEMMA OutputStep ==
  ASSUME IInv
  PROVE  /\ ClauseToTrail => IInv'
         /\ ClauseToWriteUnit => IInv'
<1> DEFINE c == clause
           c2 == clause'
<1>1. PICK st \in [Watched -> Stage], pos \in [Watched -> Nat] :
        Consistent(c, l3, pcache, todo, produced, written, st, pos)
  BY DEF IInv, Good
<1>2. /\ c \in ClauseType /\ Queues(c, st, pos) /\ Placed(todo, st)
      /\ Traffic(c, l3, pcache, st, pos) /\ Inflight(c, st)
      /\ OutQueue(written, c.out_clause_write_queue)
      /\ OutWrites(written \cup Range(c.out_clause_write_queue), st)
      /\ OutTasks(produced, c.out_queue, st)
  BY <1>1 DEF Consistent, Outputs
<1> HIDE DEF c, c2
<1>3. ASSUME ClauseToTrail PROVE IInv'
  <2> DEFINE q == c.out_queue
  <2>1. /\ q # <<>> /\ c2 = [c EXCEPT !.out_queue = Tail(q)]
        /\ produced' = Append(produced, Head(q).as)
        /\ l3' = l3 /\ pcache' = pcache /\ todo' = todo /\ written' = written
    BY <1>3 DEF ClauseToTrail, c, c2
  <2>2. OutTasks(produced, q, st)
    BY <1>2
  <2> HIDE DEF q
  <2>3. OutTasks(produced', Tail(q), st) /\ Tail(q) \in Seq(NewTask)
    BY <2>1, <2>2, TaskTaken
  <2>4. /\ c2 \in ClauseType
        /\ c2.out_queue = Tail(q)
        /\ c2.in_task_queue = c.in_task_queue
        /\ c2.clause_data_read_waiting_queue = c.clause_data_read_waiting_queue
        /\ c2.clause_value_read_waiting_queue = c.clause_value_read_waiting_queue
        /\ c2.clause_process_waiting_queue = c.clause_process_waiting_queue
        /\ c2.out_memory_read_queue = c.out_memory_read_queue
        /\ c2.in_memory_resp_queue = c.in_memory_resp_queue
        /\ c2.out_clause_write_queue = c.out_clause_write_queue
        /\ c2.on_going_requests = c.on_going_requests
        /\ c2.current_inflight_request = c.current_inflight_request
    BY <1>2, <2>1, <2>3 DEF ClauseType
  <2>5. Outputs(c2, produced', written, st)
    BY <1>2, <2>3, <2>4 DEF Outputs
  <2>6. Queues(c2, st, pos) /\ Traffic(c2, l3, pcache, st, pos) /\ Inflight(c2, st)
    BY <1>2, <2>4 DEF Queues, Traffic, Path, ReadsOf, Ongoing, Inflight
  <2>7. Consistent(c2, l3', pcache', todo', produced', written', st, pos)
    BY <1>2, <2>1, <2>4, <2>5, <2>6 DEF Consistent
  <2> QED BY <2>7 DEF IInv, Good, c2
<1>4. ASSUME ClauseToWriteUnit PROVE IInv'
  <2> DEFINE q == c.out_clause_write_queue
  <2>1. /\ q # <<>> /\ c2 = [c EXCEPT !.out_clause_write_queue = Tail(q)]
        /\ written' = written \cup {Head(q)}
        /\ l3' = l3 /\ pcache' = pcache /\ todo' = todo /\ produced' = produced
    BY <1>4 DEF ClauseToWriteUnit, c, c2
  <2>2. OutQueue(written, q) /\ OutWrites(written \cup Range(q), st)
    BY <1>2
  <2> HIDE DEF q
  <2>3. /\ OutQueue(written', Tail(q)) /\ Tail(q) \in Seq(Request)
        /\ OutWrites(written' \cup Range(Tail(q)), st)
    <3>1. /\ OutQueue(written', Tail(q))
          /\ written' \cup Range(Tail(q)) = written \cup Range(q)
      BY <2>1, <2>2, OutputTaken
    <3>2. OutWrites(written' \cup Range(Tail(q)), st)
      BY <2>2, <3>1, Zenon
    <3> QED BY <3>1, <3>2 DEF OutQueue
  <2>4. /\ c2 \in ClauseType
        /\ c2.out_clause_write_queue = Tail(q)
        /\ c2.in_task_queue = c.in_task_queue
        /\ c2.clause_data_read_waiting_queue = c.clause_data_read_waiting_queue
        /\ c2.clause_value_read_waiting_queue = c.clause_value_read_waiting_queue
        /\ c2.clause_process_waiting_queue = c.clause_process_waiting_queue
        /\ c2.out_memory_read_queue = c.out_memory_read_queue
        /\ c2.in_memory_resp_queue = c.in_memory_resp_queue
        /\ c2.out_queue = c.out_queue
        /\ c2.on_going_requests = c.on_going_requests
        /\ c2.current_inflight_request = c.current_inflight_request
    BY <1>2, <2>1, <2>3 DEF ClauseType
  <2>5. Outputs(c2, produced, written', st)
    BY <1>2, <2>3, <2>4 DEF Outputs
  <2>6. Queues(c2, st, pos) /\ Traffic(c2, l3, pcache, st, pos) /\ Inflight(c2, st)
    BY <1>2, <2>4 DEF Queues, Traffic, Path, ReadsOf, Ongoing, Inflight
  <2>7. Consistent(c2, l3', pcache', todo', produced', written', st, pos)
    BY <1>2, <2>1, <2>4, <2>5, <2>6 DEF Consistent
  <2> QED BY <2>7 DEF IInv, Good, c2
<1> QED BY <1>3, <1>4

-----------------------------------------------------------------------------
(* The theorems                                                             *)

\* At the start no clause has been sent and nothing is under way.
LEMMA InitGood == Init => IInv
<1> SUFFICES ASSUME Init PROVE IInv
  OBVIOUS
<1> DEFINE st == [w \in Watched |-> "todo"]
           pos == [w \in Watched |-> 0]
           c == NewClause
<1>1. /\ clause = c /\ l3 = {} /\ pcache = <<>> /\ todo = Watched /\ produced = <<>> /\ written = {}
  BY DEF Init
<1>2. st \in [Watched -> Stage] /\ pos \in [Watched -> Nat]
  BY DEF Stage
<1>3. \A w \in Watched : st[w] = "todo" /\ pos[w] = 0
  OBVIOUS
<1> HIDE DEF st, pos
<1>4. c \in ClauseType
  BY DEF NewClause, ClauseType
<1>5. Queues(c, st, pos)
  <2>1. /\ InStage(<<>>, "task", st, pos) /\ InStage(<<>>, "data", st, pos)
        /\ InStage(<<>>, "value", st, pos) /\ InStage(<<>>, "process", st, pos)
    BY <1>3, StageEmpty DEF InStage
  <2> QED BY <2>1 DEF Queues, NewClause
<1>6. Placed(Watched, st)
  BY <1>3 DEF Placed
<1>7. Range(<<>>) = {} /\ IsInjective(<<>>) /\ <<>> \in Seq(Request) /\ DOMAIN <<>> = {}
  BY DEF Range, IsInjective
<1>8. Path(c, {}, <<>>) /\ ReadsOf(c, {}, <<>>) = {}
  BY <1>7 DEF Path, ReadsOf, OnPath, UnderWay, Ordered, AllBefore, NewClause
<1>9. Traffic(c, {}, <<>>, st, pos)
  <2>1. Reads({}, st, pos)
    BY DEF Reads
  <2>2. Ongoing(c, {}, <<>>)
    BY FS_EmptySet DEF Ongoing, NewClause
  <2> QED BY <1>8, <2>1, <2>2 DEF Traffic
<1>10. Inflight(c, st)
  <2>1. Active(st) = {}
    BY <1>3 DEF Active, Idle
  <2> QED BY <2>1, FS_EmptySet DEF Inflight, NewClause
<1>11. Outputs(c, <<>>, {}, st)
  <2>1. OutQueue({}, <<>>)
    BY <1>7 DEF OutQueue
  <2>2. OutWrites({}, st)
    BY <1>3 DEF OutWrites
  <2>3. OutTasks(<<>>, <<>>, st)
    <3>1. \A a \in Assign : Made(a, st) = {}
      BY <1>3 DEF Made
    <3>2. <<>> \in Seq(Assign) /\ <<>> \in Seq(NewTask)
      OBVIOUS
    <3>3. \A a : Count({a}, <<>>) = 0 /\ Count(TasksFor(a), <<>>) = 0
      BY CountEmpty
    <3>4. IsFiniteSet({}) /\ Cardinality({}) = 0 + 0
      BY FS_EmptySet
    <3>5. ASSUME NEW a \in Assign
          PROVE  /\ IsFiniteSet(Made(a, st))
                 /\ Count({a}, <<>>) + Count(TasksFor(a), <<>>) = Cardinality(Made(a, st))
      BY <3>1, <3>3, <3>4, Zenon
    <3> QED BY <3>2, <3>5 DEF OutTasks
  <2>4. {} \cup Range(<<>>) = {}
    BY <1>7
  <2> QED BY <2>1, <2>2, <2>3, <2>4 DEF Outputs, NewClause
<1>12. Consistent(c, {}, <<>>, Watched, <<>>, {}, st, pos)
  BY <1>4, <1>5, <1>6, <1>9, <1>10, <1>11 DEF Consistent
<1> QED BY <1>1, <1>2, <1>12 DEF IInv, Good

\* The steps that do_cycle takes before mem_in_to_comp leave the answers alone,
\* and the value queue does not grow.
Roomier(c, c2) ==
  /\ c2.in_memory_resp_queue = c.in_memory_resp_queue
  /\ Len(c2.clause_value_read_waiting_queue) <= Len(c.clause_value_read_waiting_queue)
LEMMA StepsRoomier ==
  ASSUME NEW c \in ClauseType
  PROVE  /\ Roomier(c, ProcessWaitingToOut(c))
         /\ Roomier(c, ValueWaitingToMemOut(c))
         /\ Roomier(c, DataWaitingToMemOut(c))
<1> DEFINE v == c.clause_value_read_waiting_queue
           v2 == Advance(v, 1)
<1>1. Len(v) \in Nat /\ v \in Seq(Request) /\ Roomier(c, c)
  BY LenProperties DEF ClauseType, Roomier
<1>2. Roomier(c, ProcessWaitingToOut(c))
  <2> DEFINE c2 == ProcessWaitingToOut(c)
  <2>1. \/ c2 = c
        \/ \E q : c2 = [c EXCEPT !.clause_process_waiting_queue = q]
        \/ \E q, o, x, n : c2 = [c EXCEPT !.out_queue = o, !.out_clause_write_queue = x,
                                          !.clause_process_waiting_queue = q,
                                          !.current_inflight_request = n]
    BY DEF ProcessWaitingToOut
  <2> HIDE DEF c2
  <2>2. /\ c2.in_memory_resp_queue = c.in_memory_resp_queue
        /\ c2.clause_value_read_waiting_queue = c.clause_value_read_waiting_queue
    BY <2>1 DEF ClauseType
  <2> QED BY <1>1, <2>2 DEF Roomier, c2
<1>3. Roomier(c, ValueWaitingToMemOut(c))
  <2> DEFINE c2 == ValueWaitingToMemOut(c)
  <2>1. CASE v = <<>>
    BY <1>1, <2>1 DEF ValueWaitingToMemOut
  <2>2. CASE v # <<>>
    <3>1. PICK o : c2 = [c EXCEPT !.out_memory_read_queue = o,
                                  !.clause_value_read_waiting_queue = v2]
      BY <2>2 DEF ValueWaitingToMemOut
    <3> HIDE DEF c2, v2
    <3>2. /\ c2.in_memory_resp_queue = c.in_memory_resp_queue
          /\ c2.clause_value_read_waiting_queue = v2
      BY <3>1 DEF ClauseType
    <3>3. Len(v2) <= Len(v)
      <4>1. Len(Tail(v)) = Len(v) - 1
        BY <1>1, <2>2, TailElements
      <4>2. Len([v EXCEPT ![1].clauseId = @ + 1]) = Len(v)
        BY <1>1
      <4> HIDE DEF v
      <4> QED BY <1>1, <4>1, <4>2 DEF v2, Advance
    <3> QED BY <3>2, <3>3 DEF Roomier, c2
  <2> QED BY <2>1, <2>2
<1>4. Roomier(c, DataWaitingToMemOut(c))
  <2> DEFINE c2 == DataWaitingToMemOut(c)
  <2>1. \/ c2 = c
        \/ \E q, o : c2 = [c EXCEPT !.out_memory_read_queue = o,
                                    !.clause_data_read_waiting_queue = q]
    BY DEF DataWaitingToMemOut
  <2> HIDE DEF c2
  <2>2. /\ c2.in_memory_resp_queue = c.in_memory_resp_queue
        /\ c2.clause_value_read_waiting_queue = c.clause_value_read_waiting_queue
    BY <2>1 DEF ClauseType
  <2> QED BY <1>1, <2>2 DEF Roomier, c2
<1> QED BY <1>2, <1>3, <1>4

\* So room for a last line at the start of the cycle is room in the middle of it.
LEMMA RoomKept ==
  ASSUME NEW c \in ClauseType, NEW c2 \in ClauseType, Roomier(c, c2), LineFits(c)
  PROVE  LineFits(c2)
<1>1. /\ Len(c.clause_value_read_waiting_queue) \in Nat
      /\ Len(c2.clause_value_read_waiting_queue) \in Nat
  BY LenProperties DEF ClauseType
<1>2. data_size \in Nat
  BY ClauseAssumption
<1> QED BY <1>1, <1>2 DEF Roomier, LineFits

\* do_cycle takes its five steps one after the other.
LEMMA CycleStep ==
  ASSUME NEW c, NEW l, NEW p, NEW t, NEW g, NEW x, Good(c, l, p, t, g, x), LineFits(c)
  PROVE  Good(DoCycle(c), l, p, t, g, x)
<1> DEFINE c1 == ProcessWaitingToOut(c)
           c2 == ValueWaitingToMemOut(c1)
           c3 == DataWaitingToMemOut(c2)
           c4 == MemInToComp(c3)
           c5 == TaskToDataWaiting(c4)
<1>1. c \in ClauseType
  BY DEF Good, Consistent
<1>2. Good(c1, l, p, t, g, x) /\ Roomier(c, c1)
  BY <1>1, ProcessStep, StepsRoomier
<1> HIDE DEF c1
<1>3. c1 \in ClauseType /\ LineFits(c1)
  <2>1. c1 \in ClauseType
    BY <1>2 DEF Good, Consistent
  <2> QED BY <1>1, <1>2, <2>1, RoomKept
<1>4. Good(c2, l, p, t, g, x) /\ Roomier(c1, c2)
  BY <1>2, <1>3, ValueStep, StepsRoomier
<1> HIDE DEF c2
<1>5. c2 \in ClauseType /\ LineFits(c2)
  <2>1. c2 \in ClauseType
    BY <1>4 DEF Good, Consistent
  <2> QED BY <1>3, <1>4, <2>1, RoomKept
<1>6. Good(c3, l, p, t, g, x) /\ Roomier(c2, c3)
  BY <1>4, <1>5, DataStep, StepsRoomier
<1> HIDE DEF c3
<1>7. LineFits(c3)
  <2>1. c3 \in ClauseType
    BY <1>6 DEF Good, Consistent
  <2> QED BY <1>5, <1>6, <2>1, RoomKept
<1>8. Good(c4, l, p, t, g, x)
  BY <1>6, <1>7, RespStep
<1> HIDE DEF c4
<1>9. Good(c5, l, p, t, g, x)
  BY <1>8, TaskStep
<1> HIDE DEF c5
<1>10. DoCycle(c) = c5
  BY Zenon DEF DoCycle, BeforeMemIn, c1, c2, c3, c4, c5
<1> QED BY <1>9, <1>10

\* Every step of the unit and of its neighbours keeps the invariant, as long as
\* a last line finds room.
LEMMA NextKeepsIInv == IInv /\ LastLineFits /\ [Next]_vars => IInv'
<1> SUFFICES ASSUME IInv, LastLineFits, [Next]_vars PROVE IInv'
  OBVIOUS
<1>1. ASSUME NEW w \in Watched, WatcherToClause(w) PROVE IInv'
  <2>1. /\ w \in todo /\ clause' = PushTask(clause, Task(w)) /\ todo' = todo \ {w}
        /\ l3' = l3 /\ pcache' = pcache /\ produced' = produced /\ written' = written
    BY <1>1 DEF WatcherToClause
  <2>2. Good(PushTask(clause, Task(w)), l3, pcache, todo \ {w}, produced, written)
    BY <2>1, SentStep DEF IInv
  <2> QED BY <2>1, <2>2, Zenon DEF IInv
<1>2. ASSUME NEW req \in l3, MemoryToClause(req) PROVE IInv'
  BY <1>2, MemoryStep
<1>3. CASE ClauseToMemory
  BY <1>3, MemoryStep
<1>4. CASE PrivateCacheToClause
  BY <1>4, MemoryStep
<1>5. CASE ClauseToTrail
  BY <1>5, OutputStep
<1>6. CASE ClauseToWriteUnit
  BY <1>6, OutputStep
<1>7. CASE Cycle
  <2>1. Good(DoCycle(clause), l3, pcache, todo, produced, written)
    BY CycleStep DEF IInv, LastLineFits
  <2> QED BY <1>7, <2>1 DEF Cycle, IInv
<1>8. CASE UNCHANGED vars
  BY <1>8 DEF vars, IInv
<1> QED BY <1>1, <1>2, <1>3, <1>4, <1>5, <1>6, <1>7, <1>8 DEF Next

\* The invariant holds in every state of every behaviour in which last lines
\* find room.
LEMMA ClauseInvariant == Spec /\ []LastLineFits => []IInv
BY InitGood, NextKeepsIInv, PTL DEF Spec

\* What the invariant says of the state, for one choice of stages and indices.
LEMMA Unfolded ==
  ASSUME IInv
  PROVE  \E st \in [Watched -> Stage], pos \in [Watched -> Nat] :
           /\ clause \in ClauseType /\ Queues(clause, st, pos) /\ Placed(todo, st)
           /\ Path(clause, l3, pcache) /\ Reads(ReadsOf(clause, l3, pcache), st, pos)
           /\ Ongoing(clause, l3, pcache) /\ Inflight(clause, st)
           /\ Outputs(clause, produced, written, st)
BY DEF IInv, Good, Consistent, Traffic

\* The requests in the queue of a stage, and the clauses at that stage
LEMMA StageElement ==
  ASSUME NEW st, NEW pos, NEW q, NEW k, InStage(q, k, st, pos)
  PROVE  /\ q \in Seq(Request)
         /\ \A n \in DOMAIN q : ClauseOf(q[n]) \in Watched /\ st[ClauseOf(q[n])] = k
         /\ \A w \in Watched : st[w] = k <=> \E n \in DOMAIN q : ClauseOf(q[n]) = w
         /\ \A m, n \in DOMAIN q : ClauseOf(q[m]) = ClauseOf(q[n]) => m = n
<1>1. /\ q \in Seq(Request)
      /\ \A w \in Watched : st[w] = k <=> \E n \in DOMAIN q : KeyOf[q[n]] = w
      /\ \A m, n \in DOMAIN q : KeyOf[q[m]] = KeyOf[q[n]] => m = n
  BY DEF InStage, StageQueue
<1>2. \A n \in DOMAIN q : q[n] \in Request
  BY <1>1, RangeElements
<1>3. \A n \in DOMAIN q : ClauseOf(q[n]) \in Watched /\ KeyOf[q[n]] = ClauseOf(q[n])
  BY <1>2, RequestFields
<1> QED BY <1>1, <1>3

\* A clause is started when it has left the task queue, and done when it is
\* written.
Lives(st) ==
  \A w \in Watched : /\ Started(w) <=> st[w] \notin {"todo", "task"}
                     /\ Done(w) <=> st[w] = "done"
LEMMA Lifetime ==
  ASSUME IInv
  PROVE  \E st \in [Watched -> Stage] :
           Inflight(clause, st) /\ Outputs(clause, produced, written, st) /\ Lives(st)
<1>1. PICK st \in [Watched -> Stage], pos \in [Watched -> Nat] :
        /\ Queues(clause, st, pos) /\ Placed(todo, st) /\ Inflight(clause, st)
        /\ Outputs(clause, produced, written, st)
  BY Unfolded
<1>2. ASSUME NEW w \in Watched PROVE Started(w) <=> st[w] \notin {"todo", "task"}
  <2>1. InStage(clause.in_task_queue, "task", st, pos)
    BY <1>1 DEF Queues
  <2>2. st[w] = "task"
          <=> \E k \in DOMAIN clause.in_task_queue : ClauseOf(clause.in_task_queue[k]) = w
    BY <2>1, StageElement
  <2> QED BY <1>1, <2>2 DEF Started, Placed
<1>3. ASSUME NEW w \in Watched PROVE Done(w) <=> st[w] = "done"
  <2>1. OutWrites(Writes, st)
    BY <1>1 DEF Outputs, Writes
  <2> QED BY <2>1 DEF OutWrites, Done
<1> QED BY <1>1, <1>2, <1>3 DEF Lives

\* Every request in every queue, on every path, names a literal that exists,
\* though mem_out advances the index by a whole line at a time.
THEOREM ClauseTypeOK == Spec /\ []LastLineFits => []TypeOK
<1>1. IInv => TypeOK
  <2> SUFFICES ASSUME IInv PROVE TypeOK
    OBVIOUS
  <2>1. PICK st \in [Watched -> Stage], pos \in [Watched -> Nat] :
          /\ clause \in ClauseType /\ Placed(todo, st) /\ Path(clause, l3, pcache)
          /\ Outputs(clause, produced, written, st)
    BY Unfolded
  <2>2. l3 \subseteq Request /\ pcache \in Seq(Request)
    BY <2>1 DEF Path, OnPath
  <2>3. todo \subseteq Watched /\ produced \in Seq(Assign) /\ written \subseteq Request
    BY <2>1 DEF Placed, Outputs, OutQueue, OutTasks
  <2> QED BY <2>1, <2>2, <2>3, Zenon DEF TypeOK, ClauseType
<1> QED BY <1>1, ClauseInvariant, PTL

\* on_going_requests counts the reads the memory has and has not answered, so
\* push_to_in_memory_resp_queue never throws.
THEOREM ClauseOngoing == Spec /\ []LastLineFits => []OngoingExact
<1>1. IInv => OngoingExact
  <2> SUFFICES ASSUME IInv PROVE OngoingExact
    OBVIOUS
  <2>1. Ongoing(clause, l3, pcache)
    BY Unfolded
  <2> QED BY <2>1 DEF Ongoing, OngoingExact
<1> QED BY <1>1, ClauseInvariant, PTL

\* current_inflight_request is the number of clauses that have left the task
\* queue and are not written yet.
THEOREM ClauseInflight == Spec /\ []LastLineFits => []InflightExact
<1>1. IInv => InflightExact
  <2> SUFFICES ASSUME IInv PROVE InflightExact
    OBVIOUS
  <2>1. PICK st \in [Watched -> Stage] : Inflight(clause, st) /\ Lives(st)
    BY Lifetime
  <2>2. {w \in Watched : Started(w) /\ ~Done(w)} = Active(st)
    BY <2>1 DEF Active, Idle, Lives
  <2> QED BY <2>1, <2>2 DEF Inflight, InflightExact
<1> QED BY <1>1, ClauseInvariant, PTL

\* A clause waits to be examined only when all its values are back.
THEOREM ClauseProcess == Spec /\ []LastLineFits => []ProcessAfterValues
<1>1. IInv => ProcessAfterValues
  <2> SUFFICES ASSUME IInv, NEW n \in DOMAIN clause.clause_process_waiting_queue,
                      NEW r \in Outstanding("ReadClauseValue")
               PROVE  ClauseOf(r) # ClauseOf(clause.clause_process_waiting_queue[n])
    BY DEF ProcessAfterValues
  <2>1. PICK st \in [Watched -> Stage], pos \in [Watched -> Nat] :
          Queues(clause, st, pos) /\ Reads(ReadsOf(clause, l3, pcache), st, pos)
    BY Unfolded
  <2>2. r \in ReadsOf(clause, l3, pcache) /\ r.type = Value
    BY DEF Outstanding, ReadsOf, UnderWay, Value
  <2>3. st[ClauseOf(r)] # "process"
    BY <2>1, <2>2, Types DEF Reads, ReadOf
  <2>4. InStage(clause.clause_process_waiting_queue, "process", st, pos)
    BY <2>1 DEF Queues
  <2>5. st[ClauseOf(clause.clause_process_waiting_queue[n])] = "process"
    BY <2>4, StageElement
  <2> QED BY <2>3, <2>5
<1> QED BY <1>1, ClauseInvariant, PTL

\* Each clause is written once, with its last index, and each one that became
\* unit has yielded its assignment exactly once by then.
THEOREM ClauseClausesOnce == Spec /\ []LastLineFits => []ClausesOnce
<1>1. IInv => ClausesOnce
  <2> SUFFICES ASSUME IInv PROVE ClausesOnce
    OBVIOUS
  <2> DEFINE o == clause.out_queue
             q == clause.out_clause_write_queue
  <2>1. PICK st \in [Watched -> Stage] : Outputs(clause, produced, written, st) /\ Lives(st)
    BY Lifetime
  <2>2. /\ OutQueue(written, q) /\ OutWrites(Writes, st) /\ OutTasks(produced, o, st)
    BY <2>1 DEF Outputs, Writes
  <2>3. IsInjective(q) /\ written \cap Range(q) = {}
    BY <2>2 DEF OutQueue
  <2>4. \A r \in Writes : r.clauseId = Size(r) - 1
    BY <2>2 DEF OutWrites
  <2>5. ASSUME NEW a \in Assign
        PROVE  Occurs(a, produced) + Cardinality({i \in DOMAIN o : o[i].as = a})
                 = Cardinality({w \in Watched : get_generated[w] = a /\ Done(w)})
    <3>1. o \in Seq(NewTask)
          /\ Count({a}, produced) + Count(TasksFor(a), o) = Cardinality(Made(a, st))
      BY <2>2 DEF OutTasks
    <3>2. Where({a}, produced) = {i \in DOMAIN produced : produced[i] = a}
      BY DEF Where
    <3>3. \A i \in DOMAIN o : o[i] \in NewTask
      BY <3>1, RangeElements
    <3> HIDE DEF o
    <3>4. Where(TasksFor(a), o) = {i \in DOMAIN o : o[i].as = a}
      BY <3>3 DEF Where, TasksFor
    <3>5. Made(a, st) = {w \in Watched : get_generated[w] = a /\ Done(w)}
      BY <2>1 DEF Made, Lives
    <3> QED BY <3>1, <3>2, <3>4, <3>5 DEF Occurs, Count
  <2> QED BY <2>3, <2>4, <2>5 DEF ClausesOnce
<1> QED BY <1>1, ClauseInvariant, PTL

\* With no more clauses than the value queue has room for, a last line always
\* finds room: the queue holds only clauses at other stages than the line's.
THEOREM ClauseFits ==
  ASSUME IsFiniteSet(Watched), Cardinality(Watched) <= data_size
  PROVE  Spec => []LastLineFits
<1>1. IInv => LastLineFits
  <2> DEFINE q == clause.clause_value_read_waiting_queue
             i == clause.in_memory_resp_queue
             r == Head(i)
             w == ClauseOf(r)
  <2> SUFFICES ASSUME IInv, i # <<>>, r.type = Data, LastLine(r)
               PROVE  Len(q) < data_size
    BY DEF LastLineFits, LineFits
  <2>1. PICK st \in [Watched -> Stage], pos \in [Watched -> Nat] :
          /\ Queues(clause, st, pos) /\ Path(clause, l3, pcache)
          /\ Reads(ReadsOf(clause, l3, pcache), st, pos)
    BY Unfolded
  <2>2. st[w] = "dataread" /\ w \in Watched
    <3>1. r \in Range(i) /\ r \in Request
      BY <2>1, RangeElements DEF Path, OnPath
    <3>2. ReadOf(r, st, pos)
      BY <2>1, <3>1 DEF Reads, ReadsOf, UnderWay
    <3> QED BY <3>1, <3>2, RequestFields DEF ReadOf
  <2> DEFINE T == Watched \ {w}
             S == 1 .. Len(q)
             f == [n \in S |-> ClauseOf(q[n])]
  <2> HIDE DEF w, r
  <2>3. /\ q \in Seq(Request) /\ Len(q) \in Nat
        /\ \A n \in S : ClauseOf(q[n]) \in Watched /\ st[ClauseOf(q[n])] = "value"
        /\ \A m, n \in S : ClauseOf(q[m]) = ClauseOf(q[n]) => m = n
    <3>1. InStage(q, "value", st, pos)
      BY <2>1 DEF Queues
    <3>2. q \in Seq(Request)
      BY <3>1, StageElement
    <3>3. DOMAIN q = S /\ Len(q) \in Nat
      BY <3>2, LenProperties
    <3> QED BY <3>1, <3>2, <3>3, StageElement
  <2>4. IsFiniteSet(T) /\ Cardinality(T) = Cardinality(Watched) - 1
    BY <2>2, FS_RemoveElement
  <2>5. f \in Injection(S, T)
    <3>1. f \in [S -> T]
      BY <2>2, <2>3
    <3>2. \A m, n \in S : f[m] = f[n] => m = n
      BY <2>3
    <3> HIDE DEF f, S, T
    <3> QED BY <3>1, <3>2, Fun_IsInj
  <2>6. Cardinality(S) <= Cardinality(T)
    <3> HIDE DEF f, S, T
    <3> QED BY <2>4, <2>5, FS_Injection
  <2>7. Cardinality(S) = Len(q)
    BY <2>3, FS_Interval
  <2>8. Cardinality(Watched) \in Nat /\ data_size \in Nat
    BY FS_CardinalityType, ClauseAssumption
  <2> QED BY <2>3, <2>4, <2>6, <2>7, <2>8
<1>2. IInv /\ [Next]_vars => IInv'
  BY <1>1, NextKeepsIInv
<1> QED BY <1>1, <1>2, InitGood, PTL DEF Spec

\* Then all of the above holds without any condition on the behaviour.
THEOREM ClauseCorrect ==
  ASSUME IsFiniteSet(Watched), Cardinality(Watched) <= data_size
  PROVE  Spec => [](TypeOK /\ OngoingExact /\ InflightExact /\ ProcessAfterValues /\ ClausesOnce)
<1>1. Spec => []LastLineFits
  BY ClauseFits
<1> QED BY <1>1, ClauseTypeOK, ClauseOngoing, ClauseInflight, ClauseProcess, ClauseClausesOnce, PTL
=============================================================================
