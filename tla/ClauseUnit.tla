----------------------------- MODULE ClauseUnit ------------------------------
(*****************************************************************************)
(* clause: the unit that reads a clause (a line at a time), reads the        *)
(* value of each of its literals, and then writes the clause back and, if    *)
(* the clause became unit, sends the new assignment to the trail.  One       *)
(* unit is one record and the five steps of do_cycle are operators on        *)
(* records.                                                                  *)
(*****************************************************************************)
EXTENDS Integers, Sequences, FiniteSets, SequencesExt

CONSTANTS
  Assign,               \* assignments
  Watched,              \* <<assignment, watcherId>>: the clauses to be read
  get_clause_literal,   \* <<assignment, watcherId>> -> number of literals
  get_generated,        \* <<assignment, watcherId>> -> new assignment or Nothing
  Nothing,
  LineSize,             \* literals per cache line (16 in the code)
  data_size, process_size

ASSUME ClauseAssumption ==
  /\ Watched \subseteq Assign \X Nat
  /\ get_clause_literal \in [Watched -> Nat \ {0}]
  /\ get_generated \in [Watched -> Assign \cup {Nothing}] /\ Nothing \notin Assign
  /\ {LineSize, data_size, process_size} \subseteq Nat \ {0}

ClauseOf(req) == <<req.as, req.watcherId>>
Size(req) == get_clause_literal[ClauseOf(req)]

NewClause ==
  [in_task_queue |-> <<>>, clause_data_read_waiting_queue |-> <<>>,
   clause_value_read_waiting_queue |-> <<>>, clause_process_waiting_queue |-> <<>>,
   out_memory_read_queue |-> <<>>, in_memory_resp_queue |-> <<>>,
   out_queue |-> <<>>, out_clause_write_queue |-> <<>>,
   on_going_requests |-> 0, current_inflight_request |-> 0]

\* Mutant: the clause stays when exactly no literal is left.
AdvancePastEnd(q, n) ==
  IF Head(q).clauseId + n > Size(Head(q))
  THEN Tail(q)
  ELSE [q EXCEPT ![1].clauseId = @ + n]

\* The clause at the head of q has dealt with n more literals; it leaves q
\* when none is left.
Advance(q, n) ==
  IF Head(q).clauseId + n >= Size(Head(q))
  THEN Tail(q)
  ELSE [q EXCEPT ![1].clauseId = @ + n]

-----------------------------------------------------------------------------
(* The steps of clause::do_cycle                                            *)

\* Mutants: the last line, value or literal is missed by one; every line counts
\* as the last one.
LineAfterLast(req) == req.clauseId + LineSize > Size(req)
EveryLine(req) == TRUE
LastValueButOne(req) == req.clauseId + 2 >= Size(req)
LastLiteralButOne(req) == req.clauseId + 2 >= Size(req)

\* "the last one" is told by the index of the request.
LastLine(req) == req.clauseId + LineSize >= Size(req)
LastValue(req) == req.clauseId + 1 >= Size(req)
LastLiteral(req) == req.clauseId + 1 >= Size(req)

\* One literal is examined; with the last one the clause is done.
ProcessWaitingToOut(c) ==
  LET q    == c.clause_process_waiting_queue
      req  == Head(q)
      new  == get_generated[ClauseOf(req)]
      unit == [req EXCEPT !.as = new, !.watcherId = 0, !.clauseId = 0,
                          !.type = "ReadWatcherMetaData"]
  IN CASE q = <<>> -> c
       [] q # <<>> /\ ~ LastLiteral(req) -> [c EXCEPT !.clause_process_waiting_queue = Advance(q, 1)]
       [] q # <<>> /\ LastLiteral(req) ->
            [c EXCEPT !.out_queue = IF new # Nothing THEN Append(@, unit) ELSE @,
                      !.out_clause_write_queue = Append(@, req),
                      !.clause_process_waiting_queue = Advance(q, 1),
                      !.current_inflight_request = @ - 1]

ValueWaitingToMemOut(c) ==
  IF c.clause_value_read_waiting_queue = <<>> THEN c
  ELSE LET req == [Head(c.clause_value_read_waiting_queue) EXCEPT !.type = "ReadClauseValue"]
       IN [c EXCEPT !.out_memory_read_queue = Append(@, req),
                    !.clause_value_read_waiting_queue = Advance(@, 1)]

DataWaitingToMemOut(c) ==
  IF c.clause_data_read_waiting_queue = <<>> THEN c
  ELSE LET req == [Head(c.clause_data_read_waiting_queue) EXCEPT !.type = "ReadClauseData"]
       IN [c EXCEPT !.out_memory_read_queue = Append(@, req),
                    !.clause_data_read_waiting_queue = Advance(@, LineSize)]

\* The branches of mem_in_to_comp: the first one is for data answers with room
\* in the value queue, the second one for whatever else, with room in the
\* process queue.
TakesDataBranch(c) ==
  /\ c.in_memory_resp_queue # <<>>
  /\ Head(c.in_memory_resp_queue).type = "ReadClauseData"
  /\ Len(c.clause_value_read_waiting_queue) < data_size
TakesValueBranch(c) ==
  /\ c.in_memory_resp_queue # <<>>
  /\ ~ TakesDataBranch(c)
  /\ Len(c.clause_process_waiting_queue) < process_size

MemInToComp(c) ==
  LET req    == Head(c.in_memory_resp_queue)
      popped == [c EXCEPT !.in_memory_resp_queue = Tail(@)]
  IN CASE TakesDataBranch(c) ->
            [popped EXCEPT !.clause_value_read_waiting_queue =
               IF LastLine(req)
               THEN Append(@, [req EXCEPT !.type = "ReadClauseValue", !.clauseId = 0])
               ELSE @]
       [] TakesValueBranch(c) ->
            [popped EXCEPT !.clause_process_waiting_queue =
               IF LastValue(req)
               THEN Append(@, [req EXCEPT !.clauseId = 0])
               ELSE @]
       [] ~ TakesDataBranch(c) /\ ~ TakesValueBranch(c) -> c

TaskToDataWaiting(c) ==
  IF c.in_task_queue = <<>> \/ Len(c.clause_data_read_waiting_queue) >= data_size THEN c
  ELSE [c EXCEPT
          !.current_inflight_request = @ + 1,
          !.clause_data_read_waiting_queue =
             Append(@, [Head(c.in_task_queue) EXCEPT !.type = "ReadClauseData", !.clauseId = 0]),
          !.in_task_queue = Tail(@)]

BeforeMemIn(c) == DataWaitingToMemOut(ValueWaitingToMemOut(ProcessWaitingToOut(c)))

DoCycle(c) == TaskToDataWaiting(MemInToComp(BeforeMemIn(c)))

\* empty()
IsEmpty(c) ==
  <<>> = c.clause_data_read_waiting_queue \o c.clause_value_read_waiting_queue
         \o c.clause_process_waiting_queue \o c.in_memory_resp_queue \o c.in_task_queue
         \o c.out_memory_read_queue \o c.out_queue \o c.out_clause_write_queue

\* Mutant: an answer is not counted.
PushRespUncounted(c, req) == [c EXCEPT !.in_memory_resp_queue = Append(@, req)]

\* push_to_in_task_queue, push_to_in_memory_resp_queue, pop_from_out_memory_read_queue
PushTask(c, req) == [c EXCEPT !.in_task_queue = Append(@, req)]
PushResp(c, req) == [c EXCEPT !.on_going_requests = @ - 1,
                              !.in_memory_resp_queue = Append(@, req)]
PopRead(c) == [c EXCEPT !.on_going_requests = @ + 1,
                        !.out_memory_read_queue = Tail(@)]
=============================================================================
