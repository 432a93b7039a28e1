---------------------------- MODULE WatcherUnit ------------------------------
(*****************************************************************************)
(* watcher: the unit that walks the watcher list of an assigned literal.     *)
(* A task passes through four stages: the list's meta data is read, then     *)
(* the list itself a line at a time, then the value of every watcher, and    *)
(* then every watcher is processed: its list is written back and, if need    *)
(* be, its clause is sent to a clause unit.  One unit is one record and      *)
(* the six steps of do_cycle are operators on records.                       *)
(*****************************************************************************)
EXTENDS Integers, Sequences, FiniteSets, SequencesExt

CONSTANTS
  Assign,             \* assignments, the tasks
  get_watcher_size,   \* assignment -> length of its watcher list
  is_read_clause,     \* <<assignment, watcherId>> of the watchers whose clause
                      \*   must be read
  LineSize,           \* watchers per cache line (16 in the code)
  in_size, in_mem_size

ASSUME WatcherAssumption ==
  /\ get_watcher_size \in [Assign -> Nat]
  /\ {LineSize, in_size, in_mem_size} \subseteq Nat \ {0}

Size(req) == get_watcher_size[req.as]

NewWatcher ==
  [in_task_queue |-> <<>>, waiting_read_meta_queue |-> <<>>,
   waiting_read_watcher_queue |-> <<>>, waiting_value_watcher_queue |-> <<>>,
   waiting_process_queue |-> <<>>, out_memory_read_queue |-> <<>>,
   in_memory_resp_queue |-> <<>>, out_send_queue |-> <<>>,
   out_write_watcher_list_queue |-> <<>>,
   outgoing_read_watcher_data |-> 0, outgoing_read_watcher_value |-> 0,
   num_inflight_request |-> 0]

\* Mutant: the list stays when exactly no watcher is left.
AdvancePastEnd(q, n) ==
  IF Head(q).watcherId + n > Size(Head(q))
  THEN Tail(q)
  ELSE [q EXCEPT ![1].watcherId = @ + n]

\* The list at the head of q has dealt with n more watchers; it leaves q when
\* none is left.
Advance(q, n) ==
  IF Head(q).watcherId + n >= Size(Head(q))
  THEN Tail(q)
  ELSE [q EXCEPT ![1].watcherId = @ + n]

-----------------------------------------------------------------------------
(* The steps of watcher::do_cycle                                           *)

FromWatcherMetaToMemory(w) ==
  IF w.waiting_read_meta_queue = <<>> THEN w
  ELSE LET req == [Head(w.waiting_read_meta_queue) EXCEPT
                     !.type = "ReadWatcherMetaData", !.watcherId = 0]
       IN [w EXCEPT !.out_memory_read_queue = Append(@, req),
                    !.waiting_read_meta_queue = Tail(@)]

FromValueToOutMem(w) ==
  IF w.waiting_value_watcher_queue = <<>> THEN w
  ELSE LET req == [Head(w.waiting_value_watcher_queue) EXCEPT !.type = "ReadWatcherValue"]
       IN [w EXCEPT !.out_memory_read_queue = Append(@, req),
                    !.outgoing_read_watcher_value = @ + 1,
                    !.waiting_value_watcher_queue = Advance(@, 1)]

\* Mutant: every watcher's clause is sent.
ProcessAllToOut(w) ==
  IF w.waiting_process_queue = <<>> THEN w
  ELSE LET req  == Head(w.waiting_process_queue)
           last == req.watcherId + 1 >= Size(req)
       IN [w EXCEPT
             !.out_write_watcher_list_queue = Append(@, req),
             !.out_send_queue = Append(@, [req EXCEPT !.clauseId = 0]),
             !.num_inflight_request = IF last THEN @ - 1 ELSE @,
             !.waiting_process_queue = Advance(@, 1)]

FromProcessToOut(w) ==
  IF w.waiting_process_queue = <<>> THEN w
  ELSE LET req  == Head(w.waiting_process_queue)
           last == req.watcherId + 1 >= Size(req)
       IN [w EXCEPT
             !.out_write_watcher_list_queue = Append(@, req),
             !.out_send_queue = IF <<req.as, req.watcherId>> \in is_read_clause
                                THEN Append(@, [req EXCEPT !.clauseId = 0]) ELSE @,
             !.num_inflight_request = IF last THEN @ - 1 ELSE @,
             !.waiting_process_queue = Advance(@, 1)]

\* Mutants: an empty list that leaves is still counted, and an empty list is
\* not told apart.
ReadWatcherKeepsCount(w) ==
  LET q   == w.waiting_read_watcher_queue
      req == [Head(q) EXCEPT !.type = "ReadWatcherData"]
  IN CASE q = <<>> -> w
       [] q # <<>> /\ Head(q).watcherId >= Size(Head(q)) ->
            [w EXCEPT !.waiting_read_watcher_queue = Tail(@)]
       [] q # <<>> /\ Head(q).watcherId < Size(Head(q)) ->
            [w EXCEPT !.out_memory_read_queue = Append(@, req),
                      !.outgoing_read_watcher_data = @ + 1,
                      !.waiting_read_watcher_queue = Advance(@, LineSize)]
ReadWatcherNoEmptyList(w) ==
  IF w.waiting_read_watcher_queue = <<>> THEN w
  ELSE LET req == [Head(w.waiting_read_watcher_queue) EXCEPT !.type = "ReadWatcherData"]
       IN [w EXCEPT !.out_memory_read_queue = Append(@, req),
                    !.outgoing_read_watcher_data = @ + 1,
                    !.waiting_read_watcher_queue = Advance(@, LineSize)]

\* An empty list is finished here.
FromReadWatcherToMem(w) ==
  LET q   == w.waiting_read_watcher_queue
      req == [Head(q) EXCEPT !.type = "ReadWatcherData"]
  IN CASE q = <<>> -> w
       [] q # <<>> /\ Head(q).watcherId >= Size(Head(q)) ->
            [w EXCEPT !.waiting_read_watcher_queue = Tail(@),
                      !.num_inflight_request = @ - 1]
       [] q # <<>> /\ Head(q).watcherId < Size(Head(q)) ->
            [w EXCEPT !.out_memory_read_queue = Append(@, req),
                      !.outgoing_read_watcher_data = @ + 1,
                      !.waiting_read_watcher_queue = Advance(@, LineSize)]

FromInToRead(w) ==
  IF w.in_task_queue = <<>> THEN w
  ELSE [w EXCEPT
          !.num_inflight_request = @ + 1,
          !.waiting_read_meta_queue =
             Append(@, [Head(w.in_task_queue) EXCEPT !.type = "ReadWatcherMetaData"]),
          !.in_task_queue = Tail(@)]

\* Mutants: every line counts as the last one; the last but one value does.
EveryLine(req) == TRUE
LastValueButOne(req) == req.watcherId + 2 >= Size(req)

\* "the last one" is told by the index in the answer.
LastLine(req) == req.watcherId + LineSize >= Size(req)
LastValue(req) == req.watcherId + 1 >= Size(req)

\* Mutant: only the last line is counted back.
CountLastAnswer(w, req) ==
  CASE req.type = "ReadWatcherData"     -> IF LastLine(req)
         THEN [w EXCEPT !.outgoing_read_watcher_data = @ - 1] ELSE w
    [] req.type = "ReadWatcherValue"    -> [w EXCEPT !.outgoing_read_watcher_value = @ - 1]
    [] req.type = "ReadWatcherMetaData" -> w

CountAnswer(w, req) ==
  CASE req.type = "ReadWatcherData"     -> [w EXCEPT !.outgoing_read_watcher_data = @ - 1]
    [] req.type = "ReadWatcherValue"    -> [w EXCEPT !.outgoing_read_watcher_value = @ - 1]
    [] req.type = "ReadWatcherMetaData" -> w

\* The last line of a list starts the reads of its values, the last value
\* starts its processing.
FromRespToInsider(w) ==
  LET req     == Head(w.in_memory_resp_queue)
      restart == [req EXCEPT !.watcherId = 0]
      popped  == CountAnswer([w EXCEPT !.in_memory_resp_queue = Tail(@)], req)
  IN CASE w.in_memory_resp_queue = <<>> -> w
       [] w.in_memory_resp_queue # <<>> /\ req.type = "ReadWatcherData" ->
            [popped EXCEPT !.waiting_value_watcher_queue =
               IF LastLine(req) THEN Append(@, restart) ELSE @]
       [] w.in_memory_resp_queue # <<>> /\ req.type = "ReadWatcherValue" ->
            [popped EXCEPT !.waiting_process_queue =
               IF LastValue(req) THEN Append(@, restart) ELSE @]
       [] w.in_memory_resp_queue # <<>> /\ req.type = "ReadWatcherMetaData" ->
            [popped EXCEPT !.waiting_read_watcher_queue =
               Append(@, [restart EXCEPT !.type = "ReadWatcherData"])]

DoCycle(w) ==
  FromRespToInsider(FromInToRead(FromReadWatcherToMem(
    FromProcessToOut(FromValueToOutMem(FromWatcherMetaToMemory(w))))))

\* recieve_rdy(), recieve_mem_rdy() and empty()
RecieveRdy(w) == Len(w.in_task_queue) < in_size
RecieveMemRdy(w) == Len(w.in_memory_resp_queue) < in_mem_size
IsEmpty(w) ==
  <<>> = w.waiting_read_meta_queue \o w.waiting_value_watcher_queue
         \o w.waiting_read_watcher_queue \o w.waiting_process_queue
         \o w.in_task_queue \o w.in_memory_resp_queue \o w.out_memory_read_queue
         \o w.out_send_queue \o w.out_write_watcher_list_queue
=============================================================================
