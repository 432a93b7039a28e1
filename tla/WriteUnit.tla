----------------------------- MODULE WriteUnit -------------------------------
(*****************************************************************************)
(* One list write unit between the two hooks of acc that feed it and         *)
(* drain it, with flush between any two cycles.                              *)
(*****************************************************************************)
EXTENDS ListWriteUnit

CONSTANTS
  MaxRequests,           \* bound: requests in the unit at once
  MaxAging               \* bound: entries of the aging queue

-----------------------------------------------------------------------------
VARIABLE unit

Init == unit = NewUnit

Work(u) == Len(u.in_request) + Cardinality(DOMAIN u.current_map) + Len(u.out_mem_requst)

\* acc's hooks watcher_to_writeuint and watcher_icnt_to_watcher_writer
Receive(req) ==
  /\ Work(unit) < MaxRequests
  /\ Len(unit.in_request) + Len(unit.entry_aging_queue) < MaxAging
  /\ unit' = [unit EXCEPT !.in_request = Append(@, req)]

\* acc's hook watcher_write_unit_to_cache: one write goes to the memory network.
Drain ==
  /\ unit.out_mem_requst # <<>>
  /\ unit' = [unit EXCEPT !.out_mem_requst = Tail(@)]

Cycle == unit.in_request # <<>> /\ unit' = DoCycle(unit)

Flush == \E order \in KeyOrders(unit.current_req) : unit' = FlushUnit(unit, order)

Next == \/ \E req \in Request({"ReadWatcherValue"}) : Receive(req)
        \/ Drain \/ Cycle \/ Flush

\* acc::do_cycle runs every hook and every component in each cycle, and the
\* program that drives acc ends with flush_all.
Fairness == WF_unit(Drain) /\ WF_unit(Cycle) /\ WF_unit(Flush)

Spec == Init /\ [][Next]_unit
FairSpec == Spec /\ Fairness

-----------------------------------------------------------------------------
(* Properties *)

\* std::map<int, S> as a function from the keys present
Map(S) == UNION {[D -> S] : D \in SUBSET Value}

Unit == [in_request        : Seq(Request({"ReadWatcherValue"})),
         out_mem_requst    : Seq(Request({"WriteWatcherList"})),
         current_map       : Map(1 .. max_merge),
         current_req       : Map(Request({"WriteWatcherList"})),
         entry_aging_queue : Seq(Value)]

\* The queues hold requests that name an existing watcher, the tables map
\* literals to merge counts within 1 .. max_merge and to write requests.
TypeOK == unit \in Unit

\* current_map and current_req have the same keys, and the request kept under
\* a key is a write of that key's list.  do_cycle reads current_req.at() and
\* current_map.at() with keys found in the other table.
MapsAgree ==
  /\ DOMAIN unit.current_map = DOMAIN unit.current_req
  /\ \A v \in DOMAIN unit.current_req : ValueOf(unit.current_req[v]) = v

\* Every live entry still has a place in the aging queue, so the loop that
\* skips stale entries (it never tests for an empty queue) stops at a live one.
AgingCoversLive ==
  \A v \in DOMAIN unit.current_req : \E i \in DOMAIN unit.entry_aging_queue :
     unit.entry_aging_queue[i] = v

\* The table never outgrows max_entry.
EntriesBounded ==
  /\ IsFiniteSet(DOMAIN unit.current_map)
  /\ Cardinality(DOMAIN unit.current_map) <= max_entry

\* The unit is a write buffer: an update is never lost, a list is written only
\* when it is dirty, and flush writes every dirty list once.
Buffer == INSTANCE WriteBuffer WITH
  Capacity <- max_entry,
  incoming <- [i \in DOMAIN unit.in_request |-> ValueOf(unit.in_request[i])],
  dirty    <- DOMAIN unit.current_req,
  written  <- [i \in DOMAIN unit.out_mem_requst |-> ValueOf(unit.out_mem_requst[i])]
BufferSpec == Buffer!Spec

\* Every update that reaches the unit is followed by a write of its list: as
\* long as one waits in the queue or in the table, a write is still to come.
EveryUpdateIsWritten ==
  \A v \in Value :
    (\/ \E i \in DOMAIN unit.in_request : ValueOf(unit.in_request[i]) = v
     \/ v \in DOMAIN unit.current_req)
      ~> (\E i \in DOMAIN unit.out_mem_requst : ValueOf(unit.out_mem_requst[i]) = v)
=============================================================================
