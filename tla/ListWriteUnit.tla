--------------------------- MODULE ListWriteUnit -----------------------------
(*****************************************************************************)
(* watcher_list_write_unit: the unit that merges the writes of watcher       *)
(* lists before they go to the L3 cache.  One unit is one record; do_cycle   *)
(* and flush are operators on records, so that a machine can hold one        *)
(* record per unit.                                                          *)
(*****************************************************************************)
EXTENDS Integers, Sequences, FiniteSets, SequencesExt

CONSTANTS
  Value,                 \* the literals (integers), each with a watcher list
  Assign,                \* assignments, the tasks of the accelerator
  get_value,             \* assignment -> its literal
  get_watcher_size,      \* assignment -> length of its watcher list
  get_pushed,            \* <<assignment, watcherId>> -> literal whose list the
                         \*   watcher moves to, or NotPushed
  NotPushed,             \* get_is_push_to_other is false
  max_merge, max_entry

ASSUME WriteUnitAssumption ==
  /\ max_merge \in Nat \ {0}
  /\ max_entry \in Nat \ {0}
  /\ Value \subseteq Int
  /\ NotPushed \notin Value
  /\ get_value \in [Assign -> Value]
  /\ get_watcher_size \in [Assign -> Nat]

\* get_pushed is total on the watchers that exist.
ASSUME PushedAssumption ==
  \A a \in Assign : \A i \in 0 .. get_watcher_size[a] - 1 :
     get_pushed[<<a, i>>] \in Value \cup {NotPushed}

\* A request names one watcher of the list of an assignment.  It comes from
\* watcher::from_process_to_out, which never sends one for an empty list.
Request(types) ==
  UNION {[as : {a}, watcherId : 0 .. get_watcher_size[a] - 1, type : types] : a \in Assign}

\* The list a request updates: the one the watcher is pushed to, or its own.
ValueOf(req) ==
  LET pushed == get_pushed[<<req.as, req.watcherId>>]
  IN  IF pushed # NotPushed THEN pushed ELSE get_value[req.as]

EmptyMap == [v \in {} |-> {}]

NewUnit == [in_request |-> <<>>, out_mem_requst |-> <<>>,
            current_map |-> EmptyMap, current_req |-> EmptyMap,
            entry_aging_queue |-> <<>>]

\* std::map::erase and std::map::insert
Erase(map, value) == Restrict(map, DOMAIN map \ {value})
Insert(map, value, x) ==
  [v \in DOMAIN map \cup {value} |-> IF v = value THEN x ELSE map[v]]

\* Mutant: the request table keeps its entry.
DropCountOnly(u, value) == [u EXCEPT !.current_map = Erase(@, value)]

\* Both tables drop their entry for value.
DropEntry(u, value) ==
  [u EXCEPT !.current_map = Erase(@, value), !.current_req = Erase(@, value)]

Emit(u, req) == [u EXCEPT !.out_mem_requst = Append(@, req)]

-----------------------------------------------------------------------------
(* watcher_list_write_unit::do_cycle                                        *)

\* Mutants: an off-by-one in the test of the merge count, and a full entry that
\* is dropped without its write.
MergeOnceMore(u, value, req) ==
  IF u.current_map[value] <= max_merge
  THEN [u EXCEPT !.current_map[value] = @ + 1]
  ELSE DropEntry(Emit(u, req), value)
MergeWithoutWrite(u, value, req) ==
  IF u.current_map[value] < max_merge
  THEN [u EXCEPT !.current_map[value] = @ + 1]
  ELSE DropEntry(u, value)

\* The value has an entry: count the merge (the request itself is dropped),
\* or, when the entry is full, write now and forget the entry.  Its place in
\* the aging queue stays.
MergeEntry(u, value, req) ==
  IF u.current_map[value] < max_merge
  THEN [u EXCEPT !.current_map[value] = @ + 1]
  ELSE DropEntry(Emit(u, req), value)

\* The position at which the loop over stale aging entries stops.
OldestLive(u) ==
  SelectInSeq(u.entry_aging_queue, LAMBDA v : v \in DOMAIN u.current_req)

\* Mutant: the pop after the loop takes one place too many.
EvictAndPopTwice(u) ==
  LET i == OldestLive(u)
      oldest_entry == u.entry_aging_queue[i]
  IN  DropEntry([Emit(u, u.current_req[oldest_entry]) EXCEPT
                   !.entry_aging_queue = SubSeq(@, i + 2, Len(@))],
                oldest_entry)

\* Make room: skip stale aging entries, write the entry of the first live one.
EvictEntry(u) ==
  LET i == OldestLive(u)
      oldest_entry == u.entry_aging_queue[i]
  IN  DropEntry([Emit(u, u.current_req[oldest_entry]) EXCEPT
                   !.entry_aging_queue = SubSeq(@, i + 1, Len(@))],
                oldest_entry)

NewEntry(u, value, req) ==
  [u EXCEPT !.entry_aging_queue = Append(@, value),
            !.current_map = Insert(@, value, 1),
            !.current_req = Insert(@, value, req)]

\* Mutant: room is made one entry too late.
OverFull(u) == Cardinality(DOMAIN u.current_map) > max_entry

Full(u) == Cardinality(DOMAIN u.current_map) >= max_entry

DoCycle(u) ==
  LET req    == [Head(u.in_request) EXCEPT !.type = "WriteWatcherList"]
      value  == ValueOf(req)
      popped == [u EXCEPT !.in_request = Tail(@)]
  IN  CASE u.in_request = <<>> -> u
        [] u.in_request # <<>> /\ value \in DOMAIN u.current_map ->
             MergeEntry(popped, value, req)
        [] u.in_request # <<>> /\ value \notin DOMAIN u.current_map ->
             NewEntry(IF Full(u) THEN EvictEntry(popped) ELSE popped, value, req)

\* The order in which flush walks std::map current_req: by key.
KeyOrders(map) ==
  {order \in SetToSeqs(DOMAIN map) :
     \A i, j \in DOMAIN order : i < j => order[i] < order[j]}

\* The values of map in the given order of its keys.
InOrder(map, order) == [i \in DOMAIN order |-> map[order[i]]]

\* Mutant: the tables are cleared before their requests are sent.
FlushWithoutSending(u, order) ==
  [u EXCEPT !.entry_aging_queue = <<>>,
            !.current_map = EmptyMap,
            !.current_req = EmptyMap]

\* watcher_list_write_unit::flush
FlushUnit(u, order) ==
  [u EXCEPT !.entry_aging_queue = <<>>,
            !.out_mem_requst = @ \o InOrder(u.current_req, order),
            !.current_map = EmptyMap,
            !.current_req = EmptyMap]

\* is_flushed() and empty()
IsFlushed(u) ==
  DOMAIN u.current_req = {} /\ DOMAIN u.current_map = {} /\ u.entry_aging_queue = <<>>
IsEmpty(u) == u.in_request = <<>> /\ u.out_mem_requst = <<>>
=============================================================================
