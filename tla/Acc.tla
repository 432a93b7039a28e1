---------------------------------- MODULE Acc ----------------------------------
(***************************************************************************)
(* acc: the whole accelerator.  A tile is a watcher, a private cache, a    *)
(* list write unit, a clause writer and some clause units; three networks, *)
(* the L3 cache and the trail connect the tiles.  The machine is one       *)
(* record made of the units' records, a hook is an operator on machines,   *)
(* and acc::do_cycle is the composition of all hooks and then of all       *)
(* units' cycles, in the code's order.  Only the memory and the meshes     *)
(* choose what happens in a cycle.                                         *)
(*                                                                         *)
(* The configuration is a variable that never changes, so that one run     *)
(* covers several configurations.                                          *)
(***************************************************************************)
EXTENDS Integers, Sequences, FiniteSets, SequencesExt

CONSTANTS
  Assign, Value, get_value, get_watcher_size, get_pushed, NotPushed,
  is_read_clause, get_clause_literal, get_generated, Nothing,
  get_clause_id,         \* <<assignment, watcherId>> -> number of the clause
  partition_id,          \* <<assignment, access type>> -> bank (that of the address,
                         \*   which is external; get_partition_id_by_addr)
  num_watchers, num_clauses, num_partition, multi_l3cache_port,
  LineSize, in_size, in_mem_size, data_size, process_size,
  private_size, private_out_size, max_merge, max_entry,
  l3_in_size,            \* cache_interface::in_size
  buffer_size, MeshSlots,
  send_limit,            \* in_reqs of the network to the clauses (64 in the code)
  Configs,               \* the configurations to be considered
  Batches                \* what the solver pushes, one batch after the other

AccessType == {"ReadWatcherMetaData", "ReadWatcherData", "ReadWatcherValue",
               "ReadClauseData", "ReadClauseValue", "WriteClause", "WriteWatcherList"}

ASSUME AccAssumption ==
  /\ {num_watchers, num_clauses, num_partition, multi_l3cache_port, l3_in_size,
      private_size, private_out_size, buffer_size, MeshSlots, send_limit,
      LineSize, max_merge, max_entry} \subseteq Nat \ {0}
  /\ num_clauses >= num_watchers /\ num_clauses % num_watchers = 0
  /\ Batches \in Seq(Seq(Assign))
  /\ Configs \subseteq [icnt : {"Mesh", "Ideal"}, watcher_to_clause_icnt : {"Mesh", "Ideal"},
                        watcher_to_writer_icnt : {"Mesh", "Ideal"},
                        watcher_to_clause_type : {"Icnt", "Streight"},
                        seq : BOOLEAN, single_watcher : BOOLEAN]

\* The tables of the solver: every watcher that exists has an entry in get_pushed,
\* every clause that is to be read one in the clauses' tables.
ASSUME TableAssumption ==
  /\ Value \subseteq Int /\ NotPushed \notin Value /\ Nothing \notin Assign
  /\ get_value \in [Assign -> Value] /\ get_watcher_size \in [Assign -> Nat]
  /\ \A a \in Assign : \A k \in 0 .. get_watcher_size[a] - 1 :
       get_pushed[<<a, k>>] \in Value \cup {NotPushed}
  /\ is_read_clause \subseteq Assign \X Nat
  /\ get_clause_literal \in [is_read_clause -> Nat \ {0}]
  /\ get_generated \in [is_read_clause -> Assign \cup {Nothing}]
  /\ get_clause_id \in [is_read_clause -> Nat]
  /\ partition_id \in [Assign \X AccessType -> 0 .. num_partition - 1]

VARIABLES
  rust_config,   \* the configuration
  machine,       \* the state of acc
  batches,       \* what the solver has still to push
  driver,        \* what the program around acc does: running, flushing, done
  current_cycle, \* modulo 2
  moved          \* the parts that chose to do something in the last cycle

vars == <<rust_config, machine, batches, driver, current_cycle, moved>>

Tile == 0 .. num_watchers - 1
ClauseIds == 0 .. num_clauses - 1
ClausesPerWatcher == num_clauses \div num_watchers

\* ComponentId: watchers come first, then the clauses.
ClauseComponent(c) == c + num_watchers
IsClause(id) == id >= num_watchers
ClauseOfComponent(id) == id - num_watchers
HomeTile(c) == c \div ClausesPerWatcher
TileOf(id) == IF IsClause(id) THEN HomeTile(ClauseOfComponent(id)) ELSE id

IsWrite(req) == req.type \in {"WriteClause", "WriteWatcherList"}
IsRead(req) == ~ IsWrite(req)
BankOf(req) == partition_id[<<req.as, req.type>>]
Request == [as : Assign, watcherId : Nat, clauseId : Nat, type : AccessType,
            ComponentId : 0 .. num_watchers + num_clauses - 1]

W == INSTANCE WatcherUnit
C == INSTANCE ClauseUnit WITH Watched <- is_read_clause
L == INSTANCE ListWriteUnit
P == INSTANCE PrivateCache
Writer == INSTANCE ClauseWriter
N == INSTANCE Icnt
L3 == INSTANCE Memory WITH n_partition <- num_partition, num_ports <- multi_l3cache_port,
                           mem <- machine.m_cache_interface

\* The networks of parse_file: one between the tiles and the banks, two between
\* the tiles
NewNetworks(config) ==
  [memory_read_icnt       |-> N!NewIcnt(config.icnt, num_watchers + num_partition),
   watcher_to_clause_icnt |-> N!NewIcnt(config.watcher_to_clause_icnt, num_watchers),
   watcher_to_writer_icnt |-> N!NewIcnt(config.watcher_to_writer_icnt, num_watchers)]

\* acc::acc, with init_watcher_and_clause
NewMachine(config) ==
  [in_m_trail |-> <<>>,
   m_cache_interface      |-> L3!NewMemory,
   m_watcher_write_unit   |-> [i \in Tile |-> L!NewUnit],
   m_clause_write_unit    |-> [i \in Tile |-> Writer!NewWriter],
   memory_read_icnt       |-> NewNetworks(config).memory_read_icnt,
   watcher_to_clause_icnt |-> NewNetworks(config).watcher_to_clause_icnt,
   watcher_to_writer_icnt |-> NewNetworks(config).watcher_to_writer_icnt,
   watchers               |-> [i \in Tile |-> W!NewWatcher],
   m_private_caches       |-> [i \in Tile |-> P!NewCache],
   clauses                |-> [c \in ClauseIds |-> C!NewClause],
   next_clause            |-> 0,
   \* history: assertions that failed, assignments taken from the trail, how
   \* often a clause was examined, <<write unit, list>> sent to the L3 cache
   failed |-> {}, started |-> {},
   examined |-> [c \in is_read_clause |-> 0], written |-> {}]

\* all_of(m_componets, empty())
ComponentsEmpty(m) ==
  /\ L3!IsEmpty(m.m_cache_interface)
  /\ N!IsEmpty(m.memory_read_icnt)
  /\ N!IsEmpty(m.watcher_to_clause_icnt) /\ N!IsEmpty(m.watcher_to_writer_icnt)
  /\ \A i \in Tile : /\ L!IsEmpty(m.m_watcher_write_unit[i])
                     /\ Writer!IsEmpty(m.m_clause_write_unit[i])
                     /\ W!IsEmpty(m.watchers[i]) /\ P!IsEmpty(m.m_private_caches[i])
  /\ \A c \in ClauseIds : C!IsEmpty(m.clauses[c])

\* acc::empty
IsEmpty(m) == m.in_m_trail = <<>> /\ ComponentsEmpty(m)

\* An assertion of the code at the named place
Asserted(m, condition, place) ==
  IF condition THEN m ELSE [m EXCEPT !.failed = @ \cup {place}]

-----------------------------------------------------------------------------
(* The hooks                                                                *)

\* watcher_out: a clause task goes to the tile of its clause.
WatcherToClause(m, i) ==
  LET q   == m.watchers[i].out_send_queue
      req == Head(q)
      to  == IF rust_config.watcher_to_clause_type = "Icnt"
             THEN get_clause_id[C!ClauseOf(req)] % num_watchers ELSE i
  IN  IF q = <<>> \/ Len(m.watcher_to_clause_icnt.in_reqs[i]) >= send_limit THEN m
      ELSE [m EXCEPT !.watchers[i].out_send_queue = Tail(@),
                     !.watcher_to_clause_icnt = N!PushOrDeliver(@, i, req, to)]

\* A request for the memory enters the network at node source.
ToMemory(net, source, req) == N!Push(net, source, req, num_watchers + BankOf(req))

\* watcher_out: a value is read from the private cache, all else from memory.
WatcherToMemory(m, i) ==
  LET q      == m.watchers[i].out_memory_read_queue
      req    == [Head(q) EXCEPT !.ComponentId = i]
      popped == [m EXCEPT !.watchers[i].out_memory_read_queue = Tail(@)]
      value  == q # <<>> /\ req.type = "ReadWatcherValue"
      other  == q # <<>> /\ req.type # "ReadWatcherValue"
  IN CASE value /\ P!RecieveRdy(m.m_private_caches[i]) ->
            [popped EXCEPT !.m_private_caches[i].in_request = Append(@, req)]
       [] other /\ N!HasBuffer(m.memory_read_icnt, i) ->
            [popped EXCEPT !.memory_read_icnt = ToMemory(@, i, req)]
       [] OTHER -> m

WatcherOut(m, i) == WatcherToMemory(WatcherToClause(m, i), i)

\* Mutant: the component id of a clause is not told apart from a watcher's.
ClauseToMemUnmarked(m, c) ==
  LET q      == m.clauses[c].out_memory_read_queue
      req    == [Head(q) EXCEPT !.ComponentId = c]
      popped == [m EXCEPT !.clauses[c] = C!PopRead(@)]
      data   == q # <<>> /\ req.type = "ReadClauseData"
      value  == q # <<>> /\ req.type # "ReadClauseData"
  IN CASE data /\ N!HasBuffer(m.memory_read_icnt, HomeTile(c)) ->
            [popped EXCEPT !.memory_read_icnt = ToMemory(@, HomeTile(c), req)]
       [] value /\ P!RecieveRdy(m.m_private_caches[HomeTile(c)]) ->
            [popped EXCEPT !.m_private_caches[HomeTile(c)].in_request = Append(@, req)]
       [] OTHER -> m

ClauseToMem(m, c) ==
  LET q      == m.clauses[c].out_memory_read_queue
      req    == [Head(q) EXCEPT !.ComponentId = ClauseComponent(c)]
      popped == [m EXCEPT !.clauses[c] = C!PopRead(@)]
      data   == q # <<>> /\ req.type = "ReadClauseData"
      value  == q # <<>> /\ req.type # "ReadClauseData"
  IN CASE data /\ N!HasBuffer(m.memory_read_icnt, HomeTile(c)) ->
            [popped EXCEPT !.memory_read_icnt = ToMemory(@, HomeTile(c), req)]
       [] value /\ P!RecieveRdy(m.m_private_caches[HomeTile(c)]) ->
            [popped EXCEPT !.m_private_caches[HomeTile(c)].in_request = Append(@, req)]
       [] OTHER -> m

\* cache_to_clause_and_watchers: an answer of bank p goes to its unit's tile,
\* whether the network has room or not.
CacheToClauseAndWatchers(m, p) ==
  LET q   == m.m_cache_interface.out_resp_queues[p]
      req == Head(q)
  IN  IF q = <<>> THEN m
      ELSE [Asserted(m, p = BankOf(req), "acc.cc:263") EXCEPT
              !.m_cache_interface.out_resp_queues[p] = Tail(@),
              !.memory_read_icnt = N!Push(@, num_watchers + p, req, TileOf(req.ComponentId))]

\* private_cache
PrivateCacheOut(m, i) ==
  LET q      == m.m_private_caches[i].out_send_q
      req    == Head(q)
      c      == ClauseOfComponent(req.ComponentId)
      popped == [m EXCEPT !.m_private_caches[i].out_send_q = Tail(@)]
      mine   == IF req.type = "ReadClauseValue"
                THEN IsClause(req.ComponentId) /\ HomeTile(c) = i
                ELSE req.ComponentId = i
  IN CASE q = <<>> -> m
       [] q # <<>> /\ ~ mine -> Asserted(popped, FALSE, "acc.cc:345-359")
       [] q # <<>> /\ mine /\ req.type = "ReadClauseValue" ->
            [popped EXCEPT !.clauses[c] = C!PushResp(@, req)]
       [] q # <<>> /\ mine /\ req.type # "ReadClauseValue" ->
            [popped EXCEPT !.watchers[i].in_memory_resp_queue = Append(@, req)]

\* Mutant: sequential mode does not wait for the memory and the networks.
MayStartEarly(m) ==
  rust_config.seq => /\ \A i \in Tile : W!IsEmpty(m.watchers[i]) /\ P!IsEmpty(m.m_private_caches[i])
                     /\ \A c \in ClauseIds : C!IsEmpty(m.clauses[c])

\* In sequential mode a task waits for an empty machine.
MayStart(m) == rust_config.seq => ComponentsEmpty(m)

\* The watcher of an assignment
WatcherOf(a) ==
  IF rust_config.single_watcher THEN 0 ELSE (get_value[a] \div 2) % num_watchers

\* trail_to_watcher: one task per cycle, to the tile of its literal
TrailToWatcher(m) ==
  LET req == Head(m.in_m_trail)
      i   == WatcherOf(req.as)
  IN  IF ~ MayStart(m) \/ m.in_m_trail = <<>> \/ ~ W!RecieveRdy(m.watchers[i]) THEN m
      ELSE [m EXCEPT !.watchers[i].in_task_queue = Append(@, req),
                     !.in_m_trail = Tail(@),
                     !.started = @ \cup {req.as}]

ClauseToTrail(m, c) ==
  LET q == m.clauses[c].out_queue
  IN  IF q = <<>> THEN m
      ELSE [m EXCEPT !.in_m_trail = Append(@, Head(q)),
                     !.clauses[c].out_queue = Tail(@)]

\* watcher_to_writeuite: a watcher that stays in its list is written by the
\* unit of its tile, one that moves by the unit of the list it moves to.
WatcherToWriteUnit(m, i) ==
  LET q      == m.watchers[i].out_write_watcher_list_queue
      req    == Head(q)
      pushed == get_pushed[<<req.as, req.watcherId>>]
      popped == [Asserted(m, req.ComponentId = i, "acc.cc:436") EXCEPT
                   !.watchers[i].out_write_watcher_list_queue = Tail(@)]
  IN CASE q = <<>> -> m
       [] q # <<>> /\ pushed = NotPushed ->
            [popped EXCEPT !.m_watcher_write_unit[i].in_request = Append(@, req)]
       [] q # <<>> /\ pushed # NotPushed ->
            [popped EXCEPT !.watcher_to_writer_icnt =
               N!PushOrDeliver(@, i, req, pushed % num_watchers)]

ClauseToWriteUnit(m, c) ==
  LET q   == m.clauses[c].out_clause_write_queue
      req == [Head(q) EXCEPT !.ComponentId = ClauseComponent(c)]
  IN  IF q = <<>> THEN m
      ELSE [m EXCEPT !.clauses[c].out_clause_write_queue = Tail(@),
                     !.m_clause_write_unit[HomeTile(c)].in = Append(@, req),
                     !.examined[C!ClauseOf(req)] = @ + 1]

\* clause_write_unit_to_cache and watcher_write_unit_to_cache do not ask
\* has_buffer().
ClauseWriteUnitToCache(m, i) ==
  LET q   == m.m_clause_write_unit[i].out
      req == Head(q)
  IN  IF q = <<>> THEN m
      ELSE [Asserted(m, IsClause(req.ComponentId), "acc.cc:495") EXCEPT
              !.m_clause_write_unit[i].out = Tail(@),
              !.memory_read_icnt = ToMemory(@, TileOf(req.ComponentId), req)]

WatcherWriteUnitToCache(m, i) ==
  LET q == m.m_watcher_write_unit[i].out_mem_requst
  IN  IF q = <<>> THEN m
      ELSE [m EXCEPT !.m_watcher_write_unit[i].out_mem_requst = Tail(@),
                     !.memory_read_icnt = ToMemory(@, i, Head(q)),
                     !.written = @ \cup {<<i, L!ValueOf(Head(q))>>}]

\* icnt_to_other: what arrives at tile i is delivered while the watcher has
\* room, also if it is for a clause unit.  (Values come from the private
\* cache, which has no misses, never from the network.)
IcntToTile(m, i) ==
  LET q      == m.memory_read_icnt.out_reqs[i]
      req    == Head(q)
      id     == req.ComponentId
      popped == [m EXCEPT !.memory_read_icnt = N!PopOut(@, i)]
      ready  == q # <<>> /\ W!RecieveMemRdy(m.watchers[i])
      mine   == IF IsClause(id)
                THEN req.type = "ReadClauseData" /\ HomeTile(ClauseOfComponent(id)) = i
                ELSE req.type \in {"ReadWatcherMetaData", "ReadWatcherData"}
  IN CASE ~ ready -> m
       [] ready /\ ~ mine -> Asserted(popped, FALSE, "acc.cc:583-600")
       [] ready /\ mine /\ IsClause(id) ->
            [popped EXCEPT !.clauses[ClauseOfComponent(id)] = C!PushResp(@, req)]
       [] ready /\ mine /\ ~ IsClause(id) ->
            [popped EXCEPT !.watchers[i].in_memory_resp_queue = Append(@, req)]

\* icnt_to_other: what arrives at bank p is delivered while the bank has room.
IcntToBank(m, p) ==
  LET q   == m.memory_read_icnt.out_reqs[num_watchers + p]
      req == Head(q)
  IN  IF q = <<>> \/ Len(m.m_cache_interface.in_request_queues[p]) >= l3_in_size THEN m
      ELSE [m EXCEPT !.memory_read_icnt = N!PopOut(@, num_watchers + p),
                     !.m_cache_interface.in_request_queues[p] = Append(@, req)]

\* watcher_icnt_out: next_clause is shared by all tiles, and the clause unit is
\* not the one ComponentId names.
WatcherIcntOut(m, i) ==
  LET q    == m.watcher_to_clause_icnt.out_reqs[i]
      next == (m.next_clause + 1) % ClausesPerWatcher
      req  == [Head(q) EXCEPT !.ComponentId = i * ClausesPerWatcher + next]
      home == get_clause_id[C!ClauseOf(req)] % num_watchers
  IN  IF q = <<>> THEN m
      ELSE [Asserted(m, home = i, "acc.cc:647") EXCEPT
              !.watcher_to_clause_icnt = N!PopOut(@, i),
              !.next_clause = next,
              !.clauses[i + next] = C!PushTask(@, req)]

WatcherIcntToWatcherWriter(m, i) ==
  LET q == m.watcher_to_writer_icnt.out_reqs[i]
  IN  IF q = <<>> THEN m
      ELSE [m EXCEPT !.watcher_to_writer_icnt = N!PopOut(@, i),
                     !.m_watcher_write_unit[i].in_request = Append(@, Head(q))]

\* The hooks in the order of the constructor; icnt_to_other serves the tiles and
\* then the banks.
clock_passes ==
  <<"watcher_out", "clause_to_mem", "cache_to_clause_and_watchers", "private_cache",
    "trail_to_watcher", "clause_to_trail", "watcher_to_writeuite", "clause_to_writeuint",
    "clause_write_unit_to_cache", "watcher_write_unit_to_cache",
    "icnt_to_tile", "icnt_to_bank", "watcher_icnt_out", "watcher_icnt_to_watcher_writer">>

\* How often a hook acts in a cycle: once for each unit it serves; a tile and a
\* bank are given up to multi_l3cache_port requests, one after the other.
Passes(hook) ==
  CASE hook \in {"clause_to_mem", "clause_to_trail", "clause_to_writeuint"} -> num_clauses
    [] hook = "cache_to_clause_and_watchers" -> num_partition
    [] hook = "trail_to_watcher"             -> 1
    [] hook = "icnt_to_tile"                 -> num_watchers * multi_l3cache_port
    [] hook = "icnt_to_bank"                 -> num_partition * multi_l3cache_port
    [] OTHER                                 -> num_watchers

Hook(hook, m, i) ==
  CASE hook = "watcher_out"                     -> WatcherOut(m, i)
    [] hook = "clause_to_mem"                   -> ClauseToMem(m, i)
    [] hook = "cache_to_clause_and_watchers"    -> CacheToClauseAndWatchers(m, i)
    [] hook = "private_cache"                   -> PrivateCacheOut(m, i)
    [] hook = "trail_to_watcher"                -> TrailToWatcher(m)
    [] hook = "clause_to_trail"                 -> ClauseToTrail(m, i)
    [] hook = "watcher_to_writeuite"            -> WatcherToWriteUnit(m, i)
    [] hook = "clause_to_writeuint"             -> ClauseToWriteUnit(m, i)
    [] hook = "clause_write_unit_to_cache"      -> ClauseWriteUnitToCache(m, i)
    [] hook = "watcher_write_unit_to_cache"     -> WatcherWriteUnitToCache(m, i)
    [] hook = "icnt_to_tile"                    -> IcntToTile(m, i \div multi_l3cache_port)
    [] hook = "icnt_to_bank"                    -> IcntToBank(m, i \div multi_l3cache_port)
    [] hook = "watcher_icnt_out"                -> WatcherIcntOut(m, i)
    [] hook = "watcher_icnt_to_watcher_writer"  -> WatcherIcntToWatcherWriter(m, i)

\* for (i = 0; i < Passes(hook); i++) m = Hook(hook, m, i)
ForEach(hook, m) ==
  LET after[i \in 0 .. Passes(hook)] ==
        IF i = 0 THEN m ELSE Hook(hook, after[i - 1], i - 1)
  IN  after[Passes(hook)]

\* The first loop of acc::do_cycle
Hooks(m) ==
  LET after[k \in 0 .. Len(clock_passes)] ==
        IF k = 0 THEN m ELSE ForEach(clock_passes[k], after[k - 1])
  IN  after[Len(clock_passes)]

\* The second loop: cycle() of every component.  The memory makes cycle mc, the
\* networks deliver what the last three arguments say.
Components(m, mc, memory, clause, writer) ==
  [Asserted(m, \A i \in Tile : Writer!AssertionsHold(m.m_clause_write_unit[i]),
            "clause_writer.cc:16") EXCEPT
     !.m_cache_interface = L3!DoCycle(@, mc.accept, mc.answer),
     !.m_watcher_write_unit = [i \in Tile |-> L!DoCycle(@[i])],
     !.m_clause_write_unit = [i \in Tile |-> Writer!DoCycle(@[i])],
     !.memory_read_icnt = N!DoCycle(@, memory),
     !.watcher_to_clause_icnt = N!DoCycle(@, clause),
     !.watcher_to_writer_icnt = N!DoCycle(@, writer),
     !.watchers = [i \in Tile |-> W!DoCycle(@[i])],
     !.m_private_caches = [i \in Tile |-> P!DoCycle(@[i])],
     !.clauses = [c \in ClauseIds |-> C!DoCycle(@[c])]]

-----------------------------------------------------------------------------
(* The program around acc                                                   *)

Task(a) == [as |-> a, watcherId |-> 0, clauseId |-> 0, type |-> "ReadWatcherMetaData",
            ComponentId |-> 0]

Init == /\ rust_config \in Configs
        /\ machine = NewMachine(rust_config)
        /\ batches = Batches
        /\ driver = "running"
        /\ current_cycle = 0 /\ moved = {}

\* The solver pushes the next assignments once the machine is empty.
Submit ==
  /\ driver = "running" /\ IsEmpty(machine) /\ batches # <<>>
  /\ machine' = [machine EXCEPT !.in_m_trail =
                   @ \o [k \in DOMAIN Head(batches) |-> Task(Head(batches)[k])]]
  /\ batches' = Tail(batches)
  /\ UNCHANGED <<rust_config, driver, current_cycle, moved>>

\* The parts of the machine whose timing is open, and which of them have
\* something to do
Movers == {"m_cache_interface", "memory_read_icnt", "watcher_to_clause_icnt",
           "watcher_to_writer_icnt"}
Busy(m, part) ==
  IF part = "m_cache_interface" THEN L3!Moves(m[part]) # {} ELSE N!Deliveries(m[part]) # {}

\* while (!empty()) { cycle(); current_cycle++; }
Cycle ==
  /\ driver # "done" /\ ~ IsEmpty(machine)
  /\ LET h == Hooks(machine)
     IN  \E mc \in L3!Cycles(h.m_cache_interface),
            memory \in N!Outcomes(h.memory_read_icnt),
            clause \in N!Outcomes(h.watcher_to_clause_icnt),
            writer \in N!Outcomes(h.watcher_to_writer_icnt) :
           /\ machine' = Components(h, mc, memory, clause, writer)
           /\ moved' = {part \in Movers :
                CASE part = "m_cache_interface"      -> mc \in L3!Moves(h[part])
                  [] part = "memory_read_icnt"       -> memory \in N!Deliveries(h[part])
                  [] part = "watcher_to_clause_icnt" -> clause \in N!Deliveries(h[part])
                  [] part = "watcher_to_writer_icnt" -> writer \in N!Deliveries(h[part])}
  /\ current_cycle' = (current_cycle + 1) % 2
  /\ UNCHANGED <<rust_config, batches, driver>>

\* flush_all: flush the units (each in any order of its keys), run the machine
\* empty, check that all is flushed.
FlushAll ==
  /\ driver = "running" /\ IsEmpty(machine) /\ batches = <<>>
  /\ LET orders(i) == L!KeyOrders(machine.m_watcher_write_unit[i].current_req)
     IN  \E order \in {f \in [Tile -> UNION {orders(i) : i \in Tile}] :
                          \A i \in Tile : f[i] \in orders(i)} :
           machine' = [machine EXCEPT !.m_watcher_write_unit =
                         [i \in Tile |-> L!FlushUnit(@[i], order[i])]]
  /\ driver' = "flushing"
  /\ UNCHANGED <<rust_config, batches, current_cycle, moved>>

FlushAllReturns ==
  /\ driver = "flushing" /\ IsEmpty(machine)
  /\ machine' = Asserted(machine, \A i \in Tile : L!IsFlushed(machine.m_watcher_write_unit[i]),
                         "acc.h:111")
  /\ driver' = "done"
  /\ UNCHANGED <<rust_config, batches, current_cycle, moved>>

Next == Submit \/ Cycle \/ FlushAll \/ FlushAllReturns

\* The loop around acc goes on until the program is done, and every cycle counts,
\* also one in which nothing happens.  A memory that has something to do and a
\* mesh that holds a packet move sooner or later.  (Weak fairness of the steps,
\* and of the steps in which a part moves, with ENABLED written out.)
Fairness ==
  /\ []<>(driver = "done") \/ []<><<TRUE>>_vars
  /\ \A part \in Movers : []<>(~ Busy(machine, part)) \/ []<>(part \in moved)

Spec == Init /\ [][Next]_vars
FairSpec == Spec /\ Fairness

-----------------------------------------------------------------------------
(* Properties *)

\* Every assertion of acc's hooks, the clause writers and flush_all holds: an answer comes back
\* to the tile and the unit that asked, although a clause task runs on the unit
\* i + next_clause while ComponentId says otherwise; a list write carries the id
\* of its watcher; a clause writer gets a clause when its last literal is done;
\* and flush_all leaves no entry behind.
AssertionsHold == machine.failed = {}

\* The machine implements propagation: no assignment and no clause is lost or
\* worked on twice, whatever the networks and the memory reorder.
Engine == INSTANCE Propagation WITH
  trail <- {req.as : req \in Range(machine.in_m_trail)},
  started <- machine.started,
  examined <- machine.examined
PropagationSpec == Engine!Spec

\* The requests in a watcher, a clause unit, a network and the machine; list
\* writes that wait in a write unit's table are not among them.
InWatcher(w) ==
  Range(w.in_task_queue \o w.waiting_read_meta_queue \o w.waiting_read_watcher_queue
        \o w.waiting_value_watcher_queue \o w.waiting_process_queue
        \o w.out_memory_read_queue \o w.in_memory_resp_queue
        \o w.out_send_queue \o w.out_write_watcher_list_queue)
InClause(c) ==
  Range(c.in_task_queue \o c.clause_data_read_waiting_queue \o c.clause_value_read_waiting_queue
        \o c.clause_process_waiting_queue \o c.out_memory_read_queue
        \o c.in_memory_resp_queue \o c.out_clause_write_queue)
InNetwork(net) ==
  UNION {Range(net.out_reqs[i]) \cup {p.req : p \in Range(net.in_reqs[i] \o net.inflight[i])}
           : i \in DOMAIN net.in_reqs}
InMemory(l3) ==
  l3.inside \cup UNION {Range(l3.in_request_queues[p] \o l3.out_resp_queues[p])
                          : p \in DOMAIN l3.in_request_queues}
InMachine(m) ==
  (UNION {InMemory(m.m_cache_interface), InNetwork(m.memory_read_icnt),
          InNetwork(m.watcher_to_clause_icnt), InNetwork(m.watcher_to_writer_icnt)})
  \cup (UNION {InWatcher(m.watchers[i])
               \cup Range(m.m_private_caches[i].in_request \o m.m_private_caches[i].out_send_q)
               \cup Range(m.m_watcher_write_unit[i].in_request)
               \cup Range(m.m_clause_write_unit[i].in \o m.m_clause_write_unit[i].out) : i \in Tile})
  \cup (UNION {InClause(m.clauses[c]) : c \in ClauseIds})

\* Every request anywhere in the machine names a watcher of its list and, once
\* it is for a clause, a literal of that clause.
TypeOK ==
  /\ rust_config \in Configs /\ driver \in {"running", "flushing", "done"}
  /\ machine.next_clause \in 0 .. ClausesPerWatcher - 1
  /\ Range(machine.in_m_trail) \subseteq Request
  /\ InMachine(machine) \subseteq Request
  /\ \A req \in InMachine(machine) :
       /\ req.watcherId = 0 \/ req.watcherId < get_watcher_size[req.as]
       /\ req.clauseId = 0 \/ req.clauseId < get_clause_literal[C!ClauseOf(req)]

\* Sequential mode: whatever moves in the machine, writes apart, belongs to one
\* assignment.  Only empty() of every component says so; a component that holds
\* requests it does not report would let the next task in.
SequentialIsolation ==
  rust_config.seq =>
    Cardinality({req.as : req \in {r \in InMachine(machine) : ~ IsWrite(r)}}) <= 1

\* The lists that the watchers of a change, each with the write unit it is for
Updates(a) ==
  {LET list == L!ValueOf([as |-> a, watcherId |-> k])
       unit == IF get_pushed[<<a, k>>] = NotPushed THEN WatcherOf(a) ELSE list % num_watchers
   IN  <<unit, list>> : k \in 0 .. get_watcher_size[a] - 1}

\* When flush_all returns, each unit that was given an update of a list has sent
\* the list to the cache.  The own watcher of a list and the watchers that move
\* to it may use different units, so that two units hold a list at one time.
FlushWritesEveryList ==
  driver = "done" => UNION {Updates(a) : a \in machine.started} \subseteq machine.written

=============================================================================
