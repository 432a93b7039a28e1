---------------------------- MODULE CacheInterface ----------------------------
(***************************************************************************)
(* cache_interface and ramulator_wrapper: the banked L3 cache, its miss    *)
(* queue, the table of reads that wait for a block (addr_to_req), the      *)
(* delayed answers, and the DRAM behind it.                                *)
(*                                                                         *)
(* do_cycle calls two libraries whose answers the code does not determine: *)
(* the DRAM completes requests in any order, and the tag array (sjq::cache)*)
(* picks victims.  So a cycle is a few actions, run in the code's order by *)
(* the variable phase; acc's hooks act only between two cycles.            *)
(*                                                                         *)
(* An address is a block number; the bank of block b is b % n_partition.   *)
(***************************************************************************)
EXTENDS Integers, Sequences, FiniteSets, SequencesExt

CONSTANTS
  Request,             \* requests of the watchers and clauses
  BlockOf,             \* request -> block it accesses (get_addr_by_req)
  IsWrite,             \* the requests that are writes
  n_partition, num_ports, in_size, miss_size, delay_q_size, cache_delay,
  is_ideal_dram,
  IdealL3,             \* the values of ideal_l3 to be considered
  Lines,               \* lines per bank (external: sjq::cache)
  MaxMerge,            \* reads that may wait for one block (external: sjq::cache)
  DramSlots            \* requests the DRAM accepts at once (external: ramulator)

Read == Request \ IsWrite
Bank == 0 .. n_partition - 1
Block == {BlockOf[r] : r \in Request}

ASSUME CacheInterfaceAssumption ==
  /\ BlockOf \in [Request -> Nat \ {0}]
  /\ IsWrite \subseteq Request
  /\ {n_partition, num_ports, in_size, miss_size, delay_q_size, Lines, MaxMerge, DramSlots}
       \subseteq Nat \ {0}
  /\ cache_delay \in Nat
  /\ is_ideal_dram \in BOOLEAN /\ IdealL3 \subseteq BOOLEAN

\* get_partition_id_by_addr
PartitionId(block) == block % n_partition

\* from_cache_addr_to_real_addr, on block numbers: the cache address is shifted
\* by log2(n_partition) and the bank is put into the gap.  get_cache_addr does
\* not take the bank out: its shifted value is overwritten.
CacheAddr(block) == block
RealAddr(cache_block, bank) == cache_block * n_partition + bank

VARIABLES
  ideal_l3,            \* configuration: no cache, every read is answered
  in_request_queues,   \* bank -> requests
  line,                \* block -> state of its line in its bank (external: sjq::cache)
  addr_to_req,         \* block -> reads waiting for it
  delay_resp_queues,   \* bank -> answers with the cycles they still have to wait
  miss_queue,          \* <<is_read, block>> for the DRAM
  dram_resp_queue,     \* blocks the DRAM has read
  out_resp_queues,     \* bank -> answers
  mem_in,              \* ramulator_wrapper::in_queue
  outgoing,            \* requests inside the DRAM
  idle,                \* requests nobody has issued, or that are answered
  phase,               \* what do_cycle does next
  ports                \* bank -> accesses it may still make in this cycle

queues == <<in_request_queues, delay_resp_queues, out_resp_queues>>
memory == <<miss_queue, dram_resp_queue, mem_in, outgoing>>
vars == <<ideal_l3, queues, memory, line, addr_to_req, idle, phase, ports>>

Init ==
  /\ ideal_l3 \in IdealL3
  /\ in_request_queues = [p \in Bank |-> <<>>]
  /\ delay_resp_queues = [p \in Bank |-> <<>>]
  /\ out_resp_queues = [p \in Bank |-> <<>>]
  /\ line = [b \in Block |-> "absent"]
  /\ addr_to_req = [b \in Block |-> <<>>]
  /\ miss_queue = <<>> /\ dram_resp_queue = <<>>
  /\ mem_in = <<>> /\ outgoing = <<>>
  /\ idle = Request
  /\ phase = "hooks"
  /\ ports = [p \in Bank |-> 0]

-----------------------------------------------------------------------------
(* acc's hooks                                                              *)

\* icnt_to_other: a request reaches its bank if recieve_rdy()
Arrive(r) ==
  /\ phase = "hooks"
  /\ r \in idle
  /\ Len(in_request_queues[PartitionId(BlockOf[r])]) < in_size
  /\ in_request_queues' = [in_request_queues EXCEPT ![PartitionId(BlockOf[r])] = Append(@, r)]
  /\ idle' = idle \ {r}
  /\ UNCHANGED <<ideal_l3, delay_resp_queues, out_resp_queues, memory, line, addr_to_req, phase, ports>>

\* cache_to_clause_and_watchers: an answer leaves
Depart(p) ==
  /\ phase = "hooks"
  /\ out_resp_queues[p] # <<>>
  /\ idle' = idle \cup {Head(out_resp_queues[p])}
  /\ out_resp_queues' = [out_resp_queues EXCEPT ![p] = Tail(@)]
  /\ UNCHANGED <<ideal_l3, in_request_queues, delay_resp_queues, memory, line, addr_to_req, phase, ports>>

-----------------------------------------------------------------------------
(* The memory: ramulator_wrapper::do_cycle and the loop over its answers    *)

\* internal_cycle goes up by one, so every delayed answer has one cycle less
\* to wait; the oldest request enters the DRAM if that has room.
MemSend ==
  /\ phase = "hooks"
  /\ phase' = "memory"
  /\ delay_resp_queues' =
       [p \in Bank |-> [i \in DOMAIN delay_resp_queues[p] |->
          [delay_resp_queues[p][i] EXCEPT !.wait = IF @ > 0 THEN @ - 1 ELSE 0]]]
  /\ IF mem_in # <<>> /\ Len(outgoing) < DramSlots
     THEN outgoing' = Append(outgoing, Head(mem_in)) /\ mem_in' = Tail(mem_in)
     ELSE UNCHANGED <<outgoing, mem_in>>
  /\ UNCHANGED <<ideal_l3, in_request_queues, out_resp_queues, miss_queue, dram_resp_queue,
                 line, addr_to_req, idle, ports>>

\* call_back: during the tick the DRAM completes any of its requests; the
\* blocks it has read are moved to dram_resp_queue before anything else happens.
MemComplete(i) ==
  /\ phase = "memory"
  /\ i \in DOMAIN outgoing
  /\ outgoing' = RemoveAt(outgoing, i)
  /\ dram_resp_queue' = IF outgoing[i][1]
                        THEN Append(dram_resp_queue, outgoing[i][2]) ELSE dram_resp_queue
  /\ UNCHANGED <<ideal_l3, queues, miss_queue, mem_in, line, addr_to_req, idle, phase, ports>>

-----------------------------------------------------------------------------
(* The rest of cache_interface::do_cycle                                    *)


\* from_delayresp_to_out
Ripe(p) == delay_resp_queues[p] # <<>> /\ Head(delay_resp_queues[p]).wait = 0
FromDelayrespToOut ==
  /\ phase = "memory"
  /\ phase' = "fill"
  /\ out_resp_queues' = [p \in Bank |-> IF Ripe(p)
       THEN Append(out_resp_queues[p], Head(delay_resp_queues[p]).req)
       ELSE out_resp_queues[p]]
  /\ delay_resp_queues' = [p \in Bank |-> IF Ripe(p)
       THEN Tail(delay_resp_queues[p]) ELSE delay_resp_queues[p]]
  /\ UNCHANGED <<ideal_l3, in_request_queues, memory, line, addr_to_req, idle, ports>>

\* Mutant of Delayed: one cycle more than the code waits.
DelayedLonger(r) == [req |-> r, wait |-> cache_delay + 2]

\* internal_cycle > enqueue cycle + cache_delay
Delayed(r) == [req |-> r, wait |-> cache_delay + 1]

\* External (sjq::cache): the states a filled line may have
FilledAs(b) == {"clean"} \cup {"dirty" : w \in {x \in IsWrite : BlockOf[x] = b}}

\* from_dramresp_to_resp: the block is filled and all reads that wait for it
\* are answered, if their bank has room for a delayed answer.  Whether a write
\* that met the reserved line leaves it dirty is up to sjq::cache.
\* The code asserts that somebody waits (DramAnswerHasWaiters below); if nobody
\* does, there is no reserved line to fill and nothing to answer.
FromDramrespToResp ==
  /\ phase = "fill"
  /\ phase' = "miss"
  /\ LET b == Head(dram_resp_queue)
         p == PartitionId(b)
     IN IF dram_resp_queue # <<>> /\ Len(delay_resp_queues[p]) < delay_q_size
        THEN /\ dram_resp_queue' = Tail(dram_resp_queue)
             /\ IF b \in Block /\ line[b] = "reserved"
                THEN /\ \E s \in FilledAs(b) : line' = [line EXCEPT ![b] = s]
                     /\ delay_resp_queues' = [delay_resp_queues EXCEPT ![p] =
                          @ \o [i \in DOMAIN addr_to_req[b] |-> Delayed(addr_to_req[b][i])]]
                     /\ addr_to_req' = [addr_to_req EXCEPT ![b] = <<>>]
                ELSE UNCHANGED <<line, delay_resp_queues, addr_to_req>>
        ELSE UNCHANGED <<dram_resp_queue, line, delay_resp_queues, addr_to_req>>
  /\ UNCHANGED <<ideal_l3, in_request_queues, out_resp_queues, miss_queue, mem_in, outgoing, idle, ports>>

\* from_miss_q_to_dram
FromMissQToDram ==
  /\ phase = "miss"
  /\ phase' = "in"
  /\ ports' = [p \in Bank |-> num_ports]
  /\ IF miss_queue = <<>> THEN UNCHANGED memory
     ELSE /\ miss_queue' = Tail(miss_queue)
          /\ IF is_ideal_dram
             THEN /\ dram_resp_queue' = Append(dram_resp_queue, Head(miss_queue)[2])
                  /\ UNCHANGED mem_in
             ELSE /\ mem_in' = Append(mem_in, Head(miss_queue))
                  /\ UNCHANGED dram_resp_queue
          /\ UNCHANGED outgoing
  /\ UNCHANGED <<ideal_l3, queues, line, addr_to_req, idle>>

-----------------------------------------------------------------------------
(* cache_interface::from_in_to_cache, one request of one bank at a time      *)

\* Mutants of CanServe: the miss queue is not looked at; it is full too early.
CanServeAlways(p) == in_request_queues[p] # <<>> /\ ports[p] > 0
CanServeUnlessOneLeft(p) ==
  in_request_queues[p] # <<>> /\ Len(miss_queue) < miss_size - 1 /\ ports[p] > 0

\* The condition of the loop over a bank's requests
CanServe(p) == in_request_queues[p] # <<>> /\ Len(miss_queue) < miss_size /\ ports[p] > 0

\* Bank p is served; the banks before it are finished for this cycle.
Serve(p) ==
  /\ phase = "in"
  /\ CanServe(p)
  /\ \A q \in Bank : q < p => ~ CanServe(q)
  /\ ports' = [ports EXCEPT ![p] = @ - 1]
  /\ UNCHANGED <<ideal_l3, out_resp_queues, dram_resp_queue, mem_in, outgoing, phase>>

Oldest(p) == Head(in_request_queues[p])
PopFront(p) == in_request_queues' = [in_request_queues EXCEPT ![p] = Tail(@)]
Answer(p) == delay_resp_queues' = [delay_resp_queues EXCEPT ![p] = Append(@, Delayed(Oldest(p)))]

\* External (sjq::cache): the victims a miss may evict.  Tag 0 stands for no
\* victim, as in the code's tests of get_last_evict().get_tag().
NoVictim == 0
Present(p) == {b \in Block : PartitionId(b) = p /\ line[b] # "absent"}
Victims(p) == IF Cardinality(Present(p)) < Lines THEN {NoVictim}
              ELSE {b \in Present(p) : line[b] # "reserved"}

\* External (sjq::cache): the answer of try_access
TryAccess(r) ==
  LET b == BlockOf[r]
  IN CASE line[b] \in {"clean", "dirty"} -> "hit"
       [] line[b] = "reserved" ->
            IF r \in IsWrite \/ Len(addr_to_req[b]) < MaxMerge THEN "hit_res" ELSE "resfail"
       [] line[b] = "absent" ->
            IF Victims(PartitionId(b)) # {} THEN "miss" ELSE "resfail"

\* External (sjq::cache): the line of b takes state s, the line of v is evicted.
Allocate(b, s, v) ==
  line' = [x \in Block |-> CASE x = b -> s [] x = v /\ x # b -> "absent" [] OTHER -> line[x]]

\* Mutant of WriteBack: the dirty bit is tested the wrong way round.
WriteBackClean(v, p) ==
  IF v # NoVictim /\ line[v] # "dirty"
  THEN <<<<FALSE, RealAddr(CacheAddr(v), p)>>>> ELSE <<>>

\* A dirty victim is written back.
WriteBack(v, p) ==
  IF v # NoVictim /\ line[v] = "dirty"
  THEN <<<<FALSE, RealAddr(CacheAddr(v), p)>>>> ELSE <<>>

\* Mutant of MissTraffic: the write-back replaces the read.
WriteBackOrRead(b, v, p) ==
  IF WriteBack(v, p) # <<>> THEN WriteBack(v, p) ELSE <<<<TRUE, b>>>>

\* What a read miss of block b with victim v sends to the DRAM
MissTraffic(b, v, p) == WriteBack(v, p) \o <<<<TRUE, b>>>>

\* Mutant of ServeIdeal: the request is answered and stays.
ServeIdealAgain(p) ==
  /\ Serve(p)
  /\ ideal_l3
  /\ IF Oldest(p) \in IsWrite
     THEN idle' = idle \cup {Oldest(p)} /\ UNCHANGED delay_resp_queues
     ELSE Answer(p) /\ UNCHANGED idle
  /\ UNCHANGED <<in_request_queues, miss_queue, line, addr_to_req>>

\* ideal_l3: every read is answered, every write is dropped.
ServeIdeal(p) ==
  /\ Serve(p)
  /\ ideal_l3
  /\ PopFront(p)
  /\ IF Oldest(p) \in IsWrite
     THEN idle' = idle \cup {Oldest(p)} /\ UNCHANGED delay_resp_queues
     ELSE Answer(p) /\ UNCHANGED idle
  /\ UNCHANGED <<miss_queue, line, addr_to_req>>

\* Mutant of ServeResfail: the request is dropped.
ServeResfailDrops(p) ==
  /\ Serve(p)
  /\ ~ ideal_l3 /\ TryAccess(Oldest(p)) = "resfail"
  /\ PopFront(p)
  /\ UNCHANGED <<delay_resp_queues, miss_queue, line, addr_to_req, idle>>

\* resfail: the request stays, a port is used up.
ServeResfail(p) ==
  /\ Serve(p)
  /\ ~ ideal_l3 /\ TryAccess(Oldest(p)) = "resfail"
  /\ UNCHANGED <<in_request_queues, delay_resp_queues, miss_queue, line, addr_to_req, idle>>

\* A write is done when it has been made in the cache; it needs no fill.
ServeWrite(p) ==
  /\ Serve(p)
  /\ ~ ideal_l3 /\ Oldest(p) \in IsWrite
  /\ LET b == BlockOf[Oldest(p)]
     IN CASE TryAccess(Oldest(p)) = "hit" ->
               line' = [line EXCEPT ![b] = "dirty"] /\ UNCHANGED miss_queue
          [] TryAccess(Oldest(p)) = "hit_res" -> UNCHANGED <<line, miss_queue>>
          [] TryAccess(Oldest(p)) = "miss" ->
               \E v \in Victims(p) :
                 Allocate(b, "dirty", v) /\ miss_queue' = miss_queue \o WriteBack(v, p)
          [] TryAccess(Oldest(p)) = "resfail" -> FALSE
  /\ PopFront(p)
  /\ idle' = idle \cup {Oldest(p)}
  /\ UNCHANGED <<delay_resp_queues, addr_to_req>>

ServeHit(p) ==
  /\ Serve(p)
  /\ ~ ideal_l3 /\ Oldest(p) \in Read /\ TryAccess(Oldest(p)) = "hit"
  /\ Answer(p)
  /\ PopFront(p)
  /\ UNCHANGED <<miss_queue, line, addr_to_req, idle>>

\* The block is on its way: wait for it too.
ServeHitRes(p) ==
  /\ Serve(p)
  /\ ~ ideal_l3 /\ Oldest(p) \in Read /\ TryAccess(Oldest(p)) = "hit_res"
  /\ addr_to_req' = [addr_to_req EXCEPT ![BlockOf[Oldest(p)]] = Append(@, Oldest(p))]
  /\ PopFront(p)
  /\ UNCHANGED <<delay_resp_queues, miss_queue, line, idle>>

ServeMiss(p) ==
  /\ Serve(p)
  /\ ~ ideal_l3 /\ Oldest(p) \in Read /\ TryAccess(Oldest(p)) = "miss"
  /\ LET b == BlockOf[Oldest(p)]
     IN \E v \in Victims(p) :
          /\ Allocate(b, "reserved", v)
          /\ miss_queue' = miss_queue \o MissTraffic(b, v, p)
          /\ addr_to_req' = [addr_to_req EXCEPT ![b] = Append(@, Oldest(p))]
  /\ PopFront(p)
  /\ UNCHANGED <<delay_resp_queues, idle>>

EndCycle ==
  /\ phase = "in"
  /\ \A p \in Bank : ~ CanServe(p)
  /\ phase' = "hooks"
  /\ ports' = [p \in Bank |-> 0]
  /\ UNCHANGED <<ideal_l3, queues, memory, line, addr_to_req, idle>>

\* One step of do_cycle
CycleStep ==
  \/ MemSend \/ FromDelayrespToOut \/ FromDramrespToResp \/ FromMissQToDram
  \/ \E p \in Bank : \/ ServeIdeal(p) \/ ServeResfail(p) \/ ServeWrite(p)
                      \/ ServeHit(p) \/ ServeHitRes(p) \/ ServeMiss(p)
  \/ EndCycle

Next ==
  \/ \E r \in Request : Arrive(r)
  \/ \E p \in Bank : Depart(p)
  \/ \E i \in 1 .. DramSlots : MemComplete(i)
  \/ CycleStep

\* acc runs cycle after cycle, its hook takes an answer in every cycle, and the
\* DRAM completes the oldest request it has accepted sooner or later, hence all.
Fairness ==
  /\ WF_vars(CycleStep)
  /\ \A p \in Bank : SF_vars(Depart(p))
  /\ SF_vars(MemComplete(1))

Spec == Init /\ [][Next]_vars
FairSpec == Spec /\ Fairness

-----------------------------------------------------------------------------
(* Properties *)

\* The blocks the DRAM sees: the ones requested and the targets of write-backs
MemBlock == {RealAddr(b, p) : b \in Block, p \in Bank} \cup Block

LineState == {"absent", "reserved", "clean", "dirty"}

\* The queues hold requests and blocks, the delays count down to zero.
TypeOK ==
  /\ in_request_queues \in [Bank -> Seq(Request)]
  /\ line \in [Block -> LineState]
  /\ addr_to_req \in [Block -> Seq(Read)]
  /\ delay_resp_queues \in [Bank -> Seq([req : Read, wait : 0 .. cache_delay + 1])]
  /\ miss_queue \in Seq(BOOLEAN \X MemBlock)
  /\ dram_resp_queue \in Seq(MemBlock)
  /\ out_resp_queues \in [Bank -> Seq(Read)]
  /\ mem_in \in Seq(BOOLEAN \X MemBlock) /\ outgoing \in Seq(BOOLEAN \X MemBlock)
  /\ idle \subseteq Request /\ ideal_l3 \in BOOLEAN
  /\ phase \in {"hooks", "memory", "fill", "miss", "in"}
  /\ ports \in [Bank -> 0 .. num_ports]

\* The reads of block b on their way to the DRAM and back
DramReads(b) ==
  LET asked == miss_queue \o mem_in \o outgoing
  IN  Cardinality({i \in DOMAIN asked : asked[i] = <<TRUE, b>>})
        + Cardinality({i \in DOMAIN dram_resp_queue : dram_resp_queue[i] = b})

\* A line is reserved exactly while reads wait for its block, and exactly then
\* one read of the block is under way.  The asserts on addr_to_req (not empty
\* on a hit on a reserved line and on a DRAM answer, empty on a miss) follow.
MshrConsistent ==
  \A b \in Block :
    /\ (line[b] = "reserved") <=> (addr_to_req[b] # <<>>)
    /\ DramReads(b) = IF line[b] = "reserved" THEN 1 ELSE 0

\* Every request that was issued is in exactly one place, and a bank only holds
\* its own requests.
Places(r) ==
  LET in(q) == Cardinality({i \in DOMAIN q : q[i] = r})
      p == PartitionId(BlockOf[r])
  IN  in(in_request_queues[p]) + in(addr_to_req[BlockOf[r]]) + in(out_resp_queues[p])
        + Cardinality({i \in DOMAIN delay_resp_queues[p] : delay_resp_queues[p][i].req = r})
RequestsConserved ==
  \A r \in Request : Places(r) = IF r \in idle THEN 0 ELSE 1

\* The loop tests for one free slot of the miss queue and may fill two.
MissQueueBounded == Len(miss_queue) <= miss_size + 1

\* A dirty line leaves the cache only together with a write of its block: the
\* modified data is not lost.
DirtyLinesWrittenBack ==
  [][\A b \in Block : line[b] = "dirty" /\ line'[b] = "absent"
        => /\ Len(miss_queue') > Len(miss_queue)
           /\ miss_queue'[Len(miss_queue) + 1] = <<FALSE, b>>]_vars

\* The assertion of from_dramresp_to_resp: a block that comes back from the DRAM
\* is a block some read waits for.
DramAnswerHasWaiters ==
  \A i \in DOMAIN dram_resp_queue :
    dram_resp_queue[i] \in Block /\ addr_to_req[dram_resp_queue[i]] # <<>>

\* "addr should remove the partition mask": the cache keeps the address without
\* the bank, so that a write-back, which puts the bank back in, goes to a block
\* that was accessed.
WriteBackToKnownBlock ==
  \A i \in DOMAIN miss_queue : miss_queue[i][2] \in Block

\* The banks, their lines, the miss queue and the DRAM together are a memory
\* that answers every read once, from the bank it was sent to, and gives no
\* answer in the cycle of the request: acc and seq_pipeline see no more of it.
IsRead(r) == r \in Read
BankOf(r) == PartitionId(BlockOf[r])
Waiting == UNION {Range(addr_to_req[b]) : b \in Block}
Abstract == INSTANCE Memory WITH
  mem <- [in_request_queues |-> in_request_queues,
          inside |-> Waiting \cup UNION {{d.req : d \in Range(delay_resp_queues[p])} : p \in Bank},
          out_resp_queues |-> out_resp_queues]
MemorySpec == Abstract!Spec

\* Every request that reaches the cache is answered, or done if it is a write.
EveryRequestAnswered == \A r \in Request : (r \notin idle) ~> (r \in idle)
=============================================================================
