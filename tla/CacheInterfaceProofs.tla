------------------------- MODULE CacheInterfaceProofs -------------------------
(***************************************************************************)
(* Proofs about the L3 cache, for any number of requests, blocks, banks,   *)
(* lines and ports, and any size of the queues.                            *)
(***************************************************************************)
EXTENDS CacheInterface, QueueLemmas

\* What a bank and a block may hold: their own requests
RequestsOf(p) == {r \in Request : BankOf(r) = p}
ReadsOf(p) == {r \in Read : BankOf(r) = p}
ReadersOf(b) == {r \in Read : BlockOf[r] = b}
Wait == 0 .. cache_delay + 1
DelayedOf(p) == [req : ReadsOf(p), wait : Wait]

\* Only blocks that somebody accesses are read; a write-back may go elsewhere.
DramRequest == {<<TRUE, b>> : b \in Block} \cup {<<FALSE, b>> : b \in MemBlock}

-----------------------------------------------------------------------------
(* The inductive invariant                                                  *)

\* TypeOK, with every request in its own bank, at its own block
InTypes ==
  /\ in_request_queues = [p \in Bank |-> in_request_queues[p]]
  /\ \A p \in Bank : in_request_queues[p] \in Seq(RequestsOf(p))
DelayTypes ==
  /\ delay_resp_queues = [p \in Bank |-> delay_resp_queues[p]]
  /\ \A p \in Bank : delay_resp_queues[p] \in Seq(DelayedOf(p))
OutTypes ==
  /\ out_resp_queues = [p \in Bank |-> out_resp_queues[p]]
  /\ \A p \in Bank : out_resp_queues[p] \in Seq(ReadsOf(p))
WaiterTypes ==
  /\ addr_to_req = [b \in Block |-> addr_to_req[b]]
  /\ \A b \in Block : addr_to_req[b] \in Seq(ReadersOf(b))
LineTypes == line \in [Block -> LineState]
MemoryTypes ==
  /\ miss_queue \in Seq(DramRequest) /\ dram_resp_queue \in Seq(MemBlock)
  /\ mem_in \in Seq(DramRequest) /\ outgoing \in Seq(DramRequest)
ControlTypes ==
  /\ idle \subseteq Request /\ ideal_l3 \in BOOLEAN
  /\ phase \in {"hooks", "memory", "fill", "miss", "in"}
  /\ ports \in [Bank -> 0 .. num_ports]
Types ==
  InTypes /\ DelayTypes /\ OutTypes /\ WaiterTypes /\ LineTypes /\ MemoryTypes /\ ControlTypes

\* How often a request is in each of the four places
AnswersTo(r) == {d \in [req : Read, wait : Wait] : d.req = r}
InQueue(r) == Count({r}, in_request_queues[BankOf(r)])
AtBlock(r) == Count({r}, addr_to_req[BlockOf[r]])
InDelay(r) == Count(AnswersTo(r), delay_resp_queues[BankOf(r)])
AtOut(r) == Count({r}, out_resp_queues[BankOf(r)])
Conserved ==
  \A r \in Request :
    InQueue(r) + AtBlock(r) + InDelay(r) + AtOut(r) = IF r \in idle THEN 0 ELSE 1

\* The reads of a block on their way to the DRAM and back
Asks(b) == {<<TRUE, b>>}
ReadsUnderWay(b) ==
  Count(Asks(b), miss_queue) + Count(Asks(b), mem_in)
    + Count(Asks(b), outgoing) + Count({b}, dram_resp_queue)
Mshr ==
  \A b \in Block :
    /\ (line[b] = "reserved") <=> (addr_to_req[b] # <<>>)
    /\ ReadsUnderWay(b) = IF line[b] = "reserved" THEN 1 ELSE 0

-----------------------------------------------------------------------------
(* Blocks and banks                                                         *)

\* A block number belongs to one of the banks.
LEMMA BankType ==
  /\ \A b \in Nat : PartitionId(b) \in Bank
  /\ \A r \in Request : BlockOf[r] \in Block /\ BankOf(r) \in Bank
  /\ Block \subseteq Nat \ {0} /\ MemBlock \subseteq Nat
  /\ \A b \in Block, p \in Bank : RealAddr(b, p) \in MemBlock
  /\ Block \subseteq MemBlock
<1>1. n_partition \in Nat \ {0} /\ BlockOf \in [Request -> Nat \ {0}]
  BY CacheInterfaceAssumption
<1>2. ASSUME NEW b \in Nat PROVE PartitionId(b) \in Bank
  BY <1>1 DEF PartitionId, Bank
<1>3. Block \subseteq Nat \ {0} /\ \A r \in Request : BlockOf[r] \in Block
  BY <1>1 DEF Block
<1>4. ASSUME NEW b \in Block, NEW p \in Bank PROVE RealAddr(b, p) \in Nat
  <2>1. b \in Nat /\ p \in Nat /\ n_partition \in Nat
    BY <1>1, <1>3 DEF Bank
  <2>2. b * n_partition \in Nat
    BY <2>1
  <2> QED BY <2>1, <2>2 DEF RealAddr
<1>5. MemBlock \subseteq Nat
  <2> SUFFICES ASSUME NEW x \in MemBlock PROVE x \in Nat
    OBVIOUS
  <2>1. CASE x \in Block
    BY <1>3, <2>1
  <2>2. CASE x \in {RealAddr(b, p) : b \in Block, p \in Bank}
    <3>1. PICK b \in Block, p \in Bank : x = RealAddr(b, p)
      BY <2>2
    <3> QED BY <1>4, <3>1
  <2> QED BY <2>1, <2>2 DEF MemBlock
<1>6. \A r \in Request : BankOf(r) \in Bank
  BY <1>2, <1>3 DEF BankOf
<1> QED BY <1>2, <1>3, <1>5, <1>6 DEF MemBlock

\* A request for the DRAM says whether it is a read and of which block.
LEMMA DramRequestType ==
  ASSUME NEW e \in DramRequest
  PROVE  /\ e[1] \in BOOLEAN /\ e[2] \in MemBlock /\ (e[1] => e[2] \in Block)
         /\ e = <<e[1], e[2]>> /\ e \in BOOLEAN \X MemBlock
<1>1. CASE e \in {<<TRUE, b>> : b \in Block}
  <2>1. PICK b \in Block : e = <<TRUE, b>>
    BY <1>1
  <2> QED BY <2>1, BankType
<1>2. CASE e \in {<<FALSE, b>> : b \in MemBlock}
  <2>1. PICK b \in MemBlock : e = <<FALSE, b>>
    BY <1>2
  <2> QED BY <2>1
<1> QED BY <1>1, <1>2 DEF DramRequest

\* The strong types imply the types of the model.
LEMMA TypesImplyTypeOK == Types => TypeOK
<1> SUFFICES ASSUME Types PROVE TypeOK
  OBVIOUS
<1>1. /\ \A p : RequestsOf(p) \subseteq Request /\ ReadsOf(p) \subseteq Read
      /\ \A p : DelayedOf(p) \subseteq [req : Read, wait : Wait]
      /\ \A b : ReadersOf(b) \subseteq Read
  BY DEF RequestsOf, ReadsOf, DelayedOf, ReadersOf
<1>2. in_request_queues \in [Bank -> Seq(Request)]
  BY <1>1 DEF Types, InTypes
<1>3. delay_resp_queues \in [Bank -> Seq([req : Read, wait : 0 .. cache_delay + 1])]
  <2>1. \A p \in Bank : delay_resp_queues[p] \in Seq([req : Read, wait : Wait])
    <3>1. \A p \in Bank : delay_resp_queues[p] \in Seq(DelayedOf(p))
      BY DEF Types, DelayTypes
    <3>2. ASSUME NEW p \in Bank PROVE delay_resp_queues[p] \in Seq([req : Read, wait : Wait])
      <4>1. DelayedOf(p) \subseteq [req : Read, wait : Wait]
        BY <1>1
      <4> QED BY <3>1, <4>1, SeqMonotone, Zenon
    <3> QED BY <3>2
  <2> QED BY <2>1 DEF Types, DelayTypes, Wait
<1>4. out_resp_queues \in [Bank -> Seq(Read)]
  BY <1>1 DEF Types, OutTypes
<1>5. addr_to_req \in [Block -> Seq(Read)]
  BY <1>1 DEF Types, WaiterTypes
<1>6. \A q \in Seq(DramRequest) : q \in Seq(BOOLEAN \X MemBlock)
  <2>1. DramRequest \subseteq BOOLEAN \X MemBlock
    BY DramRequestType
  <2> QED BY <2>1, SeqMonotone
<1> QED BY <1>2, <1>3, <1>4, <1>5, <1>6
        DEF TypeOK, Types, LineTypes, MemoryTypes, ControlTypes

-----------------------------------------------------------------------------
(* Counting                                                                 *)

\* The four numbers are numbers, and their sum is the one of RequestsConserved.
LEMMA PlacesSum ==
  ASSUME Types, NEW r \in Request
  PROVE  /\ InQueue(r) \in Nat /\ AtBlock(r) \in Nat /\ InDelay(r) \in Nat /\ AtOut(r) \in Nat
         /\ Places(r) = InQueue(r) + AtBlock(r) + AtOut(r) + InDelay(r)
<1> DEFINE p == BankOf(r)
           d == delay_resp_queues[p]
<1>1. p \in Bank /\ BlockOf[r] \in Block
  BY BankType
<1>2. /\ in_request_queues[p] \in Seq(RequestsOf(p)) /\ out_resp_queues[p] \in Seq(ReadsOf(p))
      /\ d \in Seq(DelayedOf(p)) /\ addr_to_req[BlockOf[r]] \in Seq(ReadersOf(BlockOf[r]))
  BY <1>1 DEF Types, InTypes, OutTypes, DelayTypes, WaiterTypes
<1>3. InQueue(r) \in Nat /\ AtBlock(r) \in Nat /\ InDelay(r) \in Nat /\ AtOut(r) \in Nat
  BY <1>2, CountType DEF InQueue, AtBlock, InDelay, AtOut
<1>4. \A q : {i \in DOMAIN q : q[i] = r} = Where({r}, q)
  BY DEF Where
<1>5. {i \in DOMAIN d : d[i].req = r} = Where(AnswersTo(r), d)
  <2>1. \A i \in DOMAIN d : d[i] \in [req : Read, wait : Wait]
    <3>1. \A i \in DOMAIN d : d[i] \in DelayedOf(p)
      BY <1>2, ElementOfSeq
    <3> QED BY <3>1 DEF DelayedOf, ReadsOf
  <2> QED BY <2>1 DEF Where, AnswersTo
<1> QED BY <1>3, <1>4, <1>5 DEF Places, InQueue, AtBlock, InDelay, AtOut, Count, BankOf

\* Conserved is RequestsConserved.
LEMMA ConservedImplies == Types /\ Conserved => RequestsConserved
<1> SUFFICES ASSUME Types, Conserved, NEW r \in Request
             PROVE  Places(r) = IF r \in idle THEN 0 ELSE 1
  BY DEF RequestsConserved
<1>1. InQueue(r) + AtBlock(r) + InDelay(r) + AtOut(r) = IF r \in idle THEN 0 ELSE 1
  BY DEF Conserved
<1> QED BY <1>1, PlacesSum

\* The numbers of reads under way are numbers, and Mshr is MshrConsistent.
LEMMA ReadsSum ==
  ASSUME Types, NEW b
  PROVE  /\ Count(Asks(b), miss_queue) \in Nat /\ Count(Asks(b), mem_in) \in Nat
         /\ Count(Asks(b), outgoing) \in Nat /\ Count({b}, dram_resp_queue) \in Nat
         /\ DramReads(b) = ReadsUnderWay(b)
<1> DEFINE X == Asks(b)
           asked == miss_queue \o mem_in \o outgoing
<1>1. /\ miss_queue \in Seq(DramRequest) /\ mem_in \in Seq(DramRequest)
      /\ outgoing \in Seq(DramRequest) /\ dram_resp_queue \in Seq(MemBlock)
  BY DEF Types, MemoryTypes
<1>2. /\ Count(X, miss_queue) \in Nat /\ Count(X, mem_in) \in Nat
      /\ Count(X, outgoing) \in Nat /\ Count({b}, dram_resp_queue) \in Nat
  BY <1>1, CountType
<1>3. Count(X, asked) = Count(X, miss_queue) + Count(X, mem_in) + Count(X, outgoing)
  <2>1. miss_queue \o mem_in \in Seq(DramRequest)
    BY <1>1
  <2>2. Count(X, asked) = Count(X, miss_queue \o mem_in) + Count(X, outgoing)
    BY <1>1, <2>1, CountConcat
  <2>3. Count(X, miss_queue \o mem_in) = Count(X, miss_queue) + Count(X, mem_in)
    BY <1>1, CountConcat
  <2> QED BY <2>2, <2>3
<1>4. /\ {i \in DOMAIN asked : asked[i] = <<TRUE, b>>} = Where(X, asked)
      /\ {i \in DOMAIN dram_resp_queue : dram_resp_queue[i] = b} = Where({b}, dram_resp_queue)
  BY DEF Where, Asks
<1>5. DramReads(b) = Count(X, asked) + Count({b}, dram_resp_queue)
  BY <1>4 DEF DramReads, Count
<1> QED BY <1>2, <1>3, <1>5 DEF ReadsUnderWay

\* A read is a request, and no request is in two banks or at two blocks.
LEMMA OwnPlace ==
  /\ \A p : ReadsOf(p) \subseteq RequestsOf(p) /\ RequestsOf(p) \subseteq Request
  /\ \A p : \A r \in RequestsOf(p) : BankOf(r) = p
  /\ \A b : ReadersOf(b) \subseteq Read /\ \A r \in ReadersOf(b) : BlockOf[r] = b
  /\ Read \subseteq Request
  /\ \A b : ReadersOf(b) \subseteq ReadsOf(PartitionId(b))
BY DEF ReadsOf, RequestsOf, ReadersOf, BankOf, Read

-----------------------------------------------------------------------------
(* What the steps do to the queues                                          *)

\* One more or one less
One(r, s) == IF r = s THEN 1 ELSE 0

\* A request at the end of the queue of its bank
LEMMA InAppend ==
  ASSUME Types, NEW s \in Request,
         in_request_queues' = [in_request_queues EXCEPT ![BankOf(s)] = Append(@, s)]
  PROVE  InTypes' /\ \A r \in Request : InQueue(r)' = InQueue(r) + One(r, s)
<1> DEFINE p == BankOf(s)
<1>1. p \in Bank /\ s \in RequestsOf(p)
  BY BankType DEF RequestsOf
<1>2. /\ in_request_queues = [q \in Bank |-> in_request_queues[q]]
      /\ \A q \in Bank : in_request_queues[q] \in Seq(RequestsOf(q))
  BY DEF Types, InTypes
<1>3. /\ in_request_queues' = [q \in Bank |-> in_request_queues'[q]]
      /\ in_request_queues'[p] = Append(in_request_queues[p], s)
      /\ \A q \in Bank : q # p => in_request_queues'[q] = in_request_queues[q]
  BY <1>1, <1>2
<1>4. in_request_queues'[p] \in Seq(RequestsOf(p))
  BY <1>1, <1>2, <1>3, AppendElements
<1>5. InTypes'
  BY <1>2, <1>3, <1>4 DEF InTypes
<1>6. ASSUME NEW r \in Request PROVE InQueue(r)' = InQueue(r) + One(r, s)
  <2>1. BankOf(r) \in Bank /\ InQueue(r) \in Nat
    BY BankType, PlacesSum
  <2>2. InQueue(r)' = Count({r}, in_request_queues'[BankOf(r)])
    BY DEF InQueue
  <2>3. CASE BankOf(r) = p
    <3>1. Count({r}, in_request_queues'[p])
            = Count({r}, in_request_queues[p]) + (IF s \in {r} THEN 1 ELSE 0)
      BY <1>1, <1>2, <1>3, CountAppend
    <3> QED BY <2>2, <2>3, <3>1 DEF InQueue, One
  <2>4. CASE BankOf(r) # p
    BY <1>3, <2>1, <2>2, <2>4 DEF InQueue, One
  <2> QED BY <2>3, <2>4
<1> QED BY <1>5, <1>6

\* The oldest request leaves its queue.
LEMMA InPop ==
  ASSUME Types, NEW p \in Bank, in_request_queues[p] # <<>>, PopFront(p)
  PROVE  /\ InTypes' /\ Oldest(p) \in RequestsOf(p)
         /\ \A r \in Request : InQueue(r) = InQueue(r)' + One(r, Oldest(p)) /\ InQueue(r)' \in Nat
<1> DEFINE s == Oldest(p)
<1>1. /\ in_request_queues = [q \in Bank |-> in_request_queues[q]]
      /\ \A q \in Bank : in_request_queues[q] \in Seq(RequestsOf(q))
  BY DEF Types, InTypes
<1>2. /\ in_request_queues' = [q \in Bank |-> in_request_queues'[q]]
      /\ in_request_queues'[p] = Tail(in_request_queues[p])
      /\ \A q \in Bank : q # p => in_request_queues'[q] = in_request_queues[q]
  BY <1>1 DEF PopFront
<1>3. s \in RequestsOf(p) /\ in_request_queues'[p] \in Seq(RequestsOf(p))
  BY <1>1, <1>2, TailElements DEF Oldest
<1>4. InTypes'
  BY <1>1, <1>2, <1>3 DEF InTypes
<1>5. ASSUME NEW r \in Request
      PROVE  InQueue(r) = InQueue(r)' + One(r, s) /\ InQueue(r)' \in Nat
  <2>1. BankOf(r) \in Bank /\ InQueue(r) \in Nat
    BY BankType, PlacesSum
  <2>2. InQueue(r)' = Count({r}, in_request_queues'[BankOf(r)])
    BY DEF InQueue
  <2>3. InQueue(r)' \in Nat
    <3>1. in_request_queues'[BankOf(r)] \in Seq(RequestsOf(BankOf(r)))
      BY <1>4, <2>1 DEF InTypes
    <3>2. Count({r}, in_request_queues'[BankOf(r)]) \in Nat
      BY <3>1, CountType
    <3> QED BY <2>2, <3>2
  <2>4. CASE BankOf(r) = p
    <3>1. Count({r}, in_request_queues[p])
            = Count({r}, in_request_queues'[p]) + (IF s \in {r} THEN 1 ELSE 0)
      BY <1>1, <1>2, CountTail DEF Oldest
    <3> QED BY <2>2, <2>3, <2>4, <3>1 DEF InQueue, One
  <2>5. CASE BankOf(r) # p
    BY <1>2, <1>3, <2>1, <2>2, <2>5, OwnPlace DEF InQueue, One
  <2> QED BY <2>3, <2>4, <2>5
<1> QED BY <1>3, <1>4, <1>5

\* A read gets a delayed answer.
LEMMA DelayAppend ==
  ASSUME Types, NEW p \in Bank, NEW s \in ReadsOf(p),
         delay_resp_queues' = [delay_resp_queues EXCEPT ![p] = Append(@, Delayed(s))]
  PROVE  DelayTypes' /\ \A r \in Request : InDelay(r)' = InDelay(r) + One(r, s)
<1>1. /\ delay_resp_queues = [q \in Bank |-> delay_resp_queues[q]]
      /\ \A q \in Bank : delay_resp_queues[q] \in Seq(DelayedOf(q))
  BY DEF Types, DelayTypes
<1>2. Delayed(s) \in DelayedOf(p) /\ \A r : Delayed(s) \in AnswersTo(r) <=> r = s
  <2>1. cache_delay + 1 \in Wait
    BY CacheInterfaceAssumption DEF Wait
  <2> QED BY <2>1 DEF Delayed, DelayedOf, AnswersTo, ReadsOf
<1>3. /\ delay_resp_queues' = [q \in Bank |-> delay_resp_queues'[q]]
      /\ delay_resp_queues'[p] = Append(delay_resp_queues[p], Delayed(s))
      /\ \A q \in Bank : q # p => delay_resp_queues'[q] = delay_resp_queues[q]
  BY <1>1
<1>4. delay_resp_queues'[p] \in Seq(DelayedOf(p))
  BY <1>1, <1>2, <1>3, AppendElements
<1>5. DelayTypes'
  BY <1>1, <1>3, <1>4 DEF DelayTypes
<1>6. ASSUME NEW r \in Request PROVE InDelay(r)' = InDelay(r) + One(r, s)
  <2>1. BankOf(r) \in Bank /\ InDelay(r) \in Nat
    BY BankType, PlacesSum
  <2>2. InDelay(r)' = Count(AnswersTo(r), delay_resp_queues'[BankOf(r)])
    BY DEF InDelay
  <2>3. CASE BankOf(r) = p
    <3>1. Count(AnswersTo(r), delay_resp_queues'[p])
            = Count(AnswersTo(r), delay_resp_queues[p])
                + (IF Delayed(s) \in AnswersTo(r) THEN 1 ELSE 0)
      BY <1>1, <1>2, <1>3, CountAppend
    <3> QED BY <1>2, <2>2, <2>3, <3>1 DEF InDelay, One
  <2>4. CASE BankOf(r) # p
    BY <1>3, <2>1, <2>2, <2>4, OwnPlace DEF InDelay, One
  <2> QED BY <2>3, <2>4
<1> QED BY <1>5, <1>6

\* A read waits at its block.
LEMMA WaiterAppend ==
  ASSUME Types, NEW s \in Read,
         addr_to_req' = [addr_to_req EXCEPT ![BlockOf[s]] = Append(@, s)]
  PROVE  /\ WaiterTypes' /\ \A r \in Request : AtBlock(r)' = AtBlock(r) + One(r, s)
         /\ addr_to_req'[BlockOf[s]] # <<>>
         /\ \A b \in Block : b # BlockOf[s] => addr_to_req'[b] = addr_to_req[b]
<1> DEFINE b == BlockOf[s]
<1>1. b \in Block /\ s \in ReadersOf(b) /\ s \in Request
  BY BankType DEF ReadersOf, Read
<1>2. /\ addr_to_req = [c \in Block |-> addr_to_req[c]]
      /\ \A c \in Block : addr_to_req[c] \in Seq(ReadersOf(c))
  BY DEF Types, WaiterTypes
<1>3. /\ addr_to_req' = [c \in Block |-> addr_to_req'[c]]
      /\ addr_to_req'[b] = Append(addr_to_req[b], s)
      /\ \A c \in Block : c # b => addr_to_req'[c] = addr_to_req[c]
  BY <1>1, <1>2
<1>4. addr_to_req'[b] \in Seq(ReadersOf(b)) /\ addr_to_req'[b] # <<>>
  <2>1. addr_to_req[b] \in Seq(ReadersOf(b))
    BY <1>1, <1>2
  <2> HIDE DEF b
  <2>2. Append(addr_to_req[b], s) \in Seq(ReadersOf(b)) /\ Append(addr_to_req[b], s) # <<>>
    BY <1>1, <2>1, AppendElements
  <2> QED BY <1>3, <2>2
<1>5. WaiterTypes'
  BY <1>2, <1>3, <1>4 DEF WaiterTypes
<1>6. ASSUME NEW r \in Request PROVE AtBlock(r)' = AtBlock(r) + One(r, s)
  <2>1. BlockOf[r] \in Block /\ AtBlock(r) \in Nat
    BY BankType, PlacesSum
  <2>2. AtBlock(r)' = Count({r}, addr_to_req'[BlockOf[r]])
    BY DEF AtBlock
  <2>3. CASE BlockOf[r] = b
    <3>1. Count({r}, addr_to_req'[b])
            = Count({r}, addr_to_req[b]) + (IF s \in {r} THEN 1 ELSE 0)
      BY <1>1, <1>2, <1>3, CountAppend
    <3> QED BY <2>2, <2>3, <3>1 DEF AtBlock, One
  <2>4. CASE BlockOf[r] # b
    BY <1>3, <2>1, <2>2, <2>4 DEF AtBlock, One
  <2> QED BY <2>3, <2>4
<1> QED BY <1>3, <1>4, <1>5, <1>6

\* An answer leaves the cache.
LEMMA OutPop ==
  ASSUME Types, NEW p \in Bank, out_resp_queues[p] # <<>>,
         out_resp_queues' = [out_resp_queues EXCEPT ![p] = Tail(@)]
  PROVE  /\ OutTypes' /\ Head(out_resp_queues[p]) \in ReadsOf(p)
         /\ \A r \in Request : /\ AtOut(r) = AtOut(r)' + One(r, Head(out_resp_queues[p]))
                               /\ AtOut(r)' \in Nat
<1> DEFINE s == Head(out_resp_queues[p])
<1>1. /\ out_resp_queues = [q \in Bank |-> out_resp_queues[q]]
      /\ \A q \in Bank : out_resp_queues[q] \in Seq(ReadsOf(q))
  BY DEF Types, OutTypes
<1>2. /\ out_resp_queues' = [q \in Bank |-> out_resp_queues'[q]]
      /\ out_resp_queues'[p] = Tail(out_resp_queues[p])
      /\ \A q \in Bank : q # p => out_resp_queues'[q] = out_resp_queues[q]
  BY <1>1
<1>3. s \in ReadsOf(p) /\ out_resp_queues'[p] \in Seq(ReadsOf(p))
  BY <1>1, <1>2, TailElements
<1>4. OutTypes'
  BY <1>1, <1>2, <1>3 DEF OutTypes
<1>5. ASSUME NEW r \in Request
      PROVE  AtOut(r) = AtOut(r)' + One(r, s) /\ AtOut(r)' \in Nat
  <2>1. BankOf(r) \in Bank /\ AtOut(r) \in Nat
    BY BankType, PlacesSum
  <2>2. AtOut(r)' = Count({r}, out_resp_queues'[BankOf(r)])
    BY DEF AtOut
  <2>3. AtOut(r)' \in Nat
    <3>1. out_resp_queues'[BankOf(r)] \in Seq(ReadsOf(BankOf(r)))
      BY <1>4, <2>1 DEF OutTypes
    <3>2. Count({r}, out_resp_queues'[BankOf(r)]) \in Nat
      BY <3>1, CountType
    <3> QED BY <2>2, <3>2
  <2>4. CASE BankOf(r) = p
    <3>1. Count({r}, out_resp_queues[p])
            = Count({r}, out_resp_queues'[p]) + (IF s \in {r} THEN 1 ELSE 0)
      BY <1>1, <1>2, CountTail
    <3> QED BY <2>2, <2>3, <2>4, <3>1 DEF AtOut, One
  <2>5. CASE BankOf(r) # p
    BY <1>2, <1>3, <2>1, <2>2, <2>5, OwnPlace DEF AtOut, One
  <2> QED BY <2>3, <2>4, <2>5
<1> QED BY <1>3, <1>4, <1>5

\* The delays go down and the answers stay.
LEMMA DelayTick ==
  ASSUME Types, MemSend
  PROVE  /\ DelayTypes' /\ \A r \in Request : InDelay(r)' = InDelay(r)
         /\ \A p \in Bank : /\ DOMAIN delay_resp_queues'[p] = DOMAIN delay_resp_queues[p]
                            /\ \A i \in DOMAIN delay_resp_queues[p] :
                                 delay_resp_queues'[p][i].req = delay_resp_queues[p][i].req
<1> DEFINE tick(d) == [d EXCEPT !.wait = IF @ > 0 THEN @ - 1 ELSE 0]
<1>1. \A p \in Bank : delay_resp_queues[p] \in Seq(DelayedOf(p))
  BY DEF Types, DelayTypes
<1>2. delay_resp_queues' =
        [p \in Bank |-> [i \in DOMAIN delay_resp_queues[p] |-> tick(delay_resp_queues[p][i])]]
  BY DEF MemSend
<1>3. ASSUME NEW p \in Bank, NEW d \in DelayedOf(p)
      PROVE  tick(d) \in DelayedOf(p) /\ tick(d).req = d.req
  <2>1. d \in [req : ReadsOf(p), wait : Wait]
    BY DEF DelayedOf
  <2>2. d.wait \in Wait
    BY <2>1
  <2>3. (IF d.wait > 0 THEN d.wait - 1 ELSE 0) \in Wait
    BY <2>2, CacheInterfaceAssumption DEF Wait
  <2> QED BY <2>1, <2>3 DEF DelayedOf
<1> HIDE DEF tick
<1>4. ASSUME NEW p \in Bank
      PROVE  LET d == delay_resp_queues[p]
             IN  /\ d \in Seq(DelayedOf(p)) /\ DOMAIN d = 1 .. Len(d) /\ Len(d) \in Nat
                 /\ \A i \in DOMAIN d : d[i] \in DelayedOf(p)
                 /\ delay_resp_queues'[p] = [i \in DOMAIN d |-> tick(d[i])]
  BY <1>1, <1>2, LenProperties, ElementOfSeq
<1>5. ASSUME NEW p \in Bank
      PROVE  /\ delay_resp_queues'[p] \in Seq(DelayedOf(p))
             /\ DOMAIN delay_resp_queues'[p] = DOMAIN delay_resp_queues[p]
             /\ \A i \in DOMAIN delay_resp_queues[p] :
                  delay_resp_queues'[p][i].req = delay_resp_queues[p][i].req
  <2> DEFINE d == delay_resp_queues[p]
             e == delay_resp_queues'[p]
  <2>1. /\ DOMAIN d = 1 .. Len(d) /\ Len(d) \in Nat
        /\ \A i \in DOMAIN d : d[i] \in DelayedOf(p)
        /\ e = [i \in DOMAIN d |-> tick(d[i])]
    BY <1>4
  <2> HIDE DEF d, e
  <2>2. e \in [1 .. Len(d) -> DelayedOf(p)]
    BY <1>3, <2>1
  <2>3. e \in Seq(DelayedOf(p))
    BY <2>1, <2>2, SeqDef
  <2>4. DOMAIN e = DOMAIN d /\ \A i \in DOMAIN d : e[i].req = d[i].req
    BY <1>3, <2>1
  <2> QED BY <2>3, <2>4 DEF d, e
<1>6. delay_resp_queues' = [p \in Bank |-> delay_resp_queues'[p]]
  BY <1>2
<1>7. DelayTypes'
  BY <1>5, <1>6 DEF DelayTypes
<1>8. ASSUME NEW r \in Request PROVE InDelay(r)' = InDelay(r)
  <2> DEFINE d == delay_resp_queues[BankOf(r)]
             e == delay_resp_queues'[BankOf(r)]
  <2>1. BankOf(r) \in Bank
    BY BankType
  <2>2. /\ DOMAIN e = DOMAIN d /\ \A i \in DOMAIN d : e[i].req = d[i].req
        /\ \A i \in DOMAIN d : d[i] \in DelayedOf(BankOf(r)) /\ e[i] \in DelayedOf(BankOf(r))
    BY <1>4, <1>5, <2>1, ElementOfSeq, LenProperties
  <2>3. DelayedOf(BankOf(r)) \subseteq [req : Read, wait : Wait]
    BY DEF DelayedOf, ReadsOf
  <2> HIDE DEF d, e
  <2>4. Where(AnswersTo(r), e) = Where(AnswersTo(r), d)
    BY <2>2, <2>3 DEF Where, AnswersTo
  <2>5. InDelay(r)' = Count(AnswersTo(r), e) /\ InDelay(r) = Count(AnswersTo(r), d)
    BY DEF InDelay, d, e
  <2> QED BY <2>4, <2>5 DEF Count
<1> QED BY <1>5, <1>7, <1>8

\* Ripe answers move on, one in a bank.
LEMMA DelayToOut ==
  ASSUME Types, FromDelayrespToOut
  PROVE  /\ DelayTypes' /\ OutTypes'
         /\ \A r \in Request : /\ InDelay(r)' + AtOut(r)' = InDelay(r) + AtOut(r)
                               /\ InDelay(r)' \in Nat /\ AtOut(r)' \in Nat
         /\ \A r \in Request :
              InDelay(r) = InDelay(r)' + (IF Ripe(BankOf(r)) THEN
                One(r, Head(delay_resp_queues[BankOf(r)]).req) ELSE 0)
<1>1. /\ \A p \in Bank : delay_resp_queues[p] \in Seq(DelayedOf(p))
      /\ \A p \in Bank : out_resp_queues[p] \in Seq(ReadsOf(p))
  BY DEF Types, DelayTypes, OutTypes
<1>2. /\ delay_resp_queues' = [p \in Bank |-> delay_resp_queues'[p]]
      /\ out_resp_queues' = [p \in Bank |-> out_resp_queues'[p]]
      /\ \A p \in Bank :
           /\ Ripe(p) => /\ delay_resp_queues'[p] = Tail(delay_resp_queues[p])
                         /\ out_resp_queues'[p] =
                              Append(out_resp_queues[p], Head(delay_resp_queues[p]).req)
           /\ ~ Ripe(p) => /\ delay_resp_queues'[p] = delay_resp_queues[p]
                           /\ out_resp_queues'[p] = out_resp_queues[p]
  BY DEF FromDelayrespToOut
<1>3. ASSUME NEW p \in Bank, Ripe(p)
      PROVE  /\ delay_resp_queues[p] # <<>>
             /\ Head(delay_resp_queues[p]) \in DelayedOf(p)
             /\ Head(delay_resp_queues[p]).req \in ReadsOf(p)
             /\ Tail(delay_resp_queues[p]) \in Seq(DelayedOf(p))
             /\ Append(out_resp_queues[p], Head(delay_resp_queues[p]).req) \in Seq(ReadsOf(p))
  <2>1. delay_resp_queues[p] # <<>>
    BY <1>3 DEF Ripe
  <2>2. /\ Head(delay_resp_queues[p]) \in DelayedOf(p)
        /\ Tail(delay_resp_queues[p]) \in Seq(DelayedOf(p))
    BY <1>1, <2>1, TailElements
  <2>3. Head(delay_resp_queues[p]).req \in ReadsOf(p)
    BY <2>2 DEF DelayedOf
  <2>4. Append(out_resp_queues[p], Head(delay_resp_queues[p]).req) \in Seq(ReadsOf(p))
    BY <1>1, <2>3, AppendElements
  <2> QED BY <2>1, <2>2, <2>3, <2>4
<1>4. \A p \in Bank : /\ delay_resp_queues'[p] \in Seq(DelayedOf(p))
                      /\ out_resp_queues'[p] \in Seq(ReadsOf(p))
  BY <1>1, <1>2, <1>3
<1>5. DelayTypes' /\ OutTypes'
  BY <1>2, <1>4 DEF DelayTypes, OutTypes
<1>6. ASSUME NEW r \in Request
      PROVE  /\ InDelay(r)' + AtOut(r)' = InDelay(r) + AtOut(r)
             /\ InDelay(r)' \in Nat /\ AtOut(r)' \in Nat
             /\ InDelay(r) = InDelay(r)' + (IF Ripe(BankOf(r)) THEN
                  One(r, Head(delay_resp_queues[BankOf(r)]).req) ELSE 0)
  <2> DEFINE p == BankOf(r)
             X == AnswersTo(r)
             d == delay_resp_queues[p]
             o == out_resp_queues[p]
             head == Head(d)
             delays == delay_resp_queues'[p]
             outs == out_resp_queues'[p]
  <2>1. p \in Bank
    BY BankType
  <2>2. /\ InDelay(r)' = Count(X, delays) /\ AtOut(r)' = Count({r}, outs)
        /\ InDelay(r) = Count(X, d) /\ AtOut(r) = Count({r}, o)
    BY DEF InDelay, AtOut
  <2>3. /\ d \in Seq(DelayedOf(p)) /\ o \in Seq(ReadsOf(p))
        /\ delays \in Seq(DelayedOf(p)) /\ outs \in Seq(ReadsOf(p))
    BY <1>1, <1>4, <2>1
  <2>4. /\ Count(X, delays) \in Nat /\ Count({r}, outs) \in Nat
        /\ Count(X, d) \in Nat /\ Count({r}, o) \in Nat
    BY <2>3, CountType
  <2>5. CASE ~ Ripe(p)
    <3>1. delays = d /\ outs = o
      BY <1>2, <2>1, <2>5
    <3> QED BY <2>2, <2>4, <2>5, <3>1
  <2>6. CASE Ripe(p)
    <3>1. /\ d # <<>> /\ head \in DelayedOf(p) /\ head.req \in ReadsOf(p)
          /\ delays = Tail(d) /\ outs = Append(o, head.req)
      BY <1>2, <1>3, <2>1, <2>6
    <3>2. head \in X <=> head.req = r
      BY <3>1 DEF DelayedOf, ReadsOf, AnswersTo
    <3>3. Count(X, d) = Count(X, delays) + (IF head \in X THEN 1 ELSE 0)
      BY <2>3, <3>1, CountTail
    <3>4. Count({r}, outs) = Count({r}, o) + (IF head.req \in {r} THEN 1 ELSE 0)
      BY <2>3, <3>1, CountAppend
    <3> HIDE DEF X, d, o, head, delays, outs, p
    <3>5. One(r, head.req) = (IF head \in X THEN 1 ELSE 0)
      BY <3>2 DEF One
    <3>6. /\ Count(X, delays) + Count({r}, outs) = Count(X, d) + Count({r}, o)
          /\ Count(X, d) = Count(X, delays) + One(r, head.req)
      BY <2>4, <3>2, <3>3, <3>4, <3>5
    <3> QED BY <2>2, <2>4, <2>6, <3>6 DEF p, d, head
  <2> QED BY <2>5, <2>6
<1> QED BY <1>5, <1>6

\* A block that has come answers all the reads that wait for it.
LEMMA FillBlock ==
  ASSUME Types, NEW b \in Block,
         delay_resp_queues' = [delay_resp_queues EXCEPT ![PartitionId(b)] =
           @ \o [i \in DOMAIN addr_to_req[b] |-> Delayed(addr_to_req[b][i])]],
         addr_to_req' = [addr_to_req EXCEPT ![b] = <<>>]
  PROVE  /\ DelayTypes' /\ WaiterTypes'
         /\ \A r \in Request : /\ AtBlock(r)' + InDelay(r)' = AtBlock(r) + InDelay(r)
                               /\ AtBlock(r)' \in Nat /\ InDelay(r)' \in Nat
         /\ addr_to_req'[b] = <<>>
         /\ \A c \in Block : c # b => addr_to_req'[c] = addr_to_req[c]
<1> DEFINE p == PartitionId(b)
           w == addr_to_req[b]
           d == delay_resp_queues[p]
           new == [i \in DOMAIN w |-> Delayed(w[i])]
<1>1. p \in Bank
  BY BankType
<1>2. /\ w \in Seq(ReadersOf(b)) /\ addr_to_req = [c \in Block |-> addr_to_req[c]]
      /\ \A c \in Block : addr_to_req[c] \in Seq(ReadersOf(c))
      /\ d \in Seq(DelayedOf(p)) /\ delay_resp_queues = [q \in Bank |-> delay_resp_queues[q]]
      /\ \A q \in Bank : delay_resp_queues[q] \in Seq(DelayedOf(q))
  BY <1>1 DEF Types, WaiterTypes, DelayTypes
<1>3. /\ addr_to_req'[b] = <<>> /\ addr_to_req' = [c \in Block |-> addr_to_req'[c]]
      /\ \A c \in Block : c # b => addr_to_req'[c] = addr_to_req[c]
  BY <1>2
<1>4. /\ delay_resp_queues'[p] = d \o new
      /\ delay_resp_queues' = [q \in Bank |-> delay_resp_queues'[q]]
      /\ \A q \in Bank : q # p => delay_resp_queues'[q] = delay_resp_queues[q]
  BY <1>1, <1>2
<1>5. /\ DOMAIN w = 1 .. Len(w) /\ Len(w) \in Nat
      /\ \A i \in DOMAIN w : w[i] \in ReadersOf(b) /\ w[i] \in ReadsOf(p) /\ w[i] \in Read
  BY <1>2, LenProperties, ElementOfSeq, OwnPlace
<1>6. /\ \A s \in ReadsOf(p) : Delayed(s) \in DelayedOf(p)
      /\ \A s \in Read : \A r : Delayed(s) \in AnswersTo(r) <=> s = r
  <2>1. cache_delay + 1 \in Wait
    BY CacheInterfaceAssumption DEF Wait
  <2> QED BY <2>1 DEF Delayed, DelayedOf, AnswersTo
<1> HIDE DEF p, w, d
<1>7. new \in Seq(DelayedOf(p))
  <2>1. new \in [1 .. Len(w) -> DelayedOf(p)]
    BY <1>5, <1>6
  <2> HIDE DEF new
  <2> QED BY <1>5, <2>1, SeqDef
<1>8. \A r : Where(AnswersTo(r), new) = Where({r}, w)
  BY <1>5, <1>6 DEF Where
<1> HIDE DEF new
<1>9. DelayTypes'
  <2>1. d \o new \in Seq(DelayedOf(p))
    BY <1>2, <1>7
  <2> QED BY <1>2, <1>4, <2>1 DEF DelayTypes
<1>10. WaiterTypes'
  <2>1. <<>> \in Seq(ReadersOf(b))
    OBVIOUS
  <2> QED BY <1>2, <1>3, <2>1 DEF WaiterTypes
<1>11. ASSUME NEW r \in Request
       PROVE  /\ AtBlock(r)' + InDelay(r)' = AtBlock(r) + InDelay(r)
              /\ AtBlock(r)' \in Nat /\ InDelay(r)' \in Nat
  <2>1. BankOf(r) \in Bank /\ BlockOf[r] \in Block /\ AtBlock(r) \in Nat /\ InDelay(r) \in Nat
    BY BankType, PlacesSum
  <2>2. /\ AtBlock(r)' = Count({r}, addr_to_req'[BlockOf[r]])
        /\ InDelay(r)' = Count(AnswersTo(r), delay_resp_queues'[BankOf(r)])
    BY DEF AtBlock, InDelay
  <2>3. BankOf(r) = p =>
          /\ InDelay(r) = Count(AnswersTo(r), d)
          /\ InDelay(r)' = InDelay(r) + Count({r}, w)
    <3>1. Count(AnswersTo(r), d \o new) = Count(AnswersTo(r), d) + Count(AnswersTo(r), new)
      BY <1>2, <1>7, CountConcat
    <3>2. Count(AnswersTo(r), new) = Count({r}, w)
      BY <1>8 DEF Count
    <3> QED BY <1>4, <2>2, <3>1, <3>2 DEF InDelay, d
  <2>4. Count({r}, w) \in Nat /\ (r \notin ReadersOf(b) => Count({r}, w) = 0)
    <3>1. r \notin ReadersOf(b) => \A i \in DOMAIN w : w[i] \notin {r}
      BY <1>5
    <3> QED BY <1>2, <3>1, CountType
  <2>5. CASE BlockOf[r] = b
    <3>1. BankOf(r) = p
      BY <2>5 DEF BankOf, p
    <3>2. AtBlock(r)' = 0 /\ AtBlock(r) = Count({r}, w)
      BY <1>3, <2>2, <2>5, CountEmpty DEF AtBlock, w
    <3> QED BY <2>1, <2>3, <2>4, <3>1, <3>2
  <2>6. CASE BlockOf[r] # b
    <3>1. AtBlock(r)' = AtBlock(r)
      BY <1>3, <2>1, <2>2, <2>6 DEF AtBlock
    <3>2. Count({r}, w) = 0
      BY <2>4, <2>6, OwnPlace
    <3>3. InDelay(r)' = InDelay(r)
      <4>1. CASE BankOf(r) = p
        BY <2>1, <2>3, <3>2, <4>1
      <4>2. CASE BankOf(r) # p
        BY <1>4, <2>1, <2>2, <4>2 DEF InDelay
      <4> QED BY <4>1, <4>2
    <3> QED BY <2>1, <3>1, <3>3
  <2> QED BY <2>5, <2>6
<1> QED BY <1>3, <1>9, <1>10, <1>11

-----------------------------------------------------------------------------
(* The lines and the traffic with the DRAM                                  *)

\* A victim is a line of the bank that waits for nothing.
LEMMA VictimType ==
  ASSUME Types, NEW p \in Bank, NEW v \in Victims(p)
  PROVE  \/ v = NoVictim /\ v \notin Block
         \/ v # NoVictim /\ v \in Block /\ PartitionId(v) = p /\ line[v] \in {"clean", "dirty"}
<1>1. line \in [Block -> LineState] /\ Block \subseteq Nat \ {0}
  BY BankType DEF Types, LineTypes
<1>2. CASE v = NoVictim
  BY <1>1, <1>2 DEF NoVictim
<1>3. CASE v # NoVictim
  <2>1. v \in Present(p) /\ line[v] # "reserved"
    BY <1>3 DEF Victims
  <2> QED BY <1>1, <1>3, <2>1 DEF Present, LineState
<1> QED BY <1>2, <1>3

\* One line changes, and the line of the victim goes.
LEMMA AllocateEffect ==
  ASSUME Types, NEW b \in Block, NEW s \in LineState, NEW v, v # b, Allocate(b, s, v)
  PROVE  /\ LineTypes' /\ line'[b] = s
         /\ \A c \in Block : c # b => line'[c] = IF c = v THEN "absent" ELSE line[c]
<1>1. line \in [Block -> LineState]
  BY DEF Types, LineTypes
<1>2. \A c \in Block : line'[c] = IF c = b THEN s ELSE IF c = v THEN "absent" ELSE line[c]
  BY DEF Allocate
<1>3. line' = [c \in Block |-> line'[c]]
  BY DEF Allocate
<1>4. \A c \in Block : line'[c] \in LineState
  BY <1>1, <1>2 DEF LineState
<1> QED BY <1>2, <1>3, <1>4 DEF LineTypes

\* At most one write goes to the DRAM for a victim, and no read.
LEMMA WriteBackType ==
  ASSUME Types, NEW p \in Bank, NEW v \in Victims(p)
  PROVE  /\ WriteBack(v, p) \in Seq(DramRequest)
         /\ Len(WriteBack(v, p)) \in 0 .. 1
         /\ \A b \in Block : Count(Asks(b), WriteBack(v, p)) = 0
<1>1. CASE v # NoVictim /\ line[v] = "dirty"
  <2> DEFINE e == <<FALSE, RealAddr(v, p)>>
  <2>1. v \in Block
    BY <1>1, VictimType
  <2>2. WriteBack(v, p) = <<e>>
    BY <1>1 DEF WriteBack, CacheAddr
  <2>3. e \in DramRequest
    BY <2>1, BankType DEF DramRequest
  <2>4. \A b \in Block : e \notin Asks(b)
    BY DEF Asks
  <2> HIDE DEF e
  <2>5. \A b \in Block : Count(Asks(b), <<e>>) = 0
    BY <2>4, CountOne
  <2>6. <<e>> \in Seq(DramRequest) /\ Len(<<e>>) = 1
    BY <2>3
  <2>7. Len(<<e>>) \in 0 .. 1
    BY <2>6
  <2> QED BY <2>2, <2>5, <2>6, <2>7
<1>2. CASE ~ (v # NoVictim /\ line[v] = "dirty")
  <2>1. WriteBack(v, p) = <<>>
    BY <1>2 DEF WriteBack
  <2>2. \A b \in Block : Count(Asks(b), <<>>) = 0
    BY CountEmpty
  <2>3. <<>> \in Seq(DramRequest) /\ Len(<<>>) \in 0 .. 1
    OBVIOUS
  <2> QED BY <2>1, <2>2, <2>3
<1> QED BY <1>1, <1>2

\* A miss sends one read, of its block.
LEMMA MissTrafficType ==
  ASSUME Types, NEW p \in Bank, NEW v \in Victims(p), NEW b \in Block
  PROVE  /\ MissTraffic(b, v, p) \in Seq(DramRequest)
         /\ Len(MissTraffic(b, v, p)) \in 0 .. 2
         /\ \A c \in Block : Count(Asks(c), MissTraffic(b, v, p)) = One(c, b)
<1> DEFINE w == WriteBack(v, p)
           e == <<TRUE, b>>
<1>1. /\ w \in Seq(DramRequest) /\ Len(w) \in 0 .. 1
      /\ \A c \in Block : Count(Asks(c), w) = 0
  BY WriteBackType
<1>2. e \in DramRequest /\ \A c \in Block : e \in Asks(c) <=> c = b
  BY BankType DEF DramRequest, Asks
<1>3. MissTraffic(b, v, p) = w \o <<e>>
  BY DEF MissTraffic
<1> HIDE DEF w, e
<1>4. <<e>> \in Seq(DramRequest) /\ w \o <<e>> \in Seq(DramRequest)
      /\ Len(w \o <<e>>) = Len(w) + 1
  BY <1>1, <1>2
<1>5. ASSUME NEW c \in Block PROVE Count(Asks(c), w \o <<e>>) = One(c, b)
  <2>1. Count(Asks(c), w \o <<e>>) = Count(Asks(c), w) + Count(Asks(c), <<e>>)
    BY <1>1, <1>4, CountConcat
  <2>2. Count(Asks(c), <<e>>) = IF e \in Asks(c) THEN 1 ELSE 0
    BY CountOne
  <2>3. (IF e \in Asks(c) THEN 1 ELSE 0) = One(c, b) /\ One(c, b) \in Nat
    BY <1>2 DEF One
  <2> QED BY <1>1, <2>1, <2>2, <2>3
<1>6. Len(w \o <<e>>) \in 0 .. 2
  <2>1. \A n \in 0 .. 1 : n + 1 \in 0 .. 2
    OBVIOUS
  <2> QED BY <1>1, <1>4, <2>1, Zenon
<1> QED BY <1>3, <1>4, <1>5, <1>6

\* New requests for the DRAM
LEMMA MissAppend ==
  ASSUME Types, NEW w \in Seq(DramRequest), miss_queue' = miss_queue \o w,
         UNCHANGED <<dram_resp_queue, mem_in, outgoing>>
  PROVE  /\ MemoryTypes'
         /\ Len(miss_queue') = Len(miss_queue) + Len(w) /\ Len(miss_queue) \in Nat
         /\ \A b \in Block : ReadsUnderWay(b)' = ReadsUnderWay(b) + Count(Asks(b), w)
<1>1. miss_queue \in Seq(DramRequest)
  BY DEF Types, MemoryTypes
<1>2. /\ miss_queue' \in Seq(DramRequest) /\ Len(miss_queue) \in Nat
      /\ Len(miss_queue') = Len(miss_queue) + Len(w)
  BY <1>1
<1>3. MemoryTypes'
  BY <1>2 DEF Types, MemoryTypes
<1>4. ASSUME NEW b \in Block PROVE ReadsUnderWay(b)' = ReadsUnderWay(b) + Count(Asks(b), w)
  <2>1. Count(Asks(b), miss_queue')
          = Count(Asks(b), miss_queue) + Count(Asks(b), w)
    BY <1>1, CountConcat
  <2>2. ReadsUnderWay(b)' =
          Count(Asks(b), miss_queue') + Count(Asks(b), mem_in)
            + Count(Asks(b), outgoing) + Count({b}, dram_resp_queue)
    BY DEF ReadsUnderWay
  <2>3. Count(Asks(b), w) \in Nat
    BY CountType
  <2> QED BY <2>1, <2>2, <2>3, ReadsSum DEF ReadsUnderWay
<1> QED BY <1>2, <1>3, <1>4

\* The number of reads of b that are under way, after a step
LEMMA ReadsNext ==
  ASSUME NEW b
  PROVE  ReadsUnderWay(b)' =
           Count(Asks(b), miss_queue') + Count(Asks(b), mem_in')
             + Count(Asks(b), outgoing') + Count({b}, dram_resp_queue')
BY DEF ReadsUnderWay

\* A request enters the DRAM or nothing happens.
LEMMA MemSendMemory ==
  ASSUME Types, MemSend
  PROVE  /\ MemoryTypes' /\ miss_queue' = miss_queue
         /\ \A b \in Block : ReadsUnderWay(b)' = ReadsUnderWay(b)
<1>1. UNCHANGED <<miss_queue, dram_resp_queue>>
  BY DEF MemSend
<1>2. mem_in \in Seq(DramRequest) /\ outgoing \in Seq(DramRequest)
  BY DEF Types, MemoryTypes
<1>3. CASE mem_in # <<>> /\ Len(outgoing) < DramSlots
  <2>1. outgoing' = Append(outgoing, Head(mem_in)) /\ mem_in' = Tail(mem_in)
    BY <1>3 DEF MemSend
  <2>2. Head(mem_in) \in DramRequest /\ mem_in' \in Seq(DramRequest)
    BY <1>2, <1>3, <2>1, TailElements
  <2>3. outgoing' \in Seq(DramRequest)
    BY <1>2, <2>1, <2>2, AppendElements
  <2>4. ASSUME NEW b \in Block PROVE ReadsUnderWay(b)' = ReadsUnderWay(b)
    <3>1. Count(Asks(b), mem_in)
            = Count(Asks(b), mem_in') + (IF Head(mem_in) \in Asks(b) THEN 1 ELSE 0)
      BY <1>2, <1>3, <2>1, CountTail
    <3>2. Count(Asks(b), outgoing')
            = Count(Asks(b), outgoing) + (IF Head(mem_in) \in Asks(b) THEN 1 ELSE 0)
      BY <1>2, <2>1, <2>2, CountAppend
    <3>3. Count(Asks(b), mem_in') \in Nat
      BY <2>2, CountType
    <3> QED BY <1>1, <3>1, <3>2, <3>3, ReadsSum, ReadsNext DEF ReadsUnderWay
  <2> QED BY <1>1, <2>2, <2>3, <2>4 DEF Types, MemoryTypes
<1>4. CASE ~ (mem_in # <<>> /\ Len(outgoing) < DramSlots)
  <2>1. UNCHANGED <<mem_in, outgoing>>
    BY <1>4 DEF MemSend
  <2> QED BY <1>1, <2>1, ReadsNext DEF Types, MemoryTypes, ReadsUnderWay
<1> QED BY <1>3, <1>4

\* The DRAM completes a request.
LEMMA MemCompleteMemory ==
  ASSUME Types, NEW i, MemComplete(i)
  PROVE  /\ MemoryTypes' /\ miss_queue' = miss_queue
         /\ \A b \in Block : ReadsUnderWay(b)' = ReadsUnderWay(b)
         /\ dram_resp_queue \in Seq(Block) => dram_resp_queue' \in Seq(Block)
<1>1. /\ i \in DOMAIN outgoing /\ outgoing' = RemoveAt(outgoing, i)
      /\ dram_resp_queue' = IF outgoing[i][1]
                            THEN Append(dram_resp_queue, outgoing[i][2]) ELSE dram_resp_queue
      /\ UNCHANGED <<miss_queue, mem_in>>
  BY DEF MemComplete
<1>2. outgoing \in Seq(DramRequest) /\ dram_resp_queue \in Seq(MemBlock)
  BY DEF Types, MemoryTypes
<1>3. i \in 1 .. Len(outgoing) /\ outgoing[i] \in DramRequest
  BY <1>1, <1>2, LenProperties, ElementOfSeq
<1>4. outgoing[i][1] \in BOOLEAN /\ outgoing[i][2] \in MemBlock
      /\ (outgoing[i][1] => outgoing[i][2] \in Block)
      /\ outgoing[i] = <<outgoing[i][1], outgoing[i][2]>>
  BY <1>3, DramRequestType
<1>5. outgoing' \in Seq(DramRequest)
  BY <1>1, <1>2, <1>3, CountRemoveAt
<1>6. dram_resp_queue' \in Seq(MemBlock)
  BY <1>1, <1>2, <1>4, AppendElements
<1>7. ASSUME NEW b \in Block PROVE ReadsUnderWay(b)' = ReadsUnderWay(b)
  <2>1. Count(Asks(b), outgoing)
          = Count(Asks(b), outgoing') + (IF outgoing[i] \in Asks(b) THEN 1 ELSE 0)
    BY <1>1, <1>2, <1>3, CountRemoveAt
  <2>2. outgoing[i] \in Asks(b) <=> outgoing[i][1] /\ outgoing[i][2] = b
    <3>1. outgoing[i][1] \in BOOLEAN /\ outgoing[i] = <<outgoing[i][1], outgoing[i][2]>>
      BY <1>4
    <3>2. \A y \in BOOLEAN : \A z : <<y, z>> \in {<<TRUE, b>>} <=> y /\ z = b
      OBVIOUS
    <3> QED BY <3>1, <3>2, Zenon DEF Asks
  <2>3. Count({b}, dram_resp_queue')
          = Count({b}, dram_resp_queue) + (IF outgoing[i] \in Asks(b) THEN 1 ELSE 0)
    <3>1. CASE outgoing[i][1]
      <4>1. Count({b}, dram_resp_queue')
              = Count({b}, dram_resp_queue) + (IF outgoing[i][2] \in {b} THEN 1 ELSE 0)
        BY <1>1, <1>2, <1>4, <3>1, CountAppend
      <4> QED BY <2>2, <3>1, <4>1
    <3>2. CASE ~ outgoing[i][1]
      BY <1>1, <2>2, <3>2, ReadsSum
    <3> QED BY <3>1, <3>2
  <2>4. Count(Asks(b), outgoing') \in Nat
    BY <1>5, CountType
  <2> QED BY <1>1, <2>1, <2>3, <2>4, ReadsSum, ReadsNext DEF ReadsUnderWay
<1>8. dram_resp_queue \in Seq(Block) => dram_resp_queue' \in Seq(Block)
  BY <1>1, <1>4, AppendElements
<1> QED BY <1>1, <1>5, <1>6, <1>7, <1>8 DEF Types, MemoryTypes

\* The miss queue drains into the DRAM; an ideal DRAM answers at once, reads and
\* writes alike.
LEMMA MissDrain ==
  ASSUME Types, FromMissQToDram
  PROVE  /\ MemoryTypes' /\ Len(miss_queue') <= Len(miss_queue)
         /\ ~ is_ideal_dram => /\ \A b \in Block : ReadsUnderWay(b)' = ReadsUnderWay(b)
                               /\ dram_resp_queue' = dram_resp_queue
<1> DEFINE h == Head(miss_queue)
<1>1. /\ miss_queue \in Seq(DramRequest) /\ mem_in \in Seq(DramRequest)
      /\ dram_resp_queue \in Seq(MemBlock)
  BY DEF Types, MemoryTypes
<1>2. CASE miss_queue = <<>>
  <2>1. UNCHANGED <<miss_queue, mem_in, outgoing, dram_resp_queue>>
    BY <1>2 DEF FromMissQToDram, memory
  <2> QED BY <1>1, <2>1, ReadsNext DEF Types, MemoryTypes, ReadsUnderWay
<1>3. CASE miss_queue # <<>>
  <2>1. miss_queue' = Tail(miss_queue) /\ outgoing' = outgoing
    BY <1>3 DEF FromMissQToDram
  <2>2. /\ h \in DramRequest /\ miss_queue' \in Seq(DramRequest)
        /\ Len(miss_queue) \in Nat /\ Len(miss_queue') = Len(miss_queue) - 1
    BY <1>1, <1>3, <2>1, TailElements
  <2>3. Len(miss_queue') <= Len(miss_queue)
    BY <2>2
  <2>4. CASE is_ideal_dram
    <3>1. dram_resp_queue' = Append(dram_resp_queue, h[2]) /\ mem_in' = mem_in
      BY <1>3, <2>4 DEF FromMissQToDram
    <3>2. h[2] \in MemBlock
      BY <2>2, DramRequestType
    <3>3. dram_resp_queue' \in Seq(MemBlock)
      BY <1>1, <3>1, <3>2, AppendElements
    <3> QED BY <2>1, <2>2, <2>3, <2>4, <3>1, <3>3 DEF Types, MemoryTypes
  <2>5. CASE ~ is_ideal_dram
    <3>1. mem_in' = Append(mem_in, h) /\ dram_resp_queue' = dram_resp_queue
      BY <1>3, <2>5 DEF FromMissQToDram
    <3> HIDE DEF h
    <3>2. mem_in' \in Seq(DramRequest)
      BY <1>1, <2>2, <3>1, AppendElements
    <3>3. MemoryTypes'
      BY <2>1, <2>2, <3>1, <3>2 DEF Types, MemoryTypes
    <3>4. ASSUME NEW b \in Block PROVE ReadsUnderWay(b)' = ReadsUnderWay(b)
      <4>1. Count(Asks(b), miss_queue)
              = Count(Asks(b), miss_queue') + (IF h \in Asks(b) THEN 1 ELSE 0)
        BY <1>1, <1>3, <2>1, CountTail DEF h
      <4>2. Count(Asks(b), mem_in')
              = Count(Asks(b), mem_in) + (IF h \in Asks(b) THEN 1 ELSE 0)
        BY <1>1, <2>2, <3>1, CountAppend
      <4>3. Count(Asks(b), miss_queue') \in Nat
        BY <2>2, CountType
      <4> QED BY <2>1, <3>1, <4>1, <4>2, <4>3, ReadsSum, ReadsNext DEF ReadsUnderWay
    <3> QED BY <2>3, <3>1, <3>3, <3>4
  <2> QED BY <2>4, <2>5
<1> QED BY <1>2, <1>3

-----------------------------------------------------------------------------
(* Types, conservation and the bound of the miss queue: every step          *)

Inv == Types /\ Conserved /\ MissQueueBounded

Total(r) == InQueue(r) + AtBlock(r) + InDelay(r) + AtOut(r)

\* A queue that does not change holds what it held.
LEMMA SameQueue ==
  /\ UNCHANGED in_request_queues => /\ Types => InTypes'
                                    /\ \A r : InQueue(r)' = InQueue(r)
  /\ UNCHANGED delay_resp_queues => /\ Types => DelayTypes'
                                    /\ \A r : InDelay(r)' = InDelay(r)
  /\ UNCHANGED out_resp_queues => /\ Types => OutTypes'
                                  /\ \A r : AtOut(r)' = AtOut(r)
  /\ UNCHANGED addr_to_req => /\ Types => WaiterTypes'
                              /\ \A r : AtBlock(r)' = AtBlock(r)
  /\ UNCHANGED line => (Types => LineTypes')
  /\ UNCHANGED memory => (Types => MemoryTypes')
<1>1. UNCHANGED in_request_queues => (Types => InTypes') /\ \A r : InQueue(r)' = InQueue(r)
  BY DEF Types, InTypes, InQueue
<1>2. UNCHANGED delay_resp_queues => (Types => DelayTypes') /\ \A r : InDelay(r)' = InDelay(r)
  BY DEF Types, DelayTypes, InDelay
<1>3. UNCHANGED out_resp_queues => (Types => OutTypes') /\ \A r : AtOut(r)' = AtOut(r)
  BY DEF Types, OutTypes, AtOut
<1>4. UNCHANGED addr_to_req => (Types => WaiterTypes') /\ \A r : AtBlock(r)' = AtBlock(r)
  BY DEF Types, WaiterTypes, AtBlock
<1>5. /\ UNCHANGED line => (Types => LineTypes')
      /\ UNCHANGED memory => (Types => MemoryTypes')
  BY DEF Types, LineTypes, MemoryTypes, memory
<1> QED BY <1>1, <1>2, <1>3, <1>4, <1>5

\* Requests are conserved if what leaves one place enters another one.
LEMMA ConservedStep ==
  ASSUME Conserved, \A r \in Request : Total(r)' = Total(r), idle' = idle
  PROVE  Conserved'
<1>1. \A r \in Request : Total(r) = IF r \in idle THEN 0 ELSE 1
  BY DEF Conserved, Total
<1>2. \A r \in Request : Total(r)' = IF r \in idle' THEN 0 ELSE 1
  BY <1>1
<1> QED BY <1>2 DEF Conserved, Total

\* A request enters the cache.
LEMMA ArriveInv ==
  ASSUME Inv, NEW r \in Request, Arrive(r)
  PROVE  Inv'
<1> USE DEF Inv
<1>1. /\ r \in idle /\ idle' = idle \ {r}
      /\ in_request_queues' = [in_request_queues EXCEPT ![BankOf(r)] = Append(@, r)]
      /\ UNCHANGED <<ideal_l3, delay_resp_queues, out_resp_queues, memory, line, addr_to_req,
                     phase, ports>>
  BY DEF Arrive, BankOf
<1>2. InTypes' /\ \A s \in Request : InQueue(s)' = InQueue(s) + One(s, r)
  BY <1>1, InAppend
<1>3. Types'
  <2>1. ControlTypes'
    BY <1>1 DEF Types, ControlTypes
  <2>2. DelayTypes' /\ OutTypes' /\ WaiterTypes' /\ LineTypes' /\ MemoryTypes'
    BY <1>1, SameQueue DEF Types
  <2> QED BY <1>2, <2>1, <2>2 DEF Types
<1>4. Conserved'
  <2> SUFFICES ASSUME NEW s \in Request
               PROVE  InQueue(s)' + AtBlock(s)' + InDelay(s)' + AtOut(s)'
                        = IF s \in idle' THEN 0 ELSE 1
    BY DEF Conserved
  <2>1. InQueue(s) + AtBlock(s) + InDelay(s) + AtOut(s) = IF s \in idle THEN 0 ELSE 1
    BY DEF Conserved
  <2>2. AtBlock(s)' = AtBlock(s) /\ InDelay(s)' = InDelay(s) /\ AtOut(s)' = AtOut(s)
    BY <1>1, SameQueue
  <2>3. InQueue(s)' = InQueue(s) + One(s, r)
    BY <1>2
  <2>4. /\ InQueue(s) \in Nat /\ AtBlock(s) \in Nat /\ InDelay(s) \in Nat /\ AtOut(s) \in Nat
        /\ One(s, r) = IF s = r THEN 1 ELSE 0
    BY PlacesSum DEF One
  <2>5. s \in idle' <=> s \in idle /\ s # r
    BY <1>1
  <2>6. CASE s = r
    BY <1>1, <2>1, <2>2, <2>3, <2>4, <2>5, <2>6
  <2>7. CASE s # r
    BY <2>1, <2>2, <2>3, <2>4, <2>5, <2>7
  <2> QED BY <2>6, <2>7
<1>5. MissQueueBounded'
  BY <1>1 DEF MissQueueBounded, memory
<1> QED BY <1>3, <1>4, <1>5

\* An answer leaves the cache.
LEMMA DepartInv ==
  ASSUME Inv, NEW p \in Bank, Depart(p)
  PROVE  Inv'
<1> USE DEF Inv
<1> DEFINE r == Head(out_resp_queues[p])
<1>1. /\ out_resp_queues[p] # <<>> /\ idle' = idle \cup {r}
      /\ out_resp_queues' = [out_resp_queues EXCEPT ![p] = Tail(@)]
      /\ UNCHANGED <<ideal_l3, in_request_queues, delay_resp_queues, memory, line, addr_to_req,
                     phase, ports>>
  BY DEF Depart
<1>2. /\ OutTypes' /\ r \in ReadsOf(p)
      /\ \A s \in Request : AtOut(s) = AtOut(s)' + One(s, r) /\ AtOut(s)' \in Nat
  BY <1>1, OutPop
<1> HIDE DEF r
<1>3. Types'
  <2>1. r \in Request
    BY <1>2, OwnPlace
  <2>2. ControlTypes'
    BY <1>1, <2>1 DEF Types, ControlTypes
  <2> QED BY <1>1, <1>2, <2>2, SameQueue DEF Types
<1>4. Conserved'
  <2> SUFFICES ASSUME NEW s \in Request
               PROVE  InQueue(s)' + AtBlock(s)' + InDelay(s)' + AtOut(s)'
                        = IF s \in idle' THEN 0 ELSE 1
    BY DEF Conserved
  <2>1. InQueue(s) + AtBlock(s) + InDelay(s) + AtOut(s) = IF s \in idle THEN 0 ELSE 1
    BY DEF Conserved
  <2>2. AtBlock(s)' = AtBlock(s) /\ InDelay(s)' = InDelay(s) /\ InQueue(s)' = InQueue(s)
    BY <1>1, SameQueue
  <2>3. AtOut(s) = AtOut(s)' + One(s, r) /\ AtOut(s)' \in Nat
    BY <1>2
  <2> QED BY <1>1, <2>1, <2>2, <2>3, PlacesSum DEF One
<1>5. MissQueueBounded'
  BY <1>1 DEF MissQueueBounded, memory
<1> QED BY <1>3, <1>4, <1>5

\* The steps of a cycle that serve no bank
LEMMA MemSendInv == Inv /\ MemSend => Inv'
<1> SUFFICES ASSUME Inv, MemSend PROVE Inv'
  OBVIOUS
<1> USE DEF Inv
<1>1. /\ phase' = "memory"
      /\ UNCHANGED <<ideal_l3, in_request_queues, out_resp_queues, line, addr_to_req, idle, ports>>
  BY DEF MemSend
<1>2. MemoryTypes' /\ miss_queue' = miss_queue
  BY MemSendMemory
<1>3. DelayTypes' /\ \A r \in Request : InDelay(r)' = InDelay(r)
  BY DelayTick
<1>4. Types'
  <2>1. ControlTypes'
    BY <1>1 DEF Types, ControlTypes
  <2> QED BY <1>1, <1>2, <1>3, <2>1, SameQueue DEF Types
<1>5. \A r \in Request : Total(r)' = Total(r)
  BY <1>1, <1>3, SameQueue DEF Total
<1>6. Conserved'
  BY <1>1, <1>5, ConservedStep
<1> QED BY <1>2, <1>4, <1>6 DEF MissQueueBounded

\* The DRAM completes a request.
LEMMA MemCompleteInv == ASSUME Inv, NEW i, MemComplete(i) PROVE Inv'
<1> USE DEF Inv
<1>1. UNCHANGED <<ideal_l3, queues, line, addr_to_req, idle, phase, ports>>
  BY DEF MemComplete
<1>2. MemoryTypes' /\ miss_queue' = miss_queue
  BY MemCompleteMemory
<1>3. Types'
  <2>1. ControlTypes'
    BY <1>1 DEF Types, ControlTypes
  <2> QED BY <1>1, <1>2, <2>1, SameQueue DEF Types, queues
<1>4. \A r \in Request : Total(r)' = Total(r)
  BY <1>1, SameQueue DEF Total, queues
<1>5. Conserved'
  BY <1>1, <1>4, ConservedStep
<1> QED BY <1>2, <1>3, <1>5 DEF MissQueueBounded

\* Ripe answers move on.
LEMMA DelayOutInv == Inv /\ FromDelayrespToOut => Inv'
<1> SUFFICES ASSUME Inv, FromDelayrespToOut PROVE Inv'
  OBVIOUS
<1> USE DEF Inv
<1>1. /\ phase' = "fill"
      /\ UNCHANGED <<ideal_l3, in_request_queues, memory, line, addr_to_req, idle, ports>>
  BY DEF FromDelayrespToOut
<1>2. /\ DelayTypes' /\ OutTypes'
      /\ \A r \in Request : /\ InDelay(r)' + AtOut(r)' = InDelay(r) + AtOut(r)
                            /\ InDelay(r)' \in Nat /\ AtOut(r)' \in Nat
  BY DelayToOut
<1>3. Types'
  <2>1. ControlTypes'
    BY <1>1 DEF Types, ControlTypes
  <2> QED BY <1>1, <1>2, <2>1, SameQueue DEF Types
<1>4. ASSUME NEW r \in Request PROVE Total(r)' = Total(r)
  <2>1. InQueue(r)' = InQueue(r) /\ AtBlock(r)' = AtBlock(r)
    BY <1>1, SameQueue
  <2> QED BY <1>2, <2>1, PlacesSum DEF Total
<1>5. Conserved'
  BY <1>1, <1>4, ConservedStep
<1> QED BY <1>1, <1>3, <1>5 DEF MissQueueBounded, memory

\* A block comes back from the DRAM.
LEMMA DramRespInv == Inv /\ FromDramrespToResp => Inv'
<1> SUFFICES ASSUME Inv, FromDramrespToResp PROVE Inv'
  OBVIOUS
<1> USE DEF Inv
<1> DEFINE b == Head(dram_resp_queue)
           p == PartitionId(b)
<1>1. /\ phase' = "miss"
      /\ UNCHANGED <<ideal_l3, in_request_queues, out_resp_queues, miss_queue, mem_in, outgoing,
                     idle, ports>>
  BY DEF FromDramrespToResp
<1>2. ControlTypes' /\ MissQueueBounded'
  BY <1>1 DEF Types, ControlTypes, MissQueueBounded
<1>3. MemoryTypes'
  <2>1. dram_resp_queue \in Seq(MemBlock)
    BY DEF Types, MemoryTypes
  <2>2. dram_resp_queue' = dram_resp_queue
        \/ (dram_resp_queue # <<>> /\ dram_resp_queue' = Tail(dram_resp_queue))
    BY DEF FromDramrespToResp
  <2>3. dram_resp_queue' \in Seq(MemBlock)
    BY <2>1, <2>2, TailElements
  <2> QED BY <1>1, <2>3 DEF Types, MemoryTypes
<1>4. CASE /\ dram_resp_queue # <<>> /\ Len(delay_resp_queues[p]) < delay_q_size
           /\ b \in Block /\ line[b] = "reserved"
  <2>1. /\ delay_resp_queues' = [delay_resp_queues EXCEPT ![p] =
             @ \o [i \in DOMAIN addr_to_req[b] |-> Delayed(addr_to_req[b][i])]]
        /\ addr_to_req' = [addr_to_req EXCEPT ![b] = <<>>]
        /\ \E s \in FilledAs(b) : line' = [line EXCEPT ![b] = s]
    BY <1>4 DEF FromDramrespToResp
  <2>2. /\ DelayTypes' /\ WaiterTypes'
        /\ \A r \in Request : /\ AtBlock(r)' + InDelay(r)' = AtBlock(r) + InDelay(r)
                              /\ AtBlock(r)' \in Nat /\ InDelay(r)' \in Nat
    BY <1>4, <2>1, FillBlock
  <2>3. LineTypes'
    <3>1. FilledAs(b) \subseteq LineState
      BY DEF FilledAs, LineState
    <3> QED BY <1>4, <2>1, <3>1 DEF Types, LineTypes
  <2>4. Types'
    BY <1>1, <1>2, <1>3, <2>2, <2>3, SameQueue DEF Types
  <2>5. ASSUME NEW r \in Request PROVE Total(r)' = Total(r)
    <3>1. InQueue(r)' = InQueue(r) /\ AtOut(r)' = AtOut(r)
      BY <1>1, SameQueue
    <3> QED BY <2>2, <3>1, PlacesSum DEF Total
  <2> QED BY <1>1, <1>2, <2>4, <2>5, ConservedStep
<1>5. CASE ~ (/\ dram_resp_queue # <<>> /\ Len(delay_resp_queues[p]) < delay_q_size
              /\ b \in Block /\ line[b] = "reserved")
  <2>1. UNCHANGED <<line, delay_resp_queues, addr_to_req>>
    BY <1>5 DEF FromDramrespToResp
  <2>2. Types'
    BY <1>1, <1>2, <1>3, <2>1, SameQueue DEF Types
  <2>3. \A r \in Request : Total(r)' = Total(r)
    BY <1>1, <2>1, SameQueue DEF Total
  <2> QED BY <1>1, <1>2, <2>2, <2>3, ConservedStep
<1> QED BY <1>4, <1>5

\* The miss queue drains.
LEMMA MissDrainInv == Inv /\ FromMissQToDram => Inv'
<1> SUFFICES ASSUME Inv, FromMissQToDram PROVE Inv'
  OBVIOUS
<1> USE DEF Inv
<1>1. /\ phase' = "in" /\ ports' = [p \in Bank |-> num_ports]
      /\ UNCHANGED <<ideal_l3, queues, line, addr_to_req, idle>>
  BY DEF FromMissQToDram
<1>2. MemoryTypes' /\ Len(miss_queue') <= Len(miss_queue)
  BY MissDrain
<1>3. Types'
  <2>1. ControlTypes'
    BY <1>1, CacheInterfaceAssumption DEF Types, ControlTypes
  <2> QED BY <1>1, <1>2, <2>1, SameQueue DEF Types, queues
<1>4. \A r \in Request : Total(r)' = Total(r)
  BY <1>1, SameQueue DEF Total, queues
<1>5. MissQueueBounded'
  <2>1. Len(miss_queue) \in Nat /\ Len(miss_queue') \in Nat /\ miss_size \in Nat
    BY <1>2, CacheInterfaceAssumption, LenProperties DEF Types, MemoryTypes
  <2> QED BY <1>2, <2>1 DEF MissQueueBounded
<1> QED BY <1>1, <1>3, <1>4, <1>5, ConservedStep

\* The end of a cycle
LEMMA EndCycleInv == Inv /\ (EndCycle \/ UNCHANGED vars) => Inv'
<1> SUFFICES ASSUME Inv, EndCycle \/ UNCHANGED vars PROVE Inv'
  OBVIOUS
<1> USE DEF Inv
<1>1. /\ UNCHANGED <<ideal_l3, queues, memory, line, addr_to_req, idle>>
      /\ phase' \in {"hooks", phase} /\ ports' \in {[p \in Bank |-> 0], ports}
  BY DEF EndCycle, vars
<1>2. Types'
  <2>1. ControlTypes'
    BY <1>1, CacheInterfaceAssumption DEF Types, ControlTypes
  <2> QED BY <1>1, <2>1, SameQueue DEF Types, queues
<1>3. \A r \in Request : Total(r)' = Total(r)
  BY <1>1, SameQueue DEF Total, queues
<1> QED BY <1>1, <1>2, <1>3, ConservedStep DEF MissQueueBounded, memory

\* What all accesses of bank p have in common
LEMMA ServeStep ==
  ASSUME Types, NEW p \in Bank, Serve(p)
  PROVE  /\ in_request_queues[p] # <<>> /\ Oldest(p) \in RequestsOf(p) /\ Oldest(p) \in Request
         /\ Len(miss_queue) \in Nat /\ Len(miss_queue) < miss_size /\ miss_size \in Nat
         /\ UNCHANGED <<out_resp_queues, dram_resp_queue, mem_in, outgoing>>
         /\ OutTypes' /\ \A r \in Request : AtOut(r)' = AtOut(r)
         /\ idle' \subseteq Request => ControlTypes'
         /\ BlockOf[Oldest(p)] \in Block /\ BankOf(Oldest(p)) = p
<1>1. /\ in_request_queues[p] # <<>> /\ Len(miss_queue) < miss_size /\ ports[p] > 0
      /\ ports' = [ports EXCEPT ![p] = @ - 1]
      /\ UNCHANGED <<ideal_l3, out_resp_queues, dram_resp_queue, mem_in, outgoing, phase>>
  BY DEF Serve, CanServe
<1>2. Oldest(p) \in RequestsOf(p)
  <2>1. in_request_queues[p] \in Seq(RequestsOf(p))
    BY DEF Types, InTypes
  <2> QED BY <1>1, <2>1, TailElements DEF Oldest
<1>3. Len(miss_queue) \in Nat /\ miss_size \in Nat
  BY CacheInterfaceAssumption, LenProperties DEF Types, MemoryTypes
<1>4. OutTypes' /\ \A r \in Request : AtOut(r)' = AtOut(r)
  BY <1>1, SameQueue
<1>5. ports' \in [Bank -> 0 .. num_ports]
  <2>1. ports \in [Bank -> 0 .. num_ports] /\ num_ports \in Nat
    BY CacheInterfaceAssumption DEF Types, ControlTypes
  <2> QED BY <1>1, <2>1
<1>6. idle' \subseteq Request => ControlTypes'
  BY <1>1, <1>5 DEF Types, ControlTypes
<1> QED BY <1>1, <1>2, <1>3, <1>4, <1>6, BankType DEF RequestsOf

\* A read that leaves the queue and is answered after the delay
LEMMA AnsweredInv ==
  ASSUME Inv, NEW p \in Bank, Serve(p), PopFront(p), Answer(p), Oldest(p) \in Read,
         UNCHANGED <<miss_queue, line, addr_to_req, idle>>
  PROVE  Inv'
<1> USE DEF Inv
<1> DEFINE s == Oldest(p)
<1>1. /\ InTypes' /\ \A r \in Request : InQueue(r) = InQueue(r)' + One(r, s) /\ InQueue(r)' \in Nat
  BY ServeStep, InPop
<1>2. DelayTypes' /\ \A r \in Request : InDelay(r)' = InDelay(r) + One(r, s)
  <2>1. s \in ReadsOf(p)
    BY ServeStep DEF ReadsOf
  <2> QED BY <2>1, DelayAppend DEF Answer
<1> HIDE DEF s
<1>3. /\ OutTypes' /\ MemoryTypes' /\ LineTypes' /\ WaiterTypes' /\ ControlTypes'
      /\ \A r \in Request : AtOut(r)' = AtOut(r) /\ AtBlock(r)' = AtBlock(r)
  <2>1. UNCHANGED memory
    BY ServeStep DEF memory
  <2>2. idle' \subseteq Request
    BY DEF Types, ControlTypes
  <2> QED BY <2>1, <2>2, ServeStep, SameQueue
<1>4. Types'
  BY <1>1, <1>2, <1>3 DEF Types
<1>5. \A r \in Request : Total(r)' = Total(r)
  BY <1>1, <1>2, <1>3, PlacesSum DEF Total, One
<1> QED BY <1>4, <1>5, ConservedStep DEF MissQueueBounded

\* A write that leaves the queue is done.
LEMMA DoneInv ==
  ASSUME Inv, NEW p \in Bank, Serve(p), PopFront(p), idle' = idle \cup {Oldest(p)},
         LineTypes', MemoryTypes', MissQueueBounded',
         UNCHANGED <<delay_resp_queues, addr_to_req>>
  PROVE  Inv'
<1> USE DEF Inv
<1> DEFINE s == Oldest(p)
<1>1. /\ InTypes' /\ \A r \in Request : InQueue(r) = InQueue(r)' + One(r, s) /\ InQueue(r)' \in Nat
  BY ServeStep, InPop
<1>2. idle' = idle \cup {s} /\ s \in Request
  BY ServeStep
<1> HIDE DEF s
<1>3. /\ OutTypes' /\ DelayTypes' /\ WaiterTypes' /\ ControlTypes'
      /\ \A r \in Request :
           AtOut(r)' = AtOut(r) /\ AtBlock(r)' = AtBlock(r) /\ InDelay(r)' = InDelay(r)
  <2>1. idle' \subseteq Request
    BY <1>2 DEF Types, ControlTypes
  <2> QED BY <2>1, ServeStep, SameQueue
<1>4. Types'
  BY <1>1, <1>3 DEF Types
<1>5. Conserved'
  <2> SUFFICES ASSUME NEW r \in Request
               PROVE  InQueue(r)' + AtBlock(r)' + InDelay(r)' + AtOut(r)'
                        = IF r \in idle' THEN 0 ELSE 1
    BY DEF Conserved
  <2>1. InQueue(r) + AtBlock(r) + InDelay(r) + AtOut(r) = IF r \in idle THEN 0 ELSE 1
    BY DEF Conserved
  <2>2. /\ AtBlock(r)' = AtBlock(r) /\ InDelay(r)' = InDelay(r) /\ AtOut(r)' = AtOut(r)
        /\ InQueue(r) = InQueue(r)' + One(r, s) /\ InQueue(r)' \in Nat
    BY <1>1, <1>3
  <2> QED BY <1>2, <2>1, <2>2, PlacesSum DEF One
<1> QED BY <1>4, <1>5

\* A read that leaves the queue and waits for its block
LEMMA WaitsInv ==
  ASSUME Inv, NEW p \in Bank, Serve(p), PopFront(p), Oldest(p) \in Read,
         addr_to_req' = [addr_to_req EXCEPT ![BlockOf[Oldest(p)]] = Append(@, Oldest(p))],
         LineTypes', MemoryTypes', MissQueueBounded',
         UNCHANGED <<delay_resp_queues, idle>>
  PROVE  Inv'
<1> USE DEF Inv
<1> DEFINE s == Oldest(p)
<1>1. /\ InTypes' /\ \A r \in Request : InQueue(r) = InQueue(r)' + One(r, s) /\ InQueue(r)' \in Nat
  BY ServeStep, InPop
<1>2. WaiterTypes' /\ \A r \in Request : AtBlock(r)' = AtBlock(r) + One(r, s)
  BY WaiterAppend
<1> HIDE DEF s
<1>3. /\ OutTypes' /\ DelayTypes' /\ ControlTypes'
      /\ \A r \in Request : AtOut(r)' = AtOut(r) /\ InDelay(r)' = InDelay(r)
  <2>1. idle' \subseteq Request
    BY DEF Types, ControlTypes
  <2> QED BY <2>1, ServeStep, SameQueue
<1>4. Types'
  BY <1>1, <1>2, <1>3 DEF Types
<1>5. \A r \in Request : Total(r)' = Total(r)
  BY <1>1, <1>2, <1>3, PlacesSum DEF Total, One
<1> QED BY <1>4, <1>5, ConservedStep

\* The six outcomes of an access
LEMMA ServeIdealInv == ASSUME Inv, NEW p \in Bank, ServeIdeal(p) PROVE Inv'
<1>1. Serve(p) /\ PopFront(p) /\ UNCHANGED <<miss_queue, line, addr_to_req>> /\ Types
  BY DEF ServeIdeal, Inv
<1>2. CASE Oldest(p) \in IsWrite
  <2>1. idle' = idle \cup {Oldest(p)} /\ UNCHANGED delay_resp_queues
    BY <1>2 DEF ServeIdeal
  <2>2. UNCHANGED memory
    BY <1>1, ServeStep DEF memory
  <2>3. LineTypes' /\ MemoryTypes' /\ MissQueueBounded'
    BY <1>1, <2>2, SameQueue DEF Inv, MissQueueBounded
  <2> QED BY <1>1, <2>1, <2>3, DoneInv
<1>3. CASE Oldest(p) \notin IsWrite
  <2>1. Answer(p) /\ UNCHANGED idle
    BY <1>3 DEF ServeIdeal
  <2>2. Oldest(p) \in Read
    BY <1>1, <1>3, ServeStep DEF Read
  <2> QED BY <1>1, <2>1, <2>2, AnsweredInv
<1> QED BY <1>2, <1>3

\* A failed reservation changes nothing but the ports.
LEMMA ServeResfailInv == ASSUME Inv, NEW p \in Bank, ServeResfail(p) PROVE Inv'
<1> USE DEF Inv
<1>1. /\ Serve(p)
      /\ UNCHANGED <<in_request_queues, delay_resp_queues, miss_queue, line, addr_to_req, idle>>
  BY DEF ServeResfail
<1>2. UNCHANGED memory
  BY <1>1, ServeStep DEF memory
<1>3. Types'
  <2>1. ControlTypes' /\ OutTypes'
    BY <1>1, ServeStep DEF Types, ControlTypes
  <2> QED BY <1>1, <1>2, <2>1, SameQueue DEF Types
<1>4. \A r \in Request : Total(r)' = Total(r)
  BY <1>1, ServeStep, SameQueue DEF Total
<1> QED BY <1>1, <1>3, <1>4, ConservedStep DEF MissQueueBounded

\* A hit is answered.
LEMMA ServeHitInv == ASSUME Inv, NEW p \in Bank, ServeHit(p) PROVE Inv'
BY AnsweredInv DEF ServeHit

\* A read of a block that is on its way waits for it.
LEMMA ServeHitResInv == ASSUME Inv, NEW p \in Bank, ServeHitRes(p) PROVE Inv'
<1>1. /\ Serve(p) /\ PopFront(p) /\ Oldest(p) \in Read /\ Types
      /\ addr_to_req' = [addr_to_req EXCEPT ![BlockOf[Oldest(p)]] = Append(@, Oldest(p))]
      /\ UNCHANGED <<delay_resp_queues, miss_queue, line, idle>>
  BY DEF ServeHitRes, Inv
<1>2. UNCHANGED memory
  BY <1>1, ServeStep DEF memory
<1>3. LineTypes' /\ MemoryTypes' /\ MissQueueBounded'
  BY <1>1, <1>2, SameQueue DEF Inv, MissQueueBounded
<1> QED BY <1>1, <1>3, WaitsInv

\* The four answers of the cache
LEMMA TryAccessType ==
  ASSUME Types, NEW r \in Request
  PROVE  /\ TryAccess(r) \in {"hit", "hit_res", "miss", "resfail"}
         /\ TryAccess(r) = "hit" <=> line[BlockOf[r]] \in {"clean", "dirty"}
         /\ TryAccess(r) = "hit_res" => line[BlockOf[r]] = "reserved"
         /\ TryAccess(r) = "miss" => line[BlockOf[r]] = "absent"
<1>1. line[BlockOf[r]] \in LineState
  BY BankType DEF Types, LineTypes
<1> QED BY <1>1 DEF TryAccess, LineState

\* A miss is an access to a line that is absent; a victim is another line.
LEMMA MissVictim ==
  ASSUME Types, NEW p \in Bank, Serve(p), TryAccess(Oldest(p)) = "miss", NEW v \in Victims(p)
  PROVE  line[BlockOf[Oldest(p)]] = "absent" /\ v # BlockOf[Oldest(p)]
<1> DEFINE b == BlockOf[Oldest(p)]
<1>1. b \in Block /\ line[b] = "absent"
  BY ServeStep, TryAccessType
<1> QED BY <1>1, VictimType

\* A miss reserves the line, sends its traffic and waits.
LEMMA ServeMissInv == ASSUME Inv, NEW p \in Bank, ServeMiss(p) PROVE Inv'
<1> DEFINE b == BlockOf[Oldest(p)]
<1>1. /\ Serve(p) /\ PopFront(p) /\ Oldest(p) \in Read /\ Types
      /\ TryAccess(Oldest(p)) = "miss"
      /\ UNCHANGED <<delay_resp_queues, idle>>
  BY DEF ServeMiss, Inv
<1>2. PICK v \in Victims(p) :
        /\ Allocate(b, "reserved", v) /\ miss_queue' = miss_queue \o MissTraffic(b, v, p)
        /\ addr_to_req' = [addr_to_req EXCEPT ![b] = Append(@, Oldest(p))]
  BY DEF ServeMiss
<1>3. b \in Block /\ v # b
  BY <1>1, MissVictim, ServeStep
<1>4. LineTypes'
  BY <1>1, <1>2, <1>3, AllocateEffect DEF LineState
<1>5. MissTraffic(b, v, p) \in Seq(DramRequest) /\ Len(MissTraffic(b, v, p)) \in 0 .. 2
  BY <1>1, <1>3, MissTrafficType
<1>6. /\ MemoryTypes' /\ Len(miss_queue') = Len(miss_queue) + Len(MissTraffic(b, v, p))
  BY <1>1, <1>2, <1>5, MissAppend, ServeStep
<1>7. MissQueueBounded'
  <2>1. Len(miss_queue) \in Nat /\ Len(miss_queue) < miss_size /\ miss_size \in Nat
    BY <1>1, ServeStep
  <2>2. \A m \in Nat, n \in 0 .. 2 : m < miss_size => m + n <= miss_size + 1
    BY <2>1
  <2>3. Len(miss_queue') <= miss_size + 1
    BY <1>5, <1>6, <2>1, <2>2, Zenon
  <2> QED BY <2>3 DEF MissQueueBounded
<1> QED BY <1>1, <1>2, <1>4, <1>6, <1>7, WaitsInv

\* A write makes a line dirty, or meets a reserved one.
LEMMA ServeWriteInv == ASSUME Inv, NEW p \in Bank, ServeWrite(p) PROVE Inv'
<1> DEFINE b == BlockOf[Oldest(p)]
<1>1. /\ Serve(p) /\ PopFront(p) /\ Types /\ idle' = idle \cup {Oldest(p)}
      /\ UNCHANGED <<delay_resp_queues, addr_to_req>>
  BY DEF ServeWrite, Inv
<1>2. b \in Block
  BY <1>1, ServeStep
<1>3. \/ UNCHANGED miss_queue /\ (line' = [line EXCEPT ![b] = "dirty"] \/ line' = line)
      \/ /\ TryAccess(Oldest(p)) = "miss"
         /\ \E v \in Victims(p) :
              Allocate(b, "dirty", v) /\ miss_queue' = miss_queue \o WriteBack(v, p)
  <2>1. TryAccess(Oldest(p)) \in {"hit", "hit_res", "miss", "resfail"}
    BY <1>1, ServeStep, TryAccessType
  <2>2. CASE TryAccess(Oldest(p)) = "hit"
    BY <2>2 DEF ServeWrite
  <2>3. CASE TryAccess(Oldest(p)) = "hit_res"
    BY <2>3 DEF ServeWrite
  <2>4. CASE TryAccess(Oldest(p)) = "miss"
    BY <2>4 DEF ServeWrite
  <2>5. TryAccess(Oldest(p)) # "resfail"
    BY DEF ServeWrite
  <2> QED BY <2>1, <2>2, <2>3, <2>4, <2>5
<1>4. CASE UNCHANGED miss_queue /\ (line' = [line EXCEPT ![b] = "dirty"] \/ line' = line)
  <2>1. UNCHANGED memory
    BY <1>1, <1>4, ServeStep DEF memory
  <2>2. LineTypes'
    BY <1>1, <1>2, <1>4 DEF Types, LineTypes, LineState
  <2>3. MemoryTypes' /\ MissQueueBounded'
    BY <1>1, <1>4, <2>1, SameQueue DEF Inv, MissQueueBounded
  <2> QED BY <1>1, <2>2, <2>3, DoneInv
<1>5. ASSUME NEW v \in Victims(p), TryAccess(Oldest(p)) = "miss",
             Allocate(b, "dirty", v), miss_queue' = miss_queue \o WriteBack(v, p)
      PROVE  Inv'
  <2>1. v # b
    BY <1>1, <1>5, MissVictim
  <2>2. LineTypes'
    BY <1>1, <1>2, <1>5, <2>1, AllocateEffect DEF LineState
  <2>3. WriteBack(v, p) \in Seq(DramRequest) /\ Len(WriteBack(v, p)) \in 0 .. 1
    BY <1>1, WriteBackType
  <2>4. MemoryTypes' /\ Len(miss_queue') = Len(miss_queue) + Len(WriteBack(v, p))
    BY <1>1, <1>5, <2>3, MissAppend, ServeStep
  <2>5. MissQueueBounded'
    <3>1. Len(miss_queue) \in Nat /\ Len(miss_queue) < miss_size /\ miss_size \in Nat
      BY <1>1, ServeStep
    <3>2. \A m \in Nat, n \in 0 .. 1 : m < miss_size => m + n <= miss_size + 1
      BY <3>1
    <3>3. Len(miss_queue') <= miss_size + 1
      BY <2>3, <2>4, <3>1, <3>2, Zenon
    <3> QED BY <3>3 DEF MissQueueBounded
  <2> QED BY <1>1, <2>2, <2>4, <2>5, DoneInv
<1> QED BY <1>3, <1>4, <1>5

\* The cache starts empty.
LEMMA InitInv == Init => Inv
<1> SUFFICES ASSUME Init PROVE Inv
  OBVIOUS
<1>1. Types
  <2>1. /\ \A S : <<>> \in Seq(S)
        /\ line \in [Block -> LineState]
    BY DEF Init, LineState
  <2>2. InTypes /\ DelayTypes /\ OutTypes /\ WaiterTypes
    BY <2>1 DEF Init, InTypes, DelayTypes, OutTypes, WaiterTypes
  <2>3. LineTypes /\ MemoryTypes
    BY <2>1 DEF Init, LineTypes, MemoryTypes
  <2>4. ControlTypes
    BY CacheInterfaceAssumption DEF Init, ControlTypes
  <2> QED BY <2>2, <2>3, <2>4 DEF Types
<1>2. Conserved
  <2> SUFFICES ASSUME NEW r \in Request
               PROVE  InQueue(r) + AtBlock(r) + InDelay(r) + AtOut(r)
                        = IF r \in idle THEN 0 ELSE 1
    BY DEF Conserved
  <2>1. BankOf(r) \in Bank /\ BlockOf[r] \in Block
    BY BankType
  <2>2. InQueue(r) = 0 /\ AtBlock(r) = 0 /\ InDelay(r) = 0 /\ AtOut(r) = 0
    BY <2>1, CountEmpty DEF Init, InQueue, AtBlock, InDelay, AtOut
  <2>3. r \in idle
    BY DEF Init
  <2> QED BY <2>2, <2>3
<1>3. MissQueueBounded
  BY CacheInterfaceAssumption DEF Init, MissQueueBounded
<1> QED BY <1>1, <1>2, <1>3 DEF Inv

\* Every step keeps the invariant.
LEMMA NextInv == Inv /\ [Next]_vars => Inv'
<1> SUFFICES ASSUME Inv, [Next]_vars PROVE Inv'
  OBVIOUS
<1>1. CASE \E r \in Request : Arrive(r)
  BY <1>1, ArriveInv
<1>2. CASE \E p \in Bank : Depart(p)
  BY <1>2, DepartInv
<1>3. CASE \E i \in 1 .. DramSlots : MemComplete(i)
  BY <1>3, MemCompleteInv
<1>4. CASE MemSend \/ FromDelayrespToOut \/ FromDramrespToResp \/ FromMissQToDram
  BY <1>4, MemSendInv, DelayOutInv, DramRespInv, MissDrainInv
<1>5. ASSUME NEW p \in Bank, \/ ServeIdeal(p) \/ ServeResfail(p) \/ ServeWrite(p)
                             \/ ServeHit(p) \/ ServeHitRes(p) \/ ServeMiss(p)
      PROVE  Inv'
  BY <1>5, ServeIdealInv, ServeResfailInv, ServeWriteInv, ServeHitInv, ServeHitResInv,
     ServeMissInv
<1>6. CASE EndCycle \/ UNCHANGED vars
  BY <1>6, EndCycleInv
<1> QED BY <1>1, <1>2, <1>3, <1>4, <1>5, <1>6 DEF Next, CycleStep

\* The queues of the cache and of the DRAM hold requests and blocks of their
\* banks, and the delays count down.
THEOREM CacheTypeOK == Spec => []TypeOK
<1>1. Inv => TypeOK
  BY TypesImplyTypeOK DEF Inv
<1> QED BY <1>1, InitInv, NextInv, PTL DEF Spec

\* No request is lost, duplicated or answered twice by the cache, whatever the
\* cache and the DRAM decide: it is in exactly one queue of its own bank, or at
\* its block, until its answer leaves.
THEOREM CacheConserves == Spec => []RequestsConserved
<1>1. Inv => RequestsConserved
  BY ConservedImplies DEF Inv
<1> QED BY <1>1, InitInv, NextInv, PTL DEF Spec

\* from_in_to_cache tests for one free slot of the miss queue before an access
\* that may push two requests: the queue exceeds its size by one, never by more,
\* for any number of banks and ports.
THEOREM CacheMissQueueBounded == Spec => []MissQueueBounded
<1>1. Inv => MissQueueBounded
  BY DEF Inv
<1> QED BY <1>1, InitInv, NextInv, PTL DEF Spec

-----------------------------------------------------------------------------
(* The reserved lines, the waiting reads and the DRAM agree                 *)

\* Steps that leave the lines and the waiting reads alone
LEMMA SameMshr ==
  ASSUME Mshr, UNCHANGED <<line, addr_to_req>>,
         \A b \in Block : ReadsUnderWay(b)' = ReadsUnderWay(b)
  PROVE  Mshr'
BY DEF Mshr

\* Nothing is under way or comes back while the queues to the DRAM do not change.
LEMMA SameReads == UNCHANGED memory => \A b \in Block : ReadsUnderWay(b)' = ReadsUnderWay(b)
BY ReadsNext DEF memory, ReadsUnderWay

\* A block comes back: its line was reserved, and is no longer.
LEMMA DramRespMshr == Inv /\ Mshr /\ FromDramrespToResp => Mshr'
<1> SUFFICES ASSUME Inv, Mshr, FromDramrespToResp PROVE Mshr'
  OBVIOUS
<1> DEFINE b == Head(dram_resp_queue)
           p == PartitionId(b)
           popped == dram_resp_queue # <<>> /\ Len(delay_resp_queues[p]) < delay_q_size
<1>1. Types /\ UNCHANGED <<miss_queue, mem_in, outgoing>> /\ dram_resp_queue \in Seq(MemBlock)
  BY DEF Inv, Types, MemoryTypes, FromDramrespToResp
<1>2. CASE ~ popped
  <2>1. UNCHANGED <<line, addr_to_req, dram_resp_queue>>
    BY <1>2 DEF FromDramrespToResp
  <2>2. UNCHANGED memory
    BY <1>1, <2>1 DEF memory
  <2> QED BY <2>1, <2>2, SameMshr, SameReads
<1>3. CASE popped
  <2>1. dram_resp_queue # <<>> /\ dram_resp_queue' = Tail(dram_resp_queue)
    BY <1>3 DEF FromDramrespToResp
  <2>2. ASSUME NEW c \in Block
        PROVE  /\ ReadsUnderWay(c) = ReadsUnderWay(c)' + One(c, b)
               /\ ReadsUnderWay(c)' \in Nat
    <3>1. Count({c}, dram_resp_queue)
            = Count({c}, dram_resp_queue') + (IF b \in {c} THEN 1 ELSE 0)
      BY <1>1, <2>1, CountTail
    <3>2. Count({c}, dram_resp_queue') \in Nat
      <4>1. dram_resp_queue' \in Seq(MemBlock)
        BY <1>1, <2>1, TailElements
      <4> QED BY <4>1, CountType
    <3>3. /\ Count(Asks(c), miss_queue) \in Nat /\ Count(Asks(c), mem_in) \in Nat
          /\ Count(Asks(c), outgoing) \in Nat
      BY <1>1, ReadsSum
    <3>4. ReadsUnderWay(c)' = Count(Asks(c), miss_queue) + Count(Asks(c), mem_in)
                                + Count(Asks(c), outgoing) + Count({c}, dram_resp_queue')
      BY <1>1, ReadsNext
    <3>5. (IF b \in {c} THEN 1 ELSE 0) = One(c, b) /\ One(c, b) \in Nat
      BY DEF One
    <3> QED BY <3>1, <3>2, <3>3, <3>4, <3>5 DEF ReadsUnderWay
  <2>3. CASE b \in Block
    <3>1. line[b] = "reserved"
      BY <2>2, <2>3 DEF Mshr, One
    <3>2. PICK s \in FilledAs(b) : line' = [line EXCEPT ![b] = s]
      BY <1>3, <2>3, <3>1 DEF FromDramrespToResp
    <3>3. addr_to_req' = [addr_to_req EXCEPT ![b] = <<>>]
      BY <1>3, <2>3, <3>1 DEF FromDramrespToResp
    <3>4. /\ line'[b] # "reserved"
          /\ \A c \in Block : c # b => line'[c] = line[c]
      <4>1. line \in [Block -> LineState]
        BY <1>1 DEF Types, LineTypes
      <4> QED BY <2>3, <3>2, <4>1 DEF FilledAs
    <3>5. /\ addr_to_req'[b] = <<>>
          /\ \A c \in Block : c # b => addr_to_req'[c] = addr_to_req[c]
      BY <1>1, <2>3, <3>3 DEF Types, WaiterTypes
    <3> HIDE DEF b
    <3>6. ASSUME NEW c \in Block
          PROVE  /\ (line'[c] = "reserved") <=> (addr_to_req'[c] # <<>>)
                 /\ ReadsUnderWay(c)' = IF line'[c] = "reserved" THEN 1 ELSE 0
      <4>1. CASE c = b
        BY <2>2, <3>1, <3>4, <3>5, <4>1 DEF Mshr, One
      <4>2. CASE c # b
        BY <2>2, <3>4, <3>5, <4>2 DEF Mshr, One
      <4> QED BY <4>1, <4>2
    <3> QED BY <3>6 DEF Mshr
  <2>4. CASE b \notin Block
    <3>1. UNCHANGED <<line, addr_to_req>>
      BY <1>3, <2>4 DEF FromDramrespToResp
    <3>2. \A c \in Block : ReadsUnderWay(c)' = ReadsUnderWay(c)
      BY <2>2, <2>4 DEF One
    <3> QED BY <3>1, <3>2, SameMshr
  <2> QED BY <2>3, <2>4
<1> QED BY <1>2, <1>3

\* A write that meets a reserved line leaves it alone; any other one makes a
\* line dirty and may evict one, neither of them reserved.
LEMMA ServeWriteMshr == ASSUME Inv, Mshr, NEW p \in Bank, ServeWrite(p) PROVE Mshr'
<1> DEFINE b == BlockOf[Oldest(p)]
<1>1. /\ Serve(p) /\ Types /\ UNCHANGED addr_to_req
      /\ Oldest(p) \in Request /\ b \in Block /\ line \in [Block -> LineState]
      /\ UNCHANGED <<dram_resp_queue, mem_in, outgoing>>
  BY ServeStep DEF ServeWrite, Inv, Types, LineTypes
<1>2. /\ TryAccess(Oldest(p)) \in {"hit", "hit_res", "miss", "resfail"}
      /\ TryAccess(Oldest(p)) # "resfail"
  BY <1>1, TryAccessType DEF ServeWrite
<1>3. CASE TryAccess(Oldest(p)) = "hit_res"
  <2>1. UNCHANGED <<line, miss_queue>>
    BY <1>3 DEF ServeWrite
  <2>2. UNCHANGED memory
    BY <1>1, <2>1 DEF memory
  <2> QED BY <1>1, <2>1, <2>2, SameMshr, SameReads
<1>4. CASE TryAccess(Oldest(p)) = "hit"
  <2>1. line' = [line EXCEPT ![b] = "dirty"] /\ UNCHANGED miss_queue
    BY <1>4 DEF ServeWrite
  <2>2. line[b] \in {"clean", "dirty"}
    BY <1>1, <1>4, TryAccessType
  <2>3. UNCHANGED memory
    BY <1>1, <2>1 DEF memory
  <2>4. \A c \in Block : line'[c] = "reserved" <=> line[c] = "reserved"
    BY <1>1, <2>1, <2>2
  <2> QED BY <1>1, <2>3, <2>4, SameReads DEF Mshr
<1>5. CASE TryAccess(Oldest(p)) = "miss"
  <2>1. PICK v \in Victims(p) :
          Allocate(b, "dirty", v) /\ miss_queue' = miss_queue \o WriteBack(v, p)
    BY <1>5 DEF ServeWrite
  <2>2. line[b] = "absent" /\ v # b
    BY <1>1, <1>5, MissVictim
  <2>3. v \in Block => line[v] # "reserved"
    BY <1>1, VictimType
  <2>4. line'[b] = "dirty" /\ \A c \in Block : c # b => line'[c] = IF c = v THEN "absent" ELSE line[c]
    BY <1>1, <2>1, <2>2, AllocateEffect DEF LineState
  <2>5. \A c \in Block : line'[c] = "reserved" <=> line[c] = "reserved"
    BY <2>2, <2>3, <2>4
  <2>6. WriteBack(v, p) \in Seq(DramRequest)
        /\ \A c \in Block : Count(Asks(c), WriteBack(v, p)) = 0
    BY <1>1, WriteBackType
  <2>7. \A c \in Block : ReadsUnderWay(c)' = ReadsUnderWay(c) + Count(Asks(c), WriteBack(v, p))
    BY <1>1, <2>1, <2>6, MissAppend
  <2>8. \A c \in Block : ReadsUnderWay(c)' = ReadsUnderWay(c)
    BY <2>6, <2>7 DEF Mshr
  <2> QED BY <1>1, <2>5, <2>8 DEF Mshr
<1> QED BY <1>2, <1>3, <1>4, <1>5

\* One more read waits for a block that is on its way.
LEMMA ServeHitResMshr == ASSUME Inv, Mshr, NEW p \in Bank, ServeHitRes(p) PROVE Mshr'
<1> DEFINE b == BlockOf[Oldest(p)]
<1>1. /\ Serve(p) /\ Types /\ Oldest(p) \in Read /\ UNCHANGED <<line, miss_queue>>
      /\ TryAccess(Oldest(p)) = "hit_res"
      /\ addr_to_req' = [addr_to_req EXCEPT ![b] = Append(@, Oldest(p))]
  BY DEF ServeHitRes, Inv
<1>2. b \in Block /\ line[b] = "reserved" /\ UNCHANGED memory
  BY <1>1, ServeStep, TryAccessType DEF memory
<1>3. addr_to_req'[b] # <<>> /\ \A c \in Block : c # b => addr_to_req'[c] = addr_to_req[c]
  BY <1>1, WaiterAppend
<1> QED BY <1>1, <1>2, <1>3, SameReads DEF Mshr

\* A miss reserves a line that nobody waits for, and sends the one read of it.
LEMMA ServeMissMshr == ASSUME Inv, Mshr, NEW p \in Bank, ServeMiss(p) PROVE Mshr'
<1> DEFINE b == BlockOf[Oldest(p)]
<1>1. /\ Serve(p) /\ Types /\ Oldest(p) \in Read /\ TryAccess(Oldest(p)) = "miss"
  BY DEF ServeMiss, Inv
<1>2. PICK v \in Victims(p) :
        /\ Allocate(b, "reserved", v) /\ miss_queue' = miss_queue \o MissTraffic(b, v, p)
        /\ addr_to_req' = [addr_to_req EXCEPT ![b] = Append(@, Oldest(p))]
  BY DEF ServeMiss
<1>3. b \in Block /\ UNCHANGED <<dram_resp_queue, mem_in, outgoing>>
  BY <1>1, ServeStep
<1>4. line[b] = "absent" /\ v # b /\ (v \in Block => line[v] # "reserved")
  BY <1>1, MissVictim, VictimType
<1>5. /\ line'[b] = "reserved"
      /\ \A c \in Block : c # b => line'[c] = IF c = v THEN "absent" ELSE line[c]
  BY <1>1, <1>2, <1>3, <1>4, AllocateEffect DEF LineState
<1>6. addr_to_req'[b] # <<>> /\ \A c \in Block : c # b => addr_to_req'[c] = addr_to_req[c]
  BY <1>1, <1>2, WaiterAppend
<1>7. MissTraffic(b, v, p) \in Seq(DramRequest)
      /\ \A c \in Block : Count(Asks(c), MissTraffic(b, v, p)) = One(c, b)
  BY <1>1, <1>3, MissTrafficType
<1>8. \A c \in Block : ReadsUnderWay(c)' = ReadsUnderWay(c) + Count(Asks(c), MissTraffic(b, v, p))
  BY <1>1, <1>2, <1>3, <1>7, MissAppend
<1> HIDE DEF b
<1>9. ASSUME NEW c \in Block
      PROVE  /\ (line'[c] = "reserved") <=> (addr_to_req'[c] # <<>>)
             /\ ReadsUnderWay(c)' = IF line'[c] = "reserved" THEN 1 ELSE 0
  <2>1. ReadsUnderWay(c)' = ReadsUnderWay(c) + One(c, b)
    BY <1>7, <1>8
  <2>2. /\ (line[c] = "reserved") <=> (addr_to_req[c] # <<>>)
        /\ ReadsUnderWay(c) = IF line[c] = "reserved" THEN 1 ELSE 0
    BY DEF Mshr
  <2>3. CASE c = b
    BY <1>4, <1>5, <1>6, <2>1, <2>2, <2>3 DEF One
  <2>4. CASE c # b
    BY <1>4, <1>5, <1>6, <2>1, <2>2, <2>4 DEF One
  <2> QED BY <2>3, <2>4
<1> QED BY <1>9 DEF Mshr

MshrInv == Inv /\ Mshr /\ dram_resp_queue \in Seq(Block)

\* With a real DRAM every step keeps the reserved lines consistent.
LEMMA NextMshr ==
  ASSUME ~ is_ideal_dram, MshrInv, [Next]_vars
  PROVE  MshrInv'
<1>1. Inv' /\ Types /\ Inv /\ Mshr /\ dram_resp_queue \in Seq(Block)
  BY NextInv DEF MshrInv, Inv
<1>2. CASE \/ \E r \in Request : Arrive(r)
           \/ \E p \in Bank : Depart(p)
           \/ FromDelayrespToOut \/ EndCycle \/ UNCHANGED vars
           \/ \E p \in Bank : ServeIdeal(p) \/ ServeResfail(p) \/ ServeHit(p)
  <2>1. UNCHANGED <<line, addr_to_req, miss_queue, dram_resp_queue, mem_in, outgoing>>
    BY <1>2 DEF Arrive, Depart, FromDelayrespToOut, EndCycle, vars, memory, ServeIdeal,
                ServeResfail, ServeHit, Serve
  <2>2. UNCHANGED memory
    BY <2>1 DEF memory
  <2> QED BY <1>1, <2>1, <2>2, SameMshr, SameReads DEF MshrInv
<1>3. CASE MemSend
  <2>1. UNCHANGED <<line, addr_to_req, dram_resp_queue>>
    BY <1>3 DEF MemSend
  <2> QED BY <1>1, <1>3, <2>1, MemSendMemory, SameMshr DEF MshrInv
<1>4. ASSUME NEW i \in 1 .. DramSlots, MemComplete(i) PROVE MshrInv'
  <2>1. UNCHANGED <<line, addr_to_req>>
    BY <1>4 DEF MemComplete
  <2> QED BY <1>1, <1>4, <2>1, MemCompleteMemory, SameMshr DEF MshrInv
<1>5. CASE FromMissQToDram
  <2>1. UNCHANGED <<line, addr_to_req>>
    BY <1>5 DEF FromMissQToDram
  <2> QED BY <1>1, <1>5, <2>1, MissDrain, SameMshr DEF MshrInv
<1>6. CASE FromDramrespToResp
  <2>1. dram_resp_queue' = dram_resp_queue
        \/ (dram_resp_queue # <<>> /\ dram_resp_queue' = Tail(dram_resp_queue))
    BY <1>6 DEF FromDramrespToResp
  <2>2. dram_resp_queue' \in Seq(Block)
    BY <1>1, <2>1, TailElements
  <2> QED BY <1>1, <1>6, <2>2, DramRespMshr DEF MshrInv
<1>7. ASSUME NEW p \in Bank, ServeWrite(p) \/ ServeHitRes(p) \/ ServeMiss(p) PROVE MshrInv'
  <2>1. dram_resp_queue' = dram_resp_queue
    BY <1>7 DEF ServeWrite, ServeHitRes, ServeMiss, Serve
  <2> QED BY <1>1, <1>7, <2>1, ServeWriteMshr, ServeHitResMshr, ServeMissMshr DEF MshrInv
<1> QED BY <1>2, <1>3, <1>4, <1>5, <1>6, <1>7 DEF Next, CycleStep

\* An empty cache reserves nothing.
LEMMA InitMshr == Init => MshrInv
<1> SUFFICES ASSUME Init PROVE MshrInv
  OBVIOUS
<1>1. \A b \in Block : ReadsUnderWay(b) = 0
  <2>1. \A X : Count(X, <<>>) = 0
    BY CountEmpty
  <2> QED BY <2>1 DEF Init, ReadsUnderWay
<1>2. Mshr
  BY <1>1 DEF Init, Mshr
<1>3. dram_resp_queue \in Seq(Block)
  BY DEF Init
<1> QED BY <1>2, <1>3, InitInv DEF MshrInv

\* With a real DRAM, a line is reserved exactly while reads wait for its block
\* and one read of it is under way, for any order in which the DRAM answers and
\* any choice of victims.  An ideal DRAM answers write-backs too, see
\* DramAnswerHasWaiters: there it does not hold.
THEOREM CacheMshr ==
  ASSUME ~ is_ideal_dram
  PROVE  Spec => []MshrConsistent
<1>1. MshrInv => MshrConsistent
  <2> SUFFICES ASSUME MshrInv PROVE MshrConsistent
    OBVIOUS
  <2>1. Types /\ Mshr
    BY DEF MshrInv, Inv
  <2>2. \A b \in Block : DramReads(b) = ReadsUnderWay(b)
    BY <2>1, ReadsSum
  <2> QED BY <2>1, <2>2 DEF Mshr, MshrConsistent
<1>2. MshrInv /\ [Next]_vars => MshrInv'
  BY NextMshr
<1> QED BY <1>1, <1>2, InitMshr, PTL DEF Spec

\* With a real DRAM, the assertion of from_dramresp_to_resp holds: somebody waits
\* for every block that comes back.
THEOREM CacheDramAnswers ==
  ASSUME ~ is_ideal_dram
  PROVE  Spec => []DramAnswerHasWaiters
<1>1. MshrInv => DramAnswerHasWaiters
  <2> SUFFICES ASSUME MshrInv, NEW i \in DOMAIN dram_resp_queue
               PROVE  /\ dram_resp_queue[i] \in Block
                      /\ addr_to_req[dram_resp_queue[i]] # <<>>
    BY DEF DramAnswerHasWaiters
  <2> DEFINE b == dram_resp_queue[i]
  <2>1. b \in Block /\ Types
    BY ElementOfSeq, LenProperties DEF MshrInv, Inv
  <2>2. Count({b}, dram_resp_queue) \in Nat /\ Count({b}, dram_resp_queue) # 0
    BY CountType DEF MshrInv
  <2>3. ReadsUnderWay(b) # 0
    BY <2>1, <2>2, ReadsSum DEF ReadsUnderWay
  <2>4. line[b] = "reserved"
    BY <2>1, <2>3 DEF MshrInv, Mshr
  <2> QED BY <2>1, <2>4 DEF MshrInv, Mshr
<1>2. MshrInv /\ [Next]_vars => MshrInv'
  BY NextMshr
<1> QED BY <1>1, <1>2, InitMshr, PTL DEF Spec

-----------------------------------------------------------------------------
(* Dirty lines                                                              *)

\* What DirtyLinesWrittenBack says of one step, for any number of banks: the
\* write goes to the address from_cache_addr_to_real_addr makes of the block.
EvictedIsWritten ==
  \A b \in Block : line[b] = "dirty" /\ line'[b] = "absent"
    => /\ Len(miss_queue') > Len(miss_queue)
       /\ miss_queue'[Len(miss_queue) + 1] = <<FALSE, RealAddr(b, PartitionId(b))>>

\* A dirty victim is the first thing an eviction sends to the DRAM.
LEMMA VictimIsWritten ==
  ASSUME Types, NEW p \in Bank, NEW v \in Victims(p), NEW b \in Block, NEW s \in LineState,
         s # "absent", v # b, Allocate(b, s, v), NEW rest \in Seq(DramRequest),
         miss_queue' = miss_queue \o (WriteBack(v, p) \o rest)
  PROVE  EvictedIsWritten
<1> SUFFICES ASSUME NEW c \in Block, line[c] = "dirty", line'[c] = "absent"
             PROVE  /\ Len(miss_queue') > Len(miss_queue)
                    /\ miss_queue'[Len(miss_queue) + 1] = <<FALSE, RealAddr(c, PartitionId(c))>>
  BY DEF EvictedIsWritten
<1> DEFINE e == <<FALSE, RealAddr(c, PartitionId(c))>>
<1>1. c = v
  BY AllocateEffect
<1>2. v # NoVictim /\ PartitionId(v) = p
  BY <1>1, VictimType
<1>3. WriteBack(v, p) = <<e>>
  BY <1>1, <1>2 DEF WriteBack, CacheAddr
<1>4. e \in DramRequest
  BY <1>1, <1>2, BankType DEF DramRequest
<1>5. miss_queue \in Seq(DramRequest) /\ Len(miss_queue) \in Nat
  BY LenProperties DEF Types, MemoryTypes
<1> HIDE DEF e
<1>6. /\ <<e>> \o rest \in Seq(DramRequest) /\ (<<e>> \o rest)[1] = e
      /\ Len(<<e>> \o rest) \in Nat /\ Len(<<e>> \o rest) >= 1
  BY <1>4
<1> DEFINE w == <<e>> \o rest
<1>7. w \in Seq(DramRequest) /\ w[1] = e /\ Len(w) \in Nat /\ Len(w) >= 1
  BY <1>6
<1>8. miss_queue' = miss_queue \o w
  BY <1>3
<1> HIDE DEF w
<1>9. /\ Len(miss_queue \o w) = Len(miss_queue) + Len(w)
      /\ (miss_queue \o w)[Len(miss_queue) + 1] = w[1]
  BY <1>5, <1>7
<1> QED BY <1>5, <1>7, <1>8, <1>9 DEF e

\* In every step, a dirty line that leaves the cache is written.
LEMMA DirtyStep == Inv /\ [Next]_vars => EvictedIsWritten
<1> SUFFICES ASSUME Inv, [Next]_vars PROVE EvictedIsWritten
  OBVIOUS
<1>1. Types /\ line \in [Block -> LineState] /\ miss_queue \in Seq(DramRequest)
  BY DEF Inv, Types, LineTypes, MemoryTypes
<1>2. CASE line' = line
  BY <1>2 DEF EvictedIsWritten
<1>3. CASE FromDramrespToResp
  <2>1. \/ line' = line
        \/ \E s \in FilledAs(Head(dram_resp_queue)) :
             line' = [line EXCEPT ![Head(dram_resp_queue)] = s]
    BY <1>3 DEF FromDramrespToResp
  <2>2. \A b \in Block : line[b] = "dirty" => line'[b] # "absent"
    BY <1>1, <2>1 DEF FilledAs
  <2> QED BY <2>2 DEF EvictedIsWritten
<1>4. ASSUME NEW p \in Bank, ServeMiss(p) PROVE EvictedIsWritten
  <2> DEFINE b == BlockOf[Oldest(p)]
  <2>1. Serve(p) /\ TryAccess(Oldest(p)) = "miss"
    BY <1>4 DEF ServeMiss
  <2>2. PICK v \in Victims(p) :
          Allocate(b, "reserved", v) /\ miss_queue' = miss_queue \o MissTraffic(b, v, p)
    BY <1>4 DEF ServeMiss
  <2>3. b \in Block /\ v # b
    BY <1>1, <2>1, MissVictim, ServeStep
  <2>4. <<<<TRUE, b>>>> \in Seq(DramRequest)
    <3>1. <<TRUE, b>> \in DramRequest
      BY <2>3 DEF DramRequest
    <3> QED BY <3>1
  <2>5. miss_queue' = miss_queue \o (WriteBack(v, p) \o <<<<TRUE, b>>>>)
    BY <2>2 DEF MissTraffic
  <2>6. "reserved" \in LineState /\ "reserved" # "absent"
    BY DEF LineState
  <2> QED BY <1>1, <2>2, <2>3, <2>4, <2>5, <2>6, VictimIsWritten
<1>5. ASSUME NEW p \in Bank, ServeWrite(p) PROVE EvictedIsWritten
  <2> DEFINE b == BlockOf[Oldest(p)]
  <2>1. Serve(p) /\ Oldest(p) \in Request /\ b \in Block
    BY <1>1, <1>5, ServeStep DEF ServeWrite
  <2>2. /\ TryAccess(Oldest(p)) \in {"hit", "hit_res", "miss", "resfail"}
        /\ TryAccess(Oldest(p)) # "resfail"
    BY <1>1, <1>5, <2>1, TryAccessType DEF ServeWrite
  <2>3. CASE TryAccess(Oldest(p)) = "hit"
    <3>1. line' = [line EXCEPT ![b] = "dirty"]
      BY <1>5, <2>3 DEF ServeWrite
    <3>2. \A c \in Block : line[c] = "dirty" => line'[c] # "absent"
      BY <1>1, <3>1
    <3> QED BY <3>2 DEF EvictedIsWritten
  <2>4. CASE TryAccess(Oldest(p)) = "hit_res"
    BY <1>2, <1>5, <2>4 DEF ServeWrite
  <2>5. CASE TryAccess(Oldest(p)) = "miss"
    <3>1. PICK v \in Victims(p) :
            Allocate(b, "dirty", v) /\ miss_queue' = miss_queue \o WriteBack(v, p)
      BY <1>5, <2>5 DEF ServeWrite
    <3>2. v # b
      BY <1>1, <2>1, <2>5, MissVictim
    <3>3. WriteBack(v, p) \in Seq(DramRequest)
      BY <1>1, WriteBackType
    <3>4. <<>> \in Seq(DramRequest) /\ WriteBack(v, p) \o <<>> = WriteBack(v, p)
      BY <3>3
    <3>5. "dirty" \in LineState /\ "dirty" # "absent"
      BY DEF LineState
    <3> QED BY <1>1, <2>1, <3>1, <3>2, <3>4, <3>5, VictimIsWritten
  <2> QED BY <2>2, <2>3, <2>4, <2>5
<1>6. ASSUME \/ \E r \in Request : Arrive(r)
             \/ \E p \in Bank : \/ Depart(p) \/ ServeIdeal(p) \/ ServeResfail(p)
                                \/ ServeHit(p) \/ ServeHitRes(p)
             \/ \E i \in 1 .. DramSlots : MemComplete(i)
             \/ MemSend \/ FromDelayrespToOut \/ FromMissQToDram \/ EndCycle \/ UNCHANGED vars
      PROVE  line' = line
  BY <1>6 DEF Arrive, Depart, ServeIdeal, ServeResfail, ServeHit, ServeHitRes, MemComplete,
              MemSend, FromDelayrespToOut, FromMissQToDram, EndCycle, vars
<1> QED BY <1>2, <1>3, <1>4, <1>5, <1>6 DEF Next, CycleStep

\* No eviction loses modified data, for any number of banks: a write-back is sent
\* in the same step, to the address made of the line's tag and its bank.
THEOREM CacheEvictions == Spec => [][EvictedIsWritten]_vars
<1>1. Inv /\ [Next]_vars => [EvictedIsWritten]_vars
  BY DirtyStep
<1> QED BY <1>1, InitInv, NextInv, PTL DEF Spec

\* With one bank that address is the block's own: modified data reach their
\* place in memory.  With several banks the tag still holds the bank, and the
\* address is another one (WriteBackToKnownBlock).
THEOREM CacheWritesBack ==
  ASSUME n_partition = 1
  PROVE  Spec => DirtyLinesWrittenBack
<1>1. ASSUME NEW b \in Block PROVE RealAddr(b, PartitionId(b)) = b
  <2>1. b \in Nat
    BY BankType
  <2>2. PartitionId(b) = 0
    BY <2>1 DEF PartitionId
  <2> QED BY <2>1, <2>2 DEF RealAddr
<1> DEFINE Written == \A b \in Block : line[b] = "dirty" /\ line'[b] = "absent"
                        => /\ Len(miss_queue') > Len(miss_queue)
                           /\ miss_queue'[Len(miss_queue) + 1] = <<FALSE, b>>
<1>2. Inv /\ [Next]_vars => [Written]_vars
  BY <1>1, DirtyStep DEF EvictedIsWritten
<1> HIDE DEF Written
<1>3. Spec => [][Written]_vars
  BY <1>2, InitInv, NextInv, PTL DEF Spec
<1> QED BY <1>3 DEF DirtyLinesWrittenBack, Written

-----------------------------------------------------------------------------
(* The cache implements Memory                                              *)

\* The reads that the abstract memory has accepted and not yet answered
Inside == Waiting \cup UNION {{d.req : d \in Range(delay_resp_queues[p])} : p \in Bank}
Held == {r \in Request : AtBlock(r) # 0 \/ InDelay(r) # 0}
AbstractMem == [in_request_queues |-> in_request_queues, inside |-> Inside,
                out_resp_queues |-> out_resp_queues]

\* They are the reads at a block or among the delayed answers.
LEMMA InsideIsHeld == Types => Inside = Held
<1> SUFFICES ASSUME Types PROVE Inside = Held
  OBVIOUS
<1>1. ASSUME NEW b \in Block
      PROVE  /\ addr_to_req[b] \in Seq(ReadersOf(b))
             /\ \A i \in DOMAIN addr_to_req[b] :
                  addr_to_req[b][i] \in Request /\ BlockOf[addr_to_req[b][i]] = b
  <2>1. addr_to_req[b] \in Seq(ReadersOf(b))
    BY DEF Types, WaiterTypes
  <2>2. \A i \in DOMAIN addr_to_req[b] : addr_to_req[b][i] \in ReadersOf(b)
    BY <2>1, ElementOfSeq, LenProperties
  <2> QED BY <2>1, <2>2, OwnPlace
<1>2. ASSUME NEW p \in Bank
      PROVE  /\ delay_resp_queues[p] \in Seq(DelayedOf(p))
             /\ \A i \in DOMAIN delay_resp_queues[p] :
                  /\ delay_resp_queues[p][i].req \in Request
                  /\ BankOf(delay_resp_queues[p][i].req) = p
                  /\ delay_resp_queues[p][i] \in AnswersTo(delay_resp_queues[p][i].req)
  <2>1. delay_resp_queues[p] \in Seq(DelayedOf(p))
    BY DEF Types, DelayTypes
  <2>2. \A i \in DOMAIN delay_resp_queues[p] : delay_resp_queues[p][i] \in DelayedOf(p)
    BY <2>1, ElementOfSeq, LenProperties
  <2> QED BY <2>1, <2>2 DEF DelayedOf, ReadsOf, AnswersTo, Read
<1>3. ASSUME NEW r \in Inside PROVE r \in Held
  <2>1. CASE r \in Waiting
    <3>1. PICK b \in Block : r \in Range(addr_to_req[b])
      BY <2>1 DEF Waiting
    <3>2. PICK i \in DOMAIN addr_to_req[b] : r = addr_to_req[b][i]
      BY <3>1 DEF Range
    <3>3. r \in Request /\ BlockOf[r] = b
      BY <1>1, <3>2
    <3>4. Count({r}, addr_to_req[b]) # 0
      BY <1>1, <3>2, CountType
    <3> QED BY <3>3, <3>4 DEF Held, AtBlock
  <2>2. CASE r \notin Waiting
    <3>1. PICK p \in Bank : r \in {d.req : d \in Range(delay_resp_queues[p])}
      BY <2>2 DEF Inside
    <3>2. PICK i \in DOMAIN delay_resp_queues[p] : r = delay_resp_queues[p][i].req
      BY <3>1 DEF Range
    <3>3. r \in Request /\ BankOf(r) = p /\ delay_resp_queues[p][i] \in AnswersTo(r)
      BY <1>2, <3>2
    <3>4. Count(AnswersTo(r), delay_resp_queues[p]) # 0
      BY <1>2, <3>3, CountType
    <3> QED BY <3>3, <3>4 DEF Held, InDelay
  <2> QED BY <2>1, <2>2
<1>4. ASSUME NEW r \in Held PROVE r \in Inside
  <2>1. r \in Request /\ BankOf(r) \in Bank /\ BlockOf[r] \in Block
    BY BankType DEF Held
  <2>2. CASE AtBlock(r) # 0
    <3>1. PICK i \in DOMAIN addr_to_req[BlockOf[r]] : addr_to_req[BlockOf[r]][i] \in {r}
      BY <1>1, <2>1, <2>2, CountType DEF AtBlock
    <3>2. r \in Range(addr_to_req[BlockOf[r]])
      BY <3>1 DEF Range
    <3> QED BY <2>1, <3>2 DEF Inside, Waiting
  <2>3. CASE InDelay(r) # 0
    <3>1. PICK i \in DOMAIN delay_resp_queues[BankOf(r)] :
                 delay_resp_queues[BankOf(r)][i] \in AnswersTo(r)
      BY <1>2, <2>1, <2>3, CountType DEF InDelay
    <3>2. delay_resp_queues[BankOf(r)][i] \in Range(delay_resp_queues[BankOf(r)])
          /\ delay_resp_queues[BankOf(r)][i].req = r
      BY <3>1 DEF Range, AnswersTo
    <3>3. r \in {d.req : d \in Range(delay_resp_queues[BankOf(r)])}
      BY <3>2
    <3> QED BY <2>1, <3>3 DEF Inside
  <2> QED BY <2>2, <2>3 DEF Held
<1> QED BY <1>3, <1>4

\* The same after a step
LEMMA InsideIsHeldNext == Types' => Inside' = Held'
<1>1. (Types => Inside = Held)'
  BY InsideIsHeld, PTL
<1> QED BY <1>1

\* A step that moves no request is a stutter of the abstract memory.
LEMMA MemoryStutters ==
  ASSUME Types, Types', UNCHANGED <<in_request_queues, out_resp_queues>>,
         \A r \in Request : /\ AtBlock(r)' + InDelay(r)' = AtBlock(r) + InDelay(r)
                            /\ AtBlock(r)' \in Nat /\ InDelay(r)' \in Nat
  PROVE  AbstractMem' = AbstractMem
<1>1. ASSUME NEW r \in Request
      PROVE  (AtBlock(r)' # 0 \/ InDelay(r)' # 0) <=> (AtBlock(r) # 0 \/ InDelay(r) # 0)
  BY PlacesSum
<1>2. Held' = Held
  BY <1>1 DEF Held
<1>3. Inside' = Inside
  BY <1>2, InsideIsHeld, InsideIsHeldNext
<1> QED BY <1>3 DEF AbstractMem

\* A cycle of the abstract memory, from what it does to the three fields
LEMMA CycleFields ==
  ASSUME NEW accept, NEW answer,
         in_request_queues' = [p \in Bank |-> SubSeq(in_request_queues[p], accept[p] + 1,
                                                     Len(in_request_queues[p]))],
         out_resp_queues' = [p \in Bank |-> out_resp_queues[p] \o answer[p]],
         Inside' = (Inside \ UNION {Range(answer[p]) : p \in Bank})
           \cup {r \in UNION {Range(SubSeq(in_request_queues[p], 1, accept[p])) : p \in Bank} :
                   IsRead(r)}
  PROVE  AbstractMem' = Abstract!DoCycle(AbstractMem, accept, answer)
<1> DEFINE m == AbstractMem
           taken == UNION {Range(SubSeq(in_request_queues[p], 1, accept[p])) : p \in Bank}
           given == UNION {Range(answer[p]) : p \in Bank}
           takenAbs == UNION {Abstract!Range(SubSeq(in_request_queues[p], 1, accept[p])) : p \in Bank}
           givenAbs == UNION {Abstract!Range(answer[p]) : p \in Bank}
<1>1. /\ m.in_request_queues = in_request_queues /\ m.inside = Inside
      /\ m.out_resp_queues = out_resp_queues
  BY DEF AbstractMem
<1> HIDE DEF m
<1>2. takenAbs = taken /\ givenAbs = given
  BY DEF Range, Abstract!Range
<1>3. Abstract!DoCycle(m, accept, answer) =
        [in_request_queues |-> [p \in Bank |-> SubSeq(in_request_queues[p], accept[p] + 1,
                                                       Len(in_request_queues[p]))],
         inside |-> (Inside \ givenAbs) \cup {r \in takenAbs : IsRead(r)},
         out_resp_queues |-> [p \in Bank |-> out_resp_queues[p] \o answer[p]]]
  BY <1>1, Zenon DEF Abstract!DoCycle, Abstract!Bank, Bank
<1> HIDE DEF taken, given, takenAbs, givenAbs
<1>4. Inside' = (Inside \ given) \cup {r \in taken : IsRead(r)}
  BY DEF taken, given
<1> QED BY <1>2, <1>3, <1>4, Zenon DEF AbstractMem, m

\* The abstract memory may make a cycle if every bank can do its part of it and
\* one of them does something.
LEMMA CycleAllowed ==
  ASSUME NEW accept \in [Bank -> 0 .. num_ports], NEW answer,
         answer = [p \in Bank |-> answer[p]],
         \A p \in Bank : accept[p] <= Len(in_request_queues[p]),
         \A p \in Bank : \/ answer[p] = <<>>
                         \/ \E r \in Inside : BankOf(r) = p /\ answer[p] = <<r>>,
         \E p \in Bank : accept[p] > 0 \/ answer[p] # <<>>,
         AbstractMem' = Abstract!DoCycle(AbstractMem, accept, answer)
  PROVE  Abstract!Next
<1> DEFINE m == AbstractMem
           c == [accept |-> accept, answer |-> answer]
<1>1. m.in_request_queues = in_request_queues /\ m.inside = Inside
  BY DEF AbstractMem
<1>2. Abstract!Bank = Bank
  BY DEF Abstract!Bank, Bank
<1>3. m' = Abstract!DoCycle(m, accept, answer)
  OBVIOUS
<1> HIDE DEF m
<1>4. \A p \in Bank : accept[p] \in Abstract!Accepts(m, p)
  BY <1>1 DEF Abstract!Accepts
<1>5. \A p \in Bank : answer[p] \in Abstract!Answers(m, p)
  BY <1>1 DEF Abstract!Answers
<1>6. answer \in [Bank -> UNION {Abstract!Answers(m, p) : p \in Bank}]
  BY <1>5
<1>7. c \in Abstract!Cycles(m)
  BY <1>2, <1>4, <1>5, <1>6 DEF Abstract!Cycles
<1>8. c \in Abstract!Moves(m)
  BY <1>2, <1>7 DEF Abstract!Moves
<1>9. c.accept = accept /\ c.answer = answer
  OBVIOUS
<1> HIDE DEF c
<1>10. \E x \in Abstract!Moves(m) : m' = Abstract!DoCycle(m, x.accept, x.answer)
  BY <1>3, <1>8, <1>9
<1>11. Abstract!Cycle
  BY <1>10 DEF Abstract!Cycle, m, AbstractMem, Inside
<1> QED BY <1>11 DEF Abstract!Next

\* A bank that takes its oldest request accepts it.
LEMMA AcceptOne ==
  ASSUME Types, Types', NEW p \in Bank, in_request_queues[p] # <<>>, PopFront(p),
         out_resp_queues' = out_resp_queues,
         \A r \in Request :
           (AtBlock(r)' # 0 \/ InDelay(r)' # 0)
             <=> (AtBlock(r) # 0 \/ InDelay(r) # 0 \/ (r = Oldest(p) /\ r \in Read))
  PROVE  Abstract!Next
<1> DEFINE accept == [q \in Bank |-> IF q = p THEN 1 ELSE 0]
           answer == [q \in Bank |-> <<>>]
           in == in_request_queues
<1>1. in = [q \in Bank |-> in[q]] /\ \A q \in Bank : in[q] \in Seq(RequestsOf(q))
  BY DEF Types, InTypes
<1>2. /\ Len(in[p]) \in Nat /\ Len(in[p]) >= 1 /\ Oldest(p) = in[p][1]
      /\ Oldest(p) \in Request
  BY <1>1, TailElements, OwnPlace DEF Oldest
<1>3. \A q \in Bank : Len(in[q]) \in Nat
  BY <1>1, LenProperties
<1>4. accept \in [Bank -> 0 .. num_ports] /\ \A q \in Bank : accept[q] <= Len(in[q])
  BY <1>2, <1>3, CacheInterfaceAssumption
<1>5. \A q \in Bank : accept[q] = (IF q = p THEN 1 ELSE 0) /\ answer[q] = <<>>
  OBVIOUS
<1>6. ASSUME NEW q \in Bank
      PROVE  /\ in'[q] = SubSeq(in[q], accept[q] + 1, Len(in[q]))
             /\ Range(SubSeq(in[q], 1, accept[q])) = {r \in {Oldest(p)} : q = p}
             /\ out_resp_queues'[q] = out_resp_queues[q] \o answer[q]
  <2>1. in[q] \in Seq(RequestsOf(q)) /\ Len(in[q]) \in Nat
    BY <1>1, <1>3
  <2>2. out_resp_queues[q] \o answer[q] = out_resp_queues[q]
    BY <1>5 DEF Types, OutTypes
  <2>3. CASE q = p
    <3>1. in'[q] = Tail(in[q]) /\ in[q] # <<>>
      BY <1>1, <2>3 DEF PopFront
    <3>2. accept[q] = 1 /\ {r \in {Oldest(p)} : q = p} = {Oldest(p)}
      BY <1>5, <2>3
    <3>3. SubSeq(in[q], 1 + 1, Len(in[q])) = Tail(in[q])
          /\ Range(SubSeq(in[q], 1, 1)) = {Oldest(p)}
      BY <2>1, <2>3, <3>1, TakeOne DEF Oldest
    <3> HIDE DEF accept, answer
    <3> QED BY <2>2, <3>1, <3>2, <3>3, Zenon
  <2>4. CASE q # p
    <3>1. in'[q] = in[q]
      BY <1>1, <2>4 DEF PopFront
    <3>2. accept[q] = 0 /\ {r \in {Oldest(p)} : q = p} = {}
      BY <1>5, <2>4
    <3>3. SubSeq(in[q], 0 + 1, Len(in[q])) = in[q] /\ Range(SubSeq(in[q], 1, 0)) = {}
      BY <2>1, TakeNone
    <3> HIDE DEF accept, answer
    <3> QED BY <2>2, <3>1, <3>2, <3>3, Zenon
  <2> QED BY <2>3, <2>4
<1> HIDE DEF accept, answer
<1>7. /\ in' = [q \in Bank |-> in'[q]] /\ out_resp_queues' = [q \in Bank |-> out_resp_queues'[q]]
  BY Zenon DEF Types, InTypes, OutTypes
<1>8. /\ in' = [q \in Bank |-> SubSeq(in[q], accept[q] + 1, Len(in[q]))]
      /\ out_resp_queues' = [q \in Bank |-> out_resp_queues[q] \o answer[q]]
  BY <1>6, <1>7
<1>9. UNION {Range(answer[q]) : q \in Bank} = {}
  BY <1>5 DEF Range
<1>10. UNION {Range(SubSeq(in[q], 1, accept[q])) : q \in Bank} = {Oldest(p)}
  <2> DEFINE T == [q \in Bank |-> Range(SubSeq(in[q], 1, accept[q]))]
  <2>1. \A q \in Bank : T[q] = {r \in {Oldest(p)} : q = p}
    BY <1>6
  <2>2. UNION {T[q] : q \in Bank} = UNION {Range(SubSeq(in[q], 1, accept[q])) : q \in Bank}
    OBVIOUS
  <2> HIDE DEF T
  <2>3. UNION {T[q] : q \in Bank} = {Oldest(p)}
    BY <2>1
  <2> QED BY <2>2, <2>3
<1>11. Inside' = Inside \cup {r \in {Oldest(p)} : IsRead(r)}
  <2>1. Held' = Held \cup {r \in {Oldest(p)} : IsRead(r)}
    BY <1>2 DEF Held, IsRead
  <2> QED BY <2>1, InsideIsHeld, InsideIsHeldNext
<1>12. AbstractMem' = Abstract!DoCycle(AbstractMem, accept, answer)
  <2>1. Inside' = (Inside \ UNION {Range(answer[q]) : q \in Bank})
          \cup {r \in UNION {Range(SubSeq(in[q], 1, accept[q])) : q \in Bank} : IsRead(r)}
    BY <1>9, <1>10, <1>11
  <2> QED BY <1>8, <2>1, CycleFields
<1>13. answer = [q \in Bank |-> answer[q]] /\ \E q \in Bank : accept[q] > 0
  BY <1>5 DEF answer
<1> QED BY <1>4, <1>5, <1>12, <1>13, CycleAllowed

\* The delayed answers that are due leave the memory, one from each bank: a read
\* is among them once, and waits for nothing any more.
LEMMA AnswerSome ==
  ASSUME Inv, Inv', FromDelayrespToOut
  PROVE  Abstract!Next \/ AbstractMem' = AbstractMem
<1> USE DEF Inv
<1> DEFINE due(q) == Head(delay_resp_queues[q]).req
           accept == [q \in Bank |-> 0]
           answer == [q \in Bank |-> IF Ripe(q) THEN <<due(q)>> ELSE <<>>]
           given == UNION {Range(answer[q]) : q \in Bank}
           in == in_request_queues
<1>1. /\ in' = in /\ addr_to_req' = addr_to_req
      /\ \A q \in Bank : out_resp_queues'[q] = IF Ripe(q) THEN Append(out_resp_queues[q], due(q))
                                                ELSE out_resp_queues[q]
  BY DEF FromDelayrespToOut
<1>2. ASSUME NEW q \in Bank, Ripe(q)
      PROVE  due(q) \in ReadsOf(q) /\ due(q) \in Request /\ BankOf(due(q)) = q
  <2>1. delay_resp_queues[q] \in Seq(DelayedOf(q)) /\ delay_resp_queues[q] # <<>>
    BY <1>2 DEF Types, DelayTypes, Ripe
  <2>2. Head(delay_resp_queues[q]) \in DelayedOf(q)
    BY <2>1, TailElements
  <2> QED BY <2>2 DEF DelayedOf, ReadsOf, Read
<1>3. /\ in = [q \in Bank |-> in[q]] /\ \A q \in Bank : in[q] \in Seq(RequestsOf(q))
      /\ out_resp_queues' = [q \in Bank |-> out_resp_queues'[q]]
      /\ \A q \in Bank : out_resp_queues[q] \in Seq(ReadsOf(q))
  BY DEF Types, InTypes, OutTypes
<1>4. \A r \in Request : InDelay(r) = InDelay(r)' + (IF Ripe(BankOf(r)) THEN
                           One(r, due(BankOf(r))) ELSE 0)
  BY DelayToOut
<1>5. \A q \in Bank : /\ accept[q] = 0
                      /\ Ripe(q) => answer[q] = <<due(q)>>
                      /\ ~ Ripe(q) => answer[q] = <<>>
  OBVIOUS
<1>6. accept \in [Bank -> 0 .. num_ports] /\ \A q \in Bank : accept[q] <= Len(in[q])
  BY <1>3, LenProperties, CacheInterfaceAssumption
<1>7. answer = [q \in Bank |-> answer[q]]
  OBVIOUS
<1> HIDE DEF due, accept, answer
<1>8. ASSUME NEW q \in Bank
      PROVE  /\ in[q] = SubSeq(in[q], accept[q] + 1, Len(in[q]))
             /\ Range(SubSeq(in[q], 1, accept[q])) = {}
             /\ out_resp_queues'[q] = out_resp_queues[q] \o answer[q]
             /\ Range(answer[q]) = {r \in {due(q)} : Ripe(q)}
  <2>1. in[q] = SubSeq(in[q], accept[q] + 1, Len(in[q])) /\ Range(SubSeq(in[q], 1, accept[q])) = {}
    BY <1>3, <1>5, TakeNone, Zenon
  <2>2. CASE Ripe(q)
    <3>1. answer[q] = <<due(q)>> /\ out_resp_queues'[q] = Append(out_resp_queues[q], due(q))
      BY <1>1, <1>5, <2>2
    <3>2. Append(out_resp_queues[q], due(q)) = out_resp_queues[q] \o <<due(q)>>
      BY <1>2, <1>3, <2>2, AppendIsConcat
    <3>3. Range(<<due(q)>>) = {due(q)}
      BY DEF Range
    <3>4. {r \in {due(q)} : Ripe(q)} = {due(q)}
      BY <2>2
    <3> QED BY <2>1, <3>1, <3>2, <3>3, <3>4, Zenon
  <2>3. CASE ~ Ripe(q)
    <3>1. answer[q] = <<>> /\ out_resp_queues'[q] = out_resp_queues[q]
      BY <1>1, <1>5, <2>3
    <3>2. out_resp_queues[q] \o <<>> = out_resp_queues[q]
      BY <1>3, ConcatEmptySeq
    <3>3. Range(<<>>) = {}
      BY DEF Range
    <3>4. {r \in {due(q)} : Ripe(q)} = {}
      BY <2>3
    <3> QED BY <2>1, <3>1, <3>2, <3>3, <3>4, Zenon
  <2> QED BY <2>2, <2>3
<1>9. \A r \in Request : r \in given <=> Ripe(BankOf(r)) /\ r = due(BankOf(r))
  <2> TAKE r \in Request
  <2>1. BankOf(r) \in Bank
    BY BankType
  <2>2. ASSUME r \in given PROVE Ripe(BankOf(r)) /\ r = due(BankOf(r))
    <3>1. PICK q \in Bank : r \in Range(answer[q])
      BY <2>2
    <3>2. r = due(q) /\ Ripe(q)
      BY <1>8, <3>1
    <3> QED BY <1>2, <3>2
  <2>3. ASSUME Ripe(BankOf(r)), r = due(BankOf(r)) PROVE r \in given
    <3>1. r \in Range(answer[BankOf(r)])
      BY <1>8, <2>1, <2>3
    <3> QED BY <2>1, <3>1
  <2> QED BY <2>2, <2>3
<1> HIDE DEF given
<1>10. ASSUME NEW r \in Request
       PROVE  /\ (AtBlock(r)' # 0 \/ InDelay(r)' # 0)
                   <=> (AtBlock(r) # 0 \/ InDelay(r) # 0) /\ r \notin given
              /\ r \in given => InDelay(r) # 0
  <2>1. /\ InQueue(r) \in Nat /\ AtBlock(r) \in Nat /\ InDelay(r) \in Nat /\ AtOut(r) \in Nat
    BY PlacesSum
  <2>2. InDelay(r)' \in Nat /\ AtBlock(r)' = AtBlock(r)
    BY <1>1, DelayToOut, SameQueue
  <2>3. AtBlock(r) + InDelay(r) <= 1
    <3>1. InQueue(r) + AtBlock(r) + InDelay(r) + AtOut(r) = IF r \in idle THEN 0 ELSE 1
      BY DEF Conserved
    <3> QED BY <2>1, <3>1
  <2>4. r \in given => InDelay(r) = InDelay(r)' + 1
    BY <1>4, <1>9 DEF One
  <2>5. r \notin given => InDelay(r) = InDelay(r)'
    BY <1>4, <1>9, <2>2 DEF One
  <2> QED BY <2>1, <2>2, <2>3, <2>4, <2>5
<1>11. Held' = Held \ given
  BY <1>10 DEF Held
<1>12. Inside' = Inside \ given
  BY <1>11, InsideIsHeld, InsideIsHeldNext
<1>13. CASE \E q \in Bank : Ripe(q)
  <2>1. ASSUME NEW q \in Bank
        PROVE  \/ answer[q] = <<>>
               \/ \E r \in Inside : BankOf(r) = q /\ answer[q] = <<r>>
    <3>1. CASE Ripe(q)
      <4>1. due(q) \in given
        BY <1>2, <1>9, <3>1
      <4>2. due(q) \in Inside
        BY <1>2, <1>10, <3>1, <4>1, InsideIsHeld DEF Held
      <4> QED BY <1>2, <1>5, <3>1, <4>2
    <3> QED BY <1>5, <3>1
  <2>2. \E q \in Bank : accept[q] > 0 \/ answer[q] # <<>>
    <3>1. PICK q \in Bank : Ripe(q)
      BY <1>13
    <3>2. answer[q] = <<due(q)>>
      BY <1>5, <3>1
    <3> QED BY <3>2
  <2>3. AbstractMem' = Abstract!DoCycle(AbstractMem, accept, answer)
    <3>1. in' = [q \in Bank |-> SubSeq(in[q], accept[q] + 1, Len(in[q]))]
      BY <1>1, <1>3, <1>8
    <3>2. out_resp_queues' = [q \in Bank |-> out_resp_queues[q] \o answer[q]]
      BY <1>3, <1>8
    <3>3. UNION {Range(SubSeq(in[q], 1, accept[q])) : q \in Bank} = {}
      BY <1>8
    <3>4. Inside' = (Inside \ UNION {Range(answer[q]) : q \in Bank})
            \cup {r \in UNION {Range(SubSeq(in[q], 1, accept[q])) : q \in Bank} : IsRead(r)}
      BY <1>12, <3>3 DEF given
    <3> QED BY <3>1, <3>2, <3>4, CycleFields
  <2> QED BY <1>6, <1>7, <2>1, <2>2, <2>3, CycleAllowed
<1>14. CASE ~ \E q \in Bank : Ripe(q)
  <2>1. out_resp_queues' = out_resp_queues
    BY <1>1, <1>3, <1>14 DEF Types, OutTypes
  <2>2. \A r \in Request : r \notin given
    BY <1>9, <1>14, BankType
  <2>3. Inside' = Inside
    BY <1>11, <2>2, InsideIsHeld, InsideIsHeldNext DEF Held
  <2> QED BY <1>1, <2>1, <2>3 DEF AbstractMem
<1> QED BY <1>13, <1>14

\* A bank that serves a request accepts it, unless the line array has no room.
LEMMA ServeAccepts ==
  ASSUME Inv, Inv', NEW p \in Bank, \/ ServeIdeal(p) \/ ServeWrite(p)
                                    \/ ServeHit(p) \/ ServeHitRes(p) \/ ServeMiss(p)
  PROVE  Abstract!Next
<1> USE DEF Inv
<1> DEFINE s == Oldest(p)
<1>1. Serve(p) /\ PopFront(p)
  BY DEF ServeIdeal, ServeWrite, ServeHit, ServeHitRes, ServeMiss
<1>2. /\ in_request_queues[p] # <<>> /\ s \in Request /\ s \in RequestsOf(p)
      /\ out_resp_queues' = out_resp_queues /\ BankOf(s) = p
  BY <1>1, ServeStep
<1>3. \/ s \in IsWrite /\ UNCHANGED <<delay_resp_queues, addr_to_req>>
      \/ s \in Read /\ Answer(p) /\ UNCHANGED addr_to_req
      \/ /\ s \in Read /\ UNCHANGED delay_resp_queues
         /\ addr_to_req' = [addr_to_req EXCEPT ![BlockOf[s]] = Append(@, s)]
  BY <1>2 DEF ServeIdeal, ServeWrite, ServeHit, ServeHitRes, ServeMiss, Read
<1> HIDE DEF s
<1>4. ASSUME NEW r \in Request
      PROVE  (AtBlock(r)' # 0 \/ InDelay(r)' # 0)
               <=> (AtBlock(r) # 0 \/ InDelay(r) # 0 \/ (r = s /\ r \in Read))
  <2>1. AtBlock(r) \in Nat /\ InDelay(r) \in Nat
    BY PlacesSum
  <2>2. CASE s \in IsWrite /\ UNCHANGED <<delay_resp_queues, addr_to_req>>
    <3>1. AtBlock(r)' = AtBlock(r) /\ InDelay(r)' = InDelay(r)
      BY <2>2, SameQueue
    <3> QED BY <2>2, <3>1 DEF Read
  <2>3. CASE s \in Read /\ Answer(p) /\ UNCHANGED addr_to_req
    <3>1. s \in ReadsOf(p)
      BY <1>2, <2>3 DEF ReadsOf
    <3>2. AtBlock(r)' = AtBlock(r) /\ InDelay(r)' = InDelay(r) + One(r, s)
      BY <2>3, <3>1, SameQueue, DelayAppend DEF Answer, s
    <3> QED BY <2>1, <2>3, <3>2 DEF One
  <2>4. CASE /\ s \in Read /\ UNCHANGED delay_resp_queues
             /\ addr_to_req' = [addr_to_req EXCEPT ![BlockOf[s]] = Append(@, s)]
    <3>1. AtBlock(r)' = AtBlock(r) + One(r, s) /\ InDelay(r)' = InDelay(r)
      BY <2>4, SameQueue, WaiterAppend
    <3> QED BY <2>1, <2>4, <3>1 DEF One
  <2> QED BY <1>3, <2>2, <2>3, <2>4
<1> QED BY <1>1, <1>2, <1>4, AcceptOne DEF s

\* The steps that only move blocks and lines, or let answers wait, are hidden.
LEMMA HiddenSteps ==
  ASSUME Inv, Inv', \/ MemSend \/ FromDramrespToResp \/ FromMissQToDram \/ EndCycle
                    \/ UNCHANGED vars \/ (\E i \in 1 .. DramSlots : MemComplete(i))
                    \/ (\E p \in Bank : ServeResfail(p))
  PROVE  AbstractMem' = AbstractMem
<1> USE DEF Inv
<1>1. CASE UNCHANGED <<queues, addr_to_req>>
  <2>1. UNCHANGED <<in_request_queues, delay_resp_queues, out_resp_queues, addr_to_req>>
    BY <1>1 DEF queues
  <2> QED BY <2>1 DEF AbstractMem, Inside, Waiting
<1>2. CASE MemSend
  <2>1. UNCHANGED <<in_request_queues, out_resp_queues, addr_to_req>>
    BY <1>2 DEF MemSend
  <2>2. ASSUME NEW r \in Request
        PROVE  /\ AtBlock(r)' + InDelay(r)' = AtBlock(r) + InDelay(r)
               /\ AtBlock(r)' \in Nat /\ InDelay(r)' \in Nat
    BY <1>2, <2>1, DelayTick, SameQueue, PlacesSum
  <2> QED BY <2>1, <2>2, MemoryStutters
<1>3. CASE FromDramrespToResp
  <2> DEFINE b == Head(dram_resp_queue)
  <2>1. UNCHANGED <<in_request_queues, out_resp_queues>>
    BY <1>3 DEF FromDramrespToResp
  <2>2. \/ UNCHANGED <<delay_resp_queues, addr_to_req>>
        \/ /\ b \in Block
           /\ delay_resp_queues' = [delay_resp_queues EXCEPT ![PartitionId(b)] =
                @ \o [i \in DOMAIN addr_to_req[b] |-> Delayed(addr_to_req[b][i])]]
           /\ addr_to_req' = [addr_to_req EXCEPT ![b] = <<>>]
    BY <1>3 DEF FromDramrespToResp
  <2>3. CASE UNCHANGED <<delay_resp_queues, addr_to_req>>
    BY <1>1, <2>1, <2>3 DEF queues
  <2> HIDE DEF b
  <2>4. CASE ~ UNCHANGED <<delay_resp_queues, addr_to_req>>
    <3>1. \A r \in Request : /\ AtBlock(r)' + InDelay(r)' = AtBlock(r) + InDelay(r)
                             /\ AtBlock(r)' \in Nat /\ InDelay(r)' \in Nat
      BY <2>2, <2>4, FillBlock
    <3> QED BY <2>1, <3>1, MemoryStutters
  <2> QED BY <2>3, <2>4
<1>4. CASE FromMissQToDram \/ EndCycle \/ UNCHANGED vars
  BY <1>1, <1>4 DEF FromMissQToDram, EndCycle, vars
<1>5. CASE \E i \in 1 .. DramSlots : MemComplete(i)
  BY <1>1, <1>5 DEF MemComplete
<1>6. CASE \E p \in Bank : ServeResfail(p)
  BY <1>1, <1>6 DEF ServeResfail, Serve, queues
<1> QED BY <1>2, <1>3, <1>4, <1>5, <1>6

\* acc's hooks put a request into the memory and take an answer from it.
LEMMA HooksArrive ==
  ASSUME Inv, NEW r \in Request, Arrive(r)
  PROVE  Abstract!Next
<1>1. /\ in_request_queues' = [in_request_queues EXCEPT ![BankOf(r)] = Append(@, r)]
      /\ UNCHANGED <<delay_resp_queues, out_resp_queues, addr_to_req>>
  BY DEF Arrive, BankOf
<1>2. Inside' = Inside
  BY <1>1 DEF Inside, Waiting
<1>3. AbstractMem' = [AbstractMem EXCEPT !.in_request_queues[BankOf(r)] = Append(@, r)]
  BY <1>1, <1>2 DEF AbstractMem
<1>4. Abstract!Arrive(r)
  BY <1>3 DEF Abstract!Arrive, AbstractMem, Inside
<1> QED BY <1>4 DEF Abstract!Next

LEMMA HooksDepart ==
  ASSUME Inv, NEW p \in Bank, Depart(p)
  PROVE  Abstract!Next
<1>1. /\ out_resp_queues' = [out_resp_queues EXCEPT ![p] = Tail(@)] /\ out_resp_queues[p] # <<>>
      /\ UNCHANGED <<delay_resp_queues, in_request_queues, addr_to_req>>
  BY DEF Depart
<1>2. Inside' = Inside
  BY <1>1 DEF Inside, Waiting
<1>3. /\ AbstractMem.out_resp_queues[p] # <<>>
      /\ AbstractMem' = [AbstractMem EXCEPT !.out_resp_queues[p] = Tail(@)]
  <2>1. AbstractMem.out_resp_queues = out_resp_queues
    BY DEF AbstractMem
  <2>2. AbstractMem' = [in_request_queues |-> in_request_queues, inside |-> Inside,
                        out_resp_queues |-> [out_resp_queues EXCEPT ![p] = Tail(@)]]
    BY <1>1, <1>2 DEF AbstractMem
  <2>3. [AbstractMem EXCEPT !.out_resp_queues[p] = Tail(@)]
          = [in_request_queues |-> in_request_queues, inside |-> Inside,
             out_resp_queues |-> [out_resp_queues EXCEPT ![p] = Tail(@)]]
    <3> DEFINE x == [out_resp_queues EXCEPT ![p] = Tail(@)]
    <3>1. [AbstractMem.out_resp_queues EXCEPT ![p] = Tail(@)] = x
      BY <2>1, Zenon
    <3> HIDE DEF x
    <3>2. [AbstractMem EXCEPT !.out_resp_queues = x]
            = [in_request_queues |-> in_request_queues, inside |-> Inside, out_resp_queues |-> x]
      BY DEF AbstractMem
    <3> QED BY <3>1, <3>2 DEF x
  <2> QED BY <1>1, <2>1, <2>2, <2>3
<1>4. Abstract!Depart(p)
  BY <1>3 DEF Abstract!Depart, AbstractMem, Inside
<1> QED BY <1>4 DEF Abstract!Next, Abstract!Bank, Bank

\* The banks, the lines with their waiting reads, the miss queue and the DRAM
\* implement the memory on which acc and seq_pipeline rely: a read is accepted
\* once, in the order of its bank, and answered once, by its bank, after it was
\* accepted; no write is answered.  It holds for any capacity of any queue, with
\* the real and the ideal DRAM, and with the real and the ideal cache.
THEOREM CacheRefines == Spec => MemorySpec
<1>1. Init => Abstract!Init
  <2> SUFFICES ASSUME Init PROVE Abstract!Init
    OBVIOUS
  <2>1. Inside = {}
    <3>1. Range(<<>>) = {}
      BY DEF Range
    <3> QED BY <3>1 DEF Init, Inside, Waiting
  <2> QED BY <2>1 DEF Init, Abstract!Init, Abstract!NewMemory, Abstract!Bank, Bank, Inside
<1>2. Inv /\ Inv' /\ [Next]_vars => Abstract!Next \/ AbstractMem' = AbstractMem
  <2> SUFFICES ASSUME Inv, Inv', [Next]_vars
               PROVE  Abstract!Next \/ AbstractMem' = AbstractMem
    OBVIOUS
  <2>1. CASE \E r \in Request : Arrive(r)
    BY <2>1, HooksArrive
  <2>2. CASE \E p \in Bank : Depart(p)
    BY <2>2, HooksDepart
  <2>3. CASE FromDelayrespToOut
    BY <2>3, AnswerSome
  <2>4. CASE \E p \in Bank : \/ ServeIdeal(p) \/ ServeWrite(p)
                             \/ ServeHit(p) \/ ServeHitRes(p) \/ ServeMiss(p)
    BY <2>4, ServeAccepts
  <2>5. CASE \/ MemSend \/ FromDramrespToResp \/ FromMissQToDram \/ EndCycle
             \/ UNCHANGED vars \/ (\E i \in 1 .. DramSlots : MemComplete(i))
             \/ (\E p \in Bank : ServeResfail(p))
    BY <2>5, HiddenSteps
  <2> QED BY <2>1, <2>2, <2>3, <2>4, <2>5 DEF Next, CycleStep
<1>3. Inv /\ Inv' /\ [Next]_vars => [Abstract!Next]_AbstractMem
  BY <1>2
<1>4. Spec => Abstract!Init /\ [][Abstract!Next]_AbstractMem
  BY <1>1, <1>3, InitInv, NextInv, PTL DEF Spec
<1> QED BY <1>4, PTL DEF MemorySpec, Abstract!Spec, AbstractMem, Inside

=============================================================================
