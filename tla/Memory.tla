-------------------------------- MODULE Memory --------------------------------
(***************************************************************************)
(* What the rest of the accelerator may rely on from the L3 cache and the  *)
(* DRAM behind it, with no lines, no miss queue and no delays.  Requests   *)
(* reach a bank in order; a read that was accepted is answered once, by    *)
(* its bank, and any read may overtake any other; a write is accepted and  *)
(* never answered.  In a cycle a bank accepts a few requests and gives at  *)
(* most one answer, never the answer to a read it accepts in that cycle.   *)
(*                                                                         *)
(* The memory is one record.  CacheInterface implements this               *)
(* specification; Acc and SeqPipeline use its operators.                   *)
(***************************************************************************)
EXTENDS Integers, Sequences, SequencesExt

CONSTANTS
  Request,
  n_partition,     \* banks
  num_ports,       \* requests a bank accepts in one cycle
  IsRead(_),       \* the requests that are answered
  BankOf(_)        \* the bank of a request

Bank == 0 .. n_partition - 1

NewMemory ==
  [in_request_queues |-> [p \in Bank |-> <<>>],
   inside            |-> {},                      \* reads without an answer
   out_resp_queues   |-> [p \in Bank |-> <<>>]]

IsEmpty(m) ==
  /\ m.inside = {}
  /\ \A p \in Bank : m.in_request_queues[p] = <<>> /\ m.out_resp_queues[p] = <<>>

\* What bank p may answer in a cycle: nothing, or one read.
Answers(m, p) == {<<>>} \cup {<<r>> : r \in {x \in m.inside : BankOf(x) = p}}

\* What bank p may accept in a cycle: none or a few of its oldest requests.
Accepts(m, p) ==
  {n \in 0 .. num_ports : n <= Len(m.in_request_queues[p])}

\* One cycle: bank p accepts accept[p] requests and answers answer[p].
DoCycle(m, accept, answer) ==
  LET taken == UNION {Range(SubSeq(m.in_request_queues[p], 1, accept[p])) : p \in Bank}
      given == UNION {Range(answer[p]) : p \in Bank}
  IN  [in_request_queues |->
         [p \in Bank |-> SubSeq(m.in_request_queues[p], accept[p] + 1,
                                Len(m.in_request_queues[p]))],
       inside |-> (m.inside \ given) \cup {r \in taken : IsRead(r)},
       out_resp_queues |-> [p \in Bank |-> m.out_resp_queues[p] \o answer[p]]]

\* The cycles a memory m may make
Cycles(m) ==
  [accept : {f \in [Bank -> 0 .. num_ports] : \A p \in Bank : f[p] \in Accepts(m, p)},
   answer : {f \in [Bank -> UNION {Answers(m, p) : p \in Bank}] :
               \A p \in Bank : f[p] \in Answers(m, p)}]

\* The cycles in which the memory does something
Moves(m) == {c \in Cycles(m) : \E p \in Bank : c.accept[p] > 0 \/ c.answer[p] # <<>>}

-----------------------------------------------------------------------------
VARIABLE mem

Init == mem = NewMemory

Arrive(r) ==
  mem' = [mem EXCEPT !.in_request_queues[BankOf(r)] = Append(@, r)]

Depart(p) ==
  /\ mem.out_resp_queues[p] # <<>>
  /\ mem' = [mem EXCEPT !.out_resp_queues[p] = Tail(@)]

Cycle == \E c \in Moves(mem) : mem' = DoCycle(mem, c.accept, c.answer)

Next == \/ \E r \in Request : Arrive(r)
        \/ \E p \in Bank : Depart(p)
        \/ Cycle

Spec == Init /\ [][Next]_mem
=============================================================================
