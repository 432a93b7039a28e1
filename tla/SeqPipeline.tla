------------------------------ MODULE SeqPipeline ------------------------------
(***************************************************************************)
(* seq_pipeline: the sequential reference for the accelerator.  get() takes *)
(* one assignment after the other and one watcher after the other; it sends *)
(* a read to the L3 cache, runs the cache until there is an answer, and     *)
(* takes the answer for the one it waits for without looking at it.  Writes *)
(* are sent and given two cycles.  The number of cycles that get() returns  *)
(* is a statistic and left out.                                             *)
(***************************************************************************)
EXTENDS Integers, Sequences, SequencesExt

CONSTANTS
  Assign, get_watcher_size, get_pushed, NotPushed,
  is_read_clause, get_generated, Nothing,
  Tasks          \* what the caller pushes, in any order, one task for each get()

ASSUME SeqAssumption ==
  /\ get_watcher_size \in [Assign -> Nat]
  /\ is_read_clause \subseteq Assign \X Nat
  /\ get_generated \in [is_read_clause -> Assign \cup {Nothing}]
  /\ Nothing \notin Assign
  /\ Tasks \subseteq Assign

\* The trace is the log of a run of the solver: a clause is read for a watcher of
\* the list, and an assignment enters the trail once, pushed by the solver or
\* generated by one clause.
ASSUME TraceAssumption ==
  /\ \A c \in is_read_clause : c[2] < get_watcher_size[c[1]]
  /\ \A c \in is_read_clause : get_generated[c] \notin Tasks
  /\ \A c, d \in is_read_clause :
       get_generated[c] = get_generated[d] /\ get_generated[c] # Nothing => c = d

AccessType == {"ReadWatcherMetaData", "ReadWatcherData", "ReadClauseData",
               "ReadOtherWatcherList", "WriteWatcherList"}
Request == [as : Assign, watcherId : Nat, type : AccessType]
IsRead(req) == req.type # "WriteWatcherList"
BankOf(req) == 0

VARIABLES
  in_reqs,              \* tasks not yet taken
  empty,                \* no push() since the last get()
  m_cache_interface,    \* the L3 cache and the DRAM, seen as Memory
  pc,                   \* outside of get(), at the head of one of its two loops,
                        \*   waiting for the answer to a read, or writing
  out_req,              \* the list that is worked on and the place in it
  sent,                 \* the last request given to the cache
  written,              \* cycles since the last write
  tasks,                \* what the caller has still to push
  started, examined     \* history: see Propagation

queues == <<in_reqs, empty, tasks>>
history == <<started, examined>>
vars == <<in_reqs, empty, m_cache_interface, pc, out_req, sent, written, tasks,
          started, examined>>

L3 == INSTANCE Memory WITH n_partition <- 1, num_ports <- 1, mem <- m_cache_interface

NoReq == [as |-> Nothing, watcherId |-> 0, type |-> "ReadWatcherMetaData"]
Task(a) == [as |-> a, watcherId |-> 0, type |-> "ReadWatcherMetaData"]
Answered == m_cache_interface.out_resp_queues[0] # <<>>
Answer == Head(m_cache_interface.out_resp_queues[0])

\* The cache without its oldest answer, and a cache that is given a request
WithoutAnswer(m) == [m EXCEPT !.out_resp_queues[0] = Tail(@)]
Given(m, req) == [m EXCEPT !.in_request_queues[0] = Append(@, req)]

\* req is given to the cache m, as a request of the given type.
Send(m, req, type) ==
  /\ sent' = [req EXCEPT !.type = type]
  /\ m_cache_interface' = Given(m, sent')

Init ==
  /\ in_reqs = <<>> /\ empty = TRUE /\ tasks = Tasks
  /\ m_cache_interface = L3!NewMemory
  /\ pc = "outside" /\ out_req = NoReq /\ sent = NoReq /\ written = 0
  /\ started = {} /\ examined = [c \in is_read_clause |-> 0]

-----------------------------------------------------------------------------
(* push(), and the calls of get() around it: push() asserts empty, get()    *)
(* asserts that something was pushed.                                       *)

Push ==
  /\ pc = "outside" /\ empty
  /\ \E a \in tasks : /\ in_reqs' = Append(in_reqs, Task(a))
                      /\ tasks' = tasks \ {a}
  /\ empty' = FALSE
  /\ UNCHANGED <<m_cache_interface, pc, out_req, sent, written, history>>

Get ==
  /\ pc = "outside" /\ ~ empty
  /\ empty' = TRUE
  /\ pc' = "trail"
  /\ UNCHANGED <<in_reqs, m_cache_interface, out_req, sent, written, tasks, history>>

-----------------------------------------------------------------------------
(* The outer loop of get()                                                  *)

Return ==
  /\ pc = "trail" /\ in_reqs = <<>>
  /\ pc' = "outside"
  /\ UNCHANGED <<queues, m_cache_interface, out_req, sent, written, history>>

\* An empty list is done with; of any other one the meta data are read.
TakeTask ==
  /\ pc = "trail" /\ in_reqs # <<>>
  /\ in_reqs' = Tail(in_reqs)
  /\ started' = started \cup {Head(in_reqs).as}
  /\ IF get_watcher_size[Head(in_reqs).as] = 0
     THEN UNCHANGED <<pc, sent, m_cache_interface>>
     ELSE /\ Send(m_cache_interface, [Head(in_reqs) EXCEPT !.watcherId = 0],
                  "ReadWatcherMetaData")
          /\ pc' = "meta"
  /\ UNCHANGED <<empty, out_req, written, tasks, examined>>

\* while (out_resp_queues[0].empty()) cycle(): the cycles in which the cache does
\* something
WaitForAnswer ==
  /\ pc \in {"meta", "data", "clause", "other"} /\ ~ Answered
  /\ \E c \in L3!Moves(m_cache_interface) :
       m_cache_interface' = L3!DoCycle(m_cache_interface, c.accept, c.answer)
  /\ UNCHANGED <<queues, pc, out_req, sent, written, history>>

TakeMeta ==
  /\ pc = "meta" /\ Answered
  /\ out_req' = Answer
  /\ m_cache_interface' = WithoutAnswer(m_cache_interface)
  /\ pc' = "list"
  /\ UNCHANGED <<queues, sent, written, history>>

-----------------------------------------------------------------------------
(* The inner loop: the watchers of the list                                 *)

\* Mutants: the last watcher is left out; the test comes one too late.
LastWatcher(req) == req.watcherId + 1 = get_watcher_size[req.as]
PastEnd(req) == req.watcherId = get_watcher_size[req.as] + 1

EndOfList(req) == req.watcherId = get_watcher_size[req.as]

ListDone ==
  /\ pc = "list" /\ EndOfList(out_req)
  /\ pc' = "trail"
  /\ UNCHANGED <<queues, m_cache_interface, out_req, sent, written, history>>

ReadWatcher ==
  /\ pc = "list" /\ ~ EndOfList(out_req)
  /\ Send(m_cache_interface, out_req, "ReadWatcherData")
  /\ pc' = "data"
  /\ UNCHANGED <<queues, out_req, written, history>>

\* out_req->watcherId++
NextWatcher == out_req' = [out_req EXCEPT !.watcherId = @ + 1]

\* A watcher whose clause need not be read is done with.
TakeWatcher ==
  /\ pc = "data" /\ Answered
  /\ LET rest == WithoutAnswer(m_cache_interface)
     IN  IF <<Answer.as, out_req.watcherId>> \in is_read_clause
         THEN /\ Send(rest, Answer, "ReadClauseData")
              /\ pc' = "clause"
              /\ UNCHANGED out_req
         ELSE /\ m_cache_interface' = rest
              /\ NextWatcher
              /\ pc' = "list"
              /\ UNCHANGED sent
  /\ UNCHANGED <<queues, written, history>>

\* Mutants: the write is sent as the read it answers; its answer is waited for.
WriteAsRead(m, req) == Send(m, req, req.type) /\ written' = 0 /\ pc' = "write"

WriteAndWait(m, req) == Send(m, req, "WriteWatcherList") /\ written' = 0 /\ pc' = "other"

\* A list is written back.
Write(m, req) == Send(m, req, "WriteWatcherList") /\ written' = 0 /\ pc' = "write"

\* Mutant: the new assignment is pushed for every clause of the list.
GeneratedOf(clause) ==
  LET all == {get_generated[c] : c \in {x \in is_read_clause : x[1] = clause[1]}} \ {Nothing}
  IN  IF all = {} THEN <<>> ELSE <<Task(CHOOSE a \in all : TRUE)>>

\* The task of a clause that has become unit
NewTask(clause) ==
  IF get_generated[clause] = Nothing THEN <<>> ELSE <<Task(get_generated[clause])>>

\* The clause is examined.  A watcher that moves makes the meta data of the
\* other list be read first.
TakeClause ==
  /\ pc = "clause" /\ Answered
  /\ LET clause == <<Answer.as, Answer.watcherId>>
         rest   == WithoutAnswer(m_cache_interface)
     IN  /\ in_reqs' = in_reqs \o NewTask(clause)
         /\ examined' = [examined EXCEPT ![clause] = @ + 1]
         /\ IF get_pushed[clause] # NotPushed
            THEN /\ Send(rest, Answer, "ReadOtherWatcherList")
                 /\ pc' = "other"
                 /\ UNCHANGED written
            ELSE Write(rest, Answer)
  /\ UNCHANGED <<empty, tasks, out_req, started>>

TakeOther ==
  /\ pc = "other" /\ Answered
  /\ Write(WithoutAnswer(m_cache_interface), Answer)
  /\ UNCHANGED <<queues, out_req, history>>

\* Two cycles after a write, whatever the cache makes of them
WriteCycle ==
  /\ pc = "write" /\ written < 2
  /\ \E c \in L3!Cycles(m_cache_interface) :
       m_cache_interface' = L3!DoCycle(m_cache_interface, c.accept, c.answer)
  /\ written' = written + 1
  /\ UNCHANGED <<queues, pc, out_req, sent, history>>

WriteDone ==
  /\ pc = "write" /\ written = 2
  /\ NextWatcher
  /\ pc' = "list"
  /\ UNCHANGED <<queues, m_cache_interface, sent, written, history>>

Next == \/ Push \/ Get \/ Return \/ TakeTask \/ WaitForAnswer \/ TakeMeta
        \/ ListDone \/ ReadWatcher \/ TakeWatcher \/ TakeClause \/ TakeOther
        \/ WriteCycle \/ WriteDone

Spec == Init /\ [][Next]_vars

\* One thread runs, and a cache that has something to do does it sooner or later.
FairSpec == Spec /\ WF_vars(Next)

-----------------------------------------------------------------------------
(* Properties *)

\* The requests in the cache
InCache ==
  m_cache_interface.inside
  \cup Range(m_cache_interface.in_request_queues[0] \o m_cache_interface.out_resp_queues[0])

\* Every request names an existing watcher, and the place in the current list
\* never passes its end (the loop tests for equality).
TypeOK ==
  /\ pc \in {"outside", "trail", "meta", "list", "data", "clause", "other", "write"}
  /\ written \in 0 .. 2
  /\ InCache \subseteq Request
  /\ \A req \in InCache : req.watcherId < get_watcher_size[req.as]
  /\ out_req # NoReq => out_req.watcherId <= get_watcher_size[out_req.as]

\* get() does not look at the answer it takes: it is right only because the one
\* read in the cache, if any, is the one it has just sent.  An answer left over
\* from a write, or from an earlier get(), would be taken for another one.
AnswerIsForRead ==
  {req \in InCache : IsRead(req)} =
    IF pc \in {"meta", "data", "clause", "other"} THEN {sent} ELSE {}

\* The pipeline implements propagation, like the accelerator it is compared with.
Engine == INSTANCE Propagation WITH trail <- {req.as : req \in Range(in_reqs)}
PropagationSpec == Engine!Spec

\* One assignment at a time: clauses are left to be examined only for the list
\* that is worked on, and none is left when get() returns.
OneListAtATime ==
  /\ {c[1] : c \in Engine!Work} \subseteq
       CASE pc = "meta" -> {sent.as}
         [] pc \in {"list", "data", "clause", "other", "write"} -> {out_req.as}
         [] pc \in {"outside", "trail"} -> {}
  /\ pc = "outside" /\ empty => in_reqs = <<>>

\* Every get() returns, and so everything that is pushed is propagated.
GetReturns == <>[](pc = "outside" /\ tasks = {} /\ in_reqs = <<>>)
=============================================================================
