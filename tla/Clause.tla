------------------------------- MODULE Clause --------------------------------
(*****************************************************************************)
(* One clause unit between acc's hooks, the L3 path (answers in any order)   *)
(* and the private cache (answers in the order of the requests).             *)
(*****************************************************************************)
EXTENDS ClauseUnit

CONSTANT private_size   \* private_cache::in_size

ASSUME PrivateCacheAssumption == private_size \in Nat \ {0}

-----------------------------------------------------------------------------
VARIABLES
  clause,
  l3,         \* requests on the L3 path
  pcache,     \* requests in the private cache, oldest first
  todo,       \* clauses the watchers have not sent yet
  produced,   \* history: new assignments taken from out_queue
  written     \* history: clause writes taken from out_clause_write_queue

vars == <<clause, l3, pcache, todo, produced, written>>

Task(w) == [as |-> w[1], watcherId |-> w[2], clauseId |-> 0, type |-> "ReadWatcherValue"]

Init == /\ clause = NewClause
        /\ l3 = {} /\ pcache = <<>>
        /\ todo = Watched
        /\ produced = <<>> /\ written = {}

\* acc's hook watcher_icnt_out: it does not ask recieve_rdy().
WatcherToClause(w) ==
  /\ w \in todo
  /\ clause' = PushTask(clause, Task(w))
  /\ todo' = todo \ {w}
  /\ UNCHANGED <<l3, pcache, produced, written>>

\* acc's hook clause_to_mem
ClauseToMemory ==
  /\ clause.out_memory_read_queue # <<>>
  /\ LET req == Head(clause.out_memory_read_queue)
     IN  IF req.type = "ReadClauseData"
         THEN l3' = l3 \cup {req} /\ UNCHANGED pcache
         ELSE /\ Len(pcache) < private_size
              /\ pcache' = Append(pcache, req)
              /\ UNCHANGED l3
  /\ clause' = PopRead(clause)
  /\ UNCHANGED <<todo, produced, written>>

\* acc's hook icnt_to_other
MemoryToClause(req) ==
  /\ req \in l3
  /\ l3' = l3 \ {req}
  /\ clause' = PushResp(clause, req)
  /\ UNCHANGED <<pcache, todo, produced, written>>

\* acc's hook private_cache
PrivateCacheToClause ==
  /\ pcache # <<>>
  /\ pcache' = Tail(pcache)
  /\ clause' = PushResp(clause, Head(pcache))
  /\ UNCHANGED <<l3, todo, produced, written>>

\* acc's hook clause_to_trail
ClauseToTrail ==
  /\ clause.out_queue # <<>>
  /\ produced' = Append(produced, Head(clause.out_queue).as)
  /\ clause' = [clause EXCEPT !.out_queue = Tail(@)]
  /\ UNCHANGED <<l3, pcache, todo, written>>

\* acc's hook clause_to_writeuint
ClauseToWriteUnit ==
  /\ clause.out_clause_write_queue # <<>>
  /\ written' = written \cup {Head(clause.out_clause_write_queue)}
  /\ clause' = [clause EXCEPT !.out_clause_write_queue = Tail(@)]
  /\ UNCHANGED <<l3, pcache, todo, produced>>

Cycle ==
  /\ clause' = DoCycle(clause)
  /\ UNCHANGED <<l3, pcache, todo, produced, written>>

Next ==
  \/ \E w \in Watched : WatcherToClause(w)
  \/ \E req \in l3 : MemoryToClause(req)
  \/ ClauseToMemory \/ PrivateCacheToClause
  \/ ClauseToTrail \/ ClauseToWriteUnit \/ Cycle

\* acc::do_cycle runs every hook and every component in each cycle; the memory
\* answers every read it is given.
Fairness ==
  /\ WF_vars(Cycle)
  /\ WF_vars(\E w \in Watched : WatcherToClause(w))
  /\ WF_vars(ClauseToMemory)
  /\ WF_vars(\E req \in l3 : MemoryToClause(req))
  /\ WF_vars(PrivateCacheToClause)
  /\ WF_vars(ClauseToTrail)
  /\ WF_vars(ClauseToWriteUnit)

Spec == Init /\ [][Next]_vars
FairSpec == Spec /\ Fairness

-----------------------------------------------------------------------------
(* Properties *)

AccessType == {"ReadWatcherMetaData", "ReadWatcherValue", "ReadClauseData", "ReadClauseValue"}
Request == UNION {[as : {w[1]}, watcherId : {w[2]},
                   clauseId : 0 .. get_clause_literal[w] - 1, type : AccessType] : w \in Watched}
NewTask == [as : Assign, watcherId : {0}, clauseId : {0}, type : {"ReadWatcherMetaData"}]

\* Every request in every queue names a literal that exists; a clause that is
\* read in lines of LineSize never leaves an index behind its end.
TypeOK ==
  /\ clause \in [in_task_queue : Seq(Request),
                 clause_data_read_waiting_queue : Seq(Request),
                 clause_value_read_waiting_queue : Seq(Request),
                 clause_process_waiting_queue : Seq(Request),
                 out_memory_read_queue : Seq(Request), in_memory_resp_queue : Seq(Request),
                 out_queue : Seq(NewTask), out_clause_write_queue : Seq(Request),
                 on_going_requests : Int, current_inflight_request : Int]
  /\ l3 \subseteq Request /\ pcache \in Seq(Request)
  /\ todo \subseteq Watched
  /\ produced \in Seq(Assign) /\ written \subseteq Request

\* on_going_requests counts the reads the memory has and has not answered:
\* push_to_in_memory_resp_queue throws if it ever goes below zero.
OngoingExact == clause.on_going_requests = Cardinality(l3) + Len(pcache)

Outstanding(type) ==
  {req \in Range(clause.out_memory_read_queue) \cup l3 \cup Range(pcache)
            \cup Range(clause.in_memory_resp_queue) : req.type = type}

Writes == written \cup Range(clause.out_clause_write_queue)
Done(w) == \E req \in Writes : ClauseOf(req) = w
Started(w) == w \notin todo /\ \A i \in DOMAIN clause.in_task_queue :
                                  ClauseOf(clause.in_task_queue[i]) # w

\* current_inflight_request is the number of clauses inside the unit.
InflightExact ==
  clause.current_inflight_request = Cardinality({w \in Watched : Started(w) /\ ~ Done(w)})

\* A clause is examined only when the values of all its literals are back.
ProcessAfterValues ==
  \A i \in DOMAIN clause.clause_process_waiting_queue :
    \A req \in Outstanding("ReadClauseValue") :
       ClauseOf(req) # ClauseOf(clause.clause_process_waiting_queue[i])

\* How often an element occurs in a sequence
Occurs(e, seq) == Cardinality({i \in DOMAIN seq : seq[i] = e})

\* A clause is written back at most once, with the index of its last literal,
\* and each clause that is written back yields its new assignment exactly once.
ClausesOnce ==
  /\ IsInjective(clause.out_clause_write_queue)
  /\ written \cap Range(clause.out_clause_write_queue) = {}
  /\ \A req \in Writes : req.clauseId = Size(req) - 1
  /\ \A a \in Assign :
       Occurs(a, produced) + Cardinality({i \in DOMAIN clause.out_queue : clause.out_queue[i].as = a})
         = Cardinality({w \in Watched : get_generated[w] = a /\ Done(w)})

\* Every clause sent to the unit is examined and written back, and then the
\* unit is empty and counts nothing under way.
EveryClauseIsDone ==
  <>[](/\ todo = {} /\ IsEmpty(clause)
       /\ clause.on_going_requests = 0 /\ clause.current_inflight_request = 0
       /\ \A w \in Watched : \E req \in written : ClauseOf(req) = w)

\* The comment in mem_in_to_comp says of the second branch "type is value
\* read".  A data answer that finds the value queue full takes that branch.
ValueBranchSeesValues ==
  TakesValueBranch(BeforeMemIn(clause))
    => Head(clause.in_memory_resp_queue).type = "ReadClauseValue"
=============================================================================
