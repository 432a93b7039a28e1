------------------------------ MODULE Watcher --------------------------------
(*****************************************************************************)
(* One watcher between its neighbours: acc's hooks, the L3 path (network,    *)
(* cache and DRAM: answers in any order) and the private cache (answers in   *)
(* the order of the requests).                                               *)
(*****************************************************************************)
EXTENDS WatcherUnit

CONSTANT private_size   \* private_cache::in_size

ASSUME PrivateCacheAssumption == private_size \in Nat \ {0}

-----------------------------------------------------------------------------
VARIABLES
  watcher,
  l3,        \* requests on the L3 path
  pcache,    \* requests in the private cache, oldest first
  trail,     \* assignments that have not reached the watcher yet
  sent,      \* history: clause tasks taken from out_send_queue
  written    \* history: list writes taken from out_write_watcher_list_queue

vars == <<watcher, l3, pcache, trail, sent, written>>

Task(a) == [as |-> a, watcherId |-> 0, clauseId |-> 0, type |-> "ReadWatcherMetaData"]

Init == /\ watcher = NewWatcher
        /\ l3 = {} /\ pcache = <<>>
        /\ trail = Assign
        /\ sent = {} /\ written = {}

\* acc's hook trail_to_watcher
TrailToWatcher(a) ==
  /\ a \in trail
  /\ RecieveRdy(watcher)
  /\ watcher' = [watcher EXCEPT !.in_task_queue = Append(@, Task(a))]
  /\ trail' = trail \ {a}
  /\ UNCHANGED <<l3, pcache, sent, written>>

\* acc's hook watcher_out, the part for memory reads: values go to the private
\* cache, everything else to the L3 path.
WatcherToMemory ==
  /\ watcher.out_memory_read_queue # <<>>
  /\ LET req == Head(watcher.out_memory_read_queue)
     IN  IF req.type = "ReadWatcherValue"
         THEN /\ Len(pcache) < private_size
              /\ pcache' = Append(pcache, req)
              /\ UNCHANGED l3
         ELSE /\ l3' = l3 \cup {req}
              /\ UNCHANGED pcache
  /\ watcher' = [watcher EXCEPT !.out_memory_read_queue = Tail(@)]
  /\ UNCHANGED <<trail, sent, written>>

\* acc's hook icnt_to_other
MemoryToWatcher(req) ==
  /\ req \in l3
  /\ RecieveMemRdy(watcher)
  /\ l3' = l3 \ {req}
  /\ watcher' = [watcher EXCEPT !.in_memory_resp_queue = Append(@, req)]
  /\ UNCHANGED <<pcache, trail, sent, written>>

\* acc's hook private_cache: it does not ask recieve_mem_rdy().
PrivateCacheToWatcher ==
  /\ pcache # <<>>
  /\ pcache' = Tail(pcache)
  /\ watcher' = [watcher EXCEPT !.in_memory_resp_queue = Append(@, Head(pcache))]
  /\ UNCHANGED <<l3, trail, sent, written>>

\* acc's hook watcher_out, the part for clause tasks
WatcherToClause ==
  /\ watcher.out_send_queue # <<>>
  /\ sent' = sent \cup {Head(watcher.out_send_queue)}
  /\ watcher' = [watcher EXCEPT !.out_send_queue = Tail(@)]
  /\ UNCHANGED <<l3, pcache, trail, written>>

\* acc's hook watcher_to_writeuint
WatcherToWriteUnit ==
  /\ watcher.out_write_watcher_list_queue # <<>>
  /\ written' = written \cup {Head(watcher.out_write_watcher_list_queue)}
  /\ watcher' = [watcher EXCEPT !.out_write_watcher_list_queue = Tail(@)]
  /\ UNCHANGED <<l3, pcache, trail, sent>>

Cycle ==
  /\ watcher' = DoCycle(watcher)
  /\ UNCHANGED <<l3, pcache, trail, sent, written>>

Next ==
  \/ \E a \in Assign : TrailToWatcher(a)
  \/ \E req \in l3 : MemoryToWatcher(req)
  \/ WatcherToMemory \/ PrivateCacheToWatcher
  \/ WatcherToClause \/ WatcherToWriteUnit \/ Cycle

\* acc::do_cycle runs every hook and every component in each cycle; the memory
\* answers every read it is given, as long as the answers are taken.
Fairness ==
  /\ WF_vars(Cycle)
  /\ WF_vars(\E a \in Assign : TrailToWatcher(a))
  /\ WF_vars(WatcherToMemory)
  /\ WF_vars(\E req \in l3 : MemoryToWatcher(req))
  /\ WF_vars(PrivateCacheToWatcher)
  /\ WF_vars(WatcherToClause)
  /\ WF_vars(WatcherToWriteUnit)

Spec == Init /\ [][Next]_vars
FairSpec == Spec /\ Fairness

-----------------------------------------------------------------------------
(* Properties *)

ReadType == {"ReadWatcherMetaData", "ReadWatcherData", "ReadWatcherValue"}

\* A request names a watcher of its list, or index 0 of an empty list.
Index(a) == 0 .. (IF get_watcher_size[a] > 0 THEN get_watcher_size[a] - 1 ELSE 0)
Request == UNION {[as : {a}, watcherId : Index(a), clauseId : {0}, type : ReadType] : a \in Assign}

\* Every request in every queue names a watcher that exists; a list that is
\* read in lines of LineSize never leaves an index behind its end.
TypeOK ==
  /\ watcher \in [in_task_queue : Seq(Request), waiting_read_meta_queue : Seq(Request),
                  waiting_read_watcher_queue : Seq(Request),
                  waiting_value_watcher_queue : Seq(Request),
                  waiting_process_queue : Seq(Request),
                  out_memory_read_queue : Seq(Request), in_memory_resp_queue : Seq(Request),
                  out_send_queue : Seq(Request), out_write_watcher_list_queue : Seq(Request),
                  outgoing_read_watcher_data : Int, outgoing_read_watcher_value : Int,
                  num_inflight_request : Int]
  /\ l3 \subseteq Request /\ pcache \in Seq(Request)
  /\ trail \subseteq Assign
  /\ sent \subseteq Request /\ written \subseteq Request

\* The reads of one type that have been sent and not yet consumed.
Outstanding(type) ==
  {req \in Range(watcher.out_memory_read_queue) \cup l3 \cup Range(pcache)
            \cup Range(watcher.in_memory_resp_queue) : req.type = type}

Waiting == watcher.waiting_read_meta_queue \o watcher.waiting_read_watcher_queue
           \o watcher.waiting_value_watcher_queue \o watcher.waiting_process_queue

\* The counters of outgoing reads count the reads under way: every read is
\* answered once, and none is sent twice.  The asserts in from_resp_to_insider
\* only say that they do not fall below zero.
OutgoingCountsExact ==
  /\ watcher.outgoing_read_watcher_data = Cardinality(Outstanding("ReadWatcherData"))
  /\ watcher.outgoing_read_watcher_value = Cardinality(Outstanding("ReadWatcherValue"))

\* "waiting_value_watcher_queue only contain each assign once": no list waits
\* in two places, in one queue or in two.
EachAssignOnce ==
  \A i, j \in DOMAIN Waiting : Waiting[i].as = Waiting[j].as => i = j

\* The watchers of list a whose write, or whose clause, has left the process
\* stage, whether or not the hook has taken it yet.
Written(a) == {req.watcherId : req \in
  {r \in written \cup Range(watcher.out_write_watcher_list_queue) : r.as = a}}
Sent(a) == {req.watcherId : req \in
  {r \in sent \cup Range(watcher.out_send_queue) : r.as = a}}

Started(a) == a \notin trail /\ \A i \in DOMAIN watcher.in_task_queue :
                                 watcher.in_task_queue[i].as # a
Retired(a) ==
  IF get_watcher_size[a] > 0
  THEN get_watcher_size[a] - 1 \in Written(a)
  ELSE \A req \in Range(Waiting) \cup UNION {Outstanding(t) : t \in ReadType} : req.as # a

\* num_inflight_request is the number of lists inside the unit: it is raised
\* and lowered in three different steps, and the last one differs for a list
\* of length zero.
InflightExact ==
  watcher.num_inflight_request =
    Cardinality({a \in Assign : Started(a) /\ ~ Retired(a)})

\* A list is processed only when the values of all its watchers are back.
ProcessAfterValues ==
  \A i \in DOMAIN watcher.waiting_process_queue :
    \A req \in Outstanding("ReadWatcherValue") :
       req.as # watcher.waiting_process_queue[i].as

\* Each watcher of a list is written once, its clause is sent once if it has
\* to be read and never otherwise, and a retired list has none left.
WatchersOnce ==
  /\ IsInjective(watcher.out_write_watcher_list_queue)
  /\ IsInjective(watcher.out_send_queue)
  /\ written \cap Range(watcher.out_write_watcher_list_queue) = {}
  /\ sent \cap Range(watcher.out_send_queue) = {}
  /\ \A a \in Assign :
       /\ Sent(a) = {i \in Written(a) : <<a, i>> \in is_read_clause}
       /\ Retired(a) /\ Started(a) => Written(a) = 0 .. get_watcher_size[a] - 1

\* Every assignment is taken from the trail and its list is worked off, and
\* then the unit is empty and counts nothing under way.
EveryListRetires ==
  <>[](/\ trail = {} /\ IsEmpty(watcher)
       /\ watcher.num_inflight_request = 0
       /\ watcher.outgoing_read_watcher_data = 0
       /\ \A a \in Assign : Cardinality({req \in written : req.as = a}) = get_watcher_size[a])

\* The comment in watcher.h: "when the memory return, only if we recieve the
\* last package, we push to the waiting_value_watcher_queue".  The code takes
\* the package with the highest index for the last one.
ValuesAfterLastPackage ==
  \A i \in DOMAIN watcher.waiting_value_watcher_queue :
    \A req \in Outstanding("ReadWatcherData") :
       req.as # watcher.waiting_value_watcher_queue[i].as
=============================================================================
