------------------------------- MODULE AccProofs -------------------------------
(***************************************************************************)
(* Proofs about acc, for any number of tiles, clause units, banks and      *)
(* ports, any formula and any batches: every request is always in a place  *)
(* where requests of its kind belong.  From this follow the types, the     *)
(* isolation of sequential mode and the assertions of the hooks.  And each *)
(* update of a list is somewhere until a write unit has sent that list.    *)
(***************************************************************************)
EXTENDS Acc, QueueLemmas, WellFoundedInduction

-----------------------------------------------------------------------------
(* Loops                                                                    *)

\* Induction, for a set of numbers: one that has 0 and, with a number, the next
\* one, has them all.
LEMMA NatSetInduction ==
  ASSUME NEW X, 0 \in X, \A l \in Nat : l \in X => l + 1 \in X
  PROVE  \A l \in Nat : l \in X
<1> DEFINE S == {l \in Nat : l \notin X}
<1>1. SUFFICES ASSUME S # {} PROVE FALSE
  BY <1>1
<1>2. PICK l \in S : \A y \in S : <<y, l>> \notin OpToRel(<, Nat)
  BY <1>1, NatLessThanWellFounded, WFMin
<1>3. l \in Nat /\ l # 0 /\ l - 1 \in Nat /\ (l - 1) + 1 = l
  OBVIOUS
<1>4. l - 1 \notin X
  BY <1>3
<1>5. <<l - 1, l>> \in OpToRel(<, Nat)
  <2>1. <<l - 1, l>> \in Nat \X Nat /\ l - 1 < l
    BY <1>3
  <2> QED BY <2>1, Zenon DEF OpToRel
<1> QED BY <1>2, <1>3, <1>4, <1>5

\* A loop is well defined: some function holds the machines after each step.
LEMMA LoopExists ==
  ASSUME NEW hook, NEW n \in Nat, NEW m
  PROVE  \E f : f = [k \in 0 .. n |-> IF k = 0 THEN m ELSE Hook(hook, f[k - 1], k - 1)]
<1> DEFINE Upto(l) == \E f : f = [k \in 0 .. l |-> IF k = 0 THEN m ELSE Hook(hook, f[k - 1], k - 1)]
           X == {l \in Nat : Upto(l)}
<1>1. Upto(0)
  <2> DEFINE g == [k \in 0 .. 0 |-> m]
  <2>1. g = [k \in 0 .. 0 |-> IF k = 0 THEN m ELSE Hook(hook, g[k - 1], k - 1)]
    OBVIOUS
  <2> HIDE DEF g
  <2> QED BY <2>1
<1>2. ASSUME NEW l \in Nat, Upto(l) PROVE Upto(l + 1)
  <2>1. PICK f : f = [k \in 0 .. l |-> IF k = 0 THEN m ELSE Hook(hook, f[k - 1], k - 1)]
    BY <1>2
  <2> DEFINE g == [k \in 0 .. l + 1 |-> IF k = 0 THEN m ELSE Hook(hook, f[k - 1], k - 1)]
  <2>2. \A k \in 0 .. l : g[k] = f[k]
    BY <2>1
  <2> HIDE DEF g
  <2>3. ASSUME NEW k \in 0 .. l + 1, k # 0 PROVE g[k - 1] = f[k - 1]
    <3>1. k - 1 \in 0 .. l
      BY <2>3
    <3> QED BY <2>2, <3>1
  <2>4. g = [k \in 0 .. l + 1 |-> IF k = 0 THEN m ELSE Hook(hook, g[k - 1], k - 1)]
    BY <2>3 DEF g
  <2> QED BY <2>4
<1> HIDE DEF Upto
<1>3. \A l \in Nat : l \in X
  <2>1. 0 \in X /\ \A l \in Nat : l \in X => l + 1 \in X
    BY <1>1, <1>2
  <2> HIDE DEF X
  <2> QED BY <2>1, NatSetInduction
<1> QED BY <1>3 DEF Upto

\* What every step of a loop keeps, the loop keeps.
LEMMA ForEachKeeps ==
  ASSUME NEW M, NEW hook, Passes(hook) \in Nat, NEW m \in M,
         \A x \in M : \A i \in 0 .. Passes(hook) - 1 : Hook(hook, x, i) \in M
  PROVE  ForEach(hook, m) \in M
<1> DEFINE n == Passes(hook)
           f == CHOOSE g : g = [k \in 0 .. n |-> IF k = 0 THEN m ELSE Hook(hook, g[k - 1], k - 1)]
           X == {l \in Nat : l <= n => f[l] \in M}
<1>1. f = [k \in 0 .. n |-> IF k = 0 THEN m ELSE Hook(hook, f[k - 1], k - 1)]
  BY LoopExists
<1>2. ForEach(hook, m) = f[n]
  BY DEF ForEach
<1>n. n \in Nat /\ \A x \in M : \A i \in 0 .. n - 1 : Hook(hook, x, i) \in M
  OBVIOUS
<1> HIDE DEF f, n
<1>3. 0 \in X
  BY <1>n, <1>1
<1>4. ASSUME NEW l \in Nat, l \in X PROVE l + 1 \in X
  <2>1. CASE ~ (l + 1 <= n)
    BY <2>1
  <2>2. CASE l + 1 <= n
    <3>1. l + 1 \in 0 .. n /\ l \in 0 .. n - 1 /\ (l + 1) - 1 = l /\ l + 1 # 0
      BY <1>n, <2>2
    <3>2. f[l + 1] = Hook(hook, f[l], l)
      BY <1>1, <3>1
    <3>3. f[l] \in M
      BY <1>n, <1>4, <2>2
    <3> QED BY <1>n, <3>1, <3>2, <3>3
  <2> QED BY <1>n, <2>1, <2>2
<1> HIDE DEF X
<1>5. n \in X
  BY <1>n, <1>3, <1>4, NatSetInduction
<1> QED BY <1>2, <1>5 DEF X

\* The loop over the hooks is well defined too.
LEMMA HooksExist ==
  ASSUME NEW n \in Nat, NEW m
  PROVE  \E f : f = [k \in 0 .. n |-> IF k = 0 THEN m ELSE ForEach(clock_passes[k], f[k - 1])]
<1> DEFINE Upto(l) == \E f : f = [k \in 0 .. l |-> IF k = 0 THEN m ELSE ForEach(clock_passes[k], f[k - 1])]
           X == {l \in Nat : Upto(l)}
<1>1. Upto(0)
  <2> DEFINE g == [k \in 0 .. 0 |-> m]
  <2>1. g = [k \in 0 .. 0 |-> IF k = 0 THEN m ELSE ForEach(clock_passes[k], g[k - 1])]
    OBVIOUS
  <2> HIDE DEF g
  <2> QED BY <2>1
<1>2. ASSUME NEW l \in Nat, Upto(l) PROVE Upto(l + 1)
  <2>1. PICK f : f = [k \in 0 .. l |-> IF k = 0 THEN m ELSE ForEach(clock_passes[k], f[k - 1])]
    BY <1>2
  <2> DEFINE g == [k \in 0 .. l + 1 |-> IF k = 0 THEN m ELSE ForEach(clock_passes[k], f[k - 1])]
  <2>2. \A k \in 0 .. l : g[k] = f[k]
    BY <2>1
  <2> HIDE DEF g
  <2>3. ASSUME NEW k \in 0 .. l + 1, k # 0 PROVE g[k - 1] = f[k - 1]
    <3>1. k - 1 \in 0 .. l
      BY <2>3
    <3> QED BY <2>2, <3>1
  <2>4. g = [k \in 0 .. l + 1 |-> IF k = 0 THEN m ELSE ForEach(clock_passes[k], g[k - 1])]
    BY <2>3 DEF g
  <2> QED BY <2>4
<1> HIDE DEF Upto
<1>3. \A l \in Nat : l \in X
  <2>1. 0 \in X /\ \A l \in Nat : l \in X => l + 1 \in X
    BY <1>1, <1>2
  <2> HIDE DEF X
  <2> QED BY <2>1, NatSetInduction
<1> QED BY <1>3 DEF Upto

\* What every hook keeps, all hooks together keep.
LEMMA HooksKeepAll ==
  ASSUME NEW M, NEW m \in M,
         \A x \in M : \A k \in DOMAIN clock_passes : ForEach(clock_passes[k], x) \in M
  PROVE  Hooks(m) \in M
<1> DEFINE n == Len(clock_passes)
           f == CHOOSE g : g = [k \in 0 .. n |-> IF k = 0 THEN m ELSE ForEach(clock_passes[k], g[k - 1])]
           X == {l \in Nat : l <= n => f[l] \in M}
<1>1. f = [k \in 0 .. n |-> IF k = 0 THEN m ELSE ForEach(clock_passes[k], f[k - 1])]
  BY HooksExist
<1>2. Hooks(m) = f[n]
  BY DEF Hooks
<1>n. n \in Nat /\ \A x \in M : \A k \in 1 .. n : ForEach(clock_passes[k], x) \in M
  BY DEF clock_passes
<1> HIDE DEF f, n
<1>3. 0 \in X
  BY <1>n, <1>1
<1>4. ASSUME NEW l \in Nat, l \in X PROVE l + 1 \in X
  <2>1. CASE ~ (l + 1 <= n)
    BY <2>1
  <2>2. CASE l + 1 <= n
    <3>1. l + 1 \in 0 .. n /\ l + 1 \in 1 .. n /\ (l + 1) - 1 = l /\ l + 1 # 0
      BY <1>n, <2>2
    <3>2. f[l + 1] = ForEach(clock_passes[l + 1], f[l])
      BY <1>1, <3>1
    <3>3. f[l] \in M
      BY <1>n, <1>4, <2>2
    <3> QED BY <1>n, <3>1, <3>2, <3>3
  <2> QED BY <1>n, <2>1, <2>2
<1> HIDE DEF X
<1>5. n \in X
  BY <1>n, <1>3, <1>4, NatSetInduction
<1> QED BY <1>2, <1>5 DEF X
-----------------------------------------------------------------------------
(* Which requests may be where.  S is the set of the assignments that the   *)
(* machine works on, T the set of those that may wait on the trail or have  *)
(* an entry in a table of a list write unit.                                *)

\* The numbers of the watchers and the clause units
ComponentIds == 0 .. num_watchers + num_clauses - 1

\* A task; a request for a list, which may be empty; for a watcher that exists;
\* for a watcher whose clause is to be read; for a literal of that clause.
Fresh(S)   == {r \in Request : r.as \in S /\ r.watcherId = 0 /\ r.clauseId = 0}
Owned(S)   == {r \in Request : /\ r.as \in S /\ r.clauseId = 0
                               /\ r.watcherId = 0 \/ r.watcherId < get_watcher_size[r.as]}
Listed(S)  == {r \in Owned(S) : r.watcherId < get_watcher_size[r.as]}
Sent(S)    == {r \in Listed(S) : <<r.as, r.watcherId>> \in is_read_clause}
Literal(S) == {r \in Request : /\ r.as \in S /\ r.watcherId < get_watcher_size[r.as]
                               /\ <<r.as, r.watcherId>> \in is_read_clause
                               /\ r.clauseId < get_clause_literal[<<r.as, r.watcherId>>]}
LastOne(S) == {r \in Literal(S) : r.clauseId + 1 = get_clause_literal[<<r.as, r.watcherId>>]}

\* The reads that may be asked for: meta data of any list, the rest of what exists
WatcherReads == {"ReadWatcherMetaData", "ReadWatcherData", "ReadWatcherValue"}
ClauseReads == {"ReadClauseData", "ReadClauseValue"}
ListReads(S)    == {r \in Owned(S) : /\ r.type \in WatcherReads
                                     /\ r.type # "ReadWatcherMetaData" => r \in Listed(S)}
LiteralReads(S) == {r \in Literal(S) : r.type \in ClauseReads}

\* The requests of the component id
From(X, id) == {r \in X : r.ComponentId = id}

\* The requests that differ in the number of the component are of the same kind.
LEMMA Readdressed ==
  ASSUME NEW S, NEW r \in Request, NEW id \in ComponentIds
  PROVE  LET e == [r EXCEPT !.ComponentId = id]
         IN  /\ e \in Request /\ e.ComponentId = id
             /\ e.as = r.as /\ e.watcherId = r.watcherId /\ e.clauseId = r.clauseId /\ e.type = r.type
             /\ r \in Fresh(S) => e \in Fresh(S)
             /\ r \in Listed(S) => e \in Listed(S)
             /\ r \in Sent(S) => e \in Sent(S)
             /\ r \in Literal(S) => e \in Literal(S)
             /\ r \in LastOne(S) => e \in LastOne(S)
             /\ r \in ListReads(S) => e \in ListReads(S)
             /\ r \in LiteralReads(S) => e \in LiteralReads(S)
BY DEF Request, Fresh, Owned, Listed, Sent, Literal, LastOne, ListReads, LiteralReads, ComponentIds

\* The sets grow with the assignments.
LEMMA KindsMonotone ==
  ASSUME NEW S, NEW R, S \subseteq R
  PROVE  /\ Fresh(S) \subseteq Fresh(R) /\ Owned(S) \subseteq Owned(R)
         /\ Listed(S) \subseteq Listed(R) /\ Sent(S) \subseteq Sent(R)
         /\ Literal(S) \subseteq Literal(R) /\ LastOne(S) \subseteq LastOne(R)
         /\ ListReads(S) \subseteq ListReads(R) /\ LiteralReads(S) \subseteq LiteralReads(R)
BY DEF Fresh, Owned, Listed, Sent, Literal, LastOne, ListReads, LiteralReads

-----------------------------------------------------------------------------
(* A watcher                                                                *)

\* What the watcher of tile i may hold
WatcherSet(S, i) ==
  [in_task_queue : Seq(Fresh(S)), waiting_read_meta_queue : Seq(Fresh(S)),
   waiting_read_watcher_queue : Seq(Owned(S)), waiting_value_watcher_queue : Seq(Listed(S)),
   waiting_process_queue : Seq(From(Listed(S), i)), out_memory_read_queue : Seq(ListReads(S)),
   in_memory_resp_queue : Seq(From(ListReads(S), i)), out_send_queue : Seq(Sent(S)),
   out_write_watcher_list_queue : Seq(From(Listed(S), i)),
   outgoing_read_watcher_data : Int, outgoing_read_watcher_value : Int,
   num_inflight_request : Int]

\* A request for a list that is edited
LEMMA ListEdited ==
  ASSUME NEW S, NEW r \in Owned(S), NEW t \in WatcherReads
  PROVE  LET e == [r EXCEPT !.type = t]
             z == [r EXCEPT !.watcherId = 0]
         IN  /\ e \in Owned(S) /\ z \in Owned(S) /\ z \in Fresh(S)
             /\ e.ComponentId = r.ComponentId /\ z.ComponentId = r.ComponentId
             /\ e.type = t /\ z.type = r.type
             /\ r \in Fresh(S) => e \in Fresh(S)
             /\ r \in Listed(S) => e \in Listed(S) /\ z \in Listed(S) /\ e \in ListReads(S)
             /\ t = "ReadWatcherMetaData" => e \in ListReads(S)
<1>1. r \in Request /\ get_watcher_size[r.as] \in Int /\ r.as \in Assign
  BY TableAssumption DEF Owned, Request
<1>2. WatcherReads \subseteq AccessType
  BY DEF WatcherReads, AccessType
<1> QED BY <1>1, <1>2 DEF Request, Fresh, Owned, Listed, ListReads

\* The list at the head of a queue deals with a few watchers.
LEMMA ListAdvance ==
  ASSUME NEW S, NEW X, X \in {Owned(S), Listed(S)} \/ \E i : X = From(Listed(S), i),
         NEW q \in Seq(X), q # <<>>, NEW n \in Nat
  PROVE  W!Advance(q, n) \in Seq(X)
<1> DEFINE h == Head(q)
           e == [h EXCEPT !.watcherId = @ + n]
<1>1. h \in X /\ h = q[1] /\ Tail(q) \in Seq(X) /\ 1 \in DOMAIN q
  BY TailElements
<1>2. h \in Owned(S) /\ h \in Request /\ h.watcherId \in Nat
  BY <1>1 DEF From, Listed, Owned, Request
<1>3. ASSUME h.watcherId + n < get_watcher_size[h.as] PROVE e \in X
  BY <1>1, <1>2, <1>3 DEF From, Listed, Owned, Request
<1>4. get_watcher_size[h.as] \in Int
  BY <1>2, TableAssumption DEF Owned, Request
<1>5. [q EXCEPT ![1].watcherId = @ + n] = [q EXCEPT ![1] = e]
  BY <1>1
<1> HIDE DEF e, h
<1>6. e \in X => [q EXCEPT ![1] = e] \in Seq(X)
  BY <1>1
<1> QED BY <1>1, <1>2, <1>3, <1>4, <1>5, <1>6 DEF W!Advance, W!Size, h
\* The steps of a watcher keep its requests in their places.
LEMMA WatcherMetaOut ==
  ASSUME NEW S, NEW i, NEW w \in WatcherSet(S, i)
  PROVE  W!FromWatcherMetaToMemory(w) \in WatcherSet(S, i)
<1> DEFINE q == w.waiting_read_meta_queue
           h == [Head(q) EXCEPT !.type = "ReadWatcherMetaData", !.watcherId = 0]
<1>1. CASE q = <<>>
  BY <1>1 DEF W!FromWatcherMetaToMemory
<1>2. CASE q # <<>>
  <2>1. q \in Seq(Fresh(S)) /\ w.out_memory_read_queue \in Seq(ListReads(S))
    BY DEF WatcherSet
  <2>2. Head(q) \in Fresh(S) /\ Tail(q) \in Seq(Fresh(S))
    BY <1>2, <2>1, TailElements
  <2>3. h \in ListReads(S)
    BY <2>2 DEF Fresh, ListReads, Owned, Request, WatcherReads, AccessType
  <2> HIDE DEF h
  <2>4. Append(w.out_memory_read_queue, h) \in Seq(ListReads(S))
    BY <2>1, <2>3
  <2>5. [w EXCEPT !.out_memory_read_queue = Append(w.out_memory_read_queue, h),
                  !.waiting_read_meta_queue = Tail(q)] \in WatcherSet(S, i)
    BY <2>2, <2>4 DEF WatcherSet
  <2> QED BY <1>2, <2>5 DEF W!FromWatcherMetaToMemory, h
<1> QED BY <1>1, <1>2

\* Reading the values of the literals of a list
LEMMA WatcherValueOut ==
  ASSUME NEW S, NEW i, NEW w \in WatcherSet(S, i)
  PROVE  W!FromValueToOutMem(w) \in WatcherSet(S, i)
<1> DEFINE q == w.waiting_value_watcher_queue
           h == [Head(q) EXCEPT !.type = "ReadWatcherValue"]
           rest == W!Advance(q, 1)
<1>1. CASE q = <<>>
  BY <1>1 DEF W!FromValueToOutMem
<1>2. CASE q # <<>>
  <2>1. /\ q \in Seq(Listed(S)) /\ w.out_memory_read_queue \in Seq(ListReads(S))
        /\ w.outgoing_read_watcher_value + 1 \in Int
    BY DEF WatcherSet
  <2>2. Head(q) \in Listed(S) /\ Head(q) \in Owned(S)
    BY <1>2, <2>1, TailElements DEF Listed
  <2>3. h \in ListReads(S)
    BY <2>2, ListEdited DEF WatcherReads
  <2>4. rest \in Seq(Listed(S))
    BY <1>2, <2>1, ListAdvance
  <2> HIDE DEF h, rest
  <2>5. Append(w.out_memory_read_queue, h) \in Seq(ListReads(S))
    BY <2>1, <2>3
  <2>6. [w EXCEPT !.out_memory_read_queue = Append(w.out_memory_read_queue, h),
                  !.outgoing_read_watcher_value = w.outgoing_read_watcher_value + 1,
                  !.waiting_value_watcher_queue = rest] \in WatcherSet(S, i)
    BY <2>1, <2>4, <2>5 DEF WatcherSet
  <2> QED BY <1>2, <2>6 DEF W!FromValueToOutMem, h, rest
<1> QED BY <1>1, <1>2

\* Processing a list: the clauses to be read go to the clause units, a finished
\* list to its list write unit.
LEMMA WatcherProcess ==
  ASSUME NEW S, NEW i, NEW w \in WatcherSet(S, i)
  PROVE  W!FromProcessToOut(w) \in WatcherSet(S, i)
<1> DEFINE q == w.waiting_process_queue
           h == Head(q)
           task == [h EXCEPT !.clauseId = 0]
           rest == W!Advance(q, 1)
           send == IF <<h.as, h.watcherId>> \in is_read_clause
                   THEN Append(w.out_send_queue, task) ELSE w.out_send_queue
           count == IF h.watcherId + 1 >= W!Size(h)
                    THEN w.num_inflight_request - 1 ELSE w.num_inflight_request
<1>1. CASE q = <<>>
  BY <1>1 DEF W!FromProcessToOut
<1>2. CASE q # <<>>
  <2>1. /\ q \in Seq(From(Listed(S), i)) /\ w.out_send_queue \in Seq(Sent(S))
        /\ w.out_write_watcher_list_queue \in Seq(From(Listed(S), i))
        /\ w.num_inflight_request \in Int
    BY DEF WatcherSet
  <2>2. h \in From(Listed(S), i) /\ h \in Listed(S) /\ h \in Request /\ h.clauseId = 0
    BY <1>2, <2>1, TailElements DEF From, Listed, Owned
  <2>3. task = h
    BY <2>2 DEF Request
  <2>4. rest \in Seq(From(Listed(S), i))
    BY <1>2, <2>1, ListAdvance
  <2>5. <<h.as, h.watcherId>> \in is_read_clause => h \in Sent(S)
    BY <2>2 DEF Sent
  <2> HIDE DEF h, rest, task
  <2>6. send \in Seq(Sent(S)) /\ count \in Int
    BY <2>1, <2>3, <2>5
  <2>7. Append(w.out_write_watcher_list_queue, h) \in Seq(From(Listed(S), i))
    BY <2>1, <2>2
  <2> HIDE DEF send, count
  <2>8. [w EXCEPT !.out_write_watcher_list_queue = Append(w.out_write_watcher_list_queue, h),
                  !.out_send_queue = send, !.num_inflight_request = count,
                  !.waiting_process_queue = rest] \in WatcherSet(S, i)
    BY <2>4, <2>6, <2>7 DEF WatcherSet
  <2> QED BY <1>2, <2>8 DEF W!FromProcessToOut, h, rest, task, send, count
<1> QED BY <1>1, <1>2

\* Reading the watchers of a list, a line at a time
LEMMA WatcherDataOut ==
  ASSUME NEW S, NEW i, NEW w \in WatcherSet(S, i)
  PROVE  W!FromReadWatcherToMem(w) \in WatcherSet(S, i)
<1> DEFINE q == w.waiting_read_watcher_queue
           h == Head(q)
           read == [h EXCEPT !.type = "ReadWatcherData"]
           rest == W!Advance(q, LineSize)
<1>1. CASE q = <<>>
  BY <1>1 DEF W!FromReadWatcherToMem
<1>2. CASE q # <<>>
  <2>1. /\ q \in Seq(Owned(S)) /\ w.out_memory_read_queue \in Seq(ListReads(S))
        /\ w.num_inflight_request - 1 \in Int /\ w.outgoing_read_watcher_data + 1 \in Int
    BY DEF WatcherSet
  <2>2. h \in Owned(S) /\ Tail(q) \in Seq(Owned(S))
    BY <1>2, <2>1, TailElements
  <2>3. h.watcherId \in Int /\ W!Size(h) \in Int
    BY <2>2, TableAssumption DEF Owned, Request, W!Size
  <2>4. CASE h.watcherId >= W!Size(h)
    <3>1. [w EXCEPT !.waiting_read_watcher_queue = Tail(q),
                    !.num_inflight_request = w.num_inflight_request - 1] \in WatcherSet(S, i)
      BY <2>1, <2>2 DEF WatcherSet
    <3>2. W!FromReadWatcherToMem(w)
            = [w EXCEPT !.waiting_read_watcher_queue = Tail(q),
                        !.num_inflight_request = w.num_inflight_request - 1]
      BY <1>2, <2>3, <2>4 DEF W!FromReadWatcherToMem
    <3> QED BY <3>1, <3>2
  <2>5. CASE h.watcherId < W!Size(h)
    <3>1. h \in Listed(S)
      BY <2>2, <2>5 DEF Listed, W!Size
    <3>2. read \in ListReads(S)
      BY <2>2, <3>1, ListEdited DEF WatcherReads
    <3>3. rest \in Seq(Owned(S))
      BY <1>2, <2>1, ListAdvance, AccAssumption
    <3>4. W!FromReadWatcherToMem(w)
            = [w EXCEPT !.out_memory_read_queue = Append(w.out_memory_read_queue, read),
                        !.outgoing_read_watcher_data = w.outgoing_read_watcher_data + 1,
                        !.waiting_read_watcher_queue = rest]
      BY <1>2, <2>3, <2>5 DEF W!FromReadWatcherToMem
    <3> HIDE DEF read, rest
    <3>5. Append(w.out_memory_read_queue, read) \in Seq(ListReads(S))
      BY <2>1, <3>2
    <3> QED BY <2>1, <3>3, <3>4, <3>5 DEF WatcherSet
  <2> QED BY <2>3, <2>4, <2>5
<1> QED BY <1>1, <1>2

\* A task enters: its meta data is read.
LEMMA WatcherTaskIn ==
  ASSUME NEW S, NEW i, NEW w \in WatcherSet(S, i)
  PROVE  W!FromInToRead(w) \in WatcherSet(S, i)
<1> DEFINE q == w.in_task_queue
           h == [Head(q) EXCEPT !.type = "ReadWatcherMetaData"]
<1>1. CASE q = <<>>
  BY <1>1 DEF W!FromInToRead
<1>2. CASE q # <<>>
  <2>1. /\ q \in Seq(Fresh(S)) /\ w.waiting_read_meta_queue \in Seq(Fresh(S))
        /\ w.num_inflight_request + 1 \in Int
    BY DEF WatcherSet
  <2>2. Head(q) \in Fresh(S) /\ Head(q) \in Owned(S) /\ Tail(q) \in Seq(Fresh(S))
    BY <1>2, <2>1, TailElements DEF Fresh, Owned
  <2>3. h \in Fresh(S)
    BY <2>2, ListEdited DEF WatcherReads
  <2> HIDE DEF h
  <2>4. Append(w.waiting_read_meta_queue, h) \in Seq(Fresh(S))
    BY <2>1, <2>3
  <2>5. [w EXCEPT !.num_inflight_request = w.num_inflight_request + 1,
                  !.waiting_read_meta_queue = Append(w.waiting_read_meta_queue, h),
                  !.in_task_queue = Tail(q)] \in WatcherSet(S, i)
    BY <2>1, <2>2, <2>4 DEF WatcherSet
  <2> QED BY <1>2, <2>5 DEF W!FromInToRead, h
<1> QED BY <1>1, <1>2
\* An answer of the memory moves its list to the next queue.
LEMMA WatcherResp ==
  ASSUME NEW S, NEW i, NEW w \in WatcherSet(S, i)
  PROVE  W!FromRespToInsider(w) \in WatcherSet(S, i)
<1> DEFINE q == w.in_memory_resp_queue
           h == Head(q)
           restart == [h EXCEPT !.watcherId = 0]
           short == [w EXCEPT !.in_memory_resp_queue = Tail(q)]
           popped == W!CountAnswer(short, h)
<1> HIDE DEF popped
<1>1. CASE q = <<>>
  BY <1>1 DEF W!FromRespToInsider
<1>2. CASE q # <<>>
  <2>1. q \in Seq(From(ListReads(S), i))
    BY DEF WatcherSet
  <2>2. h \in From(ListReads(S), i) /\ Tail(q) \in Seq(From(ListReads(S), i))
    BY <1>2, <2>1, TailElements
  <2>3. /\ h \in Owned(S) /\ h.ComponentId = i /\ h.type \in WatcherReads
        /\ h.type # "ReadWatcherMetaData" => h \in Listed(S)
    BY <2>2 DEF From, ListReads
  <2>4. /\ restart \in Owned(S) /\ restart.ComponentId = i /\ restart.type = h.type
        /\ h.type # "ReadWatcherMetaData" => restart \in From(Listed(S), i)
        /\ [restart EXCEPT !.type = "ReadWatcherData"] \in Owned(S)
    BY <2>3, ListEdited DEF From, WatcherReads
  <2> HIDE DEF h, restart
  <2>5. short \in WatcherSet(S, i)
    BY <2>2 DEF WatcherSet
  <2> HIDE DEF short
  <2>6. popped \in WatcherSet(S, i)
    <3>1. CASE h.type = "ReadWatcherData"
      <4>1. short.outgoing_read_watcher_data - 1 \in Int
        <5>1. short.outgoing_read_watcher_data \in Int
          BY <2>5 DEF WatcherSet
        <5> QED BY <5>1
      <4>2. [short EXCEPT !.outgoing_read_watcher_data = short.outgoing_read_watcher_data - 1]
              \in WatcherSet(S, i)
        BY <2>5, <4>1 DEF WatcherSet
      <4> QED BY <3>1, <4>2 DEF W!CountAnswer, popped
    <3>2. CASE h.type = "ReadWatcherValue"
      <4>1. short.outgoing_read_watcher_value - 1 \in Int
        <5>1. short.outgoing_read_watcher_value \in Int
          BY <2>5 DEF WatcherSet
        <5> QED BY <5>1
      <4>2. [short EXCEPT !.outgoing_read_watcher_value = short.outgoing_read_watcher_value - 1]
              \in WatcherSet(S, i)
        BY <2>5, <4>1 DEF WatcherSet
      <4> QED BY <3>2, <4>2 DEF W!CountAnswer, popped
    <3>3. CASE h.type = "ReadWatcherMetaData"
      BY <2>5, <3>3 DEF W!CountAnswer, popped
    <3> QED BY <2>3, <3>1, <3>2, <3>3 DEF WatcherReads
  <2> HIDE DEF popped
  <2>7. CASE h.type = "ReadWatcherData"
    <3> DEFINE v == IF W!LastLine(h) THEN Append(popped.waiting_value_watcher_queue, restart)
                    ELSE popped.waiting_value_watcher_queue
    <3>1. popped.waiting_value_watcher_queue \in Seq(Listed(S)) /\ restart \in Listed(S)
      BY <2>4, <2>6, <2>7 DEF WatcherSet, From
    <3>2. v \in Seq(Listed(S))
      BY <3>1
    <3>3. W!FromRespToInsider(w) = [popped EXCEPT !.waiting_value_watcher_queue = v]
      BY <1>2, <2>7 DEF W!FromRespToInsider, popped, short, h, restart
    <3> HIDE DEF v
    <3> QED BY <2>6, <3>2, <3>3 DEF WatcherSet
  <2>8. CASE h.type = "ReadWatcherValue"
    <3> DEFINE v == IF W!LastValue(h) THEN Append(popped.waiting_process_queue, restart)
                    ELSE popped.waiting_process_queue
    <3>1. popped.waiting_process_queue \in Seq(From(Listed(S), i)) /\ restart \in From(Listed(S), i)
      BY <2>4, <2>6, <2>8 DEF WatcherSet
    <3>2. v \in Seq(From(Listed(S), i))
      BY <3>1
    <3>3. W!FromRespToInsider(w) = [popped EXCEPT !.waiting_process_queue = v]
      BY <1>2, <2>8 DEF W!FromRespToInsider, popped, short, h, restart
    <3> HIDE DEF v
    <3> QED BY <2>6, <3>2, <3>3 DEF WatcherSet
  <2>9. CASE h.type = "ReadWatcherMetaData"
    <3> DEFINE d == [restart EXCEPT !.type = "ReadWatcherData"]
               v == Append(popped.waiting_read_watcher_queue, d)
    <3>1. popped.waiting_read_watcher_queue \in Seq(Owned(S))
      BY <2>6 DEF WatcherSet
    <3>2. v \in Seq(Owned(S))
      BY <2>4, <3>1
    <3>3. W!FromRespToInsider(w) = [popped EXCEPT !.waiting_read_watcher_queue = v]
      BY <1>2, <2>9 DEF W!FromRespToInsider, popped, short, h, restart
    <3> HIDE DEF v
    <3> QED BY <2>6, <3>2, <3>3 DEF WatcherSet
  <2> QED BY <2>3, <2>7, <2>8, <2>9 DEF WatcherReads
<1> QED BY <1>1, <1>2

\* A cycle of a watcher keeps its requests in their places.
LEMMA WatcherCycle ==
  ASSUME NEW S, NEW i, NEW w \in WatcherSet(S, i)
  PROVE  W!DoCycle(w) \in WatcherSet(S, i)
BY WatcherMetaOut, WatcherValueOut, WatcherProcess, WatcherDataOut, WatcherTaskIn, WatcherResp
   DEF W!DoCycle

-----------------------------------------------------------------------------
(* A clause unit                                                            *)

\* What a clause unit may hold
ClauseSet(S, T) ==
  [in_task_queue : Seq(Literal(S)), clause_data_read_waiting_queue : Seq(Literal(S)),
   clause_value_read_waiting_queue : Seq(Literal(S)), clause_process_waiting_queue : Seq(Literal(S)),
   out_memory_read_queue : Seq(LiteralReads(S)), in_memory_resp_queue : Seq(LiteralReads(S)),
   out_queue : Seq(Fresh(T)), out_clause_write_queue : Seq(LastOne(S)),
   on_going_requests : Int, current_inflight_request : Int]

\* A request for another literal of the same clause
LEMMA SameClause ==
  ASSUME NEW S, NEW r \in Literal(S), NEW e \in Request,
         e.as = r.as, e.watcherId = r.watcherId,
         e.clauseId < get_clause_literal[<<r.as, r.watcherId>>]
  PROVE  e \in Literal(S)
BY DEF Literal

\* A request for a clause that is edited
LEMMA LiteralEdited ==
  ASSUME NEW S, NEW r \in Literal(S), NEW t \in ClauseReads
  PROVE  /\ [r EXCEPT !.type = t] \in LiteralReads(S)
         /\ [r EXCEPT !.clauseId = 0] \in Literal(S)
         /\ [r EXCEPT !.type = t, !.clauseId = 0] \in Literal(S)
<1> DEFINE e == [r EXCEPT !.type = t]
           z == [r EXCEPT !.clauseId = 0]
           b == [r EXCEPT !.type = t, !.clauseId = 0]
<1>1. /\ r \in Request /\ r.clauseId < get_clause_literal[<<r.as, r.watcherId>>]
      /\ 0 < get_clause_literal[<<r.as, r.watcherId>>]
  BY TableAssumption DEF Literal
<1>2. ClauseReads \subseteq AccessType
  BY DEF ClauseReads, AccessType
<1>3. /\ e \in Request /\ e.as = r.as /\ e.watcherId = r.watcherId /\ e.clauseId = r.clauseId
      /\ e.type = t
  BY <1>1, <1>2 DEF Request
<1>4. z \in Request /\ z.as = r.as /\ z.watcherId = r.watcherId /\ z.clauseId = 0
  BY <1>1 DEF Request
<1>5. b \in Request /\ b.as = r.as /\ b.watcherId = r.watcherId /\ b.clauseId = 0
  BY <1>1, <1>2 DEF Request
<1> HIDE DEF e, z, b
<1>6. e \in Literal(S) /\ z \in Literal(S) /\ b \in Literal(S)
  BY <1>1, <1>3, <1>4, <1>5, SameClause
<1>7. e \in LiteralReads(S)
  BY <1>3, <1>6 DEF LiteralReads
<1> QED BY <1>6, <1>7 DEF e, z, b

\* The clause at the head of a queue deals with a few literals.
LEMMA LiteralAdvance ==
  ASSUME NEW S, NEW q \in Seq(Literal(S)), q # <<>>, NEW n \in Nat
  PROVE  C!Advance(q, n) \in Seq(Literal(S))
<1> DEFINE h == Head(q)
           e == [h EXCEPT !.clauseId = @ + n]
           size == get_clause_literal[<<h.as, h.watcherId>>]
<1>1. h \in Literal(S) /\ h = q[1] /\ Tail(q) \in Seq(Literal(S)) /\ 1 \in DOMAIN q
  BY TailElements
<1>2. h \in Request /\ h.clauseId \in Nat /\ h.clauseId + n \in Nat /\ size \in Int
  BY <1>1, TableAssumption DEF Literal, Request
<1> HIDE DEF h
<1>3. e \in Request /\ e.as = h.as /\ e.watcherId = h.watcherId /\ e.clauseId = h.clauseId + n
  BY <1>2 DEF Request
<1>4. [q EXCEPT ![1].clauseId = @ + n] = [q EXCEPT ![1] = e]
  BY <1>1
<1> HIDE DEF e
<1>5. h.clauseId + n < size => e \in Literal(S)
  BY <1>1, <1>3, SameClause
<1>6. e \in Literal(S) => [q EXCEPT ![1] = e] \in Seq(Literal(S))
  BY <1>1
<1>7. C!Advance(q, n) = IF h.clauseId + n >= size THEN Tail(q) ELSE [q EXCEPT ![1] = e]
  BY <1>4 DEF C!Advance, C!Size, C!ClauseOf, h
<1> QED BY <1>1, <1>2, <1>5, <1>6, <1>7

\* The steps of a clause unit keep its requests in their places.  A clause of an
\* assignment that is worked on may generate any assignment.
LEMMA ClauseProcess ==
  ASSUME NEW S, NEW T, S # {} => T = Assign, NEW c \in ClauseSet(S, T)
  PROVE  C!ProcessWaitingToOut(c) \in ClauseSet(S, T)
<1> DEFINE q == c.clause_process_waiting_queue
           h == Head(q)
           rest == C!Advance(q, 1)
           new == get_generated[<<h.as, h.watcherId>>]
           unit == [h EXCEPT !.as = new, !.watcherId = 0, !.clauseId = 0,
                             !.type = "ReadWatcherMetaData"]
           out == IF new # Nothing THEN Append(c.out_queue, unit) ELSE c.out_queue
<1>1. CASE q = <<>>
  BY <1>1 DEF C!ProcessWaitingToOut
<1>2. CASE q # <<>>
  <2>1. /\ q \in Seq(Literal(S)) /\ c.out_queue \in Seq(Fresh(T))
        /\ c.out_clause_write_queue \in Seq(LastOne(S))
    BY DEF ClauseSet
  <2>2. c.current_inflight_request - 1 \in Int
    <3>1. c.current_inflight_request \in Int
      BY DEF ClauseSet
    <3> QED BY <3>1
  <2>3. h \in Literal(S)
    BY <1>2, <2>1, TailElements
  <2>4. rest \in Seq(Literal(S))
    BY <1>2, <2>1, LiteralAdvance
  <2> HIDE DEF h, rest
  <2>5. CASE ~ C!LastLiteral(h)
    <3>1. C!ProcessWaitingToOut(c) = [c EXCEPT !.clause_process_waiting_queue = rest]
      BY <1>2, <2>5 DEF C!ProcessWaitingToOut, h, rest
    <3> QED BY <2>4, <3>1 DEF ClauseSet
  <2>6. CASE C!LastLiteral(h)
    <3>1. /\ h \in Request /\ h.clauseId \in Nat
          /\ get_clause_literal[<<h.as, h.watcherId>>] \in Nat
          /\ h.clauseId < get_clause_literal[<<h.as, h.watcherId>>]
          /\ <<h.as, h.watcherId>> \in is_read_clause /\ h.as \in S
      BY <2>3, TableAssumption DEF Literal, Request
    <3>2. h \in LastOne(S)
      BY <2>3, <2>6, <3>1 DEF LastOne, C!LastLiteral, C!Size, C!ClauseOf
    <3>3. new # Nothing => new \in Assign /\ T = Assign
      BY <3>1, TableAssumption
    <3>4. new # Nothing => unit \in Fresh(T)
      BY <3>1, <3>3 DEF Fresh, Request, AccessType
    <3> HIDE DEF unit, new
    <3>5. out \in Seq(Fresh(T))
      BY <2>1, <3>4
    <3>6. Append(c.out_clause_write_queue, h) \in Seq(LastOne(S))
      BY <2>1, <3>2
    <3>7. C!ProcessWaitingToOut(c)
            = [c EXCEPT !.out_queue = out,
                        !.out_clause_write_queue = Append(c.out_clause_write_queue, h),
                        !.clause_process_waiting_queue = rest,
                        !.current_inflight_request = c.current_inflight_request - 1]
      BY <1>2, <2>6 DEF C!ProcessWaitingToOut, C!ClauseOf, h, rest, new, unit
    <3> HIDE DEF out
    <3> QED BY <2>2, <2>4, <3>5, <3>6, <3>7 DEF ClauseSet
  <2> QED BY <2>5, <2>6
<1> QED BY <1>1, <1>2

\* Reading the values of the literals of a clause
LEMMA ClauseValueOut ==
  ASSUME NEW S, NEW T, NEW c \in ClauseSet(S, T)
  PROVE  C!ValueWaitingToMemOut(c) \in ClauseSet(S, T)
<1> DEFINE q == c.clause_value_read_waiting_queue
           h == [Head(q) EXCEPT !.type = "ReadClauseValue"]
           rest == C!Advance(q, 1)
<1>1. CASE q = <<>>
  BY <1>1 DEF C!ValueWaitingToMemOut
<1>2. CASE q # <<>>
  <2>1. q \in Seq(Literal(S)) /\ c.out_memory_read_queue \in Seq(LiteralReads(S))
    BY DEF ClauseSet
  <2>2. Head(q) \in Literal(S)
    BY <1>2, <2>1, TailElements
  <2>3. h \in LiteralReads(S)
    BY <2>2, LiteralEdited DEF ClauseReads
  <2>4. rest \in Seq(Literal(S))
    BY <1>2, <2>1, LiteralAdvance
  <2> HIDE DEF h, rest
  <2>5. Append(c.out_memory_read_queue, h) \in Seq(LiteralReads(S))
    BY <2>1, <2>3
  <2>6. [c EXCEPT !.out_memory_read_queue = Append(c.out_memory_read_queue, h),
                  !.clause_value_read_waiting_queue = rest] \in ClauseSet(S, T)
    BY <2>4, <2>5 DEF ClauseSet
  <2> QED BY <1>2, <2>6 DEF C!ValueWaitingToMemOut, h, rest
<1> QED BY <1>1, <1>2

\* Reading the literals of a clause, a line at a time
LEMMA ClauseDataOut ==
  ASSUME NEW S, NEW T, NEW c \in ClauseSet(S, T)
  PROVE  C!DataWaitingToMemOut(c) \in ClauseSet(S, T)
<1> DEFINE q == c.clause_data_read_waiting_queue
           h == [Head(q) EXCEPT !.type = "ReadClauseData"]
           rest == C!Advance(q, LineSize)
<1>1. CASE q = <<>>
  BY <1>1 DEF C!DataWaitingToMemOut
<1>2. CASE q # <<>>
  <2>1. q \in Seq(Literal(S)) /\ c.out_memory_read_queue \in Seq(LiteralReads(S))
    BY DEF ClauseSet
  <2>2. Head(q) \in Literal(S)
    BY <1>2, <2>1, TailElements
  <2>3. h \in LiteralReads(S)
    BY <2>2, LiteralEdited DEF ClauseReads
  <2>4. rest \in Seq(Literal(S))
    BY <1>2, <2>1, LiteralAdvance, AccAssumption
  <2> HIDE DEF h, rest
  <2>5. Append(c.out_memory_read_queue, h) \in Seq(LiteralReads(S))
    BY <2>1, <2>3
  <2>6. [c EXCEPT !.out_memory_read_queue = Append(c.out_memory_read_queue, h),
                  !.clause_data_read_waiting_queue = rest] \in ClauseSet(S, T)
    BY <2>4, <2>5 DEF ClauseSet
  <2> QED BY <1>2, <2>6 DEF C!DataWaitingToMemOut, h, rest
<1> QED BY <1>1, <1>2

\* An answer of the memory moves its clause to the next queue.
LEMMA ClauseMemIn ==
  ASSUME NEW S, NEW T, NEW c \in ClauseSet(S, T)
  PROVE  C!MemInToComp(c) \in ClauseSet(S, T)
<1> DEFINE q == c.in_memory_resp_queue
           h == Head(q)
           data == [h EXCEPT !.type = "ReadClauseValue", !.clauseId = 0]
           value == [h EXCEPT !.clauseId = 0]
           popped == [c EXCEPT !.in_memory_resp_queue = Tail(q)]
<1>1. CASE C!TakesDataBranch(c) \/ C!TakesValueBranch(c)
  <2>1. q # <<>>
    BY <1>1 DEF C!TakesDataBranch, C!TakesValueBranch
  <2>2. /\ q \in Seq(LiteralReads(S)) /\ c.clause_value_read_waiting_queue \in Seq(Literal(S))
        /\ c.clause_process_waiting_queue \in Seq(Literal(S))
    BY DEF ClauseSet
  <2>3. h \in LiteralReads(S) /\ Tail(q) \in Seq(LiteralReads(S))
    BY <2>1, <2>2, TailElements
  <2>4. data \in Literal(S) /\ value \in Literal(S)
    BY <2>3, LiteralEdited DEF LiteralReads, ClauseReads
  <2>5. popped \in ClauseSet(S, T)
    BY <2>3 DEF ClauseSet
  <2>6. /\ popped.clause_value_read_waiting_queue = c.clause_value_read_waiting_queue
        /\ popped.clause_process_waiting_queue = c.clause_process_waiting_queue
    BY DEF ClauseSet
  <2> HIDE DEF h, data, value, popped
  <2>7. CASE C!TakesDataBranch(c)
    <3> DEFINE v == IF C!LastLine(h) THEN Append(c.clause_value_read_waiting_queue, data)
                    ELSE c.clause_value_read_waiting_queue
    <3>1. v \in Seq(Literal(S))
      BY <2>2, <2>4
    <3>2. C!MemInToComp(c)
            = [popped EXCEPT !.clause_value_read_waiting_queue =
                 IF C!LastLine(h) THEN Append(@, data) ELSE @]
      <4>1. C!TakesDataBranch(c) = TRUE /\ C!TakesValueBranch(c) = FALSE
        BY <2>7 DEF C!TakesDataBranch, C!TakesValueBranch
      <4> QED BY <4>1 DEF C!MemInToComp, popped, h, data
    <3>3. C!MemInToComp(c) = [popped EXCEPT !.clause_value_read_waiting_queue = v]
      BY <2>6, <3>2
    <3> HIDE DEF v
    <3> QED BY <2>5, <3>1, <3>3 DEF ClauseSet
  <2>8. CASE C!TakesValueBranch(c) /\ ~ C!TakesDataBranch(c)
    <3> DEFINE v == IF C!LastValue(h) THEN Append(c.clause_process_waiting_queue, value)
                    ELSE c.clause_process_waiting_queue
    <3>1. v \in Seq(Literal(S))
      BY <2>2, <2>4
    <3>2. C!MemInToComp(c)
            = [popped EXCEPT !.clause_process_waiting_queue =
                 IF C!LastValue(h) THEN Append(@, value) ELSE @]
      <4>1. C!TakesDataBranch(c) = FALSE /\ C!TakesValueBranch(c) = TRUE
        BY <2>8 DEF C!TakesDataBranch, C!TakesValueBranch
      <4> QED BY <4>1 DEF C!MemInToComp, popped, h, value
    <3>3. C!MemInToComp(c) = [popped EXCEPT !.clause_process_waiting_queue = v]
      BY <2>6, <3>2
    <3> HIDE DEF v
    <3> QED BY <2>5, <3>1, <3>3 DEF ClauseSet
  <2> QED BY <1>1, <2>7, <2>8
<1>2. CASE ~ (C!TakesDataBranch(c) \/ C!TakesValueBranch(c))
  BY <1>2 DEF C!MemInToComp
<1> QED BY <1>1, <1>2

\* A task enters: its literals are read.
LEMMA ClauseTaskIn ==
  ASSUME NEW S, NEW T, NEW c \in ClauseSet(S, T)
  PROVE  C!TaskToDataWaiting(c) \in ClauseSet(S, T)
<1> DEFINE q == c.in_task_queue
           h == [Head(q) EXCEPT !.type = "ReadClauseData", !.clauseId = 0]
<1>1. CASE q = <<>> \/ Len(c.clause_data_read_waiting_queue) >= data_size
  BY <1>1 DEF C!TaskToDataWaiting
<1>2. CASE ~ (q = <<>> \/ Len(c.clause_data_read_waiting_queue) >= data_size)
  <2>1. /\ q \in Seq(Literal(S)) /\ c.clause_data_read_waiting_queue \in Seq(Literal(S))
    BY DEF ClauseSet
  <2>2. c.current_inflight_request + 1 \in Int
    <3>1. c.current_inflight_request \in Int
      BY DEF ClauseSet
    <3> QED BY <3>1
  <2>3. Head(q) \in Literal(S) /\ Tail(q) \in Seq(Literal(S))
    BY <1>2, <2>1, TailElements
  <2>4. h \in Literal(S)
    BY <2>3, LiteralEdited DEF ClauseReads
  <2> HIDE DEF h
  <2>5. Append(c.clause_data_read_waiting_queue, h) \in Seq(Literal(S))
    BY <2>1, <2>4
  <2>6. [c EXCEPT !.current_inflight_request = c.current_inflight_request + 1,
                  !.clause_data_read_waiting_queue = Append(c.clause_data_read_waiting_queue, h),
                  !.in_task_queue = Tail(q)] \in ClauseSet(S, T)
    BY <2>2, <2>3, <2>5 DEF ClauseSet
  <2> QED BY <1>2, <2>6 DEF C!TaskToDataWaiting, h
<1> QED BY <1>1, <1>2

\* A cycle of a clause unit keeps its requests in their places.
LEMMA ClauseCycle ==
  ASSUME NEW S, NEW T, S # {} => T = Assign, NEW c \in ClauseSet(S, T)
  PROVE  C!DoCycle(c) \in ClauseSet(S, T)
BY ClauseProcess, ClauseValueOut, ClauseDataOut, ClauseMemIn, ClauseTaskIn
   DEF C!DoCycle, C!BeforeMemIn

-----------------------------------------------------------------------------
(* A private cache, a clause writer, a list write unit                      *)

\* The reads of literal values, for tile i
Values(S, i) == {r \in ListReads(S) : r.type = "ReadWatcherValue" /\ r.ComponentId = i}
                \cup {r \in LiteralReads(S) :
                        /\ r.type = "ReadClauseValue"
                        /\ IsClause(r.ComponentId) /\ HomeTile(ClauseOfComponent(r.ComponentId)) = i}
CacheSet(S, i) == [in_request : Seq(Values(S, i)), out_send_q : Seq(Values(S, i))]

\* What clause units hand to a writer, and what the writer and the list write
\* units send to the memory
Handed(S) == {r \in LastOne(S) : IsClause(r.ComponentId)}
ClauseWrites == {r \in Literal(Assign) : r.type = "WriteClause" /\ IsClause(r.ComponentId)}
ListWrites == {r \in Listed(Assign) : r.type = "WriteWatcherList"}
WriterSet(S) == [in : Seq(Handed(S)), out : Seq(ClauseWrites)]

\* The lists that may have an entry in a table
Entries(T) == {v \in Value : T # {}}
UnitSet(S, T) ==
  {u \in [in_request : Seq(Listed(S)), out_mem_requst : Seq(ListWrites),
          current_map : UNION {[D -> Int] : D \in SUBSET Entries(T)},
          current_req : UNION {[D -> ListWrites] : D \in SUBSET Entries(T)},
          entry_aging_queue : Seq(Entries(T))] :
     /\ DOMAIN u.current_map = DOMAIN u.current_req
     /\ \A v \in DOMAIN u.current_req :
          /\ L!ValueOf(u.current_req[v]) = v
          /\ \E k \in DOMAIN u.entry_aging_queue : u.entry_aging_queue[k] = v}

\* A cycle of a private cache
LEMMA CacheCycle ==
  ASSUME NEW S, NEW i, NEW p \in CacheSet(S, i)
  PROVE  P!DoCycle(p) \in CacheSet(S, i)
<1>1. CASE p.in_request = <<>> \/ Len(p.out_send_q) >= private_out_size
  BY <1>1 DEF P!DoCycle, P!FromInToOut
<1>2. CASE ~ (p.in_request = <<>> \/ Len(p.out_send_q) >= private_out_size)
  <2>1. p.in_request \in Seq(Values(S, i)) /\ p.out_send_q \in Seq(Values(S, i))
    BY DEF CacheSet
  <2>2. Head(p.in_request) \in Values(S, i) /\ Tail(p.in_request) \in Seq(Values(S, i))
    BY <1>2, <2>1, TailElements
  <2>3. Append(p.out_send_q, Head(p.in_request)) \in Seq(Values(S, i))
    BY <2>1, <2>2
  <2> QED BY <1>2, <2>2, <2>3 DEF P!DoCycle, P!FromInToOut, CacheSet
<1> QED BY <1>1, <1>2

\* A clause that is handed over becomes one or two writes.
LEMMA WriterCycle ==
  ASSUME NEW S, S \subseteq Assign, NEW w \in WriterSet(S)
  PROVE  Writer!DoCycle(w) \in WriterSet(S) /\ Writer!AssertionsHold(w)
<1> DEFINE h == Head(w.in)
           req == [h EXCEPT !.type = "WriteClause"]
           more == IF get_clause_literal[<<req.as, req.watcherId>>] <= LineSize
                   THEN <<req>> ELSE <<req, req>>
<1>1. CASE w.in = <<>>
  BY <1>1 DEF Writer!DoCycle, Writer!AssertionsHold
<1>2. CASE w.in # <<>>
  <2>1. w.in \in Seq(Handed(S)) /\ w.out \in Seq(ClauseWrites)
    BY DEF WriterSet
  <2>2. h \in Handed(S) /\ Tail(w.in) \in Seq(Handed(S))
    BY <1>2, <2>1, TailElements
  <2>3. Writer!AssertionsHold(w)
    BY <2>2 DEF Handed, LastOne, Writer!AssertionsHold
  <2>4. req \in ClauseWrites
    <3>1. h \in Literal(S) /\ h \in Request /\ IsClause(h.ComponentId)
      BY <2>2 DEF Handed, LastOne, Literal
    <3> HIDE DEF h
    <3>2. /\ req \in Request /\ req.as = h.as /\ req.watcherId = h.watcherId
          /\ req.clauseId = h.clauseId /\ req.type = "WriteClause"
          /\ req.ComponentId = h.ComponentId
      BY <3>1 DEF Request, AccessType
    <3> HIDE DEF req
    <3>3. req \in Literal(S)
      BY <3>1, <3>2, SameClause DEF Literal
    <3> QED BY <3>1, <3>2, <3>3, KindsMonotone DEF ClauseWrites
  <2> HIDE DEF req, h
  <2>5. more \in Seq(ClauseWrites)
    BY <2>4
  <2>6. Writer!DoCycle(w) = [in |-> Tail(w.in), out |-> w.out \o more]
    BY <1>2 DEF Writer!DoCycle, req, h
  <2> HIDE DEF more
  <2>7. w.out \o more \in Seq(ClauseWrites)
    BY <2>1, <2>5
  <2> QED BY <2>2, <2>3, <2>6, <2>7 DEF WriterSet
<1> QED BY <1>1, <1>2

\* The list of a watcher that exists
LEMMA ListOf ==
  ASSUME NEW S, NEW r \in Listed(S)
  PROVE  L!ValueOf(r) \in Value
<1>1. r.as \in Assign /\ r.watcherId \in 0 .. get_watcher_size[r.as] - 1
  BY TableAssumption DEF Listed, Owned, Request
<1>2. get_pushed[<<r.as, r.watcherId>>] \in Value \cup {NotPushed} /\ get_value[r.as] \in Value
  BY <1>1, TableAssumption
<1> QED BY <1>2 DEF L!ValueOf

\* A set of numbers that is not empty has a least one, and Min is it.
LEMMA LeastOfSet ==
  ASSUME NEW X \in SUBSET Nat, X # {}
  PROVE  L!Min(X) \in X /\ \A y \in X : L!Min(X) <= y
<1>1. PICK x \in X : \A y \in X : <<y, x>> \notin OpToRel(<, Nat)
  BY NatLessThanWellFounded, WFMin
<1>2. ASSUME NEW y \in X, y < x PROVE <<y, x>> \in OpToRel(<, Nat)
  <2>1. <<y, x>> \in Nat \X Nat
    OBVIOUS
  <2> QED BY <1>2, <2>1, Zenon DEF OpToRel
<1>3. \A y \in X : x <= y
  <2>1. \A y \in X : ~ (y < x)
    BY <1>1, <1>2
  <2> QED BY <2>1
<1> QED BY <1>3 DEF L!Min

\* The parts of a list write unit
LEMMA UnitParts ==
  ASSUME NEW S, NEW T, NEW u \in UnitSet(S, T)
  PROVE  /\ u = [in_request |-> u.in_request, out_mem_requst |-> u.out_mem_requst,
                 current_map |-> u.current_map, current_req |-> u.current_req,
                 entry_aging_queue |-> u.entry_aging_queue]
         /\ u.in_request \in Seq(Listed(S)) /\ u.out_mem_requst \in Seq(ListWrites)
         /\ u.current_map \in [DOMAIN u.current_map -> Int]
         /\ u.current_req \in [DOMAIN u.current_req -> ListWrites]
         /\ DOMAIN u.current_req \subseteq Entries(T)
         /\ DOMAIN u.current_map = DOMAIN u.current_req
         /\ u.entry_aging_queue \in Seq(Entries(T))
         /\ \A v \in DOMAIN u.current_req :
              /\ L!ValueOf(u.current_req[v]) = v
              /\ \E k \in DOMAIN u.entry_aging_queue : u.entry_aging_queue[k] = v
<1>1. /\ u.current_map \in UNION {[D -> Int] : D \in SUBSET Entries(T)}
      /\ u.current_req \in UNION {[D -> ListWrites] : D \in SUBSET Entries(T)}
  BY DEF UnitSet
<1>2. PICK D \in SUBSET Entries(T) : u.current_map \in [D -> Int]
  BY <1>1
<1>3. PICK E \in SUBSET Entries(T) : u.current_req \in [E -> ListWrites]
  BY <1>1
<1>4. /\ u.current_map \in [DOMAIN u.current_map -> Int]
      /\ u.current_req \in [DOMAIN u.current_req -> ListWrites]
      /\ DOMAIN u.current_req \subseteq Entries(T)
  BY <1>2, <1>3
<1>5. u = [in_request |-> u.in_request, out_mem_requst |-> u.out_mem_requst,
           current_map |-> u.current_map, current_req |-> u.current_req,
           entry_aging_queue |-> u.entry_aging_queue]
  BY DEF UnitSet
<1>6. /\ u.in_request \in Seq(Listed(S)) /\ u.out_mem_requst \in Seq(ListWrites)
      /\ u.entry_aging_queue \in Seq(Entries(T))
      /\ DOMAIN u.current_map = DOMAIN u.current_req
      /\ \A v \in DOMAIN u.current_req :
              /\ L!ValueOf(u.current_req[v]) = v
              /\ \E k \in DOMAIN u.entry_aging_queue : u.entry_aging_queue[k] = v
  BY DEF UnitSet
<1> QED BY <1>4, <1>5, <1>6

\* A list write unit made of its parts
LEMMA UnitMade ==
  ASSUME NEW S, NEW T, NEW in \in Seq(Listed(S)), NEW out \in Seq(ListWrites),
         NEW D \in SUBSET Entries(T), NEW map \in [D -> Int], NEW req \in [D -> ListWrites],
         NEW aging \in Seq(Entries(T)),
         \A v \in D : /\ L!ValueOf(req[v]) = v
                      /\ \E k \in DOMAIN aging : aging[k] = v
  PROVE  [in_request |-> in, out_mem_requst |-> out, current_map |-> map,
          current_req |-> req, entry_aging_queue |-> aging] \in UnitSet(S, T)
<1> DEFINE u == [in_request |-> in, out_mem_requst |-> out, current_map |-> map,
                 current_req |-> req, entry_aging_queue |-> aging]
<1>1. /\ map \in UNION {[E -> Int] : E \in SUBSET Entries(T)}
      /\ req \in UNION {[E -> ListWrites] : E \in SUBSET Entries(T)}
  OBVIOUS
<1>2. DOMAIN map = D /\ DOMAIN req = D
  OBVIOUS
<1>3. u \in [in_request : Seq(Listed(S)), out_mem_requst : Seq(ListWrites),
             current_map : UNION {[E -> Int] : E \in SUBSET Entries(T)},
             current_req : UNION {[E -> ListWrites] : E \in SUBSET Entries(T)},
             entry_aging_queue : Seq(Entries(T))]
  BY <1>1
<1> QED BY <1>2, <1>3 DEF UnitSet

\* DropEntry and Emit, on a unit given by its parts
LEMMA DropOfParts ==
  ASSUME NEW in, NEW out, NEW map, NEW req, NEW aging, NEW v, NEW r, NEW rest
  PROVE  L!DropEntry([L!Emit([in_request |-> in, out_mem_requst |-> out, current_map |-> map,
                             current_req |-> req, entry_aging_queue |-> aging], r)
                     EXCEPT !.entry_aging_queue = rest], v)
         = [in_request |-> in, out_mem_requst |-> Append(out, r),
            current_map |-> L!Erase(map, v), current_req |-> L!Erase(req, v),
            entry_aging_queue |-> rest]
<1>1. L!Emit([in_request |-> in, out_mem_requst |-> out, current_map |-> map,
              current_req |-> req, entry_aging_queue |-> aging], r)
      = [in_request |-> in, out_mem_requst |-> Append(out, r), current_map |-> map,
         current_req |-> req, entry_aging_queue |-> aging]
  BY DEF L!Emit
<1> DEFINE o == Append(out, r)
<1> HIDE DEF o
<1>2. [[in_request |-> in, out_mem_requst |-> o, current_map |-> map, current_req |-> req,
        entry_aging_queue |-> aging] EXCEPT !.entry_aging_queue = rest]
      = [in_request |-> in, out_mem_requst |-> o, current_map |-> map,
         current_req |-> req, entry_aging_queue |-> rest]
  OBVIOUS
<1>3. L!DropEntry([in_request |-> in, out_mem_requst |-> o, current_map |-> map,
                   current_req |-> req, entry_aging_queue |-> rest], v)
      = [in_request |-> in, out_mem_requst |-> o, current_map |-> L!Erase(map, v),
         current_req |-> L!Erase(req, v), entry_aging_queue |-> rest]
  <2> DEFINE e == [in_request |-> in, out_mem_requst |-> o, current_map |-> map,
                   current_req |-> req, entry_aging_queue |-> rest]
             em == L!Erase(map, v)
             er == L!Erase(req, v)
  <2>1. e.current_map = map /\ e.current_req = req
    OBVIOUS
  <2> HIDE DEF e
  <2>2. L!DropEntry(e, v) = [e EXCEPT !.current_map = em, !.current_req = er]
    BY <2>1 DEF L!DropEntry
  <2> HIDE DEF em, er
  <2>3. [e EXCEPT !.current_map = em, !.current_req = er]
        = [in_request |-> in, out_mem_requst |-> o, current_map |-> em,
           current_req |-> er, entry_aging_queue |-> rest]
    <3>1. [e EXCEPT !.current_map = em]
          = [in_request |-> in, out_mem_requst |-> o, current_map |-> em,
             current_req |-> req, entry_aging_queue |-> rest]
      BY DEF e
    <3>2. [[in_request |-> in, out_mem_requst |-> o, current_map |-> em,
            current_req |-> req, entry_aging_queue |-> rest] EXCEPT !.current_req = er]
          = [in_request |-> in, out_mem_requst |-> o, current_map |-> em,
             current_req |-> er, entry_aging_queue |-> rest]
      OBVIOUS
    <3>3. [e EXCEPT !.current_map = em, !.current_req = er]
          = [[e EXCEPT !.current_map = em] EXCEPT !.current_req = er]
      OBVIOUS
    <3> QED BY <3>1, <3>2, <3>3
  <2> QED BY <2>2, <2>3 DEF e, em, er
<1> QED BY <1>1, <1>2, <1>3 DEF o

\* The entry of list v leaves the tables, r is sent, and of the aging queue
\* only rest stays.
Dropped(u, v, r, rest) == L!DropEntry([L!Emit(u, r) EXCEPT !.entry_aging_queue = rest], v)

LessOne(S, T, u, v, r) == {d \in UnitSet(S, T) :
                             /\ d.in_request = u.in_request
                             /\ d.out_mem_requst = Append(u.out_mem_requst, r)
                             /\ DOMAIN d.current_req = DOMAIN u.current_req \ {v}}

\* A unit that dropped an entry and wrote its list has one entry less.
LEMMA UnitDrop ==
  ASSUME NEW S, NEW T, NEW u \in UnitSet(S, T), NEW v, NEW r \in ListWrites,
         NEW rest \in Seq(Entries(T)),
         \A w \in DOMAIN u.current_req \ {v} : \E k \in DOMAIN rest : rest[k] = w
  PROVE  Dropped(u, v, r, rest) \in LessOne(S, T, u, v, r)
<1> DEFINE D == DOMAIN u.current_req \ {v}
           map == L!Erase(u.current_map, v)
           req == L!Erase(u.current_req, v)
           out == Append(u.out_mem_requst, r)
           d == Dropped(u, v, r, rest)
           made == [in_request |-> u.in_request, out_mem_requst |-> out, current_map |-> map,
                    current_req |-> req, entry_aging_queue |-> rest]
<1>1. /\ u = [in_request |-> u.in_request, out_mem_requst |-> u.out_mem_requst,
              current_map |-> u.current_map, current_req |-> u.current_req,
              entry_aging_queue |-> u.entry_aging_queue]
      /\ u.in_request \in Seq(Listed(S)) /\ u.out_mem_requst \in Seq(ListWrites)
      /\ u.current_map \in [DOMAIN u.current_map -> Int]
      /\ u.current_req \in [DOMAIN u.current_req -> ListWrites]
      /\ DOMAIN u.current_req \subseteq Entries(T)
      /\ DOMAIN u.current_map = DOMAIN u.current_req
      /\ \A w \in DOMAIN u.current_req : L!ValueOf(u.current_req[w]) = w
  BY UnitParts
<1>2. d = made
  <2>1. PICK in, o, mp, rq, ag :
          u = [in_request |-> in, out_mem_requst |-> o, current_map |-> mp,
               current_req |-> rq, entry_aging_queue |-> ag]
    BY <1>1
  <2>2. L!DropEntry([L!Emit([in_request |-> in, out_mem_requst |-> o, current_map |-> mp,
                             current_req |-> rq, entry_aging_queue |-> ag], r)
                     EXCEPT !.entry_aging_queue = rest], v)
        = [in_request |-> in, out_mem_requst |-> Append(o, r),
           current_map |-> L!Erase(mp, v), current_req |-> L!Erase(rq, v),
           entry_aging_queue |-> rest]
    BY DropOfParts
  <2> QED BY <2>1, <2>2 DEF Dropped
<1>3. out \in Seq(ListWrites)
  BY <1>1
<1>4. /\ map \in [D -> Int] /\ req \in [D -> ListWrites] /\ D \in SUBSET Entries(T)
      /\ \A w \in D : req[w] = u.current_req[w]
  BY <1>1 DEF L!Erase, L!Restrict
<1> HIDE DEF map, req, out, d
<1>5. \A w \in D : L!ValueOf(req[w]) = w /\ \E k \in DOMAIN rest : rest[k] = w
  BY <1>1, <1>4
<1> HIDE DEF D
<1>6. made \in UnitSet(S, T)
  BY <1>1, <1>3, <1>4, <1>5, UnitMade
<1>7. DOMAIN made.current_req = D
  BY <1>4
<1>8. made.in_request = u.in_request /\ made.out_mem_requst = out
  OBVIOUS
<1> HIDE DEF made
<1> QED BY <1>2, <1>6, <1>7, <1>8 DEF D, out, d, LessOne

\* Emit and the new aging queue leave the rest of a unit alone.
LEMMA EmitOfParts ==
  ASSUME NEW S, NEW T, NEW u \in UnitSet(S, T), NEW r
  PROVE  /\ L!Emit(u, r) = [L!Emit(u, r) EXCEPT !.entry_aging_queue = u.entry_aging_queue]
<1>1. PICK in, o, mp, rq, ag :
        u = [in_request |-> in, out_mem_requst |-> o, current_map |-> mp,
             current_req |-> rq, entry_aging_queue |-> ag]
  BY UnitParts
<1>2. L!Emit(u, r) = [in_request |-> in, out_mem_requst |-> Append(o, r), current_map |-> mp,
                      current_req |-> rq, entry_aging_queue |-> ag]
  <2> DEFINE x == Append(o, r)
  <2>1. L!Emit(u, r) = [u EXCEPT !.out_mem_requst = x]
    BY <1>1 DEF L!Emit
  <2> HIDE DEF x
  <2>2. [u EXCEPT !.out_mem_requst = x]
        = [in_request |-> in, out_mem_requst |-> x, current_map |-> mp,
           current_req |-> rq, entry_aging_queue |-> ag]
    BY <1>1
  <2> QED BY <2>1, <2>2 DEF x
<1>3. u.entry_aging_queue = ag
  BY <1>1
<1> QED BY <1>2, <1>3

\* A merge: one more is counted, or the entry is written.
LEMMA MergeKeeps ==
  ASSUME NEW S, NEW T, NEW u \in UnitSet(S, T), NEW v \in DOMAIN u.current_map,
         NEW r \in ListWrites
  PROVE  L!MergeEntry(u, v, r) \in UnitSet(S, T)
<1>0. /\ u.current_map \in [DOMAIN u.current_map -> Int]
      /\ u.current_req \in [DOMAIN u.current_req -> ListWrites]
      /\ DOMAIN u.current_req \subseteq Entries(T)
      /\ DOMAIN u.current_map = DOMAIN u.current_req
      /\ u.in_request \in Seq(Listed(S)) /\ u.out_mem_requst \in Seq(ListWrites)
      /\ u.entry_aging_queue \in Seq(Entries(T))
      /\ \A w \in DOMAIN u.current_req :
              /\ L!ValueOf(u.current_req[w]) = w
              /\ \E k \in DOMAIN u.entry_aging_queue : u.entry_aging_queue[k] = w
  BY UnitParts
<1>1. CASE u.current_map[v] < max_merge
  <2> DEFINE map == [u.current_map EXCEPT ![v] = @ + 1]
  <2>1. map \in [DOMAIN u.current_req -> Int]
    <3> DEFINE f == u.current_map
    <3>1. f \in [DOMAIN f -> Int] /\ v \in DOMAIN f /\ f[v] \in Int
      BY <1>0
    <3> HIDE DEF f
    <3>2. [f EXCEPT ![v] = @ + 1] \in [DOMAIN f -> Int]
      BY <3>1
    <3> QED BY <1>0, <3>2 DEF f
  <2>2. PICK in, o, mp, rq, ag :
          u = [in_request |-> in, out_mem_requst |-> o, current_map |-> mp,
               current_req |-> rq, entry_aging_queue |-> ag]
    BY UnitParts
  <2>3. L!MergeEntry(u, v, r) = [u EXCEPT !.current_map = map]
    BY <1>1, <2>2 DEF L!MergeEntry
  <2>4. [u EXCEPT !.current_map = map]
        = [in_request |-> in, out_mem_requst |-> o, current_map |-> map,
           current_req |-> rq, entry_aging_queue |-> ag]
    <3> HIDE DEF map
    <3> QED BY <2>2
  <2>5. /\ in = u.in_request /\ o = u.out_mem_requst /\ rq = u.current_req
        /\ ag = u.entry_aging_queue
    BY <2>2
  <2> HIDE DEF map
  <2>6. [in_request |-> u.in_request, out_mem_requst |-> u.out_mem_requst, current_map |-> map,
         current_req |-> u.current_req, entry_aging_queue |-> u.entry_aging_queue] \in UnitSet(S, T)
    <3> DEFINE D == DOMAIN u.current_req
    <3>1. D \in SUBSET Entries(T)
      BY <1>0
    <3> QED BY <1>0, <2>1, <3>1, UnitMade
  <2> QED BY <2>3, <2>4, <2>5, <2>6
<1>2. CASE ~ (u.current_map[v] < max_merge)
  <2>1. L!MergeEntry(u, v, r) = L!DropEntry(L!Emit(u, r), v)
    BY <1>2 DEF L!MergeEntry
  <2>2. Dropped(u, v, r, u.entry_aging_queue) \in LessOne(S, T, u, v, r)
    BY <1>0, UnitDrop
  <2>3. L!Emit(u, r) = [L!Emit(u, r) EXCEPT !.entry_aging_queue = u.entry_aging_queue]
    BY EmitOfParts
  <2> QED BY <2>1, <2>2, <2>3 DEF Dropped, LessOne
<1> QED BY <1>1, <1>2

\* An eviction, when there is an entry
LEMMA EvictKeeps ==
  ASSUME NEW S, NEW T, NEW u \in UnitSet(S, T), DOMAIN u.current_req # {}
  PROVE  /\ L!EvictEntry(u) \in UnitSet(S, T)
         /\ L!EvictEntry(u).in_request = u.in_request
         /\ DOMAIN L!EvictEntry(u).current_req \subseteq DOMAIN u.current_req
         /\ \E w \in DOMAIN u.current_req :
              L!EvictEntry(u) \in LessOne(S, T, u, w, u.current_req[w])
<1> DEFINE q == u.entry_aging_queue
           live == {i \in 1 .. Len(q) : q[i] \in DOMAIN u.current_req}
           i == L!OldestLive(u)
           w == q[i]
           r == u.current_req[w]
           rest == SubSeq(q, i + 1, Len(q))
<1>1. /\ u.current_req \in [DOMAIN u.current_req -> ListWrites]
      /\ q \in Seq(Entries(T)) /\ Len(q) \in Nat /\ DOMAIN q = 1 .. Len(q)
      /\ \A v \in DOMAIN u.current_req : \E k \in DOMAIN q : q[k] = v
  <2>1. /\ u.current_req \in [DOMAIN u.current_req -> ListWrites]
        /\ q \in Seq(Entries(T))
        /\ \A v \in DOMAIN u.current_req : \E k \in DOMAIN q : q[k] = v
    BY UnitParts
  <2> HIDE DEF q
  <2> QED BY <2>1
<1> HIDE DEF q
<1>2. live # {} /\ live \in SUBSET Nat
  BY <1>1
<1>3. i = L!Min(live)
  BY <1>2 DEF L!OldestLive, L!SelectInSeq, q
<1>4. i \in live /\ \A y \in live : i <= y
  BY <1>2, <1>3, LeastOfSet
<1>5. i \in 1 .. Len(q) /\ w \in DOMAIN u.current_req /\ r \in ListWrites
  BY <1>1, <1>4
<1> HIDE DEF i
<1>6. /\ rest \in Seq(Entries(T)) /\ Len(rest) = Len(q) - i
      /\ \A k \in 1 .. Len(rest) : rest[k] = q[k + i]
  <2>1. q \in Seq(Entries(T)) /\ Len(q) \in Nat /\ i \in 1 .. Len(q)
    BY <1>1, <1>5
  <2> QED BY <2>1
<1>7. ASSUME NEW v \in DOMAIN u.current_req \ {w}
      PROVE  \E k \in DOMAIN rest : rest[k] = v
  <2>1. PICK j \in 1 .. Len(q) : q[j] = v
    BY <1>1
  <2>2. j \in live /\ i <= j /\ i # j
    BY <1>4, <2>1
  <2>3. j - i \in 1 .. Len(rest) /\ rest[j - i] = q[(j - i) + i] /\ (j - i) + i = j
    <3>1. i \in 1 .. Len(q) /\ Len(q) \in Nat /\ Len(rest) = Len(q) - i
      BY <1>1, <1>5, <1>6
    <3> HIDE DEF rest
    <3>2. j - i \in 1 .. Len(rest) /\ (j - i) + i = j
      BY <2>1, <2>2, <3>1
    <3> QED BY <1>6, <3>2
  <2>4. DOMAIN rest = 1 .. Len(rest)
    BY <1>6
  <2> QED BY <2>1, <2>3, <2>4
<1> DEFINE d == Dropped(u, w, r, rest)
<1> HIDE DEF w, r, rest
<1>8. /\ d \in UnitSet(S, T) /\ d.in_request = u.in_request
      /\ DOMAIN d.current_req = DOMAIN u.current_req \ {w}
      /\ d \in LessOne(S, T, u, w, r)
  <2>1. rest \in Seq(Entries(T)) /\ r \in ListWrites
    BY <1>5, <1>6
  <2>2. \A v \in DOMAIN u.current_req \ {w} : \E k \in DOMAIN rest : rest[k] = v
    BY <1>7
  <2> HIDE DEF live, d
  <2>3. Dropped(u, w, r, rest) \in LessOne(S, T, u, w, r)
    BY <2>1, <2>2, UnitDrop
  <2> QED BY <2>3 DEF d, LessOne
<1>9. L!EvictEntry(u) = d
  <2>1. L!Emit(u, r).entry_aging_queue = q
    <3>1. PICK in, o, mp, rq, ag :
            u = [in_request |-> in, out_mem_requst |-> o, current_map |-> mp,
                 current_req |-> rq, entry_aging_queue |-> ag]
      BY UnitParts
    <3> QED BY <3>1 DEF L!Emit, q
  <2> QED BY <2>1 DEF L!EvictEntry, Dropped, q, i, w, r, rest
<1> HIDE DEF d
<1>10. w \in DOMAIN u.current_req /\ r = u.current_req[w]
  BY <1>5 DEF r
<1> QED BY <1>8, <1>9, <1>10

\* A new entry
LEMMA EntryKeeps ==
  ASSUME NEW S, NEW T, NEW u \in UnitSet(S, T), NEW v \in Entries(T), NEW r \in ListWrites,
         L!ValueOf(r) = v
  PROVE  L!NewEntry(u, v, r) \in UnitSet(S, T)
<1> DEFINE D == DOMAIN u.current_req \cup {v}
           map == L!Insert(u.current_map, v, 1)
           req == L!Insert(u.current_req, v, r)
           aging == Append(u.entry_aging_queue, v)
<1>1. /\ u.current_map \in [DOMAIN u.current_map -> Int]
      /\ u.current_req \in [DOMAIN u.current_req -> ListWrites]
      /\ DOMAIN u.current_req \subseteq Entries(T)
      /\ DOMAIN u.current_map = DOMAIN u.current_req
      /\ u.in_request \in Seq(Listed(S)) /\ u.out_mem_requst \in Seq(ListWrites)
      /\ u.entry_aging_queue \in Seq(Entries(T))
      /\ \A w \in DOMAIN u.current_req :
              /\ L!ValueOf(u.current_req[w]) = w
              /\ \E k \in DOMAIN u.entry_aging_queue : u.entry_aging_queue[k] = w
  BY UnitParts
<1>2. PICK in, o, mp, rq, ag :
        u = [in_request |-> in, out_mem_requst |-> o, current_map |-> mp,
             current_req |-> rq, entry_aging_queue |-> ag]
  BY UnitParts
<1>3. /\ in = u.in_request /\ o = u.out_mem_requst /\ mp = u.current_map
      /\ rq = u.current_req /\ ag = u.entry_aging_queue
  BY <1>2
<1>4. /\ map \in [D -> Int] /\ req \in [D -> ListWrites] /\ D \in SUBSET Entries(T)
      /\ req[v] = r /\ \A w \in D \ {v} : req[w] = u.current_req[w]
  BY <1>1 DEF L!Insert
<1>5. /\ aging \in Seq(Entries(T))
      /\ \A w \in D : \E k \in DOMAIN aging : aging[k] = w
  <2> DEFINE q == u.entry_aging_queue
  <2>1. /\ aging \in Seq(Entries(T)) /\ DOMAIN q = 1 .. Len(q) /\ Len(q) \in Nat
        /\ DOMAIN aging = 1 .. Len(q) + 1
        /\ \A k \in 1 .. Len(q) : aging[k] = q[k]
        /\ aging[Len(q) + 1] = v
    BY <1>1, AppendElements
  <2>2. \A w \in DOMAIN u.current_req : \E k \in DOMAIN q : q[k] = w
    BY <1>1
  <2> HIDE DEF q, aging
  <2>3. \A k \in DOMAIN q : k \in DOMAIN aging /\ aging[k] = q[k]
    BY <2>1
  <2>4. Len(q) + 1 \in DOMAIN aging /\ aging[Len(q) + 1] = v
    BY <2>1
  <2> QED BY <2>1, <2>2, <2>3, <2>4
<1>6. L!NewEntry(u, v, r) = [[[u EXCEPT !.entry_aging_queue = aging]
                                EXCEPT !.current_map = map] EXCEPT !.current_req = req]
  BY <1>2, <1>3 DEF L!NewEntry
<1> HIDE DEF map, req, aging
<1>7. [u EXCEPT !.entry_aging_queue = aging]
      = [in_request |-> in, out_mem_requst |-> o, current_map |-> mp,
         current_req |-> rq, entry_aging_queue |-> aging]
  BY <1>2
<1>8. [[in_request |-> in, out_mem_requst |-> o, current_map |-> mp,
        current_req |-> rq, entry_aging_queue |-> aging] EXCEPT !.current_map = map]
      = [in_request |-> in, out_mem_requst |-> o, current_map |-> map,
         current_req |-> rq, entry_aging_queue |-> aging]
  OBVIOUS
<1>9. [[in_request |-> in, out_mem_requst |-> o, current_map |-> map,
        current_req |-> rq, entry_aging_queue |-> aging] EXCEPT !.current_req = req]
      = [in_request |-> in, out_mem_requst |-> o, current_map |-> map,
         current_req |-> req, entry_aging_queue |-> aging]
  OBVIOUS
<1>10. \A w \in D : /\ L!ValueOf(req[w]) = w
                    /\ \E k \in DOMAIN aging : aging[k] = w
  BY <1>1, <1>4, <1>5
<1> HIDE DEF D
<1>11. [in_request |-> in, out_mem_requst |-> o, current_map |-> map,
        current_req |-> req, entry_aging_queue |-> aging] \in UnitSet(S, T)
  BY <1>1, <1>3, <1>4, <1>5, <1>10, UnitMade
<1> QED BY <1>6, <1>7, <1>8, <1>9, <1>11

\* A cycle of a list write unit.  Only a unit with an assignment in the machine
\* is given anything, and then every list may have an entry.
LEMMA UnitCycle ==
  ASSUME NEW S, NEW T, S \subseteq Assign, S # {} => T = Assign, NEW u \in UnitSet(S, T)
  PROVE  L!DoCycle(u) \in UnitSet(S, T)
<1> DEFINE h == Head(u.in_request)
           r == [h EXCEPT !.type = "WriteWatcherList"]
           v == L!ValueOf(r)
           popped == [u EXCEPT !.in_request = Tail(@)]
<1>1. CASE u.in_request = <<>>
  BY <1>1 DEF L!DoCycle
<1>2. CASE u.in_request # <<>>
  <2>1. u.in_request \in Seq(Listed(S))
    BY UnitParts
  <2>2. h \in Listed(S) /\ Tail(u.in_request) \in Seq(Listed(S))
    BY <1>2, <2>1, TailElements
  <2>3. r \in Listed(S) /\ r.type = "WriteWatcherList"
    <3> HIDE DEF h
    <3> QED BY <2>2 DEF Listed, Owned, Request, AccessType
  <2>4. popped \in UnitSet(S, T)
    <3>1. PICK in, o, mp, rq, ag :
            u = [in_request |-> in, out_mem_requst |-> o, current_map |-> mp,
                 current_req |-> rq, entry_aging_queue |-> ag]
      BY UnitParts
    <3>2. popped = [in_request |-> Tail(u.in_request), out_mem_requst |-> o, current_map |-> mp,
                    current_req |-> rq, entry_aging_queue |-> ag]
      <4> DEFINE t == Tail(u.in_request)
      <4> HIDE DEF t
      <4>1. [u EXCEPT !.in_request = t]
            = [in_request |-> t, out_mem_requst |-> o, current_map |-> mp,
               current_req |-> rq, entry_aging_queue |-> ag]
        BY <3>1
      <4> QED BY <4>1 DEF t
    <3>3. /\ o = u.out_mem_requst /\ mp = u.current_map
          /\ rq = u.current_req /\ ag = u.entry_aging_queue
      BY <3>1
    <3> HIDE DEF popped
    <3>4. [in_request |-> Tail(u.in_request), out_mem_requst |-> u.out_mem_requst,
           current_map |-> u.current_map, current_req |-> u.current_req,
           entry_aging_queue |-> u.entry_aging_queue] \in UnitSet(S, T)
      <4>1. /\ u.current_map \in [DOMAIN u.current_req -> Int]
            /\ u.current_req \in [DOMAIN u.current_req -> ListWrites]
            /\ DOMAIN u.current_req \in SUBSET Entries(T)
            /\ u.out_mem_requst \in Seq(ListWrites)
            /\ u.entry_aging_queue \in Seq(Entries(T))
            /\ \A w \in DOMAIN u.current_req :
                    /\ L!ValueOf(u.current_req[w]) = w
                    /\ \E k \in DOMAIN u.entry_aging_queue : u.entry_aging_queue[k] = w
        BY UnitParts
      <4> QED BY <2>2, <4>1, UnitMade
    <3> QED BY <3>2, <3>3, <3>4
  <2> HIDE DEF r, h
  <2>5. r \in ListWrites /\ v \in Entries(T)
    <3>1. r \in Listed(Assign)
      BY <2>3, KindsMonotone
    <3>2. S # {} /\ v \in Value
      BY <2>3, ListOf DEF Listed, Owned
    <3> QED BY <2>3, <3>1, <3>2 DEF ListWrites, Entries
  <2>6. popped.current_map = u.current_map /\ popped.current_req = u.current_req
        /\ DOMAIN u.current_map = DOMAIN u.current_req
    BY UnitParts DEF UnitSet
  <2> HIDE DEF popped, v
  <2>7. CASE v \in DOMAIN u.current_map
    <3>1. L!DoCycle(u) = L!MergeEntry(popped, v, r)
      BY <1>2, <2>7 DEF L!DoCycle, popped, v, r, h
    <3> QED BY <2>4, <2>5, <2>6, <2>7, <3>1, MergeKeeps
  <2>8. CASE v \notin DOMAIN u.current_map
    <3> DEFINE room == IF L!Full(u) THEN L!EvictEntry(popped) ELSE popped
    <3>1. L!DoCycle(u) = L!NewEntry(room, v, r)
      BY <1>2, <2>8 DEF L!DoCycle, popped, v, r, h
    <3>2. room \in UnitSet(S, T)
      <4>1. CASE L!Full(u)
        <5>1. DOMAIN u.current_map # {}
          <6>1. L!Cardinality({}) = 0
            BY FS_EmptySet DEF Cardinality, L!Cardinality
          <6>2. max_entry \in Nat /\ max_entry > 0
            BY AccAssumption
          <6> QED BY <4>1, <6>1, <6>2 DEF L!Full
        <5> QED BY <2>4, <2>6, <4>1, <5>1, EvictKeeps
      <4>2. CASE ~ L!Full(u)
        BY <2>4, <4>2
      <4> QED BY <4>1, <4>2
    <3> HIDE DEF room
    <3>3. v = L!ValueOf(r)
      BY DEF v
    <3> QED BY <2>5, <3>1, <3>2, <3>3, EntryKeeps
  <2> QED BY <2>7, <2>8
<1> QED BY <1>1, <1>2

\* flush empties the tables and sends what is in them.
LEMMA FlushKeeps ==
  ASSUME NEW S, NEW T, NEW R, NEW u \in UnitSet(S, T),
         NEW order \in L!KeyOrders(u.current_req)
  PROVE  /\ L!FlushUnit(u, order) \in UnitSet(S, R)
         /\ L!IsFlushed(L!FlushUnit(u, order))
<1> DEFINE D == DOMAIN u.current_req
           q == u.entry_aging_queue
           sent == L!InOrder(u.current_req, order)
           out == u.out_mem_requst \o sent
<1>1. /\ u.current_req \in [D -> ListWrites]
      /\ u.in_request \in Seq(Listed(S)) /\ u.out_mem_requst \in Seq(ListWrites)
      /\ q \in Seq(Entries(T))
      /\ \A v \in D : \E k \in DOMAIN q : q[k] = v
  BY UnitParts
<1>2. IsFiniteSet(D)
  <2> HIDE DEF q, D
  <2>1. Range(q) = {q[k] : k \in DOMAIN q} /\ DOMAIN q = 1 .. Len(q) /\ Len(q) \in Nat
    BY <1>1 DEF Range
  <2>2. q \in Surjection(1 .. Len(q), Range(q))
    <3>1. q \in [1 .. Len(q) -> Range(q)]
      BY <1>1, <2>1
    <3>2. \A v \in Range(q) : \E k \in 1 .. Len(q) : q[k] = v
      BY <2>1
    <3> QED BY <3>1, <3>2 DEF Surjection
  <2>3. IsFiniteSet(1 .. Len(q))
    BY <2>1, FS_Interval
  <2>4. D \subseteq Range(q)
    BY <1>1, <2>1
  <2> QED BY <2>2, <2>3, <2>4, FS_Surjection, FS_Subset
<1>3. L!Cardinality(D) \in Nat
  <2>1. Cardinality(D) \in Nat
    BY <1>2, FS_CardinalityType
  <2>2. L!Cardinality(D) = Cardinality(D)
    BY DEF Cardinality, L!Cardinality
  <2> QED BY <2>1, <2>2
<1>4. order \in [1 .. L!Cardinality(D) -> D]
  BY DEF L!KeyOrders, L!SetToSeqs
<1> HIDE DEF D
<1>5. sent \in Seq(ListWrites)
  <2> DEFINE f == u.current_req
             n == L!Cardinality(D)
  <2>1. f \in [D -> ListWrites] /\ order \in [1 .. n -> D] /\ n \in Nat
    BY <1>1, <1>3, <1>4
  <2> HIDE DEF f, n
  <2>2. sent \in [1 .. n -> ListWrites]
    BY <2>1 DEF L!InOrder, f
  <2> HIDE DEF sent
  <2> QED BY <2>1, <2>2
<1> HIDE DEF sent
<1>6. out \in Seq(ListWrites)
  BY <1>1, <1>5
<1>7. PICK in, o, mp, rq, ag :
        u = [in_request |-> in, out_mem_requst |-> o, current_map |-> mp,
             current_req |-> rq, entry_aging_queue |-> ag]
  BY UnitParts
<1>8. in = u.in_request
  BY <1>7
<1>9. L!FlushUnit(u, order)
      = [[[[u EXCEPT !.entry_aging_queue = <<>>] EXCEPT !.out_mem_requst = out]
           EXCEPT !.current_map = L!EmptyMap] EXCEPT !.current_req = L!EmptyMap]
  BY <1>7 DEF L!FlushUnit, sent
<1> HIDE DEF out
<1>10. [u EXCEPT !.entry_aging_queue = <<>>]
       = [in_request |-> in, out_mem_requst |-> o, current_map |-> mp,
          current_req |-> rq, entry_aging_queue |-> <<>>]
  BY <1>7
<1>11. [[in_request |-> in, out_mem_requst |-> o, current_map |-> mp,
         current_req |-> rq, entry_aging_queue |-> <<>>] EXCEPT !.out_mem_requst = out]
       = [in_request |-> in, out_mem_requst |-> out, current_map |-> mp,
          current_req |-> rq, entry_aging_queue |-> <<>>]
  OBVIOUS
<1>12. [[in_request |-> in, out_mem_requst |-> out, current_map |-> mp,
         current_req |-> rq, entry_aging_queue |-> <<>>] EXCEPT !.current_map = L!EmptyMap]
       = [in_request |-> in, out_mem_requst |-> out, current_map |-> L!EmptyMap,
          current_req |-> rq, entry_aging_queue |-> <<>>]
  OBVIOUS
<1>13. [[in_request |-> in, out_mem_requst |-> out, current_map |-> L!EmptyMap,
         current_req |-> rq, entry_aging_queue |-> <<>>] EXCEPT !.current_req = L!EmptyMap]
       = [in_request |-> in, out_mem_requst |-> out, current_map |-> L!EmptyMap,
          current_req |-> L!EmptyMap, entry_aging_queue |-> <<>>]
  OBVIOUS
<1>14. /\ L!EmptyMap \in [{} -> Int] /\ L!EmptyMap \in [{} -> ListWrites]
       /\ DOMAIN L!EmptyMap = {} /\ {} \in SUBSET Entries(R) /\ <<>> \in Seq(Entries(R))
  BY DEF L!EmptyMap
<1>15. [in_request |-> in, out_mem_requst |-> out, current_map |-> L!EmptyMap,
        current_req |-> L!EmptyMap, entry_aging_queue |-> <<>>] \in UnitSet(S, R)
  BY <1>1, <1>6, <1>8, <1>14, UnitMade
<1>16. L!FlushUnit(u, order) = [in_request |-> in, out_mem_requst |-> out,
        current_map |-> L!EmptyMap, current_req |-> L!EmptyMap, entry_aging_queue |-> <<>>]
  BY <1>9, <1>10, <1>11, <1>12, <1>13
<1>17. L!IsFlushed(L!FlushUnit(u, order))
  BY <1>14, <1>16 DEF L!IsFlushed
<1> QED BY <1>15, <1>16, <1>17

-----------------------------------------------------------------------------
(* Functions to a set for each argument, and sequences of sequences         *)

\* The functions that map every i of the domain of F into F[i]
Each(F) == {f \in [DOMAIN F -> UNION {F[i] : i \in DOMAIN F}] : \A i \in DOMAIN F : f[i] \in F[i]}

\* A value of such a function; the function with one value replaced
LEMMA EachSet ==
  ASSUME NEW F, NEW f \in Each(F), NEW i \in DOMAIN F
  PROVE  f[i] \in F[i] /\ \A x \in F[i] : [f EXCEPT ![i] = x] \in Each(F)
BY DEF Each

\* Functions are in Each when their values are where they belong.
LEMMA EachMade ==
  ASSUME NEW F, NEW g, g = [i \in DOMAIN F |-> g[i]], \A i \in DOMAIN F : g[i] \in F[i]
  PROVE  g \in Each(F)
BY DEF Each

\* The larger the sets, the more functions
LEMMA EachMonotone ==
  ASSUME NEW F, NEW G, DOMAIN F = DOMAIN G, \A i \in DOMAIN F : F[i] \subseteq G[i]
  PROVE  Each(F) \subseteq Each(G)
BY DEF Each

\* The concatenation of sequences is well defined.
LEMMA FlattenExists ==
  ASSUME NEW n \in Nat, NEW s
  PROVE  \E f : f = [i \in 1 .. n |-> IF i = 1 THEN s[i] ELSE f[i - 1] \o s[i]]
<1> DEFINE Upto(l) == \E f : f = [i \in 1 .. l |-> IF i = 1 THEN s[i] ELSE f[i - 1] \o s[i]]
           X == {l \in Nat : Upto(l)}
<1>1. Upto(0)
  <2> DEFINE g == [i \in 1 .. 0 |-> s[i]]
  <2>1. g = [i \in 1 .. 0 |-> IF i = 1 THEN s[i] ELSE g[i - 1] \o s[i]]
    OBVIOUS
  <2> HIDE DEF g
  <2> QED BY <2>1
<1>2. ASSUME NEW l \in Nat, Upto(l) PROVE Upto(l + 1)
  <2>1. PICK f : f = [i \in 1 .. l |-> IF i = 1 THEN s[i] ELSE f[i - 1] \o s[i]]
    BY <1>2
  <2> DEFINE g == [i \in 1 .. l + 1 |-> IF i = 1 THEN s[i] ELSE f[i - 1] \o s[i]]
  <2>2. \A i \in 1 .. l : g[i] = f[i]
    <3> SUFFICES ASSUME NEW i \in 1 .. l PROVE g[i] = f[i]
      OBVIOUS
    <3>1. f[i] = IF i = 1 THEN s[i] ELSE f[i - 1] \o s[i]
      BY <2>1
    <3>2. i \in 1 .. l + 1
      OBVIOUS
    <3> QED BY <3>1, <3>2
  <2> HIDE DEF g
  <2>3. ASSUME NEW i \in 1 .. l + 1, i # 1 PROVE g[i - 1] = f[i - 1]
    <3>1. i - 1 \in 1 .. l
      BY <2>3
    <3> QED BY <2>2, <3>1
  <2>4. g = [i \in 1 .. l + 1 |-> IF i = 1 THEN s[i] ELSE g[i - 1] \o s[i]]
    BY <2>3 DEF g
  <2> QED BY <2>4
<1> HIDE DEF Upto
<1>3. \A l \in Nat : l \in X
  <2>1. 0 \in X /\ \A l \in Nat : l \in X => l + 1 \in X
    BY <1>1, <1>2
  <2> HIDE DEF X
  <2> QED BY <2>1, NatSetInduction
<1> QED BY <1>3 DEF Upto

\* Concatenating queues of a set gives a queue of that set.
LEMMA FlattenType ==
  ASSUME NEW K, NEW n \in Nat, NEW s \in [1 .. n -> Seq(K)]
  PROVE  N!FlattenSeq(s) \in Seq(K)
<1> DEFINE f == CHOOSE g : g = [i \in 1 .. n |-> IF i = 1 THEN s[i] ELSE g[i - 1] \o s[i]]
           X == {l \in Nat : l \in 1 .. n => f[l] \in Seq(K)}
<1>1. Len(s) = n
  OBVIOUS
<1>2. CASE n = 0
  <2>1. N!FlattenSeq(s) = s
    BY <1>1, <1>2 DEF N!FlattenSeq
  <2>2. s \in Seq(K)
    BY <1>2
  <2> QED BY <2>1, <2>2
<1>3. CASE n # 0
  <2>1. f = [i \in 1 .. n |-> IF i = 1 THEN s[i] ELSE f[i - 1] \o s[i]]
    <3>1. \E g : g = [i \in 1 .. n |-> IF i = 1 THEN s[i] ELSE g[i - 1] \o s[i]]
      BY FlattenExists
    <3> QED BY <3>1
  <2>2. N!FlattenSeq(s) = f[n]
    BY <1>1, <1>3 DEF N!FlattenSeq
  <2> HIDE DEF f
  <2>3. 0 \in X
    OBVIOUS
  <2>4. ASSUME NEW l \in Nat, l \in X PROVE l + 1 \in X
    <3> SUFFICES ASSUME l + 1 \in 1 .. n PROVE f[l + 1] \in Seq(K)
      OBVIOUS
    <3>1. s[l + 1] \in Seq(K)
      OBVIOUS
    <3>2. CASE l = 0
      BY <2>1, <3>1, <3>2
    <3>3. CASE l # 0
      <4>1. l \in 1 .. n /\ l + 1 # 1 /\ (l + 1) - 1 = l
        BY <3>3
      <4>2. f[l + 1] = f[l] \o s[l + 1]
        BY <2>1, <4>1
      <4>3. f[l] \in Seq(K)
        BY <2>4, <4>1
      <4>4. f[l] \o s[l + 1] \in Seq(K)
        BY <3>1, <4>3
      <4> QED BY <4>2, <4>4
    <3> QED BY <3>2, <3>3
  <2> HIDE DEF X
  <2>5. n \in X
    BY <2>3, <2>4, NatSetInduction
  <2>6. n \in 1 .. n
    BY <1>3
  <2> QED BY <2>2, <2>5, <2>6 DEF X
<1> QED BY <1>2, <1>3

-----------------------------------------------------------------------------
(* A network of n nodes whose packets are in K                              *)

\* The requests that may arrive at node i
At(K, i) == {r \in Request : N!Packet(r, i) \in K}
Arrivals(n, K) == [i \in 0 .. n - 1 |-> Seq(At(K, i))]
NetSet(n, K) == [kind : {"Mesh", "Ideal"}, n_nodes : {n},
                 in_reqs : [0 .. n - 1 -> Seq(K)], inflight : [0 .. n - 1 -> Seq(K)],
                 out_reqs : Each(Arrivals(n, K))]
Packets == [req : Request, icnt_to : Nat]

\* The parts of a network
LEMMA NetParts ==
  ASSUME NEW n, NEW K, NEW net \in NetSet(n, K)
  PROVE  /\ net.kind \in {"Mesh", "Ideal"} /\ net.n_nodes = n
         /\ net.in_reqs \in [0 .. n - 1 -> Seq(K)] /\ net.inflight \in [0 .. n - 1 -> Seq(K)]
         /\ net.out_reqs \in Each(Arrivals(n, K))
         /\ DOMAIN Arrivals(n, K) = 0 .. n - 1
         /\ \A i \in 0 .. n - 1 : Arrivals(n, K)[i] = Seq(At(K, i)) /\ net.out_reqs[i] \in Seq(At(K, i))
BY DEF NetSet, Each, Arrivals

\* A network with other queues
LEMMA NetEdited ==
  ASSUME NEW n, NEW K, NEW net \in NetSet(n, K)
  PROVE  /\ \A x \in [0 .. n - 1 -> Seq(K)] : [net EXCEPT !.in_reqs = x] \in NetSet(n, K)
         /\ \A x \in [0 .. n - 1 -> Seq(K)] : [net EXCEPT !.inflight = x] \in NetSet(n, K)
         /\ \A x \in Each(Arrivals(n, K)) : [net EXCEPT !.out_reqs = x] \in NetSet(n, K)
BY DEF NetSet

\* A packet enters at node source.
LEMMA NetPush ==
  ASSUME NEW n, NEW K, NEW net \in NetSet(n, K), NEW source \in 0 .. n - 1,
         NEW req, NEW to, N!Packet(req, to) \in K
  PROVE  N!Push(net, source, req, to) \in NetSet(n, K)
<1> DEFINE p == N!Packet(req, to)
           q == net.in_reqs
           x == [q EXCEPT ![source] = Append(@, p)]
<1>1. q \in [0 .. n - 1 -> Seq(K)]
  BY NetParts
<1> HIDE DEF p, q
<1>2. Append(q[source], p) \in Seq(K)
  <2>1. q[source] \in Seq(K)
    BY <1>1
  <2> QED BY <2>1 DEF p
<1>3. x \in [0 .. n - 1 -> Seq(K)]
  BY <1>1, <1>2
<1>4. N!Push(net, source, req, to) = [net EXCEPT !.in_reqs = x]
  BY DEF N!Push, p, q
<1> HIDE DEF x
<1> QED BY <1>3, <1>4, NetEdited

\* A request arrives at its node.
LEMMA NetArrive ==
  ASSUME NEW n, NEW K, NEW net \in NetSet(n, K), NEW i \in 0 .. n - 1, NEW req \in At(K, i)
  PROVE  [net EXCEPT !.out_reqs[i] = Append(@, req)] \in NetSet(n, K)
<1> DEFINE q == net.out_reqs
           x == [q EXCEPT ![i] = Append(@, req)]
<1>1. /\ q \in Each(Arrivals(n, K)) /\ i \in DOMAIN Arrivals(n, K)
      /\ Arrivals(n, K)[i] = Seq(At(K, i)) /\ q[i] \in Seq(At(K, i))
  <2>1. /\ net.out_reqs \in Each(Arrivals(n, K)) /\ DOMAIN Arrivals(n, K) = 0 .. n - 1
        /\ \A k \in 0 .. n - 1 : /\ Arrivals(n, K)[k] = Seq(At(K, k))
                                /\ net.out_reqs[k] \in Seq(At(K, k))
    BY NetParts
  <2> QED BY <2>1
<1>2. Append(q[i], req) \in Arrivals(n, K)[i]
  BY <1>1
<1> HIDE DEF q
<1>3. x \in Each(Arrivals(n, K))
  BY <1>1, <1>2, EachSet
<1>4. [net EXCEPT !.out_reqs[i] = Append(@, req)] = [net EXCEPT !.out_reqs = x]
  BY DEF q
<1> HIDE DEF x
<1> QED BY <1>3, <1>4, NetEdited

\* A request to another node is pushed, one to its own node has arrived.
LEMMA NetPushOrDeliver ==
  ASSUME NEW n, NEW K, NEW net \in NetSet(n, K), NEW source \in 0 .. n - 1,
         NEW req \in Request, NEW to, N!Packet(req, to) \in K
  PROVE  N!PushOrDeliver(net, source, req, to) \in NetSet(n, K)
<1>1. CASE source = to
  <2>1. req \in At(K, source)
    BY <1>1 DEF At
  <2>2. [net EXCEPT !.out_reqs[source] = Append(@, req)] \in NetSet(n, K)
    BY <2>1, NetArrive
  <2> QED BY <1>1, <2>2 DEF N!PushOrDeliver
<1>2. CASE source # to
  BY <1>2, NetPush DEF N!PushOrDeliver
<1> QED BY <1>1, <1>2

\* The oldest request that arrived is taken.
LEMMA NetPop ==
  ASSUME NEW n, NEW K, NEW net \in NetSet(n, K), NEW i \in 0 .. n - 1, net.out_reqs[i] # <<>>
  PROVE  /\ N!PopOut(net, i) \in NetSet(n, K)
         /\ Head(net.out_reqs[i]) \in At(K, i)
<1> DEFINE q == net.out_reqs
           x == [q EXCEPT ![i] = Tail(@)]
<1>1. /\ q \in Each(Arrivals(n, K)) /\ i \in DOMAIN Arrivals(n, K)
      /\ Arrivals(n, K)[i] = Seq(At(K, i)) /\ q[i] \in Seq(At(K, i))
  <2>1. /\ net.out_reqs \in Each(Arrivals(n, K)) /\ DOMAIN Arrivals(n, K) = 0 .. n - 1
        /\ \A k \in 0 .. n - 1 : /\ Arrivals(n, K)[k] = Seq(At(K, k))
                                /\ net.out_reqs[k] \in Seq(At(K, k))
    BY NetParts
  <2> QED BY <2>1
<1>2. Tail(q[i]) \in Arrivals(n, K)[i] /\ Head(q[i]) \in At(K, i)
  BY <1>1, TailElements
<1>3. N!PopOut(net, i) = [net EXCEPT !.out_reqs = x]
  BY DEF N!PopOut
<1> HIDE DEF q
<1>4. x \in Each(Arrivals(n, K))
  BY <1>1, <1>2, EachSet
<1> HIDE DEF x
<1> QED BY <1>2, <1>3, <1>4, NetEdited DEF q

\* A cycle of the ideal network
LEMMA NetIdealCycle ==
  ASSUME NEW n \in Nat, NEW K \in SUBSET Packets, NEW net \in NetSet(n, K)
  PROVE  N!IdealCycle(net) \in NetSet(n, K)
<1> DEFINE s == [k \in 1 .. net.n_nodes |-> net.in_reqs[k - 1]]
           all == N!FlattenSeq(s)
           mine(i) == [k \in DOMAIN all |-> IF all[k].icnt_to = i THEN <<all[k].req>> ELSE <<>>]
           in == [i \in DOMAIN net.in_reqs |-> <<>>]
           out == [i \in DOMAIN net.out_reqs |-> net.out_reqs[i] \o N!FlattenSeq(mine(i))]
<1>0. /\ net.n_nodes = n /\ net.in_reqs \in [0 .. n - 1 -> Seq(K)]
      /\ net.out_reqs \in Each(Arrivals(n, K)) /\ DOMAIN Arrivals(n, K) = 0 .. n - 1
      /\ \A i \in 0 .. n - 1 : Arrivals(n, K)[i] = Seq(At(K, i)) /\ net.out_reqs[i] \in Seq(At(K, i))
  BY NetParts
<1>1. all \in Seq(K)
  <2>1. s \in [1 .. n -> Seq(K)]
    BY <1>0
  <2> HIDE DEF s
  <2> QED BY <2>1, FlattenType
<1>2. N!IdealCycle(net) = [[net EXCEPT !.in_reqs = in] EXCEPT !.out_reqs = out]
  BY DEF N!IdealCycle, NetSet
<1> HIDE DEF all, s
<1>3. ASSUME NEW i \in 0 .. n - 1 PROVE N!FlattenSeq(mine(i)) \in Seq(At(K, i))
  <2>1. Len(all) \in Nat /\ DOMAIN all = 1 .. Len(all) /\ \A k \in DOMAIN all : all[k] \in K
    BY <1>1
  <2>2. ASSUME NEW k \in DOMAIN all, all[k].icnt_to = i PROVE all[k].req \in At(K, i)
    <3>1. all[k] \in Packets /\ all[k] \in K
      BY <2>1
    <3>2. all[k] = N!Packet(all[k].req, i) /\ all[k].req \in Request
      BY <2>2, <3>1 DEF Packets, N!Packet
    <3> QED BY <3>1, <3>2 DEF At
  <2>3. mine(i) \in [1 .. Len(all) -> Seq(At(K, i))]
    <3>1. ASSUME NEW k \in DOMAIN all
          PROVE  (IF all[k].icnt_to = i THEN <<all[k].req>> ELSE <<>>) \in Seq(At(K, i))
      <4>1. CASE all[k].icnt_to = i
        BY <2>2, <4>1
      <4>2. CASE all[k].icnt_to # i
        BY <4>2
      <4> QED BY <4>1, <4>2
    <3> QED BY <2>1, <3>1
  <2> HIDE DEF mine
  <2> QED BY <2>1, <2>3, FlattenType
<1> HIDE DEF mine
<1>4. in \in [0 .. n - 1 -> Seq(K)]
  BY <1>0
<1>5. out \in Each(Arrivals(n, K))
  <2>1. DOMAIN net.out_reqs = 0 .. n - 1
    BY <1>0 DEF Each
  <2>2. out = [i \in DOMAIN Arrivals(n, K) |-> out[i]]
    BY <1>0, <2>1
  <2>3. ASSUME NEW i \in 0 .. n - 1 PROVE out[i] \in Arrivals(n, K)[i]
    <3>1. out[i] = net.out_reqs[i] \o N!FlattenSeq(mine(i))
      BY <2>1
    <3>2. net.out_reqs[i] \in Seq(At(K, i)) /\ N!FlattenSeq(mine(i)) \in Seq(At(K, i))
      BY <1>0, <1>3
    <3>3. net.out_reqs[i] \o N!FlattenSeq(mine(i)) \in Seq(At(K, i))
      BY <3>2
    <3> QED BY <1>0, <3>1, <3>3
  <2> HIDE DEF out
  <2> QED BY <1>0, <2>2, <2>3, EachMade
<1> DEFINE net1 == [net EXCEPT !.in_reqs = in]
<1> HIDE DEF in, out
<1>6. net1 \in NetSet(n, K)
  BY <1>4, NetEdited
<1>7. N!IdealCycle(net) = [net1 EXCEPT !.out_reqs = out]
  BY <1>2
<1> HIDE DEF net1
<1> QED BY <1>5, <1>6, <1>7, NetEdited

\* The packets that stay in the mesh
LEMMA NetRemaining ==
  ASSUME NEW n, NEW K, NEW net \in NetSet(n, K), NEW receipt, NEW i \in 0 .. n - 1
  PROVE  N!Remaining(net, receipt, i) \in Seq(K)
<1> DEFINE q == net.inflight[i]
           stays(k) == \A j \in DOMAIN receipt : receipt[j] # <<i, k>>
           s == [k \in DOMAIN q |-> IF stays(k) THEN <<q[k]>> ELSE <<>>]
<1>1. q \in Seq(K)
  <2>1. net.inflight \in [0 .. n - 1 -> Seq(K)]
    BY NetParts
  <2> QED BY <2>1
<1>2. N!Remaining(net, receipt, i) = N!FlattenSeq(s)
  BY DEF N!Remaining
<1> HIDE DEF q, stays
<1>3. Len(q) \in Nat /\ DOMAIN q = 1 .. Len(q) /\ \A k \in DOMAIN q : <<q[k]>> \in Seq(K)
  BY <1>1
<1>4. s \in [1 .. Len(q) -> Seq(K)]
  BY <1>3
<1> HIDE DEF s
<1> QED BY <1>2, <1>3, <1>4, FlattenType

\* A cycle of the mesh: some nodes send a packet, some receive one.
LEMMA NetMeshCycle ==
  ASSUME NEW n \in Nat, NEW K \in SUBSET Packets, NEW net \in NetSet(n, K),
         NEW receipt \in N!Receipts(net)
  PROVE  N!MeshCycle(net, receipt) \in NetSet(n, K)
<1> DEFINE sends(i) == net.in_reqs[i] # <<>> /\ N!HasBuffer(net, i)
           in == [i \in DOMAIN net.in_reqs |->
                    IF sends(i) THEN Tail(net.in_reqs[i]) ELSE net.in_reqs[i]]
           on == [i \in DOMAIN net.inflight |->
                    IF sends(i) THEN Append(N!Remaining(net, receipt, i), Head(net.in_reqs[i]))
                                ELSE N!Remaining(net, receipt, i)]
           out == [i \in DOMAIN net.out_reqs |->
                    IF receipt[i] = N!NoPacket THEN net.out_reqs[i]
                    ELSE Append(net.out_reqs[i],
                                net.inflight[receipt[i][1]][receipt[i][2]].req)]
           net1 == [net EXCEPT !.in_reqs = in]
           net2 == [net1 EXCEPT !.inflight = on]
<1>0. /\ net.n_nodes = n /\ net.in_reqs \in [0 .. n - 1 -> Seq(K)]
      /\ net.inflight \in [0 .. n - 1 -> Seq(K)]
      /\ net.out_reqs \in Each(Arrivals(n, K)) /\ DOMAIN Arrivals(n, K) = 0 .. n - 1
      /\ \A i \in 0 .. n - 1 : Arrivals(n, K)[i] = Seq(At(K, i)) /\ net.out_reqs[i] \in Seq(At(K, i))
  BY NetParts
<1>1. N!MeshCycle(net, receipt) = [net2 EXCEPT !.out_reqs = out]
  BY DEF N!MeshCycle, NetSet
<1> HIDE DEF sends
<1>2. in \in [0 .. n - 1 -> Seq(K)]
  <2>1. ASSUME NEW i \in 0 .. n - 1, sends(i) PROVE Tail(net.in_reqs[i]) \in Seq(K)
    BY <1>0, <2>1, TailElements DEF sends
  <2> QED BY <1>0, <2>1
<1>3. on \in [0 .. n - 1 -> Seq(K)]
  <2>1. ASSUME NEW i \in 0 .. n - 1, sends(i)
        PROVE  Append(N!Remaining(net, receipt, i), Head(net.in_reqs[i])) \in Seq(K)
    <3>1. Head(net.in_reqs[i]) \in K
      BY <1>0, <2>1, TailElements DEF sends
    <3>2. N!Remaining(net, receipt, i) \in Seq(K)
      BY NetRemaining
    <3> QED BY <3>1, <3>2
  <2>2. ASSUME NEW i \in 0 .. n - 1 PROVE N!Remaining(net, receipt, i) \in Seq(K)
    BY NetRemaining
  <2> QED BY <1>0, <2>1, <2>2
<1>4. out \in Each(Arrivals(n, K))
  <2>1. DOMAIN net.out_reqs = 0 .. n - 1
    BY <1>0 DEF Each
  <2>2. out = [i \in DOMAIN Arrivals(n, K) |-> out[i]]
    BY <1>0, <2>1
  <2>3. ASSUME NEW i \in 0 .. n - 1, receipt[i] # N!NoPacket
        PROVE  net.inflight[receipt[i][1]][receipt[i][2]].req \in At(K, i)
    <3> DEFINE x == receipt[i]
               p == net.inflight[x[1]][x[2]]
    <3>1. x \in N!Arriving(net, i)
      BY <1>0, <2>3 DEF N!Receipts, N!Node
    <3> HIDE DEF x
    <3>2. /\ x[1] \in 0 .. n - 1 /\ x[2] \in 1 .. Len(net.inflight[x[1]]) /\ p.icnt_to = i
      <4>1. x[1] \in 0 .. n - 1 /\ x[2] \in 1 .. MeshSlots /\ x[2] <= Len(net.inflight[x[1]])
            /\ p.icnt_to = i
        <5>1. /\ x \in (0 .. n - 1) \X (1 .. MeshSlots)
              /\ x[2] <= Len(net.inflight[x[1]]) /\ p.icnt_to = i
          BY <1>0, <3>1 DEF N!Arriving, N!Node
        <5>2. x[1] \in 0 .. n - 1 /\ x[2] \in 1 .. MeshSlots
          <6>1. \A a, b : \A y \in a \X b : y[1] \in a /\ y[2] \in b
            OBVIOUS
          <6> HIDE DEF p
          <6> QED BY <5>1, <6>1
        <5> HIDE DEF p
        <5> QED BY <5>1, <5>2
      <4>2. net.inflight[x[1]] \in Seq(K)
        BY <1>0, <4>1
      <4>3. Len(net.inflight[x[1]]) \in Nat /\ MeshSlots \in Nat
        <5>1. MeshSlots \in Nat
          BY AccAssumption
        <5>2. \A s \in Seq(K) : Len(s) \in Nat
          OBVIOUS
        <5> HIDE DEF p
        <5> QED BY <4>2, <5>1, <5>2
      <4> HIDE DEF p
      <4> QED BY <4>1, <4>3
    <3>3. p \in K
      <4>1. net.inflight[x[1]] \in Seq(K)
        BY <1>0, <3>2
      <4> QED BY <3>2, <4>1
    <3> HIDE DEF p
    <3>4. p = N!Packet(p.req, i) /\ p.req \in Request
      BY <3>2, <3>3 DEF Packets, N!Packet
    <3>5. p.req \in At(K, i)
      BY <3>3, <3>4 DEF At
    <3> QED BY <3>5 DEF p, x
  <2>4. ASSUME NEW i \in 0 .. n - 1 PROVE out[i] \in Arrivals(n, K)[i]
    <3>1. CASE receipt[i] = N!NoPacket
      BY <1>0, <2>1, <3>1
    <3>2. CASE receipt[i] # N!NoPacket
      <4> DEFINE r == net.inflight[receipt[i][1]][receipt[i][2]].req
      <4>1. r \in At(K, i) /\ net.out_reqs[i] \in Seq(At(K, i))
        BY <1>0, <2>3, <3>2
      <4>2. out[i] = Append(net.out_reqs[i], r)
        BY <2>1, <3>2
      <4> HIDE DEF r, out
      <4>3. Append(net.out_reqs[i], r) \in Seq(At(K, i))
        BY <4>1
      <4> QED BY <1>0, <4>2, <4>3
    <3> QED BY <3>1, <3>2
  <2> HIDE DEF out
  <2> QED BY <1>0, <2>2, <2>4, EachMade
<1> HIDE DEF in, on, out
<1>5. net1 \in NetSet(n, K)
  BY <1>2, NetEdited
<1> HIDE DEF net1
<1>6. net2 \in NetSet(n, K)
  BY <1>3, <1>5, NetEdited
<1> HIDE DEF net2
<1> QED BY <1>1, <1>4, <1>6, NetEdited

\* Whatever a network delivers in a cycle
LEMMA NetCycle ==
  ASSUME NEW n \in Nat, NEW K \in SUBSET Packets, NEW net \in NetSet(n, K),
         NEW receipt \in N!Outcomes(net)
  PROVE  N!DoCycle(net, receipt) \in NetSet(n, K)
<1>1. CASE net.kind = "Ideal"
  BY <1>1, NetIdealCycle DEF N!DoCycle
<1>2. CASE net.kind = "Mesh"
  <2>1. receipt \in N!Receipts(net)
    BY <1>2 DEF N!Outcomes
  <2>2. N!DoCycle(net, receipt) = N!MeshCycle(net, receipt)
    BY <1>2 DEF N!DoCycle
  <2> QED BY <2>1, <2>2, NetMeshCycle
<1> QED BY <1>1, <1>2, NetParts

\* An empty network may hold anything next; a new one is empty.
LEMMA NetEmpty ==
  ASSUME NEW n \in Nat, NEW K, NEW J, NEW net \in NetSet(n, K), N!IsEmpty(net)
  PROVE  net \in NetSet(n, J)
<1>1. /\ net.kind \in {"Mesh", "Ideal"} /\ net.n_nodes = n
      /\ net.in_reqs \in [0 .. n - 1 -> Seq(K)] /\ net.inflight \in [0 .. n - 1 -> Seq(K)]
      /\ net.out_reqs \in Each(Arrivals(n, K)) /\ DOMAIN Arrivals(n, K) = 0 .. n - 1
  BY NetParts
<1>2. \A i \in 0 .. n - 1 :
        net.in_reqs[i] = <<>> /\ net.inflight[i] = <<>> /\ net.out_reqs[i] = <<>>
  BY <1>1 DEF N!IsEmpty, N!Node
<1>3. net.in_reqs \in [0 .. n - 1 -> Seq(J)] /\ net.inflight \in [0 .. n - 1 -> Seq(J)]
  <2>1. ASSUME NEW f \in [0 .. n - 1 -> Seq(K)], \A i \in 0 .. n - 1 : f[i] = <<>>
        PROVE  f \in [0 .. n - 1 -> Seq(J)]
    BY <2>1
  <2> QED BY <1>1, <1>2, <2>1
<1>4. net.out_reqs \in Each(Arrivals(n, J))
  <2>1. DOMAIN Arrivals(n, J) = 0 .. n - 1 /\ \A i \in 0 .. n - 1 : <<>> \in Arrivals(n, J)[i]
    BY DEF Arrivals
  <2>2. net.out_reqs = [i \in 0 .. n - 1 |-> net.out_reqs[i]]
    BY <1>1 DEF Each
  <2> QED BY <1>2, <2>1, <2>2, EachMade
<1> QED BY <1>1, <1>3, <1>4 DEF NetSet

\* A new network
LEMMA NetNew ==
  ASSUME NEW n \in Nat, NEW K, NEW kind \in {"Mesh", "Ideal"}
  PROVE  N!NewIcnt(kind, n) \in NetSet(n, K)
<1> DEFINE none == [i \in 0 .. n - 1 |-> <<>>]
<1>1. none \in [0 .. n - 1 -> Seq(K)]
  OBVIOUS
<1>2. none \in Each(Arrivals(n, K))
  <2>1. DOMAIN Arrivals(n, K) = 0 .. n - 1 /\ \A i \in 0 .. n - 1 : <<>> \in Arrivals(n, K)[i]
    BY DEF Arrivals
  <2>2. none = [i \in DOMAIN Arrivals(n, K) |-> none[i]]
    BY <2>1
  <2>3. \A i \in DOMAIN Arrivals(n, K) : none[i] \in Arrivals(n, K)[i]
    BY <2>1
  <2> HIDE DEF none
  <2> QED BY <2>2, <2>3, EachMade
<1>3. N!NewIcnt(kind, n) = [kind |-> kind, n_nodes |-> n, in_reqs |-> none,
                            inflight |-> none, out_reqs |-> none]
  BY DEF N!NewIcnt, N!Node
<1> HIDE DEF none
<1> QED BY <1>1, <1>2, <1>3 DEF NetSet

\* The more packets are allowed, the more networks
LEMMA NetMonotone ==
  ASSUME NEW n, NEW K, NEW J, K \subseteq J
  PROVE  NetSet(n, K) \subseteq NetSet(n, J)
<1>1. \A i \in 0 .. n - 1 : At(K, i) \subseteq At(J, i)
  BY DEF At
<1>2. \A i \in 0 .. n - 1 : Seq(At(K, i)) \subseteq Seq(At(J, i))
  BY <1>1
<1>3. Each(Arrivals(n, K)) \subseteq Each(Arrivals(n, J))
  <2>1. DOMAIN Arrivals(n, K) = DOMAIN Arrivals(n, J)
        /\ \A i \in DOMAIN Arrivals(n, K) : Arrivals(n, K)[i] \subseteq Arrivals(n, J)[i]
    BY <1>2 DEF Arrivals
  <2> QED BY <2>1, EachMonotone
<1>4. [0 .. n - 1 -> Seq(K)] \subseteq [0 .. n - 1 -> Seq(J)]
  <2>1. Seq(K) \subseteq Seq(J)
    OBVIOUS
  <2> HIDE DEF Arrivals
  <2> QED BY <2>1
<1> QED BY <1>3, <1>4 DEF NetSet

-----------------------------------------------------------------------------
(* The L3 cache                                                             *)

\* The reads that go to the memory (the values come from the private caches),
\* and the writes
Fetches(S) == {r \in ListReads(S) : r.type # "ReadWatcherValue" /\ r.ComponentId \in Tile}
              \cup {r \in LiteralReads(S) : r.type = "ReadClauseData" /\ IsClause(r.ComponentId)}
Stores == ListWrites \cup ClauseWrites

\* What may be in the queues of bank p, and the memories
ToBank(S, p) == {r \in Fetches(S) \cup Stores : BankOf(r) = p}
FromBank(S, p) == {r \in Fetches(S) : BankOf(r) = p}
Banks == 0 .. num_partition - 1
BankInputs(S) == [p \in Banks |-> Seq(ToBank(S, p))]
BankOutputs(S) == [p \in Banks |-> Seq(FromBank(S, p))]
MemorySet(S) == [in_request_queues : Each(BankInputs(S)), inside : SUBSET Fetches(S),
                 out_resp_queues : Each(BankOutputs(S))]

\* The parts of a memory
LEMMA MemoryParts ==
  ASSUME NEW S, NEW l3 \in MemorySet(S)
  PROVE  /\ l3.in_request_queues \in Each(BankInputs(S)) /\ l3.inside \in SUBSET Fetches(S)
         /\ l3.out_resp_queues \in Each(BankOutputs(S))
         /\ DOMAIN BankInputs(S) = Banks /\ DOMAIN BankOutputs(S) = Banks
         /\ \A p \in Banks : /\ BankInputs(S)[p] = Seq(ToBank(S, p))
                             /\ BankOutputs(S)[p] = Seq(FromBank(S, p))
                             /\ l3.in_request_queues[p] \in Seq(ToBank(S, p))
                             /\ l3.out_resp_queues[p] \in Seq(FromBank(S, p))
BY DEF MemorySet, Each, BankInputs, BankOutputs

\* A request that comes to a bank; an answer that is taken
LEMMA MemoryArrive ==
  ASSUME NEW S, NEW l3 \in MemorySet(S), NEW p \in Banks, NEW r \in ToBank(S, p)
  PROVE  [l3 EXCEPT !.in_request_queues[p] = Append(@, r)] \in MemorySet(S)
<1> DEFINE q == l3.in_request_queues
           x == [q EXCEPT ![p] = Append(@, r)]
<1>1. /\ q \in Each(BankInputs(S)) /\ p \in DOMAIN BankInputs(S)
      /\ BankInputs(S)[p] = Seq(ToBank(S, p)) /\ q[p] \in Seq(ToBank(S, p))
  BY MemoryParts
<1> HIDE DEF q
<1>2. Append(q[p], r) \in BankInputs(S)[p]
  BY <1>1
<1>3. x \in Each(BankInputs(S))
  BY <1>1, <1>2, EachSet
<1>4. [l3 EXCEPT !.in_request_queues[p] = Append(@, r)] = [l3 EXCEPT !.in_request_queues = x]
  BY DEF q
<1> HIDE DEF x
<1>5. [l3 EXCEPT !.in_request_queues = x] \in MemorySet(S)
  BY <1>3 DEF MemorySet
<1> QED BY <1>4, <1>5

\* An answer leaves its bank.
LEMMA MemoryDepart ==
  ASSUME NEW S, NEW l3 \in MemorySet(S), NEW p \in Banks, l3.out_resp_queues[p] # <<>>
  PROVE  /\ [l3 EXCEPT !.out_resp_queues[p] = Tail(@)] \in MemorySet(S)
         /\ Head(l3.out_resp_queues[p]) \in FromBank(S, p)
<1> DEFINE q == l3.out_resp_queues
           x == [q EXCEPT ![p] = Tail(@)]
<1>1. /\ q \in Each(BankOutputs(S)) /\ p \in DOMAIN BankOutputs(S)
      /\ BankOutputs(S)[p] = Seq(FromBank(S, p)) /\ q[p] \in Seq(FromBank(S, p))
  BY MemoryParts
<1>2. Tail(q[p]) \in BankOutputs(S)[p] /\ Head(q[p]) \in FromBank(S, p)
  BY <1>1, TailElements
<1>3. [l3 EXCEPT !.out_resp_queues[p] = Tail(@)] = [l3 EXCEPT !.out_resp_queues = x]
  OBVIOUS
<1> HIDE DEF q
<1>4. x \in Each(BankOutputs(S))
  BY <1>1, <1>2, EachSet
<1> HIDE DEF x
<1>5. [l3 EXCEPT !.out_resp_queues = x] \in MemorySet(S)
  BY <1>4 DEF MemorySet
<1> QED BY <1>2, <1>3, <1>5 DEF q

\* Only what is not written is answered.
LEMMA StoresAreWrites == \A r \in Stores : ~ IsRead(r)
BY DEF Stores, ListWrites, ClauseWrites, IsRead, IsWrite

\* A cycle of the memory
LEMMA MemoryCycle ==
  ASSUME NEW S, NEW l3 \in MemorySet(S), NEW mc \in L3!Cycles(l3)
  PROVE  L3!DoCycle(l3, mc.accept, mc.answer) \in MemorySet(S)
<1> DEFINE taken == UNION {L3!Range(SubSeq(l3.in_request_queues[p], 1, mc.accept[p])) : p \in Banks}
           given == UNION {L3!Range(mc.answer[p]) : p \in Banks}
           in == [p \in Banks |-> SubSeq(l3.in_request_queues[p], mc.accept[p] + 1,
                                         Len(l3.in_request_queues[p]))]
           inside == (l3.inside \ given) \cup {r \in taken : IsRead(r)}
           out == [p \in Banks |-> l3.out_resp_queues[p] \o mc.answer[p]]
<1>0. /\ l3.inside \in SUBSET Fetches(S)
      /\ DOMAIN BankInputs(S) = Banks /\ DOMAIN BankOutputs(S) = Banks
      /\ \A p \in Banks : /\ BankInputs(S)[p] = Seq(ToBank(S, p))
                          /\ BankOutputs(S)[p] = Seq(FromBank(S, p))
                          /\ l3.in_request_queues[p] \in Seq(ToBank(S, p))
                          /\ l3.out_resp_queues[p] \in Seq(FromBank(S, p))
  BY MemoryParts
<1>1. ASSUME NEW p \in Banks
      PROVE  /\ mc.accept[p] \in 0 .. Len(l3.in_request_queues[p])
             /\ mc.answer[p] \in Seq(FromBank(S, p))
  <2>1. mc.accept[p] \in L3!Accepts(l3, p) /\ mc.answer[p] \in L3!Answers(l3, p)
    BY DEF L3!Cycles, L3!Bank, Banks
  <2>2. Len(l3.in_request_queues[p]) \in Nat
    <3>1. l3.in_request_queues[p] \in Seq(ToBank(S, p))
      BY <1>0
    <3> QED BY <3>1
  <2>3. multi_l3cache_port \in Nat
    BY AccAssumption
  <2>4. mc.accept[p] \in 0 .. Len(l3.in_request_queues[p])
    BY <2>1, <2>2, <2>3 DEF L3!Accepts
  <2>5. mc.answer[p] = <<>> \/ \E r \in FromBank(S, p) : mc.answer[p] = <<r>>
    BY <1>0, <2>1 DEF L3!Answers, FromBank
  <2>6. mc.answer[p] \in Seq(FromBank(S, p))
    <3> DEFINE X == FromBank(S, p)
               Q == Seq(X)
    <3>1. <<>> \in Q /\ \A r \in X : <<r>> \in Q
      OBVIOUS
    <3> HIDE DEF Q
    <3> QED BY <2>5, <3>1 DEF Q
  <2> QED BY <2>4, <2>6
<1>2. L3!DoCycle(l3, mc.accept, mc.answer)
      = [in_request_queues |-> in, inside |-> inside, out_resp_queues |-> out]
  BY DEF L3!DoCycle, L3!Bank, Banks
<1>3. in \in Each(BankInputs(S))
  <2>1. ASSUME NEW p \in Banks PROVE in[p] \in BankInputs(S)[p]
    <3> DEFINE q == l3.in_request_queues[p]
               k == mc.accept[p]
    <3>1. q \in Seq(ToBank(S, p)) /\ k \in 0 .. Len(q) /\ Len(q) \in Nat
      <4>1. q \in Seq(ToBank(S, p)) /\ k \in 0 .. Len(q)
        BY <1>0, <1>1
      <4> HIDE DEF q
      <4> QED BY <4>1
    <3> HIDE DEF q, k
    <3>2. SubSeq(q, k + 1, Len(q)) \in Seq(ToBank(S, p))
      BY <3>1
    <3> QED BY <1>0, <3>2 DEF q, k
  <2>2. in = [p \in DOMAIN BankInputs(S) |-> in[p]]
    BY <1>0
  <2> HIDE DEF in
  <2> QED BY <1>0, <2>1, <2>2, EachMade
<1>4. out \in Each(BankOutputs(S))
  <2>1. ASSUME NEW p \in Banks PROVE out[p] \in BankOutputs(S)[p]
    <3> DEFINE q == l3.out_resp_queues[p]
               a == mc.answer[p]
    <3>1. q \in Seq(FromBank(S, p)) /\ a \in Seq(FromBank(S, p)) /\ out[p] = q \o a
      BY <1>0, <1>1
    <3> HIDE DEF q, a, out
    <3>2. q \o a \in Seq(FromBank(S, p))
      BY <3>1
    <3> QED BY <1>0, <3>1, <3>2
  <2>2. out = [p \in DOMAIN BankOutputs(S) |-> out[p]]
    BY <1>0
  <2> HIDE DEF out
  <2> QED BY <1>0, <2>1, <2>2, EachMade
<1>5. inside \in SUBSET Fetches(S)
  <2>1. ASSUME NEW r \in taken, IsRead(r) PROVE r \in Fetches(S)
    <3>1. PICK p \in Banks : r \in L3!Range(SubSeq(l3.in_request_queues[p], 1, mc.accept[p]))
      OBVIOUS
    <3> DEFINE q == l3.in_request_queues[p]
               k == mc.accept[p]
    <3>2. q \in Seq(ToBank(S, p)) /\ k \in 0 .. Len(q)
      BY <1>0, <1>1
    <3>3. r \in L3!Range(SubSeq(q, 1, k))
      BY <3>1
    <3> HIDE DEF q, k
    <3>4. SubSeq(q, 1, k) \in Seq(ToBank(S, p))
      <4>1. Len(q) \in Nat /\ q \in Seq(ToBank(S, p))
        BY <3>2
      <4> QED BY <3>2, <4>1
    <3>5. r \in ToBank(S, p)
      BY <3>3, <3>4 DEF L3!Range
    <3> QED BY <2>1, <3>5, StoresAreWrites DEF ToBank
  <2> HIDE DEF taken
  <2> QED BY <1>0, <2>1
<1> HIDE DEF in, inside, out
<1> QED BY <1>2, <1>3, <1>4, <1>5 DEF MemorySet

\* An empty memory may hold anything next; a new one is empty.
LEMMA MemoryEmpty ==
  ASSUME NEW S, NEW R, NEW l3 \in MemorySet(S), L3!IsEmpty(l3)
  PROVE  l3 \in MemorySet(R)
<1>1. /\ l3.in_request_queues \in Each(BankInputs(S)) /\ l3.out_resp_queues \in Each(BankOutputs(S))
      /\ DOMAIN BankInputs(S) = Banks /\ DOMAIN BankOutputs(S) = Banks
  BY MemoryParts
<1>2. /\ l3.inside = {}
      /\ \A p \in Banks : l3.in_request_queues[p] = <<>> /\ l3.out_resp_queues[p] = <<>>
  BY DEF L3!IsEmpty, L3!Bank, Banks
<1>3. /\ l3.in_request_queues = [p \in Banks |-> l3.in_request_queues[p]]
      /\ l3.out_resp_queues = [p \in Banks |-> l3.out_resp_queues[p]]
  BY <1>1 DEF Each
<1>4. /\ DOMAIN BankInputs(R) = Banks /\ \A p \in Banks : <<>> \in BankInputs(R)[p]
      /\ DOMAIN BankOutputs(R) = Banks /\ \A p \in Banks : <<>> \in BankOutputs(R)[p]
  BY DEF BankInputs, BankOutputs
<1>5. l3.in_request_queues \in Each(BankInputs(R))
  BY <1>2, <1>3, <1>4, EachMade
<1>6. l3.out_resp_queues \in Each(BankOutputs(R))
  BY <1>2, <1>3, <1>4, EachMade
<1> QED BY <1>2, <1>5, <1>6 DEF MemorySet

\* A new memory
LEMMA MemoryNew ==
  ASSUME NEW S
  PROVE  L3!NewMemory \in MemorySet(S)
<1> DEFINE none == [p \in Banks |-> <<>>]
<1>1. /\ DOMAIN BankInputs(S) = Banks /\ \A p \in Banks : <<>> \in BankInputs(S)[p]
      /\ DOMAIN BankOutputs(S) = Banks /\ \A p \in Banks : <<>> \in BankOutputs(S)[p]
  BY DEF BankInputs, BankOutputs
<1>2. none = [p \in Banks |-> none[p]] /\ \A p \in Banks : none[p] = <<>>
  OBVIOUS
<1>3. L3!NewMemory = [in_request_queues |-> none, inside |-> {}, out_resp_queues |-> none]
  BY DEF L3!NewMemory, L3!Bank, Banks
<1> HIDE DEF none
<1>4. none \in Each(BankInputs(S)) /\ none \in Each(BankOutputs(S))
  BY <1>1, <1>2, EachMade
<1> QED BY <1>3, <1>4 DEF MemorySet

\* The more requests are allowed, the more memories
LEMMA MemoryMonotone ==
  ASSUME NEW S, NEW R, S \subseteq R
  PROVE  MemorySet(S) \subseteq MemorySet(R) /\ Fetches(S) \subseteq Fetches(R)
<1>1. Fetches(S) \subseteq Fetches(R)
  BY KindsMonotone DEF Fetches
<1>2. \A p \in Banks : ToBank(S, p) \subseteq ToBank(R, p) /\ FromBank(S, p) \subseteq FromBank(R, p)
  BY <1>1 DEF ToBank, FromBank
<1>3. \A p \in Banks : /\ Seq(ToBank(S, p)) \subseteq Seq(ToBank(R, p))
                       /\ Seq(FromBank(S, p)) \subseteq Seq(FromBank(R, p))
  BY <1>2
<1>4. Each(BankInputs(S)) \subseteq Each(BankInputs(R))
  <2>1. DOMAIN BankInputs(S) = DOMAIN BankInputs(R)
        /\ \A p \in DOMAIN BankInputs(S) : BankInputs(S)[p] \subseteq BankInputs(R)[p]
    BY <1>3 DEF BankInputs
  <2> QED BY <2>1, EachMonotone
<1>5. Each(BankOutputs(S)) \subseteq Each(BankOutputs(R))
  <2>1. DOMAIN BankOutputs(S) = DOMAIN BankOutputs(R)
        /\ \A p \in DOMAIN BankOutputs(S) : BankOutputs(S)[p] \subseteq BankOutputs(R)[p]
    BY <1>3 DEF BankOutputs
  <2> QED BY <2>1, EachMonotone
<1> QED BY <1>1, <1>4, <1>5 DEF MemorySet

-----------------------------------------------------------------------------
(* The machine                                                              *)

\* What travels in the three networks.  F is the set of the assertions that may
\* have failed.
MemoryPackets(S) ==
  {p \in Packets : \/ /\ p.req \in Fetches(S) \cup Stores
                      /\ p.icnt_to = num_watchers + BankOf(p.req)
                   \/ p.req \in Fetches(S) /\ p.icnt_to = TileOf(p.req.ComponentId)}
ClausePackets(S, F) ==
  {p \in Packets : /\ p.req \in Sent(S)
                   /\ F = {} => p.icnt_to = get_clause_id[<<p.req.as, p.req.watcherId>>] % num_watchers}
WriterPackets(S) == {p \in Packets : p.req \in Listed(S)}

MemoryNodes == num_watchers + num_partition
MemoryNets(S) == NetSet(MemoryNodes, MemoryPackets(S))
ClauseNets(S, F) == NetSet(num_watchers, ClausePackets(S, F))
WriterNets(S) == NetSet(num_watchers, WriterPackets(S))
Watchers(S) == [i \in Tile |-> WatcherSet(S, i)]
Caches(S) == [i \in Tile |-> CacheSet(S, i)]

\* The parts of a machine, and the machines: the work is for the assignments S,
\* the trail and the tables of the write units may hold those of T.
Trails(T) == Seq(Fresh(T))
AllUnits(S, T) == [Tile -> UnitSet(S, T)]
AllWriters(S) == [Tile -> WriterSet(S)]
AllWatchers(S) == Each(Watchers(S))
AllCaches(S) == Each(Caches(S))
AllClauses(S, T) == [ClauseIds -> ClauseSet(S, T)]
NextClauses == 0 .. ClausesPerWatcher - 1
Examined == [is_read_clause -> Int]
Written == SUBSET (Tile \X Value)

Machines(S, T, F) ==
  [in_m_trail : Trails(T), m_cache_interface : MemorySet(S),
   m_watcher_write_unit : AllUnits(S, T), m_clause_write_unit : AllWriters(S),
   memory_read_icnt : MemoryNets(S), watcher_to_clause_icnt : ClauseNets(S, F),
   watcher_to_writer_icnt : WriterNets(S), watchers : AllWatchers(S),
   m_private_caches : AllCaches(S), clauses : AllClauses(S, T),
   next_clause : NextClauses, failed : SUBSET F, started : SUBSET Assign,
   examined : Examined, written : Written]

\* Numbers of tiles, banks and clause units
LEMMA Sizes ==
  /\ num_watchers \in Nat /\ num_watchers > 0 /\ num_partition \in Nat /\ num_partition > 0
  /\ multi_l3cache_port \in Nat /\ multi_l3cache_port > 0
  /\ ClausesPerWatcher \in Nat /\ ClausesPerWatcher > 0
  /\ num_clauses \in Nat /\ num_clauses = num_watchers * ClausesPerWatcher
<1>1. /\ num_watchers \in Nat /\ num_watchers > 0 /\ num_partition \in Nat /\ num_partition > 0
      /\ multi_l3cache_port \in Nat /\ multi_l3cache_port > 0
      /\ num_clauses \in Nat /\ num_clauses > 0
  BY AccAssumption
<1>2. num_clauses >= num_watchers /\ num_clauses % num_watchers = 0
  BY AccAssumption
<1>3. ClausesPerWatcher \in Int /\ num_clauses = num_watchers * ClausesPerWatcher
  BY <1>1, <1>2 DEF ClausesPerWatcher
<1>4. ClausesPerWatcher > 0
  <2> HIDE DEF ClausesPerWatcher
  <2>1. ASSUME ClausesPerWatcher <= 0 PROVE FALSE
    BY <1>1, <1>3, <2>1
  <2> QED BY <1>3, <2>1
<1> QED BY <1>1, <1>3, <1>4

\* The quotient of a number below k * n
LEMMA QuotientBound ==
  ASSUME NEW n \in Nat, NEW k \in Nat, k > 0, NEW x \in 0 .. n * k - 1
  PROVE  x \div k \in 0 .. n - 1
<1> DEFINE q == x \div k
<1>1. q \in Int /\ q * k <= x /\ x < q * k + k
  OBVIOUS
<1>2. x \in Int /\ 0 <= x /\ x < n * k
  OBVIOUS
<1> HIDE DEF q
<1>3. q >= 0
  <2>1. ASSUME q + 1 <= 0 PROVE FALSE
    <3>1. (q + 1) * k <= 0
      BY <1>1, <2>1
    <3> QED BY <1>1, <1>2, <3>1
  <2> QED BY <1>1, <2>1
<1>4. q < n
  <2>1. ASSUME n <= q PROVE FALSE
    <3>1. n * k <= q * k
      BY <1>1, <2>1
    <3> QED BY <1>1, <1>2, <3>1
  <2> QED BY <1>1, <2>1
<1> QED BY <1>1, <1>3, <1>4 DEF q

\* The tile of a clause unit; the units that a tile's answers may be for
LEMMA ClauseNumbers ==
  /\ \A c \in ClauseIds : /\ HomeTile(c) \in Tile
                          /\ ClauseComponent(c) \in ComponentIds /\ IsClause(ClauseComponent(c))
                          /\ ClauseOfComponent(ClauseComponent(c)) = c
  /\ \A id \in ComponentIds : /\ IsClause(id) => ClauseOfComponent(id) \in ClauseIds
                              /\ ~ IsClause(id) => id \in Tile
                              /\ TileOf(id) \in Tile
  /\ \A i \in Tile : i \in ComponentIds /\ ~ IsClause(i)
  /\ \A i \in Tile, k \in NextClauses : /\ i + k \in ClauseIds
                                        /\ i * ClausesPerWatcher + k \in ComponentIds
<1>0. /\ num_watchers \in Nat /\ num_watchers > 0 /\ num_clauses \in Nat
      /\ ClausesPerWatcher \in Nat /\ ClausesPerWatcher > 0
      /\ num_clauses = num_watchers * ClausesPerWatcher
  BY Sizes
<1>1. \A c \in ClauseIds : HomeTile(c) \in Tile
  BY <1>0, QuotientBound DEF ClauseIds, HomeTile, Tile
<1>2. \A c \in ClauseIds : /\ ClauseComponent(c) \in ComponentIds /\ IsClause(ClauseComponent(c))
                           /\ ClauseOfComponent(ClauseComponent(c)) = c
  <2>1. num_watchers \in Nat /\ num_clauses \in Nat
    BY <1>0
  <2> QED BY <2>1 DEF ClauseIds, ClauseComponent, ComponentIds, IsClause, ClauseOfComponent
<1>3. \A id \in ComponentIds : /\ IsClause(id) => ClauseOfComponent(id) \in ClauseIds
                               /\ ~ IsClause(id) => id \in Tile
  <2>1. num_watchers \in Nat /\ num_clauses \in Nat
    BY <1>0
  <2> QED BY <2>1 DEF ComponentIds, IsClause, ClauseOfComponent, ClauseIds, Tile
<1>4. \A id \in ComponentIds : TileOf(id) \in Tile
  BY <1>1, <1>3 DEF TileOf
<1>5. \A i \in Tile : i \in ComponentIds /\ ~ IsClause(i)
  <2>1. num_watchers \in Nat /\ num_clauses \in Nat
    BY <1>0
  <2> QED BY <2>1 DEF Tile, ComponentIds, IsClause
<1>6. ASSUME NEW i \in Tile, NEW k \in NextClauses
      PROVE  /\ i + k \in ClauseIds /\ i * ClausesPerWatcher + k \in ComponentIds
  <2> DEFINE c == ClausesPerWatcher
             n == num_watchers
  <2>1. /\ i \in Nat /\ i + 1 <= n /\ k \in Nat /\ k + 1 <= c /\ n \in Nat /\ c \in Nat
        /\ num_clauses = n * c
    BY <1>0, <1>6 DEF Tile, NextClauses
  <2> HIDE DEF c, n
  <2>2. (i + 1) * c <= n * c /\ (i + 1) * c = i * c + c /\ i * c \in Nat /\ n * c \in Nat
    BY <2>1
  <2>3. i <= i * c
    BY <2>1
  <2>4. i * c + k \in 0 .. num_clauses - 1 /\ i + k \in 0 .. num_clauses - 1
    BY <2>1, <2>2, <2>3
  <2>5. i * c + k \in ComponentIds
    BY <2>1, <2>2, <2>4 DEF ComponentIds, n
  <2> QED BY <2>4, <2>5 DEF ClauseIds, c
<1> QED BY <1>1, <1>2, <1>3, <1>4, <1>5, <1>6

\* The bank of a request
LEMMA BankNumbers ==
  /\ \A r \in Request : BankOf(r) \in Banks
  /\ \A p \in Banks : num_watchers + p \in 0 .. MemoryNodes - 1
  /\ \A i \in Tile : i \in 0 .. MemoryNodes - 1 /\ i \in 0 .. num_watchers - 1
  /\ \A i \in Tile, p \in Banks : i # num_watchers + p
  /\ num_watchers \in Nat /\ MemoryNodes \in Nat
<1>1. num_watchers \in Nat /\ num_partition \in Nat
  BY Sizes
<1>2. \A r \in Request : BankOf(r) \in Banks
  BY TableAssumption DEF Request, BankOf, Banks
<1> QED BY <1>1, <1>2 DEF Banks, MemoryNodes, Tile

-----------------------------------------------------------------------------
(* The hooks                                                                *)

\* The sets that fit together: the machine works on assignments only while any
\* may be on the trail, in sequential mode on one at a time; a clause task goes
\* to the tile of its clause unless the assertion about it may fail.
Fits(S, T, F) == /\ S \subseteq Assign /\ T \in {{}, Assign}
                 /\ S # {} => T = Assign
                 /\ T # {} /\ ~ rust_config.seq => S = Assign
                 /\ rust_config.seq => \A a, b \in S : a = b
                 /\ F \in {{}, {"acc.cc:647"}}
                 /\ F = {} => rust_config.watcher_to_clause_type = "Icnt"

\* The parts of a machine
LEMMA MachineParts ==
  ASSUME NEW S, NEW T, NEW F, NEW m \in Machines(S, T, F)
  PROVE  /\ m.in_m_trail \in Trails(T) /\ m.m_cache_interface \in MemorySet(S)
         /\ m.memory_read_icnt \in MemoryNets(S) /\ m.watcher_to_clause_icnt \in ClauseNets(S, F)
         /\ m.watcher_to_writer_icnt \in WriterNets(S)
         /\ m.watchers \in AllWatchers(S) /\ m.m_private_caches \in AllCaches(S)
         /\ m.m_watcher_write_unit \in AllUnits(S, T) /\ m.m_clause_write_unit \in AllWriters(S)
         /\ m.clauses \in AllClauses(S, T)
         /\ m.next_clause \in NextClauses /\ m.failed \in SUBSET F
         /\ m.started \in SUBSET Assign /\ m.examined \in Examined /\ m.written \in Written
BY DEF Machines

\* The units of a tile, and other ones in their place
LEMMA TileParts ==
  ASSUME NEW S, NEW T, NEW F, NEW m \in Machines(S, T, F), NEW i \in Tile
  PROVE  /\ m.watchers[i] \in WatcherSet(S, i)
         /\ \A x \in WatcherSet(S, i) : [m.watchers EXCEPT ![i] = x] \in AllWatchers(S)
         /\ m.m_private_caches[i] \in CacheSet(S, i)
         /\ \A x \in CacheSet(S, i) : [m.m_private_caches EXCEPT ![i] = x] \in AllCaches(S)
<1>1. /\ DOMAIN Watchers(S) = Tile /\ Watchers(S)[i] = WatcherSet(S, i)
      /\ DOMAIN Caches(S) = Tile /\ Caches(S)[i] = CacheSet(S, i)
  BY DEF Watchers, Caches
<1>2. m.watchers \in Each(Watchers(S)) /\ m.m_private_caches \in Each(Caches(S))
  BY MachineParts DEF AllWatchers, AllCaches
<1> QED BY <1>1, <1>2, EachSet DEF AllWatchers, AllCaches

\* The write units of a tile, and other ones in their place
LEMMA UnitOfTile ==
  ASSUME NEW S, NEW T, NEW F, NEW m \in Machines(S, T, F), NEW i \in Tile
  PROVE  /\ m.m_watcher_write_unit[i] \in UnitSet(S, T)
         /\ \A x \in UnitSet(S, T) : [m.m_watcher_write_unit EXCEPT ![i] = x] \in AllUnits(S, T)
         /\ m.m_clause_write_unit[i] \in WriterSet(S)
         /\ \A x \in WriterSet(S) : [m.m_clause_write_unit EXCEPT ![i] = x] \in AllWriters(S)
<1>1. m.m_watcher_write_unit \in [Tile -> UnitSet(S, T)] /\ m.m_clause_write_unit \in [Tile -> WriterSet(S)]
  BY MachineParts DEF AllUnits, AllWriters
<1> QED BY <1>1 DEF AllUnits, AllWriters

\* A clause unit, and another one in its place
LEMMA ClauseParts ==
  ASSUME NEW S, NEW T, NEW F, NEW m \in Machines(S, T, F), NEW c \in ClauseIds
  PROVE  /\ m.clauses[c] \in ClauseSet(S, T)
         /\ \A x \in ClauseSet(S, T) : [m.clauses EXCEPT ![c] = x] \in AllClauses(S, T)
<1>1. m.clauses \in [ClauseIds -> ClauseSet(S, T)]
  BY MachineParts DEF AllClauses
<1> QED BY <1>1 DEF AllClauses

\* watcher_out, to the clauses
LEMMA WatcherToClauseKeeps ==
  ASSUME NEW S, NEW T, NEW F, Fits(S, T, F), NEW m \in Machines(S, T, F), NEW i \in Tile
  PROVE  WatcherToClause(m, i) \in Machines(S, T, F)
<1> DEFINE w == m.watchers[i]
           q == w.out_send_queue
           req == Head(q)
           to == IF rust_config.watcher_to_clause_type = "Icnt"
                 THEN get_clause_id[C!ClauseOf(req)] % num_watchers ELSE i
           w2 == [w EXCEPT !.out_send_queue = Tail(@)]
           ws == [m.watchers EXCEPT ![i] = w2]
           net == N!PushOrDeliver(m.watcher_to_clause_icnt, i, req, to)
<1>1. CASE q = <<>> \/ Len(m.watcher_to_clause_icnt.in_reqs[i]) >= send_limit
  BY <1>1 DEF WatcherToClause
<1>2. CASE ~ (q = <<>> \/ Len(m.watcher_to_clause_icnt.in_reqs[i]) >= send_limit)
  <2>1. w \in WatcherSet(S, i)
    BY TileParts
  <2>2. q \in Seq(Sent(S))
    BY <2>1 DEF WatcherSet
  <2>3. req \in Sent(S) /\ Tail(q) \in Seq(Sent(S))
    BY <1>2, <2>2, TailElements
  <2>4. w2 \in WatcherSet(S, i)
    <3> HIDE DEF w
    <3> QED BY <2>1, <2>3 DEF WatcherSet
  <2>5. WatcherToClause(m, i)
        = [m EXCEPT !.watchers = ws, !.watcher_to_clause_icnt = net]
    BY <1>2 DEF WatcherToClause, Machines
  <2> HIDE DEF w2
  <2>6. ws \in AllWatchers(S)
    BY <2>4, TileParts
  <2> HIDE DEF q, w, ws, req
  <2>7. /\ req \in Request /\ <<req.as, req.watcherId>> \in is_read_clause
        /\ get_clause_id[<<req.as, req.watcherId>>] \in Nat
    BY <2>3, TableAssumption DEF Sent, Listed, Owned
  <2>8. N!Packet(req, to) \in ClausePackets(S, F)
    <3>1. to \in Nat
      BY <2>7, Sizes DEF C!ClauseOf, Tile
    <3>2. F = {} => to = get_clause_id[<<req.as, req.watcherId>>] % num_watchers
      BY DEF Fits, C!ClauseOf
    <3> HIDE DEF to
    <3> QED BY <2>3, <2>7, <3>1, <3>2 DEF N!Packet, ClausePackets, Packets
  <2> HIDE DEF to
  <2>9. net \in ClauseNets(S, F)
    <3>1. m.watcher_to_clause_icnt \in NetSet(num_watchers, ClausePackets(S, F))
      BY MachineParts DEF ClauseNets
    <3>2. i \in 0 .. num_watchers - 1
      BY DEF Tile
    <3> QED BY <2>7, <2>8, <3>1, <3>2, NetPushOrDeliver DEF ClauseNets
  <2> HIDE DEF net
  <2> QED BY <2>5, <2>6, <2>9 DEF Machines
<1> QED BY <1>1, <1>2

\* A request that goes to the memory
LEMMA ToMemoryKeeps ==
  ASSUME NEW S, NEW net \in MemoryNets(S), NEW source \in Tile, NEW req \in Fetches(S) \cup Stores
  PROVE  ToMemory(net, source, req) \in MemoryNets(S)
<1>1. req \in Request
  BY DEF Fetches, Stores, ListReads, LiteralReads, Literal, ListWrites, ClauseWrites, Listed, Owned
<1>2. num_watchers + BankOf(req) \in Nat
  BY <1>1, BankNumbers DEF Banks
<1>3. N!Packet(req, num_watchers + BankOf(req)) \in MemoryPackets(S)
  BY <1>1, <1>2 DEF N!Packet, MemoryPackets, Packets
<1>4. source \in 0 .. MemoryNodes - 1
  BY BankNumbers
<1> QED BY <1>3, <1>4, NetPush DEF ToMemory, MemoryNets

\* A private cache that takes a read
LEMMA CacheGiven ==
  ASSUME NEW S, NEW i, NEW p \in CacheSet(S, i), NEW r \in Values(S, i)
  PROVE  [p EXCEPT !.in_request = Append(@, r)] \in CacheSet(S, i)
<1> DEFINE x == Append(p.in_request, r)
<1>1. x \in Seq(Values(S, i))
  <2>1. p.in_request \in Seq(Values(S, i))
    BY DEF CacheSet
  <2> QED BY <2>1
<1>2. [p EXCEPT !.in_request = Append(@, r)] = [p EXCEPT !.in_request = x]
  OBVIOUS
<1> HIDE DEF x
<1> QED BY <1>1, <1>2 DEF CacheSet

\* watcher_out, to the private cache and to the memory
LEMMA WatcherToMemoryKeeps ==
  ASSUME NEW S, NEW T, NEW F, NEW m \in Machines(S, T, F), NEW i \in Tile
  PROVE  WatcherToMemory(m, i) \in Machines(S, T, F)
<1> DEFINE w == m.watchers[i]
           q == w.out_memory_read_queue
           req == [Head(q) EXCEPT !.ComponentId = i]
           w2 == [w EXCEPT !.out_memory_read_queue = Tail(@)]
           ws == [m.watchers EXCEPT ![i] = w2]
           value == q # <<>> /\ req.type = "ReadWatcherValue" /\ P!RecieveRdy(m.m_private_caches[i])
           other == q # <<>> /\ req.type # "ReadWatcherValue" /\ N!HasBuffer(m.memory_read_icnt, i)
           p == m.m_private_caches[i]
           p2 == [p EXCEPT !.in_request = Append(@, req)]
           ps == [m.m_private_caches EXCEPT ![i] = p2]
           net == ToMemory(m.memory_read_icnt, i, req)
<1>1. CASE ~ value /\ ~ other
  BY <1>1 DEF WatcherToMemory
<1>2. ASSUME q # <<>>
      PROVE  ws \in AllWatchers(S) /\ req \in ListReads(S) /\ req.ComponentId = i
  <2>1. w \in WatcherSet(S, i)
    BY TileParts
  <2>2. q \in Seq(ListReads(S))
    BY <2>1 DEF WatcherSet
  <2>3. Head(q) \in ListReads(S) /\ Tail(q) \in Seq(ListReads(S))
    BY <1>2, <2>2, TailElements
  <2>4. w2 \in WatcherSet(S, i)
    <3> HIDE DEF w
    <3> QED BY <2>1, <2>3 DEF WatcherSet
  <2> HIDE DEF w2
  <2>5. ws \in AllWatchers(S)
    BY <2>4, TileParts
  <2> DEFINE h == Head(q)
  <2>6. h \in ListReads(S) /\ h \in Request /\ i \in ComponentIds
    BY <2>3, ClauseNumbers DEF ListReads, Owned
  <2> HIDE DEF h, q
  <2>7. [h EXCEPT !.ComponentId = i] \in ListReads(S) /\ [h EXCEPT !.ComponentId = i].ComponentId = i
    BY <2>6, Readdressed
  <2> QED BY <2>5, <2>7 DEF h
<1>3. CASE value
  <2>1. WatcherToMemory(m, i) = [m EXCEPT !.watchers = ws, !.m_private_caches = ps]
    BY <1>3 DEF WatcherToMemory, Machines
  <2>2. ws \in AllWatchers(S) /\ req \in Values(S, i)
    BY <1>2, <1>3 DEF Values
  <2> HIDE DEF ws, req
  <2>3. p2 \in CacheSet(S, i)
    <3>1. p \in CacheSet(S, i)
      BY TileParts
    <3> HIDE DEF p
    <3> QED BY <2>2, <3>1, CacheGiven
  <2> HIDE DEF p2
  <2>4. ps \in AllCaches(S)
    BY <2>3, TileParts
  <2> HIDE DEF ps
  <2> QED BY <2>1, <2>2, <2>4 DEF Machines
<1>4. CASE other
  <2>1. WatcherToMemory(m, i) = [m EXCEPT !.watchers = ws, !.memory_read_icnt = net]
    BY <1>4 DEF WatcherToMemory, Machines
  <2>2. ws \in AllWatchers(S) /\ req \in Fetches(S)
    BY <1>2, <1>4 DEF Fetches
  <2> HIDE DEF ws, req
  <2>3. net \in MemoryNets(S)
    BY <2>2, MachineParts, ToMemoryKeeps
  <2> HIDE DEF net
  <2> QED BY <2>1, <2>2, <2>3 DEF Machines
<1> QED BY <1>1, <1>3, <1>4

\* watcher_out, whole
LEMMA WatcherOutKeeps ==
  ASSUME NEW S, NEW T, NEW F, Fits(S, T, F), NEW m \in Machines(S, T, F), NEW i \in Tile
  PROVE  WatcherOut(m, i) \in Machines(S, T, F)
BY WatcherToClauseKeeps, WatcherToMemoryKeeps DEF WatcherOut

\* A clause unit that takes an answer or gives away a read
LEMMA ClauseEdited ==
  ASSUME NEW S, NEW T, NEW c \in ClauseSet(S, T)
  PROVE  /\ \A r \in LiteralReads(S) : C!PushResp(c, r) \in ClauseSet(S, T)
         /\ c.out_memory_read_queue # <<>> => C!PopRead(c) \in ClauseSet(S, T)
<1>1. /\ c.on_going_requests \in Int /\ c.in_memory_resp_queue \in Seq(LiteralReads(S))
      /\ c.out_memory_read_queue \in Seq(LiteralReads(S))
  BY DEF ClauseSet
<1>2. c.on_going_requests - 1 \in Int /\ c.on_going_requests + 1 \in Int
  BY <1>1
<1>3. ASSUME NEW r \in LiteralReads(S) PROVE C!PushResp(c, r) \in ClauseSet(S, T)
  <2>1. Append(c.in_memory_resp_queue, r) \in Seq(LiteralReads(S))
    BY <1>1
  <2> QED BY <1>2, <2>1 DEF C!PushResp, ClauseSet
<1>4. ASSUME c.out_memory_read_queue # <<>> PROVE C!PopRead(c) \in ClauseSet(S, T)
  <2>1. Tail(c.out_memory_read_queue) \in Seq(LiteralReads(S))
    BY <1>1, <1>4, TailElements
  <2> QED BY <1>2, <2>1 DEF C!PopRead, ClauseSet
<1> QED BY <1>3, <1>4

\* clause_to_mem
LEMMA ClauseToMemKeeps ==
  ASSUME NEW S, NEW T, NEW F, NEW m \in Machines(S, T, F), NEW c \in ClauseIds
  PROVE  ClauseToMem(m, c) \in Machines(S, T, F)
<1> DEFINE u == m.clauses[c]
           q == u.out_memory_read_queue
           i == HomeTile(c)
           req == [Head(q) EXCEPT !.ComponentId = ClauseComponent(c)]
           us == [m.clauses EXCEPT ![c] = C!PopRead(u)]
           data == q # <<>> /\ req.type = "ReadClauseData" /\ N!HasBuffer(m.memory_read_icnt, i)
           value == q # <<>> /\ req.type # "ReadClauseData" /\ P!RecieveRdy(m.m_private_caches[i])
           p == m.m_private_caches[i]
           p2 == [p EXCEPT !.in_request = Append(@, req)]
           ps == [m.m_private_caches EXCEPT ![i] = p2]
           net == ToMemory(m.memory_read_icnt, i, req)
<1>0. i \in Tile /\ ClauseComponent(c) \in ComponentIds /\ IsClause(ClauseComponent(c))
      /\ ClauseOfComponent(ClauseComponent(c)) = c
  BY ClauseNumbers
<1>1. CASE ~ value /\ ~ data
  BY <1>1 DEF ClauseToMem
<1>2. ASSUME q # <<>>
      PROVE  us \in AllClauses(S, T) /\ req \in LiteralReads(S) /\ req.ComponentId = ClauseComponent(c)
  <2>1. u \in ClauseSet(S, T)
    BY ClauseParts
  <2>2. q \in Seq(LiteralReads(S)) /\ C!PopRead(u) \in ClauseSet(S, T)
    BY <1>2, <2>1, ClauseEdited DEF ClauseSet
  <2>3. us \in AllClauses(S, T)
    BY <2>2, ClauseParts
  <2> DEFINE h == Head(q)
  <2>4. h \in LiteralReads(S)
    BY <1>2, <2>2, TailElements
  <2>5. h \in Request
    BY <2>4 DEF LiteralReads, Literal
  <2> HIDE DEF h, q
  <2>6. [h EXCEPT !.ComponentId = ClauseComponent(c)] \in LiteralReads(S)
        /\ [h EXCEPT !.ComponentId = ClauseComponent(c)].ComponentId = ClauseComponent(c)
    BY <1>0, <2>4, <2>5, Readdressed
  <2> QED BY <2>3, <2>6 DEF h
<1>3. CASE value
  <2>1. ClauseToMem(m, c) = [m EXCEPT !.clauses = us, !.m_private_caches = ps]
    BY <1>3 DEF ClauseToMem, Machines
  <2>2. us \in AllClauses(S, T) /\ req \in LiteralReads(S) /\ req.ComponentId = ClauseComponent(c)
        /\ req.type # "ReadClauseData"
    BY <1>2, <1>3
  <2> HIDE DEF us, req
  <2>3. req \in Values(S, i)
    BY <1>0, <2>2 DEF Values, LiteralReads, ClauseReads
  <2> HIDE DEF i
  <2>4. p2 \in CacheSet(S, i)
    <3>1. p \in CacheSet(S, i)
      BY <1>0, TileParts
    <3> HIDE DEF p
    <3> QED BY <2>3, <3>1, CacheGiven
  <2> HIDE DEF p2
  <2>5. ps \in AllCaches(S)
    BY <1>0, <2>4, TileParts
  <2> HIDE DEF ps
  <2> QED BY <2>1, <2>2, <2>5 DEF Machines
<1>4. CASE data
  <2>1. ClauseToMem(m, c) = [m EXCEPT !.clauses = us, !.memory_read_icnt = net]
    BY <1>4 DEF ClauseToMem, Machines
  <2>2. us \in AllClauses(S, T) /\ req \in LiteralReads(S) /\ req.ComponentId = ClauseComponent(c)
        /\ req.type = "ReadClauseData"
    BY <1>2, <1>4
  <2> HIDE DEF us, req
  <2>3. req \in Fetches(S)
    BY <1>0, <2>2 DEF Fetches
  <2> HIDE DEF i
  <2>4. net \in MemoryNets(S)
    BY <1>0, <2>3, MachineParts, ToMemoryKeeps
  <2> HIDE DEF net
  <2> QED BY <2>1, <2>2, <2>4 DEF Machines
<1> QED BY <1>1, <1>3, <1>4

\* cache_to_clause_and_watchers
LEMMA CacheToClauseAndWatchersKeeps ==
  ASSUME NEW S, NEW T, NEW F, NEW m \in Machines(S, T, F), NEW p \in Banks
  PROVE  CacheToClauseAndWatchers(m, p) \in Machines(S, T, F)
<1> DEFINE l3 == m.m_cache_interface
           q == l3.out_resp_queues[p]
           req == Head(q)
           l3x == [l3 EXCEPT !.out_resp_queues[p] = Tail(@)]
           net == N!Push(m.memory_read_icnt, num_watchers + p, req, TileOf(req.ComponentId))
<1>1. CASE q = <<>>
  BY <1>1 DEF CacheToClauseAndWatchers
<1>2. CASE q # <<>>
  <2>1. l3 \in MemorySet(S)
    BY MachineParts
  <2>2. l3x \in MemorySet(S) /\ req \in FromBank(S, p)
    BY <1>2, <2>1, MemoryDepart
  <2>3. BankOf(req) = p /\ req \in Fetches(S)
    BY <2>2 DEF FromBank
  <2>4. CacheToClauseAndWatchers(m, p) = [m EXCEPT !.m_cache_interface = l3x, !.memory_read_icnt = net]
    BY <1>2, <2>3 DEF CacheToClauseAndWatchers, Asserted, Machines
  <2> HIDE DEF l3x, req
  <2>5. req \in Request /\ TileOf(req.ComponentId) \in Tile
    <3>1. req \in Request
      BY <2>3 DEF Fetches, ListReads, LiteralReads, Literal, Listed, Owned
    <3>2. req.ComponentId \in ComponentIds
      BY <3>1 DEF Request, ComponentIds
    <3> QED BY <3>1, <3>2, ClauseNumbers
  <2>6. TileOf(req.ComponentId) \in Nat
    BY <2>5, BankNumbers DEF Tile
  <2>7. N!Packet(req, TileOf(req.ComponentId)) \in MemoryPackets(S)
    BY <2>3, <2>5, <2>6 DEF N!Packet, MemoryPackets, Packets
  <2>8. net \in MemoryNets(S)
    <3>1. m.memory_read_icnt \in NetSet(MemoryNodes, MemoryPackets(S))
      BY MachineParts DEF MemoryNets
    <3>2. num_watchers + p \in 0 .. MemoryNodes - 1
      BY BankNumbers
    <3> QED BY <2>7, <3>1, <3>2, NetPush DEF MemoryNets
  <2> HIDE DEF net
  <2> QED BY <2>2, <2>4, <2>8 DEF Machines
<1> QED BY <1>1, <1>2

\* An answer for watcher i; an answer for a clause unit
LEMMA WatcherAnswered ==
  ASSUME NEW S, NEW i, NEW w \in WatcherSet(S, i), NEW r \in ListReads(S), r.ComponentId = i
  PROVE  [w EXCEPT !.in_memory_resp_queue = Append(@, r)] \in WatcherSet(S, i)
<1>1. Append(w.in_memory_resp_queue, r) \in Seq(From(ListReads(S), i))
  <2>1. w.in_memory_resp_queue \in Seq(From(ListReads(S), i)) /\ r \in From(ListReads(S), i)
    BY DEF WatcherSet, From
  <2> QED BY <2>1
<1> QED BY <1>1 DEF WatcherSet

\* private_cache
LEMMA PrivateCacheOutKeeps ==
  ASSUME NEW S, NEW T, NEW F, NEW m \in Machines(S, T, F), NEW i \in Tile
  PROVE  PrivateCacheOut(m, i) \in Machines(S, T, F)
<1> DEFINE p == m.m_private_caches[i]
           q == p.out_send_q
           req == Head(q)
           c == ClauseOfComponent(req.ComponentId)
           p2 == [p EXCEPT !.out_send_q = Tail(@)]
           ps == [m.m_private_caches EXCEPT ![i] = p2]
           w == m.watchers[i]
           w2 == [w EXCEPT !.in_memory_resp_queue = Append(@, req)]
           ws == [m.watchers EXCEPT ![i] = w2]
           us == [m.clauses EXCEPT ![c] = C!PushResp(m.clauses[c], req)]
           mine == IF req.type = "ReadClauseValue"
                   THEN IsClause(req.ComponentId) /\ HomeTile(c) = i
                   ELSE req.ComponentId = i
<1>1. CASE q = <<>>
  BY <1>1 DEF PrivateCacheOut
<1>2. CASE q # <<>>
  <2>1. p \in CacheSet(S, i)
    BY TileParts
  <2>2. q \in Seq(Values(S, i))
    BY <2>1 DEF CacheSet
  <2>3. req \in Values(S, i) /\ Tail(q) \in Seq(Values(S, i))
    BY <1>2, <2>2, TailElements
  <2>4. p2 \in CacheSet(S, i)
    <3> HIDE DEF p
    <3> QED BY <2>1, <2>3 DEF CacheSet
  <2> HIDE DEF p2
  <2>5. ps \in AllCaches(S)
    BY <2>4, TileParts
  <2>6. mine
    BY <2>3 DEF Values, ListReads, WatcherReads
  <2>7. CASE req.type = "ReadClauseValue"
    <3>1. req \in LiteralReads(S) /\ IsClause(req.ComponentId) /\ req \in Request
      BY <2>3, <2>7 DEF Values, ListReads, WatcherReads, LiteralReads, Literal
    <3>2. c \in ClauseIds
      BY <3>1, ClauseNumbers DEF Request, ComponentIds
    <3>3. us \in AllClauses(S, T)
      <4>1. m.clauses[c] \in ClauseSet(S, T)
        BY <3>2, ClauseParts
      <4>2. C!PushResp(m.clauses[c], req) \in ClauseSet(S, T)
        BY <3>1, <4>1, ClauseEdited
      <4> HIDE DEF c, req
      <4> QED BY <3>2, <4>2, ClauseParts
    <3>4. PrivateCacheOut(m, i) = [m EXCEPT !.m_private_caches = ps, !.clauses = us]
      BY <1>2, <2>6, <2>7 DEF PrivateCacheOut, Machines, p2
    <3> HIDE DEF ps, us
    <3> QED BY <2>5, <3>3, <3>4 DEF Machines
  <2>8. CASE req.type # "ReadClauseValue"
    <3>1. req \in ListReads(S) /\ req.ComponentId = i
      BY <2>3, <2>8 DEF Values
    <3>2. w2 \in WatcherSet(S, i)
      <4>1. w \in WatcherSet(S, i)
        BY TileParts
      <4> HIDE DEF w, req
      <4> QED BY <3>1, <4>1, WatcherAnswered
    <3> HIDE DEF w2
    <3>3. ws \in AllWatchers(S)
      BY <3>2, TileParts
    <3>4. PrivateCacheOut(m, i) = [m EXCEPT !.m_private_caches = ps, !.watchers = ws]
      BY <1>2, <2>6, <2>8 DEF PrivateCacheOut, Machines, p2, w2
    <3> HIDE DEF ps, ws
    <3> QED BY <2>5, <3>3, <3>4 DEF Machines
  <2> QED BY <2>7, <2>8
<1> QED BY <1>1, <1>2

\* clause_to_trail
LEMMA ClauseToTrailKeeps ==
  ASSUME NEW S, NEW T, NEW F, NEW m \in Machines(S, T, F), NEW c \in ClauseIds
  PROVE  ClauseToTrail(m, c) \in Machines(S, T, F)
<1> DEFINE u == m.clauses[c]
           q == u.out_queue
           trail == Append(m.in_m_trail, Head(q))
           u2 == [u EXCEPT !.out_queue = Tail(@)]
           us == [m.clauses EXCEPT ![c] = u2]
<1>1. CASE q = <<>>
  BY <1>1 DEF ClauseToTrail
<1>2. CASE q # <<>>
  <2>1. u \in ClauseSet(S, T)
    BY ClauseParts
  <2>2. q \in Seq(Fresh(T))
    BY <2>1 DEF ClauseSet
  <2>3. Head(q) \in Fresh(T) /\ Tail(q) \in Seq(Fresh(T))
    BY <1>2, <2>2, TailElements
  <2>4. ClauseToTrail(m, c) = [m EXCEPT !.in_m_trail = trail, !.clauses = us]
    BY <1>2 DEF ClauseToTrail, Machines
  <2>5. trail \in Trails(T)
    <3>1. m.in_m_trail \in Seq(Fresh(T))
      BY MachineParts DEF Trails
    <3> HIDE DEF q
    <3> QED BY <2>3, <3>1 DEF Trails
  <2>6. u2 \in ClauseSet(S, T)
    <3> HIDE DEF u
    <3> QED BY <2>1, <2>3 DEF ClauseSet
  <2> HIDE DEF trail, u2
  <2>7. us \in AllClauses(S, T)
    BY <2>6, ClauseParts
  <2> HIDE DEF us
  <2> QED BY <2>4, <2>5, <2>7 DEF Machines
<1> QED BY <1>1, <1>2

\* A list write unit with another queue
LEMMA UnitQueues ==
  ASSUME NEW S, NEW T, NEW u \in UnitSet(S, T)
  PROVE  /\ \A x \in Seq(Listed(S)) : [u EXCEPT !.in_request = x] \in UnitSet(S, T)
         /\ \A x \in Seq(ListWrites) : [u EXCEPT !.out_mem_requst = x] \in UnitSet(S, T)
<1>1. PICK in, o, mp, rq, ag :
        u = [in_request |-> in, out_mem_requst |-> o, current_map |-> mp,
             current_req |-> rq, entry_aging_queue |-> ag]
  BY UnitParts
<1>2. /\ u.in_request = in /\ u.out_mem_requst = o /\ u.current_map = mp
      /\ u.current_req = rq /\ u.entry_aging_queue = ag
  BY <1>1
<1>3. /\ mp \in [DOMAIN rq -> Int] /\ rq \in [DOMAIN rq -> ListWrites]
      /\ DOMAIN rq \in SUBSET Entries(T) /\ in \in Seq(Listed(S)) /\ o \in Seq(ListWrites)
      /\ ag \in Seq(Entries(T))
      /\ \A w \in DOMAIN rq : /\ L!ValueOf(rq[w]) = w
                              /\ \E k \in DOMAIN ag : ag[k] = w
  BY <1>2, UnitParts
<1>4. ASSUME NEW x \in Seq(Listed(S)) PROVE [u EXCEPT !.in_request = x] \in UnitSet(S, T)
  <2>1. [u EXCEPT !.in_request = x]
        = [in_request |-> x, out_mem_requst |-> o, current_map |-> mp,
           current_req |-> rq, entry_aging_queue |-> ag]
    BY <1>1
  <2>2. [in_request |-> x, out_mem_requst |-> o, current_map |-> mp,
         current_req |-> rq, entry_aging_queue |-> ag] \in UnitSet(S, T)
    BY <1>3, UnitMade
  <2> QED BY <2>1, <2>2
<1>5. ASSUME NEW x \in Seq(ListWrites) PROVE [u EXCEPT !.out_mem_requst = x] \in UnitSet(S, T)
  <2>1. [u EXCEPT !.out_mem_requst = x]
        = [in_request |-> in, out_mem_requst |-> x, current_map |-> mp,
           current_req |-> rq, entry_aging_queue |-> ag]
    BY <1>1
  <2>2. [in_request |-> in, out_mem_requst |-> x, current_map |-> mp,
         current_req |-> rq, entry_aging_queue |-> ag] \in UnitSet(S, T)
    BY <1>3, UnitMade
  <2> QED BY <2>1, <2>2
<1> QED BY <1>4, <1>5

\* Another list write unit at tile i
LEMMA UnitGiven ==
  ASSUME NEW S, NEW T, NEW F, NEW m \in Machines(S, T, F), NEW i \in Tile, NEW r \in Listed(S)
  PROVE  [m.m_watcher_write_unit EXCEPT ![i] = [m.m_watcher_write_unit[i] EXCEPT
            !.in_request = Append(m.m_watcher_write_unit[i].in_request, r)]] \in AllUnits(S, T)
<1> DEFINE u == m.m_watcher_write_unit[i]
           x == Append(u.in_request, r)
           u2 == [u EXCEPT !.in_request = x]
<1>1. u \in UnitSet(S, T)
  BY UnitOfTile
<1>2. x \in Seq(Listed(S))
  <2>1. u.in_request \in Seq(Listed(S))
    BY <1>1, UnitParts
  <2> QED BY <2>1
<1> HIDE DEF x
<1>3. u2 \in UnitSet(S, T)
  <2> HIDE DEF u
  <2> QED BY <1>1, <1>2, UnitQueues
<1> HIDE DEF u2
<1>4. [m.m_watcher_write_unit EXCEPT ![i] = u2] \in AllUnits(S, T)
  BY <1>3, UnitOfTile
<1> QED BY <1>4 DEF u2, x

\* watcher_to_writeuite
LEMMA WatcherToWriteUnitKeeps ==
  ASSUME NEW S, NEW T, NEW F, NEW m \in Machines(S, T, F), NEW i \in Tile
  PROVE  WatcherToWriteUnit(m, i) \in Machines(S, T, F)
<1> DEFINE w == m.watchers[i]
           q == w.out_write_watcher_list_queue
           req == Head(q)
           pushed == get_pushed[<<req.as, req.watcherId>>]
           w2 == [w EXCEPT !.out_write_watcher_list_queue = Tail(@)]
           ws == [m.watchers EXCEPT ![i] = w2]
           us == [m.m_watcher_write_unit EXCEPT ![i] = [m.m_watcher_write_unit[i] EXCEPT
                    !.in_request = Append(m.m_watcher_write_unit[i].in_request, req)]]
           net == N!PushOrDeliver(m.watcher_to_writer_icnt, i, req, pushed % num_watchers)
<1>1. CASE q = <<>>
  BY <1>1 DEF WatcherToWriteUnit
<1>2. CASE q # <<>>
  <2>1. w \in WatcherSet(S, i)
    BY TileParts
  <2>2. q \in Seq(From(Listed(S), i))
    BY <2>1 DEF WatcherSet
  <2>3. req \in From(Listed(S), i) /\ Tail(q) \in Seq(From(Listed(S), i))
    BY <1>2, <2>2, TailElements
  <2>4. w2 \in WatcherSet(S, i)
    <3> HIDE DEF w
    <3> QED BY <2>1, <2>3 DEF WatcherSet
  <2> HIDE DEF w2
  <2>5. ws \in AllWatchers(S)
    BY <2>4, TileParts
  <2>6. req \in Listed(S) /\ req.ComponentId = i
    BY <2>3 DEF From
  <2>7. CASE pushed = NotPushed
    <3>1. WatcherToWriteUnit(m, i) = [m EXCEPT !.watchers = ws, !.m_watcher_write_unit = us]
      BY <1>2, <2>6, <2>7 DEF WatcherToWriteUnit, Asserted, Machines, w2
    <3>2. us \in AllUnits(S, T)
      <4> HIDE DEF req
      <4> QED BY <2>6, UnitGiven
    <3> HIDE DEF ws, us
    <3> QED BY <2>5, <3>1, <3>2 DEF Machines
  <2>8. CASE pushed # NotPushed
    <3>1. WatcherToWriteUnit(m, i) = [m EXCEPT !.watchers = ws, !.watcher_to_writer_icnt = net]
      BY <1>2, <2>6, <2>8 DEF WatcherToWriteUnit, Asserted, Machines, w2
    <3> HIDE DEF req, ws
    <3>2. req \in Request /\ pushed % num_watchers \in Nat
      <4>1. /\ req \in Request /\ req.as \in Assign
            /\ req.watcherId \in 0 .. get_watcher_size[req.as] - 1
        BY <2>6, TableAssumption DEF Listed, Owned, Request
      <4>2. pushed \in Int
        BY <2>8, <4>1, TableAssumption
      <4> HIDE DEF pushed
      <4> QED BY <4>1, <4>2, Sizes
    <3>3. N!Packet(req, pushed % num_watchers) \in WriterPackets(S)
      <4> HIDE DEF pushed
      <4> QED BY <2>6, <3>2 DEF N!Packet, WriterPackets, Packets
    <3>4. net \in WriterNets(S)
      <4>1. m.watcher_to_writer_icnt \in NetSet(num_watchers, WriterPackets(S))
            /\ i \in 0 .. num_watchers - 1
        BY MachineParts, BankNumbers DEF WriterNets
      <4> HIDE DEF pushed
      <4> QED BY <3>2, <3>3, <4>1, NetPushOrDeliver DEF WriterNets
    <3> HIDE DEF net
    <3> QED BY <2>5, <3>1, <3>4 DEF Machines
  <2> QED BY <2>7, <2>8
<1> QED BY <1>1, <1>2

\* clause_to_writeuint
LEMMA ClauseToWriteUnitKeeps ==
  ASSUME NEW S, NEW T, NEW F, NEW m \in Machines(S, T, F), NEW c \in ClauseIds
  PROVE  ClauseToWriteUnit(m, c) \in Machines(S, T, F)
<1> DEFINE u == m.clauses[c]
           q == u.out_clause_write_queue
           h == Head(q)
           req == [h EXCEPT !.ComponentId = ClauseComponent(c)]
           u2 == [u EXCEPT !.out_clause_write_queue = Tail(@)]
           us == [m.clauses EXCEPT ![c] = u2]
           i == HomeTile(c)
           w == m.m_clause_write_unit[i]
           w2 == [w EXCEPT !.in = Append(@, req)]
           ws == [m.m_clause_write_unit EXCEPT ![i] = w2]
           ex == [m.examined EXCEPT ![<<req.as, req.watcherId>>] = @ + 1]
<1>0. i \in Tile /\ ClauseComponent(c) \in ComponentIds /\ IsClause(ClauseComponent(c))
  BY ClauseNumbers
<1>1. CASE q = <<>>
  BY <1>1 DEF ClauseToWriteUnit
<1>2. CASE q # <<>>
  <2>1. u \in ClauseSet(S, T)
    BY ClauseParts
  <2>2. q \in Seq(LastOne(S))
    BY <2>1 DEF ClauseSet
  <2>3. h \in LastOne(S) /\ Tail(q) \in Seq(LastOne(S))
    BY <1>2, <2>2, TailElements
  <2>4. u2 \in ClauseSet(S, T)
    <3> HIDE DEF u
    <3> QED BY <2>1, <2>3 DEF ClauseSet
  <2> HIDE DEF u2
  <2>5. us \in AllClauses(S, T)
    BY <2>4, ClauseParts
  <2>6. req \in Handed(S) /\ <<req.as, req.watcherId>> \in is_read_clause
    <3>1. h \in Request /\ h \in LastOne(S)
      BY <2>3 DEF LastOne, Literal
    <3> HIDE DEF h
    <3>2. req \in LastOne(S) /\ req.ComponentId = ClauseComponent(c)
      BY <1>0, <3>1, Readdressed
    <3> HIDE DEF req
    <3> QED BY <1>0, <3>2 DEF Handed, LastOne, Literal
  <2>7. ClauseToWriteUnit(m, c)
        = [m EXCEPT !.clauses = us, !.m_clause_write_unit = ws, !.examined = ex]
    BY <1>2 DEF ClauseToWriteUnit, Machines, u2, C!ClauseOf
  <2> HIDE DEF us, req, i
  <2>8. w2 \in WriterSet(S)
    <3>1. w \in WriterSet(S)
      BY <1>0, UnitOfTile
    <3>2. req \in Handed(S) /\ w.in \in Seq(Handed(S))
      BY <2>6, <3>1 DEF WriterSet
    <3> DEFINE x == Append(w.in, req)
    <3> HIDE DEF w
    <3>3. x \in Seq(Handed(S))
      BY <3>2
    <3>4. w2 = [w EXCEPT !.in = x]
      OBVIOUS
    <3> HIDE DEF x, w2
    <3> QED BY <3>1, <3>3, <3>4 DEF WriterSet
  <2> HIDE DEF w2
  <2>9. ws \in AllWriters(S)
    BY <1>0, <2>8, UnitOfTile
  <2>10. ex \in Examined
    <3> DEFINE f == m.examined
               k == <<req.as, req.watcherId>>
    <3>1. f \in [is_read_clause -> Int]
      BY MachineParts DEF Examined
    <3>2. k \in is_read_clause
      BY <2>6
    <3> HIDE DEF f, k
    <3>3. f[k] + 1 \in Int
      BY <3>1, <3>2
    <3>4. [f EXCEPT ![k] = @ + 1] \in [is_read_clause -> Int]
      BY <3>1, <3>3
    <3> QED BY <3>4 DEF f, k, Examined
  <2> HIDE DEF ws, ex
  <2> QED BY <2>5, <2>7, <2>9, <2>10 DEF Machines
<1> QED BY <1>1, <1>2

\* clause_write_unit_to_cache
LEMMA ClauseWriteUnitToCacheKeeps ==
  ASSUME NEW S, NEW T, NEW F, NEW m \in Machines(S, T, F), NEW i \in Tile
  PROVE  ClauseWriteUnitToCache(m, i) \in Machines(S, T, F)
<1> DEFINE w == m.m_clause_write_unit[i]
           q == w.out
           req == Head(q)
           w2 == [w EXCEPT !.out = Tail(@)]
           ws == [m.m_clause_write_unit EXCEPT ![i] = w2]
           net == ToMemory(m.memory_read_icnt, TileOf(req.ComponentId), req)
<1>1. CASE q = <<>>
  BY <1>1 DEF ClauseWriteUnitToCache
<1>2. CASE q # <<>>
  <2>1. w \in WriterSet(S)
    BY UnitOfTile
  <2>2. q \in Seq(ClauseWrites)
    BY <2>1 DEF WriterSet
  <2>3. req \in ClauseWrites /\ Tail(q) \in Seq(ClauseWrites)
    BY <1>2, <2>2, TailElements
  <2>4. w2 \in WriterSet(S)
    <3> HIDE DEF w
    <3> QED BY <2>1, <2>3 DEF WriterSet
  <2>5. IsClause(req.ComponentId) /\ req \in Request
    BY <2>3 DEF ClauseWrites, Literal
  <2>6. ClauseWriteUnitToCache(m, i) = [m EXCEPT !.m_clause_write_unit = ws, !.memory_read_icnt = net]
    BY <1>2, <2>5 DEF ClauseWriteUnitToCache, Asserted, Machines
  <2> HIDE DEF w2
  <2>7. ws \in AllWriters(S)
    BY <2>4, UnitOfTile
  <2> HIDE DEF ws, req
  <2>8. net \in MemoryNets(S)
    <3>1. TileOf(req.ComponentId) \in Tile
      BY <2>5, ClauseNumbers DEF Request, ComponentIds
    <3>2. req \in Fetches(S) \cup Stores
      BY <2>3 DEF Stores
    <3> QED BY <3>1, <3>2, MachineParts, ToMemoryKeeps
  <2> HIDE DEF net
  <2> QED BY <2>6, <2>7, <2>8 DEF Machines
<1> QED BY <1>1, <1>2

\* watcher_write_unit_to_cache
LEMMA WatcherWriteUnitToCacheKeeps ==
  ASSUME NEW S, NEW T, NEW F, NEW m \in Machines(S, T, F), NEW i \in Tile
  PROVE  WatcherWriteUnitToCache(m, i) \in Machines(S, T, F)
<1> DEFINE u == m.m_watcher_write_unit[i]
           q == u.out_mem_requst
           req == Head(q)
           u2 == [u EXCEPT !.out_mem_requst = Tail(q)]
           us == [m.m_watcher_write_unit EXCEPT ![i] = u2]
           net == ToMemory(m.memory_read_icnt, i, req)
           wr == m.written \cup {<<i, L!ValueOf(req)>>}
<1>1. CASE q = <<>>
  BY <1>1 DEF WatcherWriteUnitToCache
<1>2. CASE q # <<>>
  <2>1. u \in UnitSet(S, T)
    BY UnitOfTile
  <2>2. q \in Seq(ListWrites)
    BY <2>1, UnitParts
  <2>3. req \in ListWrites /\ Tail(q) \in Seq(ListWrites)
    BY <1>2, <2>2, TailElements
  <2>4. u2 \in UnitSet(S, T)
    <3> HIDE DEF u
    <3> QED BY <2>1, <2>3, UnitQueues
  <2>5. WatcherWriteUnitToCache(m, i)
        = [m EXCEPT !.m_watcher_write_unit = us, !.memory_read_icnt = net, !.written = wr]
    BY <1>2 DEF WatcherWriteUnitToCache, Machines
  <2> HIDE DEF u2
  <2>6. us \in AllUnits(S, T)
    BY <2>4, UnitOfTile
  <2> HIDE DEF us, req
  <2>7. net \in MemoryNets(S)
    <3>1. req \in Fetches(S) \cup Stores
      BY <2>3 DEF Stores
    <3> QED BY <3>1, MachineParts, ToMemoryKeeps
  <2>8. wr \in Written
    <3>1. L!ValueOf(req) \in Value
      BY <2>3, ListOf DEF ListWrites
    <3>2. m.written \in Written
      BY MachineParts
    <3> QED BY <3>1, <3>2 DEF Written
  <2> HIDE DEF net, wr
  <2> QED BY <2>5, <2>6, <2>7, <2>8 DEF Machines
<1> QED BY <1>1, <1>2

\* watcher_icnt_to_watcher_writer
LEMMA WatcherIcntToWatcherWriterKeeps ==
  ASSUME NEW S, NEW T, NEW F, NEW m \in Machines(S, T, F), NEW i \in Tile
  PROVE  WatcherIcntToWatcherWriter(m, i) \in Machines(S, T, F)
<1> DEFINE q == m.watcher_to_writer_icnt.out_reqs[i]
           req == Head(q)
           net == N!PopOut(m.watcher_to_writer_icnt, i)
           us == [m.m_watcher_write_unit EXCEPT ![i] = [m.m_watcher_write_unit[i] EXCEPT
                    !.in_request = Append(m.m_watcher_write_unit[i].in_request, req)]]
<1>1. CASE q = <<>>
  BY <1>1 DEF WatcherIcntToWatcherWriter
<1>2. CASE q # <<>>
  <2>1. WatcherIcntToWatcherWriter(m, i)
        = [m EXCEPT !.watcher_to_writer_icnt = net, !.m_watcher_write_unit = us]
    BY <1>2 DEF WatcherIcntToWatcherWriter, Machines
  <2>2. m.watcher_to_writer_icnt \in NetSet(num_watchers, WriterPackets(S))
        /\ i \in 0 .. num_watchers - 1
    BY MachineParts, BankNumbers DEF WriterNets
  <2>3. net \in NetSet(num_watchers, WriterPackets(S)) /\ req \in At(WriterPackets(S), i)
    BY <1>2, <2>2, NetPop
  <2>4. net \in WriterNets(S) /\ req \in Listed(S)
    BY <2>3 DEF WriterNets, At, WriterPackets, N!Packet
  <2> HIDE DEF net, req
  <2>5. us \in AllUnits(S, T)
    BY <2>4, UnitGiven
  <2> HIDE DEF us
  <2> QED BY <2>1, <2>4, <2>5 DEF Machines
<1> QED BY <1>1, <1>2

\* What arrives at a tile and at a bank
LEMMA MemoryArrivals ==
  ASSUME NEW S
  PROVE  /\ \A i \in Tile : \A r \in At(MemoryPackets(S), i) :
              r \in Fetches(S) /\ TileOf(r.ComponentId) = i /\ r \in Request
         /\ \A p \in Banks : \A r \in At(MemoryPackets(S), num_watchers + p) : r \in ToBank(S, p)
<1>1. \A r \in Request : TileOf(r.ComponentId) \in Tile /\ BankOf(r) \in Banks
  BY ClauseNumbers, BankNumbers DEF Request, ComponentIds
<1>2. ASSUME NEW n, NEW r \in At(MemoryPackets(S), n)
      PROVE  /\ r \in Request
             /\ \/ r \in Fetches(S) \cup Stores /\ n = num_watchers + BankOf(r)
                \/ r \in Fetches(S) /\ n = TileOf(r.ComponentId)
  BY DEF At, MemoryPackets, N!Packet
<1>3. ASSUME NEW i \in Tile, NEW r \in At(MemoryPackets(S), i)
      PROVE  r \in Fetches(S) /\ TileOf(r.ComponentId) = i /\ r \in Request
  BY <1>1, <1>2, BankNumbers
<1>4. ASSUME NEW p \in Banks, NEW r \in At(MemoryPackets(S), num_watchers + p)
      PROVE  r \in ToBank(S, p)
  <2>1. /\ r \in Request
        /\ r \in Fetches(S) \cup Stores /\ num_watchers + p = num_watchers + BankOf(r)
    BY <1>1, <1>2, BankNumbers
  <2>2. BankOf(r) = p
    <3> DEFINE b == BankOf(r)
    <3>1. num_watchers \in Nat /\ p \in Int /\ b \in Int /\ num_watchers + p = num_watchers + b
      BY <1>1, <2>1, BankNumbers DEF Banks
    <3> HIDE DEF b
    <3>2. p = b
      BY <3>1
    <3> QED BY <3>2 DEF b
  <2> QED BY <2>1, <2>2 DEF ToBank
<1> QED BY <1>3, <1>4

\* icnt_to_other, to the units of a tile
LEMMA IcntToTileKeeps ==
  ASSUME NEW S, NEW T, NEW F, NEW m \in Machines(S, T, F), NEW i \in Tile
  PROVE  IcntToTile(m, i) \in Machines(S, T, F)
<1> DEFINE q == m.memory_read_icnt.out_reqs[i]
           req == Head(q)
           id == req.ComponentId
           c == ClauseOfComponent(id)
           net == N!PopOut(m.memory_read_icnt, i)
           w == m.watchers[i]
           w2 == [w EXCEPT !.in_memory_resp_queue = Append(@, req)]
           ws == [m.watchers EXCEPT ![i] = w2]
           us == [m.clauses EXCEPT ![c] = C!PushResp(m.clauses[c], req)]
           ready == q # <<>> /\ W!RecieveMemRdy(m.watchers[i])
<1>1. CASE ~ ready
  BY <1>1 DEF IcntToTile
<1>2. CASE ready
  <2>1. m.memory_read_icnt \in NetSet(MemoryNodes, MemoryPackets(S)) /\ i \in 0 .. MemoryNodes - 1
    BY MachineParts, BankNumbers DEF MemoryNets
  <2>2. net \in NetSet(MemoryNodes, MemoryPackets(S)) /\ req \in At(MemoryPackets(S), i)
    BY <1>2, <2>1, NetPop
  <2>3. net \in MemoryNets(S) /\ req \in Fetches(S) /\ TileOf(id) = i /\ id \in ComponentIds
    <3>1. req \in Request /\ req \in Fetches(S) /\ TileOf(id) = i
      BY <2>2, MemoryArrivals
    <3> QED BY <2>2, <3>1 DEF MemoryNets, Request, ComponentIds
  <2>4. CASE IsClause(id)
    <3>1. req \in LiteralReads(S) /\ req.type = "ReadClauseData" /\ HomeTile(c) = i
      BY <2>3, <2>4, ClauseNumbers DEF Fetches, TileOf
    <3>2. c \in ClauseIds
      BY <2>3, <2>4, ClauseNumbers
    <3>3. IcntToTile(m, i) = [m EXCEPT !.memory_read_icnt = net, !.clauses = us]
      BY <1>2, <2>4, <3>1 DEF IcntToTile, Machines
    <3>4. us \in AllClauses(S, T)
      <4>1. m.clauses[c] \in ClauseSet(S, T)
        BY <3>2, ClauseParts
      <4>2. C!PushResp(m.clauses[c], req) \in ClauseSet(S, T)
        BY <3>1, <4>1, ClauseEdited
      <4> HIDE DEF c, req
      <4> QED BY <3>2, <4>2, ClauseParts
    <3> HIDE DEF net, us
    <3> QED BY <2>3, <3>3, <3>4 DEF Machines
  <2>5. CASE ~ IsClause(id)
    <3>1. /\ req \in ListReads(S) /\ id = i
          /\ req.type \in {"ReadWatcherMetaData", "ReadWatcherData"}
      BY <2>3, <2>5 DEF Fetches, TileOf, ListReads, WatcherReads
    <3>2. w2 \in WatcherSet(S, i)
      <4>1. w \in WatcherSet(S, i)
        BY TileParts
      <4>2. req.ComponentId = i
        BY <3>1
      <4> HIDE DEF w, req
      <4> QED BY <3>1, <4>1, <4>2, WatcherAnswered
    <3>3. IcntToTile(m, i) = [m EXCEPT !.memory_read_icnt = net, !.watchers = ws]
      BY <1>2, <2>5, <3>1 DEF IcntToTile, Machines
    <3> HIDE DEF w2
    <3>4. ws \in AllWatchers(S)
      BY <3>2, TileParts
    <3> HIDE DEF net, ws
    <3> QED BY <2>3, <3>3, <3>4 DEF Machines
  <2> QED BY <2>4, <2>5
<1> QED BY <1>1, <1>2

\* icnt_to_other, to a bank
LEMMA IcntToBankKeeps ==
  ASSUME NEW S, NEW T, NEW F, NEW m \in Machines(S, T, F), NEW p \in Banks
  PROVE  IcntToBank(m, p) \in Machines(S, T, F)
<1> DEFINE n == num_watchers + p
           q == m.memory_read_icnt.out_reqs[n]
           req == Head(q)
           net == N!PopOut(m.memory_read_icnt, n)
           l3 == [m.m_cache_interface EXCEPT !.in_request_queues[p] = Append(@, req)]
           full == Len(m.m_cache_interface.in_request_queues[p]) >= l3_in_size
<1>1. CASE q = <<>> \/ full
  BY <1>1 DEF IcntToBank
<1>2. CASE ~ (q = <<>> \/ full)
  <2>1. m.memory_read_icnt \in NetSet(MemoryNodes, MemoryPackets(S)) /\ n \in 0 .. MemoryNodes - 1
    BY MachineParts, BankNumbers DEF MemoryNets
  <2>2. net \in NetSet(MemoryNodes, MemoryPackets(S)) /\ req \in At(MemoryPackets(S), n)
    BY <1>2, <2>1, NetPop
  <2>3. net \in MemoryNets(S) /\ req \in ToBank(S, p)
    BY <2>2, MemoryArrivals DEF MemoryNets
  <2>4. IcntToBank(m, p) = [m EXCEPT !.memory_read_icnt = net, !.m_cache_interface = l3]
    BY <1>2 DEF IcntToBank, Machines
  <2> HIDE DEF net, req
  <2>5. l3 \in MemorySet(S)
    BY <2>3, MachineParts, MemoryArrive
  <2> HIDE DEF l3
  <2> QED BY <2>3, <2>4, <2>5 DEF Machines
<1> QED BY <1>1, <1>2

\* The next clause unit of a tile
LEMMA NextClause ==
  ASSUME NEW k \in NextClauses
  PROVE  (k + 1) % ClausesPerWatcher \in NextClauses
<1> DEFINE n == ClausesPerWatcher
<1>1. n \in Nat /\ n > 0 /\ k \in Nat
  BY Sizes DEF NextClauses
<1> HIDE DEF n
<1>2. (k + 1) % n \in 0 .. n - 1
  BY <1>1
<1> QED BY <1>2 DEF NextClauses, n

\* A clause unit that is given a task
LEMMA ClauseGiven ==
  ASSUME NEW S, NEW T, NEW c \in ClauseSet(S, T), NEW r \in Literal(S)
  PROVE  C!PushTask(c, r) \in ClauseSet(S, T)
<1> DEFINE x == Append(c.in_task_queue, r)
<1>1. c.in_task_queue \in Seq(Literal(S))
  BY DEF ClauseSet
<1>2. x \in Seq(Literal(S))
  BY <1>1
<1>3. C!PushTask(c, r) = [c EXCEPT !.in_task_queue = x]
  BY DEF C!PushTask
<1> HIDE DEF x
<1> QED BY <1>2, <1>3 DEF ClauseSet

\* watcher_icnt_out
LEMMA WatcherIcntOutKeeps ==
  ASSUME NEW S, NEW T, NEW F, Fits(S, T, F), NEW m \in Machines(S, T, F), NEW i \in Tile
  PROVE  WatcherIcntOut(m, i) \in Machines(S, T, F)
<1> DEFINE q == m.watcher_to_clause_icnt.out_reqs[i]
           next == (m.next_clause + 1) % ClausesPerWatcher
           h == Head(q)
           id == i * ClausesPerWatcher + next
           req == [h EXCEPT !.ComponentId = id]
           home == get_clause_id[C!ClauseOf(req)] % num_watchers
           net == N!PopOut(m.watcher_to_clause_icnt, i)
           c == i + next
           us == [m.clauses EXCEPT ![c] = C!PushTask(m.clauses[c], req)]
           bad == IF home = i THEN m.failed ELSE m.failed \cup {"acc.cc:647"}
<1>1. CASE q = <<>>
  BY <1>1 DEF WatcherIcntOut
<1>2. CASE q # <<>>
  <2>1. m.watcher_to_clause_icnt \in NetSet(num_watchers, ClausePackets(S, F))
        /\ i \in 0 .. num_watchers - 1
    BY MachineParts, BankNumbers DEF ClauseNets
  <2>2. net \in NetSet(num_watchers, ClausePackets(S, F)) /\ h \in At(ClausePackets(S, F), i)
    BY <1>2, <2>1, NetPop
  <2>3. /\ net \in ClauseNets(S, F) /\ h \in Sent(S) /\ h \in Request
        /\ F = {} => i = get_clause_id[<<h.as, h.watcherId>>] % num_watchers
    BY <2>2 DEF ClauseNets, At, ClausePackets, N!Packet
  <2>4. next \in NextClauses /\ c \in ClauseIds /\ id \in ComponentIds
    <3>1. next \in NextClauses
      BY MachineParts, NextClause
    <3> HIDE DEF next
    <3> QED BY <3>1, ClauseNumbers
  <2>5. WatcherIcntOut(m, i)
        = [m EXCEPT !.failed = bad, !.watcher_to_clause_icnt = net, !.next_clause = next,
                    !.clauses = us]
    BY <1>2 DEF WatcherIcntOut, Asserted, Machines
  <2> HIDE DEF net, h, id, next, c
  <2>6. req \in Sent(S) /\ req.as = h.as /\ req.watcherId = h.watcherId
    BY <2>3, <2>4, Readdressed
  <2> HIDE DEF req
  <2>7. req \in Literal(S)
    <3>1. /\ req \in Request /\ req.as \in S /\ req.watcherId < get_watcher_size[req.as]
          /\ <<req.as, req.watcherId>> \in is_read_clause /\ req.clauseId = 0
      BY <2>6 DEF Sent, Listed, Owned
    <3>2. get_clause_literal[<<req.as, req.watcherId>>] \in Nat \ {0}
      BY <3>1, TableAssumption
    <3>3. req.clauseId < get_clause_literal[<<req.as, req.watcherId>>]
      BY <3>1, <3>2
    <3> QED BY <3>1, <3>3 DEF Literal
  <2>8. us \in AllClauses(S, T)
    <3>1. C!PushTask(m.clauses[c], req) \in ClauseSet(S, T)
      BY <2>4, <2>7, ClauseParts, ClauseGiven
    <3> QED BY <2>4, <3>1, ClauseParts
  <2>9. bad \in SUBSET F
    <3>1. m.failed \in SUBSET F
      BY MachineParts
    <3>2. F = {} => home = i
      BY <2>3, <2>6 DEF C!ClauseOf
    <3>3. F = {} \/ "acc.cc:647" \in F
      BY DEF Fits
    <3> HIDE DEF home
    <3> QED BY <3>1, <3>2, <3>3
  <2> HIDE DEF us, bad
  <2> QED BY <2>3, <2>4, <2>5, <2>8, <2>9 DEF Machines
<1> QED BY <1>1, <1>2

-----------------------------------------------------------------------------
(* A machine whose components are empty                                     *)

\* A concatenation is empty when both parts are.
LEMMA ConcatEmpty ==
  ASSUME NEW X, NEW s \in Seq(X), NEW t \in Seq(X)
  PROVE  /\ s \o t \in Seq(X)
         /\ s \o t = <<>> => s = <<>> /\ t = <<>>
<1>1. s \o t \in Seq(X) /\ Len(s \o t) = Len(s) + Len(t) /\ Len(s) \in Nat /\ Len(t) \in Nat
  OBVIOUS
<1>2. ASSUME s \o t = <<>> PROVE s = <<>> /\ t = <<>>
  <2>1. Len(s \o t) = 0
    BY <1>2
  <2>2. Len(s) = 0 /\ Len(t) = 0
    BY <1>1, <2>1
  <2> QED BY <2>2
<1> QED BY <1>1, <1>2

\* The queues of an empty watcher, whatever it worked on, suit any assignments.
LEMMA WatcherEmpty ==
  ASSUME NEW S, NEW R, NEW i, NEW w \in WatcherSet(S, i), W!IsEmpty(w)
  PROVE  w \in WatcherSet(R, i)
<1> DEFINE q1 == w.waiting_read_meta_queue
           q2 == w.waiting_value_watcher_queue
           q3 == w.waiting_read_watcher_queue
           q4 == w.waiting_process_queue
           q5 == w.in_task_queue
           q6 == w.in_memory_resp_queue
           q7 == w.out_memory_read_queue
           q8 == w.out_send_queue
           q9 == w.out_write_watcher_list_queue
           X == Request
<1>1. /\ Fresh(S) \subseteq X /\ Owned(S) \subseteq X /\ Listed(S) \subseteq X
      /\ From(Listed(S), i) \subseteq X /\ ListReads(S) \subseteq X
      /\ From(ListReads(S), i) \subseteq X /\ Sent(S) \subseteq X
  BY DEF Fresh, Owned, Listed, From, ListReads, Sent
<1>2. /\ q1 \in Seq(Fresh(S)) /\ q2 \in Seq(Listed(S)) /\ q3 \in Seq(Owned(S))
      /\ q4 \in Seq(From(Listed(S), i)) /\ q5 \in Seq(Fresh(S))
      /\ q6 \in Seq(From(ListReads(S), i)) /\ q7 \in Seq(ListReads(S))
      /\ q8 \in Seq(Sent(S)) /\ q9 \in Seq(From(Listed(S), i))
  BY DEF WatcherSet
<1>3. q1 \o q2 \o q3 \o q4 \o q5 \o q6 \o q7 \o q8 \o q9 = <<>>
  BY DEF W!IsEmpty
<1> HIDE DEF q1, q2, q3, q4, q5, q6, q7, q8, q9, X
<1>4. /\ q1 \in Seq(X) /\ q2 \in Seq(X) /\ q3 \in Seq(X) /\ q4 \in Seq(X) /\ q5 \in Seq(X)
      /\ q6 \in Seq(X) /\ q7 \in Seq(X) /\ q8 \in Seq(X) /\ q9 \in Seq(X)
  BY <1>1, <1>2
<1> DEFINE s2 == q1 \o q2
           s3 == s2 \o q3
           s4 == s3 \o q4
           s5 == s4 \o q5
           s6 == s5 \o q6
           s7 == s6 \o q7
           s8 == s7 \o q8
<1>5. s2 \in Seq(X) /\ (s2 = <<>> => q1 = <<>> /\ q2 = <<>>)
  BY <1>4, ConcatEmpty
<1> HIDE DEF s2
<1>6. s3 \in Seq(X) /\ (s3 = <<>> => s2 = <<>> /\ q3 = <<>>)
  BY <1>4, <1>5, ConcatEmpty
<1> HIDE DEF s3
<1>7. s4 \in Seq(X) /\ (s4 = <<>> => s3 = <<>> /\ q4 = <<>>)
  BY <1>4, <1>6, ConcatEmpty
<1> HIDE DEF s4
<1>8. s5 \in Seq(X) /\ (s5 = <<>> => s4 = <<>> /\ q5 = <<>>)
  BY <1>4, <1>7, ConcatEmpty
<1> HIDE DEF s5
<1>9. s6 \in Seq(X) /\ (s6 = <<>> => s5 = <<>> /\ q6 = <<>>)
  BY <1>4, <1>8, ConcatEmpty
<1> HIDE DEF s6
<1>10. s7 \in Seq(X) /\ (s7 = <<>> => s6 = <<>> /\ q7 = <<>>)
  BY <1>4, <1>9, ConcatEmpty
<1> HIDE DEF s7
<1>11. s8 \in Seq(X) /\ (s8 = <<>> => s7 = <<>> /\ q8 = <<>>)
  BY <1>4, <1>10, ConcatEmpty
<1> HIDE DEF s8
<1>12. s8 \o q9 = <<>>
  BY <1>3 DEF s2, s3, s4, s5, s6, s7, s8
<1>13. s8 = <<>> /\ q9 = <<>>
  BY <1>4, <1>11, <1>12, ConcatEmpty
<1>14. /\ q1 = <<>> /\ q2 = <<>> /\ q3 = <<>> /\ q4 = <<>> /\ q5 = <<>> /\ q6 = <<>>
       /\ q7 = <<>> /\ q8 = <<>> /\ q9 = <<>>
  BY <1>5, <1>6, <1>7, <1>8, <1>9, <1>10, <1>11, <1>13
<1>15. /\ q1 \in Seq(Fresh(R)) /\ q2 \in Seq(Listed(R)) /\ q3 \in Seq(Owned(R))
       /\ q4 \in Seq(From(Listed(R), i)) /\ q5 \in Seq(Fresh(R))
       /\ q6 \in Seq(From(ListReads(R), i)) /\ q7 \in Seq(ListReads(R))
       /\ q8 \in Seq(Sent(R)) /\ q9 \in Seq(From(Listed(R), i))
  BY <1>14
<1> QED BY <1>15 DEF WatcherSet, q1, q2, q3, q4, q5, q6, q7, q8, q9

\* The same for a clause unit
LEMMA ClauseEmpty ==
  ASSUME NEW S, NEW T, NEW R, NEW U, NEW c \in ClauseSet(S, T), C!IsEmpty(c)
  PROVE  c \in ClauseSet(R, U)
<1> DEFINE q1 == c.clause_data_read_waiting_queue
           q2 == c.clause_value_read_waiting_queue
           q3 == c.clause_process_waiting_queue
           q4 == c.in_memory_resp_queue
           q5 == c.in_task_queue
           q6 == c.out_memory_read_queue
           q7 == c.out_queue
           q8 == c.out_clause_write_queue
           X == Request
<1>1. /\ Fresh(T) \subseteq X /\ Literal(S) \subseteq X /\ LiteralReads(S) \subseteq X
      /\ LastOne(S) \subseteq X
  BY DEF Fresh, Literal, LiteralReads, LastOne
<1>2. /\ q1 \in Seq(Literal(S)) /\ q2 \in Seq(Literal(S)) /\ q3 \in Seq(Literal(S))
      /\ q4 \in Seq(LiteralReads(S)) /\ q5 \in Seq(Literal(S)) /\ q6 \in Seq(LiteralReads(S))
      /\ q7 \in Seq(Fresh(T)) /\ q8 \in Seq(LastOne(S))
  BY DEF ClauseSet
<1>3. q1 \o q2 \o q3 \o q4 \o q5 \o q6 \o q7 \o q8 = <<>>
  BY DEF C!IsEmpty
<1> HIDE DEF q1, q2, q3, q4, q5, q6, q7, q8, X
<1>4. /\ q1 \in Seq(X) /\ q2 \in Seq(X) /\ q3 \in Seq(X) /\ q4 \in Seq(X) /\ q5 \in Seq(X)
      /\ q6 \in Seq(X) /\ q7 \in Seq(X) /\ q8 \in Seq(X)
  BY <1>1, <1>2
<1> DEFINE s2 == q1 \o q2
           s3 == s2 \o q3
           s4 == s3 \o q4
           s5 == s4 \o q5
           s6 == s5 \o q6
           s7 == s6 \o q7
<1>5. s2 \in Seq(X) /\ (s2 = <<>> => q1 = <<>> /\ q2 = <<>>)
  BY <1>4, ConcatEmpty
<1> HIDE DEF s2
<1>6. s3 \in Seq(X) /\ (s3 = <<>> => s2 = <<>> /\ q3 = <<>>)
  BY <1>4, <1>5, ConcatEmpty
<1> HIDE DEF s3
<1>7. s4 \in Seq(X) /\ (s4 = <<>> => s3 = <<>> /\ q4 = <<>>)
  BY <1>4, <1>6, ConcatEmpty
<1> HIDE DEF s4
<1>8. s5 \in Seq(X) /\ (s5 = <<>> => s4 = <<>> /\ q5 = <<>>)
  BY <1>4, <1>7, ConcatEmpty
<1> HIDE DEF s5
<1>9. s6 \in Seq(X) /\ (s6 = <<>> => s5 = <<>> /\ q6 = <<>>)
  BY <1>4, <1>8, ConcatEmpty
<1> HIDE DEF s6
<1>10. s7 \in Seq(X) /\ (s7 = <<>> => s6 = <<>> /\ q7 = <<>>)
  BY <1>4, <1>9, ConcatEmpty
<1> HIDE DEF s7
<1>11. s7 \o q8 = <<>>
  BY <1>3 DEF s2, s3, s4, s5, s6, s7
<1>12. s7 = <<>> /\ q8 = <<>>
  BY <1>4, <1>10, <1>11, ConcatEmpty
<1>13. /\ q1 = <<>> /\ q2 = <<>> /\ q3 = <<>> /\ q4 = <<>> /\ q5 = <<>> /\ q6 = <<>>
       /\ q7 = <<>> /\ q8 = <<>>
  BY <1>5, <1>6, <1>7, <1>8, <1>9, <1>10, <1>12
<1>14. /\ q1 \in Seq(Literal(R)) /\ q2 \in Seq(Literal(R)) /\ q3 \in Seq(Literal(R))
       /\ q4 \in Seq(LiteralReads(R)) /\ q5 \in Seq(Literal(R)) /\ q6 \in Seq(LiteralReads(R))
       /\ q7 \in Seq(Fresh(U)) /\ q8 \in Seq(LastOne(R))
  BY <1>13
<1> QED BY <1>14 DEF ClauseSet, q1, q2, q3, q4, q5, q6, q7, q8

\* The same for a private cache, a clause writer and a list write unit, whose
\* table may hold entries all the same
LEMMA SmallUnitsEmpty ==
  ASSUME NEW S, NEW R, NEW T
  PROVE  /\ \A i : \A p \in CacheSet(S, i) : P!IsEmpty(p) => p \in CacheSet(R, i)
         /\ \A w \in WriterSet(S) : Writer!IsEmpty(w) => w \in WriterSet(R)
         /\ \A u \in UnitSet(S, T) : L!IsEmpty(u) => u \in UnitSet(R, T)
<1>1. ASSUME NEW i, NEW p \in CacheSet(S, i), P!IsEmpty(p) PROVE p \in CacheSet(R, i)
  BY <1>1 DEF CacheSet, P!IsEmpty
<1>2. ASSUME NEW w \in WriterSet(S), Writer!IsEmpty(w) PROVE w \in WriterSet(R)
  BY <1>2 DEF WriterSet, Writer!IsEmpty
<1>3. ASSUME NEW u \in UnitSet(S, T), L!IsEmpty(u) PROVE u \in UnitSet(R, T)
  BY <1>3 DEF UnitSet, L!IsEmpty
<1> QED BY <1>1, <1>2, <1>3

\* A machine whose components are empty may work on any assignments next.
LEMMA EmptyMachine ==
  ASSUME NEW S, NEW T, NEW F, NEW m \in Machines(S, T, F), ComponentsEmpty(m), NEW R
  PROVE  /\ m \in Machines(R, T, F)
         /\ \A U : m.clauses \in AllClauses(R, U)
<1>0. num_watchers \in Nat /\ MemoryNodes \in Nat
  BY BankNumbers
<1>1. /\ m.m_cache_interface \in MemorySet(R) /\ m.memory_read_icnt \in MemoryNets(R)
      /\ m.watcher_to_clause_icnt \in ClauseNets(R, F) /\ m.watcher_to_writer_icnt \in WriterNets(R)
  <2>1. /\ m.m_cache_interface \in MemorySet(S)
        /\ m.memory_read_icnt \in NetSet(MemoryNodes, MemoryPackets(S))
        /\ m.watcher_to_clause_icnt \in NetSet(num_watchers, ClausePackets(S, F))
        /\ m.watcher_to_writer_icnt \in NetSet(num_watchers, WriterPackets(S))
    BY MachineParts DEF MemoryNets, ClauseNets, WriterNets
  <2>2. /\ L3!IsEmpty(m.m_cache_interface) /\ N!IsEmpty(m.memory_read_icnt)
        /\ N!IsEmpty(m.watcher_to_clause_icnt) /\ N!IsEmpty(m.watcher_to_writer_icnt)
    BY DEF ComponentsEmpty
  <2> QED BY <1>0, <2>1, <2>2, MemoryEmpty, NetEmpty DEF MemoryNets, ClauseNets, WriterNets
<1>2. m.watchers \in AllWatchers(R)
  <2>1. m.watchers \in Each(Watchers(S)) /\ DOMAIN Watchers(S) = Tile /\ DOMAIN Watchers(R) = Tile
    BY MachineParts DEF AllWatchers, Watchers
  <2>2. m.watchers = [i \in Tile |-> m.watchers[i]]
    BY <2>1 DEF Each
  <2>3. ASSUME NEW i \in Tile PROVE m.watchers[i] \in Watchers(R)[i]
    <3>1. m.watchers[i] \in WatcherSet(R, i)
      BY TileParts, WatcherEmpty DEF ComponentsEmpty
    <3> QED BY <3>1 DEF Watchers
  <2> QED BY <2>1, <2>2, <2>3, EachMade DEF AllWatchers
<1>3. m.m_private_caches \in AllCaches(R)
  <2>1. m.m_private_caches \in Each(Caches(S)) /\ DOMAIN Caches(S) = Tile /\ DOMAIN Caches(R) = Tile
    BY MachineParts DEF AllCaches, Caches
  <2>2. m.m_private_caches = [i \in Tile |-> m.m_private_caches[i]]
    BY <2>1 DEF Each
  <2>3. ASSUME NEW i \in Tile PROVE m.m_private_caches[i] \in Caches(R)[i]
    <3>1. m.m_private_caches[i] \in CacheSet(R, i)
      BY TileParts, SmallUnitsEmpty DEF ComponentsEmpty
    <3> QED BY <3>1 DEF Caches
  <2> QED BY <2>1, <2>2, <2>3, EachMade DEF AllCaches
<1>4. m.m_watcher_write_unit \in AllUnits(R, T) /\ m.m_clause_write_unit \in AllWriters(R)
  <2>1. /\ m.m_watcher_write_unit \in [Tile -> UnitSet(S, T)]
        /\ m.m_clause_write_unit \in [Tile -> WriterSet(S)]
    BY MachineParts DEF AllUnits, AllWriters
  <2>2. \A i \in Tile : /\ m.m_watcher_write_unit[i] \in UnitSet(R, T)
                        /\ m.m_clause_write_unit[i] \in WriterSet(R)
    BY UnitOfTile, SmallUnitsEmpty DEF ComponentsEmpty
  <2> QED BY <2>1, <2>2 DEF AllUnits, AllWriters
<1>5. \A U : m.clauses \in AllClauses(R, U)
  <2> TAKE U
  <2>1. m.clauses \in [ClauseIds -> ClauseSet(S, T)]
    BY MachineParts DEF AllClauses
  <2>2. \A c \in ClauseIds : m.clauses[c] \in ClauseSet(R, U)
    BY ClauseParts, ClauseEmpty DEF ComponentsEmpty
  <2> QED BY <2>1, <2>2 DEF AllClauses
<1>6. m.clauses \in AllClauses(R, T)
  BY <1>5
<1> QED BY <1>1, <1>2, <1>3, <1>4, <1>5, <1>6 DEF Machines

\* A machine may work on more assignments than it does.
LEMMA MachinesMonotone ==
  ASSUME NEW S, NEW R, S \subseteq R, NEW T, NEW F
  PROVE  Machines(S, T, F) \subseteq Machines(R, T, F)
<1>1. /\ Fresh(S) \subseteq Fresh(R) /\ Owned(S) \subseteq Owned(R)
      /\ Listed(S) \subseteq Listed(R) /\ Sent(S) \subseteq Sent(R)
      /\ Literal(S) \subseteq Literal(R) /\ LastOne(S) \subseteq LastOne(R)
      /\ ListReads(S) \subseteq ListReads(R) /\ LiteralReads(S) \subseteq LiteralReads(R)
      /\ Fetches(S) \subseteq Fetches(R) /\ Handed(S) \subseteq Handed(R)
      /\ \A i : /\ From(Listed(S), i) \subseteq From(Listed(R), i)
                /\ From(ListReads(S), i) \subseteq From(ListReads(R), i)
                /\ Values(S, i) \subseteq Values(R, i)
  BY KindsMonotone, MemoryMonotone DEF Handed, From, Values
<1>2. /\ Seq(Fresh(S)) \subseteq Seq(Fresh(R)) /\ Seq(Owned(S)) \subseteq Seq(Owned(R))
      /\ Seq(Listed(S)) \subseteq Seq(Listed(R)) /\ Seq(Sent(S)) \subseteq Seq(Sent(R))
      /\ Seq(Literal(S)) \subseteq Seq(Literal(R)) /\ Seq(LastOne(S)) \subseteq Seq(LastOne(R))
      /\ Seq(ListReads(S)) \subseteq Seq(ListReads(R))
      /\ Seq(LiteralReads(S)) \subseteq Seq(LiteralReads(R))
      /\ Seq(Handed(S)) \subseteq Seq(Handed(R))
      /\ \A i : /\ Seq(From(Listed(S), i)) \subseteq Seq(From(Listed(R), i))
                /\ Seq(From(ListReads(S), i)) \subseteq Seq(From(ListReads(R), i))
                /\ Seq(Values(S, i)) \subseteq Seq(Values(R, i))
  BY <1>1
<1>3. \A i : WatcherSet(S, i) \subseteq WatcherSet(R, i)
  BY <1>2 DEF WatcherSet
<1>4. \A i : CacheSet(S, i) \subseteq CacheSet(R, i)
  BY <1>2 DEF CacheSet
<1>5. WriterSet(S) \subseteq WriterSet(R) /\ ClauseSet(S, T) \subseteq ClauseSet(R, T)
  BY <1>2 DEF WriterSet, ClauseSet
<1>6. UnitSet(S, T) \subseteq UnitSet(R, T)
  BY <1>2 DEF UnitSet
<1>7. AllWatchers(S) \subseteq AllWatchers(R) /\ AllCaches(S) \subseteq AllCaches(R)
  <2>1. /\ DOMAIN Watchers(S) = DOMAIN Watchers(R) /\ DOMAIN Caches(S) = DOMAIN Caches(R)
        /\ \A i \in DOMAIN Watchers(S) : Watchers(S)[i] \subseteq Watchers(R)[i]
        /\ \A i \in DOMAIN Caches(S) : Caches(S)[i] \subseteq Caches(R)[i]
    BY <1>3, <1>4 DEF Watchers, Caches
  <2> QED BY <2>1, EachMonotone DEF AllWatchers, AllCaches
<1>8. /\ AllUnits(S, T) \subseteq AllUnits(R, T) /\ AllWriters(S) \subseteq AllWriters(R)
      /\ AllClauses(S, T) \subseteq AllClauses(R, T)
  BY <1>5, <1>6 DEF AllUnits, AllWriters, AllClauses
<1>9. /\ MemoryNets(S) \subseteq MemoryNets(R) /\ ClauseNets(S, F) \subseteq ClauseNets(R, F)
      /\ WriterNets(S) \subseteq WriterNets(R)
  <2>1. /\ MemoryPackets(S) \subseteq MemoryPackets(R) /\ ClausePackets(S, F) \subseteq ClausePackets(R, F)
        /\ WriterPackets(S) \subseteq WriterPackets(R)
    BY <1>1 DEF MemoryPackets, ClausePackets, WriterPackets
  <2> QED BY <2>1, NetMonotone DEF MemoryNets, ClauseNets, WriterNets
<1>10. MemorySet(S) \subseteq MemorySet(R)
  BY MemoryMonotone
<1> QED BY <1>7, <1>8, <1>9, <1>10 DEF Machines

\* A task that may be on the trail is one for an assignment.
LEMMA TasksOnTrail ==
  ASSUME NEW T, NEW q \in Trails(T), q # <<>>
  PROVE  /\ Head(q) \in Fresh(T) /\ Tail(q) \in Trails(T) /\ Head(q).as \in T
         /\ Head(q).as \in Assign /\ Head(q) \in Fresh({Head(q).as})
BY TailElements DEF Trails, Fresh, Request

\* The tile of an assignment
LEMMA WatcherNumbers ==
  ASSUME NEW a \in Assign
  PROVE  WatcherOf(a) \in Tile
<1>1. get_value[a] \in Int /\ num_watchers \in Nat /\ num_watchers > 0
  BY Sizes, TableAssumption
<1>2. 0 \in 0 .. num_watchers - 1
  BY <1>1
<1> DEFINE v == get_value[a]
<1> HIDE DEF v
<1>3. v \div 2 \in Int
  BY <1>1 DEF v
<1>4. (v \div 2) % num_watchers \in 0 .. num_watchers - 1
  BY <1>1, <1>3
<1> QED BY <1>2, <1>4 DEF WatcherOf, Tile, v

\* trail_to_watcher: the machine starts to work on one more assignment, in
\* sequential mode on this one only.
LEMMA TrailToWatcherKeeps ==
  ASSUME NEW S, NEW T, NEW F, Fits(S, T, F), NEW m \in Machines(S, T, F)
  PROVE  \E R : Fits(R, T, F) /\ TrailToWatcher(m) \in Machines(R, T, F)
<1> DEFINE q == m.in_m_trail
           req == Head(q)
           a == req.as
           i == WatcherOf(a)
           stays == ~ MayStart(m) \/ q = <<>> \/ ~ W!RecieveRdy(m.watchers[i])
           w == m.watchers[i]
           w2 == [w EXCEPT !.in_task_queue = Append(@, req)]
           ws == [m.watchers EXCEPT ![i] = w2]
           trail == Tail(q)
           st == m.started \cup {a}
<1>1. CASE stays
  <2>1. TrailToWatcher(m) = m
    BY <1>1 DEF TrailToWatcher
  <2> QED BY <2>1
<1>2. CASE ~ stays
  <2>1. /\ req \in Fresh(T) /\ trail \in Trails(T) /\ a \in T /\ a \in Assign
        /\ req \in Fresh({a})
    <3>1. q \in Trails(T) /\ q # <<>>
      BY <1>2, MachineParts
    <3> HIDE DEF q
    <3> QED BY <3>1, TasksOnTrail
  <2>2. i \in Tile
    BY <2>1, WatcherNumbers
  <2>3. TrailToWatcher(m) = [m EXCEPT !.watchers = ws, !.in_m_trail = trail, !.started = st]
    BY <1>2 DEF TrailToWatcher, Machines
  <2> HIDE DEF q, req, trail
  <2>4. PICK R : Fits(R, T, F) /\ m \in Machines(R, T, F) /\ a \in R
    <3>1. CASE rust_config.seq
      <4>1. ComponentsEmpty(m)
        BY <1>2, <3>1 DEF MayStart
      <4>2. m \in Machines({a}, T, F)
        BY <4>1, EmptyMachine
      <4>3. T = Assign /\ {a} \subseteq Assign
        BY <2>1 DEF Fits
      <4>4. Fits({a}, T, F)
        <5> HIDE DEF a
        <5> QED BY <4>3, <3>1 DEF Fits
      <4> QED BY <4>2, <4>4
    <3>2. CASE ~ rust_config.seq
      <4>1. S = Assign
        BY <2>1, <3>2 DEF Fits
      <4> QED BY <2>1, <4>1
    <3> QED BY <3>1, <3>2
  <2>5. req \in Fresh(R)
    BY <2>1, <2>4, KindsMonotone
  <2> HIDE DEF a, i
  <2>6. w2 \in WatcherSet(R, i)
    <3>1. w \in WatcherSet(R, i)
      BY <2>2, <2>4, TileParts
    <3> DEFINE x == Append(w.in_task_queue, req)
    <3> HIDE DEF w
    <3>2. w.in_task_queue \in Seq(Fresh(R))
      BY <3>1 DEF WatcherSet
    <3>3. x \in Seq(Fresh(R))
      BY <2>5, <3>2
    <3>4. w2 = [w EXCEPT !.in_task_queue = x]
      OBVIOUS
    <3> HIDE DEF x, w2
    <3> QED BY <3>1, <3>3, <3>4 DEF WatcherSet
  <2> HIDE DEF w2
  <2>7. ws \in AllWatchers(R)
    BY <2>2, <2>4, <2>6, TileParts
  <2>8. st \in SUBSET Assign
    <3>1. m.started \in SUBSET Assign
      BY MachineParts
    <3> QED BY <2>1, <3>1
  <2> HIDE DEF ws, st
  <2>9. TrailToWatcher(m) \in Machines(R, T, F)
    BY <2>1, <2>3, <2>4, <2>7, <2>8 DEF Machines
  <2> QED BY <2>4, <2>9
<1> QED BY <1>1, <1>2

-----------------------------------------------------------------------------
(* The hooks of a cycle                                                     *)

\* The machines that work on some assignments or other
Working(T, F) == UNION {Machines(R, T, F) : R \in {X \in SUBSET Assign : Fits(X, T, F)}}

\* A machine works if there is a set of assignments that it works on.
LEMMA WorkingIs ==
  ASSUME NEW T, NEW F, NEW m
  PROVE  m \in Working(T, F) <=> \E R : Fits(R, T, F) /\ m \in Machines(R, T, F)
<1>1. ASSUME NEW R, Fits(R, T, F) PROVE R \in {X \in SUBSET Assign : Fits(X, T, F)}
  BY <1>1 DEF Fits
<1>2. ASSUME NEW R, Fits(R, T, F), m \in Machines(R, T, F) PROVE m \in Working(T, F)
  BY <1>1, <1>2 DEF Working
<1>3. ASSUME m \in Working(T, F) PROVE \E R : Fits(R, T, F) /\ m \in Machines(R, T, F)
  BY <1>3 DEF Working
<1> QED BY <1>2, <1>3

\* How often a hook acts
LEMMA PassesCount == \A k \in DOMAIN clock_passes : Passes(clock_passes[k]) \in Nat
<1>1. /\ num_watchers \in Nat /\ num_clauses \in Nat /\ num_partition \in Nat
      /\ multi_l3cache_port \in Nat
  BY Sizes
<1>2. \A a, b \in Nat : a * b \in Nat
  OBVIOUS
<1>3. \A hook : Passes(hook) \in Nat
  BY <1>1, <1>2 DEF Passes
<1> QED BY <1>3

\* What an act of a hook is: it serves a tile, a clause unit or a bank, or it is
\* that of trail_to_watcher.
LEMMA HookIs ==
  ASSUME NEW m, NEW k \in DOMAIN clock_passes, NEW i \in 0 .. Passes(clock_passes[k]) - 1
  PROVE  \/ \E j \in Tile : Hook(clock_passes[k], m, i) \in
              {WatcherOut(m, j), PrivateCacheOut(m, j), WatcherToWriteUnit(m, j),
               ClauseWriteUnitToCache(m, j), WatcherWriteUnitToCache(m, j), IcntToTile(m, j),
               WatcherIcntOut(m, j), WatcherIcntToWatcherWriter(m, j)}
         \/ \E c \in ClauseIds : Hook(clock_passes[k], m, i) \in
              {ClauseToMem(m, c), ClauseToTrail(m, c), ClauseToWriteUnit(m, c)}
         \/ \E p \in Banks : Hook(clock_passes[k], m, i) \in
              {CacheToClauseAndWatchers(m, p), IcntToBank(m, p)}
         \/ Hook(clock_passes[k], m, i) = TrailToWatcher(m)
<1> DEFINE hook == clock_passes[k]
<1>n. /\ num_watchers \in Nat /\ num_clauses \in Nat /\ num_partition \in Nat
      /\ multi_l3cache_port \in Nat /\ multi_l3cache_port > 0
      /\ Tile = 0 .. num_watchers - 1 /\ ClauseIds = 0 .. num_clauses - 1
      /\ Banks = 0 .. num_partition - 1
  BY Sizes DEF Tile, ClauseIds, Banks
<1>h. hook \in {"watcher_out", "clause_to_mem", "cache_to_clause_and_watchers", "private_cache",
                "trail_to_watcher", "clause_to_trail", "watcher_to_writeuite",
                "clause_to_writeuint", "clause_write_unit_to_cache",
                "watcher_write_unit_to_cache", "icnt_to_tile", "icnt_to_bank",
                "watcher_icnt_out", "watcher_icnt_to_watcher_writer"}
  BY DEF clock_passes
<1>i. i \in 0 .. Passes(hook) - 1
  OBVIOUS
<1> HIDE DEF hook
<1>1. CASE hook \in {"watcher_out", "private_cache", "watcher_to_writeuite",
                     "clause_write_unit_to_cache", "watcher_write_unit_to_cache",
                     "watcher_icnt_out", "watcher_icnt_to_watcher_writer"}
  <2>1. i \in Tile
    BY <1>n, <1>i, <1>1 DEF Passes
  <2>2. Hook(hook, m, i) \in
          {WatcherOut(m, i), PrivateCacheOut(m, i), WatcherToWriteUnit(m, i),
           ClauseWriteUnitToCache(m, i), WatcherWriteUnitToCache(m, i),
           WatcherIcntOut(m, i), WatcherIcntToWatcherWriter(m, i)}
    BY <1>1 DEF Hook
  <2> QED BY <2>1, <2>2 DEF hook
<1>2. CASE hook \in {"clause_to_mem", "clause_to_trail", "clause_to_writeuint"}
  <2>1. i \in ClauseIds
    BY <1>n, <1>i, <1>2 DEF Passes
  <2>2. Hook(hook, m, i) \in {ClauseToMem(m, i), ClauseToTrail(m, i), ClauseToWriteUnit(m, i)}
    BY <1>2 DEF Hook
  <2> QED BY <2>1, <2>2 DEF hook
<1>3. CASE hook = "cache_to_clause_and_watchers"
  <2>1. i \in Banks
    BY <1>n, <1>i, <1>3 DEF Passes
  <2>2. Hook(hook, m, i) = CacheToClauseAndWatchers(m, i)
    BY <1>3 DEF Hook
  <2> QED BY <2>1, <2>2 DEF hook
<1>4. CASE hook = "trail_to_watcher"
  <2>1. Hook(hook, m, i) = TrailToWatcher(m)
    BY <1>4 DEF Hook
  <2> QED BY <2>1 DEF hook
<1>5. CASE hook = "icnt_to_tile"
  <2>1. i \div multi_l3cache_port \in Tile
    <3>1. Passes(hook) = num_watchers * multi_l3cache_port
      BY <1>5 DEF Passes
    <3>2. i \in 0 .. num_watchers * multi_l3cache_port - 1
      BY <1>i, <3>1
    <3> QED BY <1>n, <3>2, QuotientBound
  <2>2. Hook(hook, m, i) = IcntToTile(m, i \div multi_l3cache_port)
    BY <1>5 DEF Hook
  <2> QED BY <2>1, <2>2 DEF hook
<1>6. CASE hook = "icnt_to_bank"
  <2>1. i \div multi_l3cache_port \in Banks
    <3>1. Passes(hook) = num_partition * multi_l3cache_port
      BY <1>6 DEF Passes
    <3>2. i \in 0 .. num_partition * multi_l3cache_port - 1
      BY <1>i, <3>1
    <3> QED BY <1>n, <3>2, QuotientBound
  <2>2. Hook(hook, m, i) = IcntToBank(m, i \div multi_l3cache_port)
    BY <1>6 DEF Hook
  <2> QED BY <2>1, <2>2 DEF hook
<1> QED BY <1>h, <1>1, <1>2, <1>3, <1>4, <1>5, <1>6

\* Every act of every hook keeps the machine as it should be; only
\* trail_to_watcher changes what it works on.
LEMMA HookKeeps ==
  ASSUME NEW T, NEW F, NEW m \in Working(T, F), NEW k \in DOMAIN clock_passes,
         NEW i \in 0 .. Passes(clock_passes[k]) - 1
  PROVE  Hook(clock_passes[k], m, i) \in Working(T, F)
<1> DEFINE x == Hook(clock_passes[k], m, i)
<1>1. PICK S : Fits(S, T, F) /\ m \in Machines(S, T, F)
  BY WorkingIs
<1>2. \A j \in Tile :
        {WatcherOut(m, j), PrivateCacheOut(m, j), WatcherToWriteUnit(m, j),
         ClauseWriteUnitToCache(m, j), WatcherWriteUnitToCache(m, j), IcntToTile(m, j),
         WatcherIcntOut(m, j), WatcherIcntToWatcherWriter(m, j)} \subseteq Machines(S, T, F)
  BY <1>1, WatcherOutKeeps, PrivateCacheOutKeeps, WatcherToWriteUnitKeeps,
     ClauseWriteUnitToCacheKeeps, WatcherWriteUnitToCacheKeeps, IcntToTileKeeps,
     WatcherIcntOutKeeps, WatcherIcntToWatcherWriterKeeps
<1>3. \A c \in ClauseIds :
        {ClauseToMem(m, c), ClauseToTrail(m, c), ClauseToWriteUnit(m, c)} \subseteq Machines(S, T, F)
  BY <1>1, ClauseToMemKeeps, ClauseToTrailKeeps, ClauseToWriteUnitKeeps
<1>4. \A p \in Banks :
        {CacheToClauseAndWatchers(m, p), IcntToBank(m, p)} \subseteq Machines(S, T, F)
  BY <1>1, CacheToClauseAndWatchersKeeps, IcntToBankKeeps
<1>5. TrailToWatcher(m) \in Working(T, F)
  BY <1>1, TrailToWatcherKeeps, WorkingIs
<1>6. x \in Machines(S, T, F) \/ x = TrailToWatcher(m)
  BY <1>2, <1>3, <1>4, HookIs
<1> HIDE DEF x
<1>7. x \in Working(T, F)
  BY <1>1, <1>5, <1>6, WorkingIs
<1> QED BY <1>7 DEF x

\* The hooks of a cycle, all together
LEMMA HooksKeep ==
  ASSUME NEW S, NEW T, NEW F, Fits(S, T, F), NEW m \in Machines(S, T, F)
  PROVE  \E R : Fits(R, T, F) /\ Hooks(m) \in Machines(R, T, F)
<1> DEFINE M == Working(T, F)
<1>1. m \in M
  BY WorkingIs
<1>2. ASSUME NEW x \in M, NEW k \in DOMAIN clock_passes PROVE ForEach(clock_passes[k], x) \in M
  <2>1. \A y \in M : \A i \in 0 .. Passes(clock_passes[k]) - 1 : Hook(clock_passes[k], y, i) \in M
    BY HookKeeps
  <2>2. Passes(clock_passes[k]) \in Nat
    BY PassesCount
  <2> HIDE DEF M
  <2> QED BY <2>1, <2>2, ForEachKeeps
<1> HIDE DEF M
<1>3. Hooks(m) \in M
  BY <1>1, <1>2, HooksKeepAll
<1> QED BY <1>3, WorkingIs DEF M

\* The units of a cycle
LEMMA ComponentsKeep ==
  ASSUME NEW S, NEW T, NEW F, Fits(S, T, F), NEW m \in Machines(S, T, F),
         NEW mc \in L3!Cycles(m.m_cache_interface),
         NEW memory \in N!Outcomes(m.memory_read_icnt),
         NEW clause \in N!Outcomes(m.watcher_to_clause_icnt),
         NEW writer \in N!Outcomes(m.watcher_to_writer_icnt)
  PROVE  Components(m, mc, memory, clause, writer) \in Machines(S, T, F)
<1> DEFINE l3 == L3!DoCycle(m.m_cache_interface, mc.accept, mc.answer)
           lu == [i \in Tile |-> L!DoCycle(m.m_watcher_write_unit[i])]
           wu == [i \in Tile |-> Writer!DoCycle(m.m_clause_write_unit[i])]
           n1 == N!DoCycle(m.memory_read_icnt, memory)
           n2 == N!DoCycle(m.watcher_to_clause_icnt, clause)
           n3 == N!DoCycle(m.watcher_to_writer_icnt, writer)
           ws == [i \in Tile |-> W!DoCycle(m.watchers[i])]
           ps == [i \in Tile |-> P!DoCycle(m.m_private_caches[i])]
           cs == [c \in ClauseIds |-> C!DoCycle(m.clauses[c])]
<1>0. S \subseteq Assign /\ (S # {} => T = Assign)
  BY DEF Fits
<1>1. \A i \in Tile : Writer!AssertionsHold(m.m_clause_write_unit[i])
  BY <1>0, UnitOfTile, WriterCycle
<1>2. Components(m, mc, memory, clause, writer)
      = [m EXCEPT !.m_cache_interface = l3, !.m_watcher_write_unit = lu,
                  !.m_clause_write_unit = wu, !.memory_read_icnt = n1,
                  !.watcher_to_clause_icnt = n2, !.watcher_to_writer_icnt = n3,
                  !.watchers = ws, !.m_private_caches = ps, !.clauses = cs]
  BY <1>1 DEF Components, Asserted
<1>3. l3 \in MemorySet(S)
  BY MachineParts, MemoryCycle
<1>4. lu \in AllUnits(S, T)
  <2>1. \A i \in Tile : L!DoCycle(m.m_watcher_write_unit[i]) \in UnitSet(S, T)
    BY <1>0, UnitOfTile, UnitCycle
  <2> QED BY <2>1 DEF AllUnits
<1>5. wu \in AllWriters(S)
  <2>1. \A i \in Tile : Writer!DoCycle(m.m_clause_write_unit[i]) \in WriterSet(S)
    BY <1>0, UnitOfTile, WriterCycle
  <2> QED BY <2>1 DEF AllWriters
<1>6. n1 \in MemoryNets(S) /\ n2 \in ClauseNets(S, F) /\ n3 \in WriterNets(S)
  <2>1. /\ m.memory_read_icnt \in NetSet(MemoryNodes, MemoryPackets(S))
        /\ m.watcher_to_clause_icnt \in NetSet(num_watchers, ClausePackets(S, F))
        /\ m.watcher_to_writer_icnt \in NetSet(num_watchers, WriterPackets(S))
    BY MachineParts DEF MemoryNets, ClauseNets, WriterNets
  <2>2. /\ MemoryPackets(S) \in SUBSET Packets /\ ClausePackets(S, F) \in SUBSET Packets
        /\ WriterPackets(S) \in SUBSET Packets
    BY DEF MemoryPackets, ClausePackets, WriterPackets
  <2>3. num_watchers \in Nat /\ MemoryNodes \in Nat
    BY BankNumbers
  <2> QED BY <2>1, <2>2, <2>3, NetCycle DEF MemoryNets, ClauseNets, WriterNets
<1>7. ws \in AllWatchers(S)
  <2>1. DOMAIN Watchers(S) = Tile /\ \A i \in Tile : Watchers(S)[i] = WatcherSet(S, i)
    BY DEF Watchers
  <2>2. \A i \in Tile : ws[i] \in Watchers(S)[i]
    BY <2>1, TileParts, WatcherCycle
  <2>3. ws = [i \in DOMAIN Watchers(S) |-> ws[i]]
    BY <2>1
  <2> HIDE DEF ws
  <2> QED BY <2>1, <2>2, <2>3, EachMade DEF AllWatchers
<1>8. ps \in AllCaches(S)
  <2>1. DOMAIN Caches(S) = Tile /\ \A i \in Tile : Caches(S)[i] = CacheSet(S, i)
    BY DEF Caches
  <2>2. \A i \in Tile : ps[i] \in Caches(S)[i]
    BY <2>1, TileParts, CacheCycle
  <2>3. ps = [i \in DOMAIN Caches(S) |-> ps[i]]
    BY <2>1
  <2> HIDE DEF ps
  <2> QED BY <2>1, <2>2, <2>3, EachMade DEF AllCaches
<1>9. cs \in AllClauses(S, T)
  <2>1. \A c \in ClauseIds : C!DoCycle(m.clauses[c]) \in ClauseSet(S, T)
    BY <1>0, ClauseParts, ClauseCycle
  <2> QED BY <2>1 DEF AllClauses
<1> HIDE DEF l3, lu, wu, n1, n2, n3, ws, ps, cs
<1> DEFINE x == [m EXCEPT !.m_cache_interface = l3, !.m_watcher_write_unit = lu,
                          !.m_clause_write_unit = wu]
           y == [x EXCEPT !.memory_read_icnt = n1, !.watcher_to_clause_icnt = n2,
                          !.watcher_to_writer_icnt = n3]
           z == [y EXCEPT !.watchers = ws, !.m_private_caches = ps, !.clauses = cs]
<1>10. Components(m, mc, memory, clause, writer) = z
  BY <1>2
<1>11. x \in Machines(S, T, F)
  BY <1>3, <1>4, <1>5 DEF Machines
<1> HIDE DEF x
<1>12. y \in Machines(S, T, F)
  BY <1>6, <1>11 DEF Machines
<1> HIDE DEF y
<1>13. z \in Machines(S, T, F)
  BY <1>7, <1>8, <1>9, <1>12 DEF Machines
<1> QED BY <1>10, <1>13

-----------------------------------------------------------------------------
(* The steps of the program                                                 *)

\* A new machine works on nothing.
LEMMA NewMachineKeeps ==
  ASSUME NEW S, NEW T, NEW F, rust_config \in Configs
  PROVE  NewMachine(rust_config) \in Machines(S, T, F)
<1> DEFINE nets == NewNetworks(rust_config)
<1>1. L3!NewMemory \in MemorySet(S)
  BY MemoryNew
<1>2. /\ nets.memory_read_icnt \in MemoryNets(S)
      /\ nets.watcher_to_clause_icnt \in ClauseNets(S, F)
      /\ nets.watcher_to_writer_icnt \in WriterNets(S)
  <2>1. /\ rust_config.icnt \in {"Mesh", "Ideal"}
        /\ rust_config.watcher_to_clause_icnt \in {"Mesh", "Ideal"}
        /\ rust_config.watcher_to_writer_icnt \in {"Mesh", "Ideal"}
    BY AccAssumption
  <2>2. num_watchers \in Nat /\ MemoryNodes \in Nat
    BY BankNumbers
  <2>3. /\ nets.memory_read_icnt = N!NewIcnt(rust_config.icnt, MemoryNodes)
        /\ nets.watcher_to_clause_icnt = N!NewIcnt(rust_config.watcher_to_clause_icnt, num_watchers)
        /\ nets.watcher_to_writer_icnt = N!NewIcnt(rust_config.watcher_to_writer_icnt, num_watchers)
    BY DEF NewNetworks, MemoryNodes
  <2> QED BY <2>1, <2>2, <2>3, NetNew DEF MemoryNets, ClauseNets, WriterNets
<1>3. \A i \in Tile : /\ W!NewWatcher \in WatcherSet(S, i) /\ P!NewCache \in CacheSet(S, i)
                      /\ Writer!NewWriter \in WriterSet(S)
  BY DEF W!NewWatcher, WatcherSet, P!NewCache, CacheSet, Writer!NewWriter, WriterSet
<1>4. L!NewUnit \in UnitSet(S, T)
  <2>1. L!EmptyMap \in [{} -> Int] /\ L!EmptyMap \in [{} -> ListWrites]
    BY DEF L!EmptyMap
  <2>2. <<>> \in Seq(Listed(S)) /\ <<>> \in Seq(ListWrites) /\ <<>> \in Seq(Entries(T))
    OBVIOUS
  <2> QED BY <2>1, <2>2, UnitMade DEF L!NewUnit
<1>5. C!NewClause \in ClauseSet(S, T)
  BY DEF C!NewClause, ClauseSet
<1> DEFINE ws == [i \in Tile |-> W!NewWatcher]
           ps == [i \in Tile |-> P!NewCache]
           lu == [i \in Tile |-> L!NewUnit]
           wu == [i \in Tile |-> Writer!NewWriter]
           cs == [c \in ClauseIds |-> C!NewClause]
           ex == [c \in is_read_clause |-> 0]
<1>6. ws \in AllWatchers(S)
  <2>1. DOMAIN Watchers(S) = Tile /\ \A i \in Tile : Watchers(S)[i] = WatcherSet(S, i)
    BY DEF Watchers
  <2>2. ws = [i \in DOMAIN Watchers(S) |-> ws[i]] /\ \A i \in Tile : ws[i] \in Watchers(S)[i]
    BY <1>3, <2>1
  <2> HIDE DEF ws
  <2> QED BY <2>1, <2>2, EachMade DEF AllWatchers
<1>7. ps \in AllCaches(S)
  <2>1. DOMAIN Caches(S) = Tile /\ \A i \in Tile : Caches(S)[i] = CacheSet(S, i)
    BY DEF Caches
  <2>2. ps = [i \in DOMAIN Caches(S) |-> ps[i]] /\ \A i \in Tile : ps[i] \in Caches(S)[i]
    BY <1>3, <2>1
  <2> HIDE DEF ps
  <2> QED BY <2>1, <2>2, EachMade DEF AllCaches
<1>8. /\ lu \in AllUnits(S, T) /\ wu \in AllWriters(S) /\ cs \in AllClauses(S, T)
      /\ ex \in Examined
  BY <1>3, <1>4, <1>5 DEF AllUnits, AllWriters, AllClauses, Examined
<1>9. 0 \in NextClauses /\ {} \in Written /\ <<>> \in Trails(T)
  BY Sizes DEF NextClauses, Written, Trails
<1>10. NewMachine(rust_config)
       = [in_m_trail |-> <<>>, m_cache_interface |-> L3!NewMemory,
          m_watcher_write_unit |-> lu, m_clause_write_unit |-> wu,
          memory_read_icnt |-> nets.memory_read_icnt,
          watcher_to_clause_icnt |-> nets.watcher_to_clause_icnt,
          watcher_to_writer_icnt |-> nets.watcher_to_writer_icnt,
          watchers |-> ws, m_private_caches |-> ps, clauses |-> cs, next_clause |-> 0,
          failed |-> {}, started |-> {}, examined |-> ex, written |-> {}]
  BY DEF NewMachine
<1> HIDE DEF nets, ws, ps, lu, wu, cs, ex
<1> QED BY <1>1, <1>2, <1>6, <1>7, <1>8, <1>9, <1>10 DEF Machines

\* The assertion that may fail: in the straight configuration a clause task does
\* not go to the tile of its clause.
Allowed == IF rust_config.watcher_to_clause_type = "Icnt" THEN {} ELSE {"acc.cc:647"}

\* The inductive invariant: there is a set of assignments that the machine works
\* on, and every request is where requests of its kind belong.
AccInv ==
  /\ rust_config \in Configs /\ driver \in {"running", "flushing", "done"}
  /\ batches \in Seq(Seq(Assign))
  /\ \E S \in SUBSET Assign, T \in {{}, Assign} :
       /\ Fits(S, T, Allowed) /\ machine \in Machines(S, T, Allowed)
       /\ driver = "running" => T = Assign
       /\ driver # "running" => S = {} /\ T = {}

\* The invariant of the next state
LEMMA InvNext ==
  ASSUME AccInv, rust_config' = rust_config, driver' \in {"running", "flushing", "done"},
         batches' \in Seq(Seq(Assign)),
         NEW S, NEW T, Fits(S, T, Allowed), machine' \in Machines(S, T, Allowed),
         driver' = "running" => T = Assign,
         driver' # "running" => S = {} /\ T = {}
  PROVE  AccInv'
<1>1. Allowed' = Allowed /\ Fits(S, T, Allowed)' /\ S \in SUBSET Assign /\ T \in {{}, Assign}
  BY DEF Fits, Allowed
<1>2. rust_config' \in Configs
  BY DEF AccInv
<1> HIDE DEF Allowed
<1>3. machine' \in Machines(S, T, Allowed')
  BY <1>1
<1> QED BY <1>1, <1>2, <1>3 DEF AccInv

\* In the beginning the machine works on nothing, out of sequential mode on
\* whatever there will be.
LEMMA AccInit == Init => AccInv
<1> SUFFICES ASSUME Init PROVE AccInv
  OBVIOUS
<1>1. /\ rust_config \in Configs /\ machine = NewMachine(rust_config) /\ driver = "running"
      /\ batches \in Seq(Seq(Assign))
  BY AccAssumption DEF Init
<1>2. PICK S \in SUBSET Assign : Fits(S, Assign, Allowed)
  <2>1. CASE rust_config.seq
    <3>1. Fits({}, Assign, Allowed)
      BY <2>1 DEF Fits, Allowed
    <3> QED BY <3>1
  <2>2. CASE ~ rust_config.seq
    <3>1. Fits(Assign, Assign, Allowed)
      BY <2>2 DEF Fits, Allowed
    <3> QED BY <3>1
  <2> QED BY <2>1, <2>2
<1>3. machine \in Machines(S, Assign, Allowed)
  BY <1>1, NewMachineKeeps
<1> QED BY <1>1, <1>2, <1>3 DEF AccInv

\* The tasks of a batch
LEMMA BatchTasks ==
  ASSUME NEW b \in Seq(Assign)
  PROVE  [k \in DOMAIN b |-> Task(b[k])] \in Seq(Fresh(Assign))
<1>1. \A a \in Assign : Task(a) \in Fresh(Assign)
  <2>1. 0 \in ComponentIds /\ 0 \in Nat
    <3>1. num_watchers \in Nat /\ num_watchers > 0 /\ num_clauses \in Nat
      BY Sizes
    <3> QED BY <3>1 DEF ComponentIds
  <2> QED BY <2>1 DEF Task, Fresh, Request, AccessType, ComponentIds
<1>2. Len(b) \in Nat /\ b \in [1 .. Len(b) -> Assign]
  OBVIOUS
<1> DEFINE t == [k \in DOMAIN b |-> Task(b[k])]
<1>3. t \in [1 .. Len(b) -> Fresh(Assign)]
  BY <1>1, <1>2
<1> HIDE DEF t
<1>4. t \in Seq(Fresh(Assign))
  BY <1>2, <1>3
<1> QED BY <1>4 DEF t

\* A batch of tasks goes on the trail.
LEMMA SubmitKeeps ==
  ASSUME AccInv, Submit
  PROVE  AccInv'
<1>1. /\ rust_config' = rust_config /\ driver' = driver /\ driver = "running"
      /\ batches # <<>> /\ batches' = Tail(batches) /\ batches \in Seq(Seq(Assign))
  BY DEF Submit, AccInv
<1>2. Head(batches) \in Seq(Assign) /\ batches' \in Seq(Seq(Assign))
  BY <1>1, TailElements
<1>3. PICK S \in SUBSET Assign :
        Fits(S, Assign, Allowed) /\ machine \in Machines(S, Assign, Allowed)
  BY <1>1 DEF AccInv
<1> DEFINE new == [k \in DOMAIN Head(batches) |-> Task(Head(batches)[k])]
           trail == machine.in_m_trail \o new
<1>4. machine' = [machine EXCEPT !.in_m_trail = trail]
  BY DEF Submit
<1>5. trail \in Trails(Assign)
  <2>1. new \in Seq(Fresh(Assign))
    BY <1>2, BatchTasks
  <2> HIDE DEF new
  <2>2. machine.in_m_trail \in Seq(Fresh(Assign))
    BY <1>3, MachineParts DEF Trails
  <2> QED BY <2>1, <2>2 DEF Trails
<1> HIDE DEF trail
<1>6. machine' \in Machines(S, Assign, Allowed)
  BY <1>3, <1>4, <1>5 DEF Machines
<1> QED BY <1>1, <1>2, <1>3, <1>6, InvNext

\* A cycle: the hooks, then the components.
LEMMA CycleKeeps ==
  ASSUME AccInv, Cycle
  PROVE  AccInv'
<1>1. /\ rust_config' = rust_config /\ driver' = driver /\ batches' = batches
      /\ driver \in {"running", "flushing", "done"} /\ batches \in Seq(Seq(Assign))
  BY DEF Cycle, AccInv
<1>2. PICK S \in SUBSET Assign, T \in {{}, Assign} :
        /\ Fits(S, T, Allowed) /\ machine \in Machines(S, T, Allowed)
        /\ driver = "running" => T = Assign
        /\ driver # "running" => S = {} /\ T = {}
  BY DEF AccInv
<1> DEFINE h == Hooks(machine)
<1>3. PICK mc \in L3!Cycles(h.m_cache_interface),
           memory \in N!Outcomes(h.memory_read_icnt),
           clause \in N!Outcomes(h.watcher_to_clause_icnt),
           writer \in N!Outcomes(h.watcher_to_writer_icnt) :
        machine' = Components(h, mc, memory, clause, writer)
  BY DEF Cycle
<1>4. PICK R : Fits(R, T, Allowed) /\ h \in Machines(R, T, Allowed)
  BY <1>2, HooksKeep
<1> HIDE DEF h
<1>5. machine' \in Machines(R, T, Allowed)
  BY <1>3, <1>4, ComponentsKeep
<1>6. driver' # "running" => R = {} /\ T = {}
  BY <1>1, <1>2, <1>4 DEF Fits
<1> QED BY <1>1, <1>2, <1>4, <1>5, <1>6, InvNext

\* flush_all: with empty tables the machine has nothing more to do with any
\* assignment but to write.
LEMMA FlushAllKeeps ==
  ASSUME AccInv, FlushAll
  PROVE  AccInv'
<1>1. /\ rust_config' = rust_config /\ driver' = "flushing" /\ batches' = batches
      /\ driver = "running" /\ batches \in Seq(Seq(Assign)) /\ IsEmpty(machine)
  BY DEF FlushAll, AccInv
<1>2. PICK S \in SUBSET Assign :
        Fits(S, Assign, Allowed) /\ machine \in Machines(S, Assign, Allowed)
  BY <1>1 DEF AccInv
<1>3. /\ machine \in Machines({}, Assign, Allowed) /\ machine.clauses \in AllClauses({}, {})
      /\ machine.in_m_trail = <<>>
  BY <1>1, <1>2, EmptyMachine DEF IsEmpty
<1> DEFINE orders(i) == L!KeyOrders(machine.m_watcher_write_unit[i].current_req)
<1>4. PICK order : /\ \A i \in Tile : order[i] \in orders(i)
                   /\ machine' = [machine EXCEPT !.m_watcher_write_unit =
                        [i \in Tile |-> L!FlushUnit(machine.m_watcher_write_unit[i], order[i])]]
  BY DEF FlushAll
<1> DEFINE us == [i \in Tile |-> L!FlushUnit(machine.m_watcher_write_unit[i], order[i])]
<1>5. us \in AllUnits({}, {})
  <2>1. ASSUME NEW i \in Tile
        PROVE  L!FlushUnit(machine.m_watcher_write_unit[i], order[i]) \in UnitSet({}, {})
    <3>1. machine.m_watcher_write_unit[i] \in UnitSet({}, Assign)
      BY <1>3, UnitOfTile
    <3>2. order[i] \in L!KeyOrders(machine.m_watcher_write_unit[i].current_req)
      BY <1>4
    <3> QED BY <3>1, <3>2, FlushKeeps
  <2> QED BY <2>1 DEF AllUnits
<1>6. machine' = [machine EXCEPT !.m_watcher_write_unit = us]
  BY <1>4
<1> HIDE DEF us
<1>7. machine.in_m_trail \in Trails({})
  BY <1>3 DEF Trails
<1>8. machine' \in Machines({}, {}, Allowed)
  BY <1>3, <1>5, <1>6, <1>7 DEF Machines
<1>9. Fits({}, {}, Allowed)
  BY DEF Fits, Allowed
<1> QED BY <1>1, <1>8, <1>9, InvNext

\* The assertion of flush_all holds: the tables are empty, since nothing came
\* to them after the flush.
LEMMA FlushAllReturnsSame ==
  ASSUME AccInv, FlushAllReturns
  PROVE  machine' = machine /\ Fits({}, {}, Allowed) /\ machine \in Machines({}, {}, Allowed)
<1>1. driver = "flushing"
  BY DEF FlushAllReturns
<1>2. Fits({}, {}, Allowed) /\ machine \in Machines({}, {}, Allowed)
  BY <1>1 DEF AccInv
<1>3. ASSUME NEW i \in Tile PROVE L!IsFlushed(machine.m_watcher_write_unit[i])
  <2> DEFINE u == machine.m_watcher_write_unit[i]
  <2>1. u \in UnitSet({}, {})
    BY <1>2, UnitOfTile
  <2> HIDE DEF u
  <2>2. /\ DOMAIN u.current_req \subseteq Entries({}) /\ DOMAIN u.current_map = DOMAIN u.current_req
        /\ u.entry_aging_queue \in Seq(Entries({})) /\ Entries({}) = {}
    BY <2>1, UnitParts DEF Entries
  <2>3. u.entry_aging_queue = <<>>
    <3>1. ASSUME u.entry_aging_queue # <<>> PROVE FALSE
      BY <2>2, <3>1, TailElements
    <3> QED BY <3>1
  <2> QED BY <2>2, <2>3 DEF L!IsFlushed, u
<1>4. machine' = machine
  BY <1>3 DEF FlushAllReturns, Asserted
<1> QED BY <1>2, <1>4

\* So the machine keeps its state when flush_all returns.
LEMMA FlushAllReturnsKeeps ==
  ASSUME AccInv, FlushAllReturns
  PROVE  AccInv'
<1>1. /\ rust_config' = rust_config /\ driver' = "done" /\ batches' = batches
      /\ batches \in Seq(Seq(Assign))
  BY DEF FlushAllReturns, AccInv
<1>2. machine' \in Machines({}, {}, Allowed) /\ Fits({}, {}, Allowed)
  BY FlushAllReturnsSame
<1> QED BY <1>1, <1>2, InvNext

\* Every step of the program, and stuttering
LEMMA AccNext ==
  ASSUME AccInv, [Next]_vars
  PROVE  AccInv'
<1>1. CASE Next
  BY <1>1, SubmitKeeps, CycleKeeps, FlushAllKeeps, FlushAllReturnsKeeps DEF Next
<1>2. CASE UNCHANGED vars
  <2>1. /\ rust_config' = rust_config /\ machine' = machine /\ batches' = batches
        /\ driver' = driver
    BY <1>2 DEF vars
  <2>2. PICK S \in SUBSET Assign, T \in {{}, Assign} :
          /\ Fits(S, T, Allowed) /\ machine \in Machines(S, T, Allowed)
          /\ driver = "running" => T = Assign
          /\ driver # "running" => S = {} /\ T = {}
    BY DEF AccInv
  <2>3. driver' \in {"running", "flushing", "done"} /\ batches' \in Seq(Seq(Assign))
    BY <2>1 DEF AccInv
  <2> QED BY <2>1, <2>2, <2>3, InvNext
<1> QED BY <1>1, <1>2

\* In every reachable state of acc every request is where requests of its kind
\* belong: in the queues of the units, the networks, the memory and the tables
\* of the list write units.
THEOREM AccInvariant == Spec => []AccInv
<1>1. Init => AccInv
  BY AccInit
<1>2. AccInv /\ [Next]_vars => AccInv'
  BY AccNext
<1> QED BY <1>1, <1>2, PTL DEF Spec

-----------------------------------------------------------------------------
(* The requests in the machine                                              *)

\* A request that names a watcher of its list and, if it is for a clause, a
\* literal of it; and belongs to one of the assignments S or is a write
Named == {r \in Request : /\ r.watcherId = 0 \/ r.watcherId < get_watcher_size[r.as]
                          /\ r.clauseId = 0 \/ r.clauseId < get_clause_literal[C!ClauseOf(r)]}
Kept(S) == {r \in Named : r.as \in S \/ IsWrite(r)}

\* The requests of every kind
LEMMA KindsKept ==
  ASSUME NEW S
  PROVE  /\ Fresh(S) \subseteq Kept(S) /\ Owned(S) \subseteq Kept(S) /\ Listed(S) \subseteq Kept(S)
         /\ Sent(S) \subseteq Kept(S) /\ Literal(S) \subseteq Kept(S) /\ LastOne(S) \subseteq Kept(S)
         /\ ListReads(S) \subseteq Kept(S) /\ LiteralReads(S) \subseteq Kept(S)
         /\ Fetches(S) \subseteq Kept(S) /\ Stores \subseteq Kept(S)
         /\ ClauseWrites \subseteq Kept(S) /\ Handed(S) \subseteq Kept(S)
         /\ \A i : Values(S, i) \subseteq Kept(S) /\ From(Listed(S), i) \subseteq Kept(S)
                   /\ From(ListReads(S), i) \subseteq Kept(S)
<1>1. Fresh(S) \subseteq Kept(S) /\ Owned(S) \subseteq Kept(S) /\ Literal(S) \subseteq Kept(S)
  BY DEF Fresh, Owned, Literal, Kept, Named, C!ClauseOf
<1>2. Listed(S) \subseteq Kept(S) /\ Sent(S) \subseteq Kept(S) /\ LastOne(S) \subseteq Kept(S)
      /\ ListReads(S) \subseteq Kept(S) /\ LiteralReads(S) \subseteq Kept(S)
  BY <1>1 DEF Listed, Sent, LastOne, ListReads, LiteralReads
<1>3. ListWrites \subseteq Kept(S) /\ ClauseWrites \subseteq Kept(S)
  BY DEF ListWrites, ClauseWrites, Listed, Owned, Literal, Kept, Named, C!ClauseOf, IsWrite
<1> QED BY <1>1, <1>2, <1>3 DEF Fetches, Stores, Handed, Values, From

\* The elements of sequences
LEMMA RangeOf == ASSUME NEW X, NEW q \in Seq(X) PROVE Range(q) \subseteq X
BY DEF Range

\* The requests in a watcher
LEMMA WatcherRequests ==
  ASSUME NEW S, NEW i, NEW w \in WatcherSet(S, i)
  PROVE  InWatcher(w) \subseteq Kept(S)
<1> DEFINE K == Kept(S)
<1>1. /\ w.in_task_queue \in Seq(Fresh(S)) /\ w.waiting_read_meta_queue \in Seq(Fresh(S))
      /\ w.waiting_read_watcher_queue \in Seq(Owned(S))
      /\ w.waiting_value_watcher_queue \in Seq(Listed(S))
      /\ w.waiting_process_queue \in Seq(From(Listed(S), i))
      /\ w.out_memory_read_queue \in Seq(ListReads(S))
      /\ w.in_memory_resp_queue \in Seq(From(ListReads(S), i))
      /\ w.out_send_queue \in Seq(Sent(S))
      /\ w.out_write_watcher_list_queue \in Seq(From(Listed(S), i))
  BY DEF WatcherSet
<1>2. /\ Fresh(S) \subseteq K /\ Owned(S) \subseteq K /\ Listed(S) \subseteq K
      /\ Sent(S) \subseteq K /\ ListReads(S) \subseteq K
      /\ From(Listed(S), i) \subseteq K /\ From(ListReads(S), i) \subseteq K
  BY KindsKept
<1> HIDE DEF K
<1>3. /\ w.in_task_queue \in Seq(K) /\ w.waiting_read_meta_queue \in Seq(K)
      /\ w.waiting_read_watcher_queue \in Seq(K) /\ w.waiting_value_watcher_queue \in Seq(K)
      /\ w.waiting_process_queue \in Seq(K) /\ w.out_memory_read_queue \in Seq(K)
      /\ w.in_memory_resp_queue \in Seq(K) /\ w.out_send_queue \in Seq(K)
      /\ w.out_write_watcher_list_queue \in Seq(K)
  BY <1>1, <1>2
<1>4. w.in_task_queue \o w.waiting_read_meta_queue \o w.waiting_read_watcher_queue
        \o w.waiting_value_watcher_queue \o w.waiting_process_queue
        \o w.out_memory_read_queue \o w.in_memory_resp_queue
        \o w.out_send_queue \o w.out_write_watcher_list_queue \in Seq(K)
  BY <1>3
<1> QED BY <1>4, RangeOf DEF InWatcher, K

\* The requests in a clause unit
LEMMA ClauseRequests ==
  ASSUME NEW S, NEW T, NEW c \in ClauseSet(S, T)
  PROVE  InClause(c) \subseteq Kept(S)
<1> DEFINE K == Kept(S)
<1>1. /\ c.in_task_queue \in Seq(Literal(S)) /\ c.clause_data_read_waiting_queue \in Seq(Literal(S))
      /\ c.clause_value_read_waiting_queue \in Seq(Literal(S))
      /\ c.clause_process_waiting_queue \in Seq(Literal(S))
      /\ c.out_memory_read_queue \in Seq(LiteralReads(S))
      /\ c.in_memory_resp_queue \in Seq(LiteralReads(S))
      /\ c.out_clause_write_queue \in Seq(LastOne(S))
  BY DEF ClauseSet
<1>2. Literal(S) \subseteq K /\ LiteralReads(S) \subseteq K /\ LastOne(S) \subseteq K
  BY KindsKept
<1> HIDE DEF K
<1>3. /\ c.in_task_queue \in Seq(K) /\ c.clause_data_read_waiting_queue \in Seq(K)
      /\ c.clause_value_read_waiting_queue \in Seq(K) /\ c.clause_process_waiting_queue \in Seq(K)
      /\ c.out_memory_read_queue \in Seq(K) /\ c.in_memory_resp_queue \in Seq(K)
      /\ c.out_clause_write_queue \in Seq(K)
  BY <1>1, <1>2
<1>4. c.in_task_queue \o c.clause_data_read_waiting_queue \o c.clause_value_read_waiting_queue
        \o c.clause_process_waiting_queue \o c.out_memory_read_queue
        \o c.in_memory_resp_queue \o c.out_clause_write_queue \in Seq(K)
  BY <1>3
<1> QED BY <1>4, RangeOf DEF InClause, K

\* The requests in a private cache, a clause writer and a list write unit
LEMMA SmallUnitRequests ==
  ASSUME NEW S, NEW T
  PROVE  /\ \A i : \A p \in CacheSet(S, i) : Range(p.in_request \o p.out_send_q) \subseteq Kept(S)
         /\ \A w \in WriterSet(S) : Range(w.in \o w.out) \subseteq Kept(S)
         /\ \A u \in UnitSet(S, T) : Range(u.in_request) \subseteq Kept(S)
<1> DEFINE K == Kept(S)
<1>0. /\ Listed(S) \subseteq K /\ Handed(S) \subseteq K /\ ClauseWrites \subseteq K
      /\ \A i : Values(S, i) \subseteq K
  BY KindsKept
<1> HIDE DEF K
<1>1. ASSUME NEW i, NEW p \in CacheSet(S, i) PROVE Range(p.in_request \o p.out_send_q) \subseteq K
  <2>1. p.in_request \in Seq(Values(S, i)) /\ p.out_send_q \in Seq(Values(S, i))
    BY DEF CacheSet
  <2>2. p.in_request \o p.out_send_q \in Seq(K)
    BY <1>0, <2>1
  <2> QED BY <2>2, RangeOf
<1>2. ASSUME NEW w \in WriterSet(S) PROVE Range(w.in \o w.out) \subseteq K
  <2>1. w.in \in Seq(Handed(S)) /\ w.out \in Seq(ClauseWrites)
    BY DEF WriterSet
  <2>2. w.in \in Seq(K) /\ w.out \in Seq(K)
    BY <1>0, <2>1
  <2>3. w.in \o w.out \in Seq(K)
    BY <2>2
  <2> QED BY <2>3, RangeOf
<1>3. ASSUME NEW u \in UnitSet(S, T) PROVE Range(u.in_request) \subseteq K
  <2>1. u.in_request \in Seq(Listed(S))
    BY UnitParts
  <2> QED BY <1>0, <2>1, RangeOf
<1> QED BY <1>1, <1>2, <1>3 DEF K

\* The requests in a network
LEMMA NetRequests ==
  ASSUME NEW n, NEW X, NEW K \in SUBSET {p \in Packets : p.req \in X}, NEW net \in NetSet(n, K)
  PROVE  InNetwork(net) \subseteq X
<1>1. /\ net.in_reqs \in [0 .. n - 1 -> Seq(K)] /\ net.inflight \in [0 .. n - 1 -> Seq(K)]
      /\ \A i \in 0 .. n - 1 : net.out_reqs[i] \in Seq(At(K, i))
  BY NetParts
<1>2. ASSUME NEW i \in 0 .. n - 1
      PROVE  /\ Range(net.out_reqs[i]) \subseteq X
             /\ \A p \in Range(net.in_reqs[i] \o net.inflight[i]) : p.req \in X
  <2>1. net.in_reqs[i] \in Seq(K) /\ net.inflight[i] \in Seq(K) /\ net.out_reqs[i] \in Seq(At(K, i))
    BY <1>1
  <2>2. net.in_reqs[i] \o net.inflight[i] \in Seq(K)
    BY <2>1
  <2>3. /\ Range(net.in_reqs[i] \o net.inflight[i]) \subseteq K
        /\ Range(net.out_reqs[i]) \subseteq At(K, i)
    BY <2>1, <2>2, RangeOf
  <2>4. At(K, i) \subseteq X
    <3>1. ASSUME NEW r \in At(K, i) PROVE r \in X
      BY <3>1 DEF At, N!Packet
    <3> QED BY <3>1
  <2> QED BY <2>3, <2>4
<1>3. DOMAIN net.in_reqs = 0 .. n - 1
  BY <1>1
<1> QED BY <1>2, <1>3 DEF InNetwork

\* The requests in the L3 cache
LEMMA MemoryRequests ==
  ASSUME NEW S, NEW l3 \in MemorySet(S)
  PROVE  InMemory(l3) \subseteq Kept(S)
<1>0. Fetches(S) \subseteq Kept(S) /\ Stores \subseteq Kept(S)
  BY KindsKept
<1>1. /\ l3.inside \subseteq Fetches(S) /\ DOMAIN l3.in_request_queues = Banks
      /\ \A p \in Banks : /\ l3.in_request_queues[p] \in Seq(ToBank(S, p))
                          /\ l3.out_resp_queues[p] \in Seq(FromBank(S, p))
  BY MemoryParts DEF Each
<1>2. ASSUME NEW p \in Banks
      PROVE  Range(l3.in_request_queues[p] \o l3.out_resp_queues[p]) \subseteq Kept(S)
  <2> DEFINE a == l3.in_request_queues[p]
             b == l3.out_resp_queues[p]
             K == Kept(S)
  <2>1. a \in Seq(ToBank(S, p)) /\ b \in Seq(FromBank(S, p))
    BY <1>1
  <2>2. ToBank(S, p) \subseteq K /\ FromBank(S, p) \subseteq K
    BY <1>0 DEF ToBank, FromBank
  <2> HIDE DEF a, b, K
  <2>3. a \in Seq(K) /\ b \in Seq(K)
    BY <2>1, <2>2
  <2>4. a \o b \in Seq(K)
    BY <2>3
  <2> QED BY <2>4, RangeOf DEF a, b, K
<1> QED BY <1>0, <1>1, <1>2 DEF InMemory

\* Every request in the machine names what exists, and belongs to an assignment
\* that is worked on unless it is a write.
LEMMA MachineRequests ==
  ASSUME NEW S, NEW T, NEW F, NEW m \in Machines(S, T, F)
  PROVE  InMachine(m) \subseteq Kept(S)
<1>1. InMemory(m.m_cache_interface) \subseteq Kept(S)
  BY MachineParts, MemoryRequests
<1>2. /\ InNetwork(m.memory_read_icnt) \subseteq Kept(S)
      /\ InNetwork(m.watcher_to_clause_icnt) \subseteq Kept(S)
      /\ InNetwork(m.watcher_to_writer_icnt) \subseteq Kept(S)
  <2>1. /\ m.memory_read_icnt \in NetSet(MemoryNodes, MemoryPackets(S))
        /\ m.watcher_to_clause_icnt \in NetSet(num_watchers, ClausePackets(S, F))
        /\ m.watcher_to_writer_icnt \in NetSet(num_watchers, WriterPackets(S))
    BY MachineParts DEF MemoryNets, ClauseNets, WriterNets
  <2> DEFINE X == Kept(S)
  <2>2. /\ Fetches(S) \subseteq X /\ Stores \subseteq X /\ Sent(S) \subseteq X /\ Listed(S) \subseteq X
    BY KindsKept
  <2> HIDE DEF X
  <2>3. /\ MemoryPackets(S) \in SUBSET {p \in Packets : p.req \in X}
        /\ ClausePackets(S, F) \in SUBSET {p \in Packets : p.req \in X}
        /\ WriterPackets(S) \in SUBSET {p \in Packets : p.req \in X}
    BY <2>2 DEF MemoryPackets, ClausePackets, WriterPackets
  <2>4. /\ InNetwork(m.memory_read_icnt) \subseteq X
        /\ InNetwork(m.watcher_to_clause_icnt) \subseteq X
        /\ InNetwork(m.watcher_to_writer_icnt) \subseteq X
    BY <2>1, <2>3, NetRequests
  <2> QED BY <2>4 DEF X
<1>3. ASSUME NEW i \in Tile
      PROVE  InWatcher(m.watchers[i])
              \cup Range(m.m_private_caches[i].in_request \o m.m_private_caches[i].out_send_q)
              \cup Range(m.m_watcher_write_unit[i].in_request)
              \cup Range(m.m_clause_write_unit[i].in \o m.m_clause_write_unit[i].out)
             \subseteq Kept(S)
  <2>1. /\ m.watchers[i] \in WatcherSet(S, i) /\ m.m_private_caches[i] \in CacheSet(S, i)
        /\ m.m_watcher_write_unit[i] \in UnitSet(S, T) /\ m.m_clause_write_unit[i] \in WriterSet(S)
    BY TileParts, UnitOfTile
  <2>2. InWatcher(m.watchers[i]) \subseteq Kept(S)
    BY <2>1, WatcherRequests
  <2>3. /\ Range(m.m_private_caches[i].in_request \o m.m_private_caches[i].out_send_q) \subseteq Kept(S)
        /\ Range(m.m_watcher_write_unit[i].in_request) \subseteq Kept(S)
        /\ Range(m.m_clause_write_unit[i].in \o m.m_clause_write_unit[i].out) \subseteq Kept(S)
    BY <2>1, SmallUnitRequests
  <2> QED BY <2>2, <2>3
<1>4. \A c \in ClauseIds : InClause(m.clauses[c]) \subseteq Kept(S)
  BY ClauseParts, ClauseRequests
<1> QED BY <1>1, <1>2, <1>3, <1>4 DEF InMachine

-----------------------------------------------------------------------------
(* What holds in every reachable state                                      *)

\* Type correctness, from the places of the requests
LEMMA InvTypeOK == AccInv => TypeOK
<1> SUFFICES ASSUME AccInv PROVE TypeOK
  OBVIOUS
<1>1. PICK S \in SUBSET Assign, T \in {{}, Assign} : machine \in Machines(S, T, Allowed)
  BY DEF AccInv
<1>2. InMachine(machine) \subseteq Named
  BY <1>1, MachineRequests DEF Kept
<1>3. Range(machine.in_m_trail) \subseteq Request
  <2>1. machine.in_m_trail \in Seq(Fresh(T))
    BY <1>1, MachineParts DEF Trails
  <2>2. Fresh(T) \subseteq Request
    BY DEF Fresh
  <2> QED BY <2>1, <2>2, RangeOf
<1>4. machine.next_clause \in 0 .. ClausesPerWatcher - 1
  BY <1>1, MachineParts DEF NextClauses
<1> QED BY <1>2, <1>3, <1>4 DEF TypeOK, AccInv, Named

\* Sequential isolation: in sequential mode the machine works on one assignment.
LEMMA InvSequentialIsolation == AccInv => SequentialIsolation
<1> SUFFICES ASSUME AccInv, rust_config.seq
             PROVE  Cardinality({req.as : req \in {r \in InMachine(machine) : ~ IsWrite(r)}}) <= 1
  BY DEF SequentialIsolation
<1> DEFINE X == {req.as : req \in {r \in InMachine(machine) : ~ IsWrite(r)}}
<1>1. PICK S \in SUBSET Assign, T \in {{}, Assign} :
        Fits(S, T, Allowed) /\ machine \in Machines(S, T, Allowed)
  BY DEF AccInv
<1>2. X \subseteq S
  BY <1>1, MachineRequests DEF Kept
<1>3. \A a, b \in S : a = b
  BY <1>1 DEF Fits
<1> HIDE DEF X
<1>4. Cardinality(X) <= 1
  <2>1. CASE X = {}
    BY <2>1, FS_EmptySet
  <2>2. CASE X # {}
    <3>1. PICK a : X = {a}
      BY <1>2, <1>3, <2>2
    <3>2. Cardinality(X) = 1
      BY <3>1, FS_Singleton
    <3> QED BY <3>2
  <2> QED BY <2>1, <2>2
<1> QED BY <1>4 DEF X

\* Every request anywhere in the accelerator, in whatever queue, network or
\* bank, names a watcher of its list and a literal of its clause, for every
\* number of tiles, clause units, banks and every formula.
THEOREM AccTypeOK == Spec => []TypeOK
BY AccInvariant, InvTypeOK, PTL

\* In sequential mode all that moves in the machine, writes apart, belongs to
\* one assignment: the components report as empty only what holds no request.
THEOREM AccSequentialIsolation == Spec => []SequentialIsolation
BY AccInvariant, InvSequentialIsolation, PTL

\* No assertion of acc, of a clause writer or of flush_all fails, except the one
\* of watcher_icnt_out in the straight configuration: an answer comes back to the
\* tile and the unit that asked for it.
THEOREM AccOnlyStraightFails == Spec => [](machine.failed \subseteq Allowed)
<1>1. AccInv => machine.failed \subseteq Allowed
  BY MachineParts DEF AccInv
<1> QED BY <1>1, AccInvariant, PTL

\* Without the straight configuration all assertions hold.
THEOREM AccAssertionsHold ==
  ASSUME \A c \in Configs : c.watcher_to_clause_type = "Icnt"
  PROVE  Spec => []AssertionsHold
<1>1. AccInv => AssertionsHold
  BY MachineParts DEF AccInv, Allowed, AssertionsHold
<1> QED BY <1>1, AccInvariant, PTL

-----------------------------------------------------------------------------
(* Lists that have to be written                                            *)

\* One of the requests X is in the queue q.
Holds(q, X) == \E r \in Range(q) : r \in X

\* A queue keeps what it holds when a request is added.
LEMMA HoldsAppend ==
  ASSUME NEW Y, NEW q \in Seq(Y), NEW e \in Y, NEW X, Holds(q, X) \/ e \in X
  PROVE  Holds(Append(q, e), X)
BY RangeAppend DEF Holds

\* What a queue holds is its head, or its tail holds it.
LEMMA HoldsTail ==
  ASSUME NEW Y, NEW q \in Seq(Y), NEW X, Holds(q, X)
  PROVE  /\ q # <<>>
         /\ Head(q) \in X \/ Holds(Tail(q), X)
<1>1. q # <<>>
  BY DEF Holds, Range
<1> QED BY <1>1, RangeTail DEF Holds

\* A concatenation holds what one of its parts holds.
LEMMA HoldsConcat ==
  ASSUME NEW Y, NEW p \in Seq(Y), NEW q \in Seq(Y), NEW X, Holds(p, X) \/ Holds(q, X)
  PROVE  Holds(p \o q, X)
<1>1. /\ Len(p) \in Nat /\ Len(q) \in Nat
      /\ DOMAIN p = 1 .. Len(p) /\ DOMAIN q = 1 .. Len(q)
      /\ DOMAIN (p \o q) = 1 .. Len(p) + Len(q)
      /\ \A i \in 1 .. Len(p) : (p \o q)[i] = p[i]
      /\ \A i \in Len(p) + 1 .. Len(p) + Len(q) : (p \o q)[i] = q[i - Len(p)]
  BY ConcatProperties, LenProperties
<1>2. ASSUME NEW i \in 1 .. Len(p) PROVE p[i] \in Range(p \o q)
  <2>1. i \in DOMAIN (p \o q)
    BY <1>1
  <2> QED BY <1>1, <2>1 DEF Range
<1>3. ASSUME NEW i \in 1 .. Len(q) PROVE q[i] \in Range(p \o q)
  <2>1. i + Len(p) \in DOMAIN (p \o q) /\ i + Len(p) \in Len(p) + 1 .. Len(p) + Len(q)
        /\ (i + Len(p)) - Len(p) = i
    BY <1>1
  <2> QED BY <1>1, <2>1 DEF Range
<1>4. Range(p) \subseteq Range(p \o q)
  BY <1>1, <1>2 DEF Range
<1>5. Range(q) \subseteq Range(p \o q)
  BY <1>1, <1>3 DEF Range
<1> QED BY <1>4, <1>5 DEF Holds

\* What a queue holds is in its first n places or in the others.
LEMMA HoldsSplit ==
  ASSUME NEW Y, NEW q \in Seq(Y), NEW n \in 0 .. Len(q), NEW X, Holds(q, X)
  PROVE  Holds(SubSeq(q, 1, n), X) \/ Holds(SubSeq(q, n + 1, Len(q)), X)
<1>1. Len(q) \in Nat /\ DOMAIN q = 1 .. Len(q)
  BY LenProperties
<1>2. PICK j \in 1 .. Len(q) : q[j] \in X
  BY <1>1 DEF Holds, Range
<1>3. CASE j <= n
  <2>1. /\ DOMAIN SubSeq(q, 1, n) = 1 .. n
        /\ SubSeq(q, 1, n)[j] = q[j]
    BY <1>1, <1>3
  <2>2. j \in 1 .. n
    BY <1>3
  <2> QED BY <1>2, <2>1, <2>2 DEF Holds, Range
<1>4. CASE j > n
  <2> DEFINE t == SubSeq(q, n + 1, Len(q))
  <2>1. DOMAIN t = 1 .. Len(q) - n /\ j - n \in 1 .. Len(q) - n
    BY <1>1, <1>4
  <2>2. t[j - n] = q[j]
    BY <1>1, <1>4
  <2> HIDE DEF t
  <2>3. q[j] \in Range(t)
    BY <2>1, <2>2 DEF Range
  <2> QED BY <1>2, <2>3 DEF Holds, t
<1> QED BY <1>1, <1>3, <1>4

\* A queue holds what one of the sequences it is made of holds.
LEMMA HoldsFlatten ==
  ASSUME NEW Y, NEW n \in Nat, NEW s \in [1 .. n -> Seq(Y)], NEW j \in 1 .. n, NEW X,
         Holds(s[j], X)
  PROVE  Holds(N!FlattenSeq(s), X)
<1> DEFINE f == CHOOSE g : g = [i \in 1 .. n |-> IF i = 1 THEN s[i] ELSE g[i - 1] \o s[i]]
           Z == {l \in Nat : l \in 1 .. n => /\ f[l] \in Seq(Y)
                                             /\ l >= j => Holds(f[l], X)}
<1>1. f = [i \in 1 .. n |-> IF i = 1 THEN s[i] ELSE f[i - 1] \o s[i]]
  <2>1. \E g : g = [i \in 1 .. n |-> IF i = 1 THEN s[i] ELSE g[i - 1] \o s[i]]
    BY FlattenExists
  <2> QED BY <2>1
<1>2. N!FlattenSeq(s) = f[n]
  <2>1. Len(s) = n /\ n # 0
    OBVIOUS
  <2> QED BY <2>1 DEF N!FlattenSeq
<1> HIDE DEF f
<1>3. 0 \in Z
  OBVIOUS
<1>4. ASSUME NEW l \in Nat, l \in Z PROVE l + 1 \in Z
  <2> SUFFICES ASSUME l + 1 \in 1 .. n
               PROVE  f[l + 1] \in Seq(Y) /\ (l + 1 >= j => Holds(f[l + 1], X))
    OBVIOUS
  <2>1. s[l + 1] \in Seq(Y)
    OBVIOUS
  <2>2. CASE l = 0
    <3>1. f[l + 1] = s[l + 1]
      BY <1>1, <2>2
    <3> QED BY <2>1, <2>2, <3>1
  <2>3. CASE l # 0
    <3>1. l \in 1 .. n /\ l + 1 # 1 /\ (l + 1) - 1 = l
      BY <2>3
    <3>2. f[l + 1] = f[l] \o s[l + 1]
      BY <1>1, <3>1
    <3>3. f[l] \in Seq(Y) /\ (l >= j => Holds(f[l], X))
      BY <1>4, <3>1
    <3>4. f[l] \o s[l + 1] \in Seq(Y)
      BY <2>1, <3>3
    <3>5. ASSUME l + 1 >= j PROVE Holds(f[l], X) \/ Holds(s[l + 1], X)
      BY <3>3, <3>5
    <3> QED BY <2>1, <3>2, <3>3, <3>4, <3>5, HoldsConcat
  <2> QED BY <2>2, <2>3
<1> HIDE DEF Z
<1>5. n \in Z
  BY <1>3, <1>4, NatSetInduction
<1> QED BY <1>2, <1>5 DEF Z

\* An element of a chosen part of a queue: the places that stay are kept.
LEMMA HoldsChosen ==
  ASSUME NEW Y, NEW n \in Nat, NEW s \in [1 .. n -> Seq(Y)], NEW j \in 1 .. n, NEW r, NEW X,
         s[j] = <<r>>, r \in X
  PROVE  Holds(N!FlattenSeq(s), X)
<1>1. r \in Range(s[j])
  BY DEF Range
<1> QED BY <1>1, HoldsFlatten DEF Holds

\* The packets for node to that carry one of the requests X; the network holds one
\* of them, or has delivered it.
Bound(X, to) == {p \in Packets : p.req \in X /\ p.icnt_to = to}
NetHolds(net, X, to) ==
  \/ \E i \in DOMAIN net.in_reqs : Holds(net.in_reqs[i], Bound(X, to))
  \/ \E i \in DOMAIN net.inflight : Holds(net.inflight[i], Bound(X, to))
  \/ Holds(net.out_reqs[to], X)

\* A packet is added to those of the network.
LEMMA NetHoldsPush ==
  ASSUME NEW n, NEW K, NEW net \in NetSet(n, K), NEW source \in 0 .. n - 1,
         NEW req \in Request, NEW to2 \in Nat, N!Packet(req, to2) \in K,
         NEW X, NEW to, NetHolds(net, X, to) \/ (req \in X /\ to2 = to)
  PROVE  NetHolds(N!Push(net, source, req, to2), X, to)
<1> DEFINE p == N!Packet(req, to2)
           q == net.in_reqs
           x == [q EXCEPT ![source] = Append(@, p)]
           new == N!Push(net, source, req, to2)
<1>1. q \in [0 .. n - 1 -> Seq(K)] /\ q[source] \in Seq(K)
  <2>1. q \in [0 .. n - 1 -> Seq(K)]
    BY NetParts
  <2> HIDE DEF q
  <2> QED BY <2>1
<1>2. req \in X /\ to2 = to => p \in Bound(X, to)
  BY DEF Bound, Packets, N!Packet
<1>3. new.in_reqs = x /\ new.inflight = net.inflight /\ new.out_reqs = net.out_reqs
  BY DEF N!Push, NetSet
<1> HIDE DEF p, q, new
<1>4. DOMAIN x = DOMAIN q /\ source \in DOMAIN q /\ x[source] = Append(q[source], p)
      /\ \A i \in DOMAIN q : i # source => x[i] = q[i]
  BY <1>1
<1> HIDE DEF x
<1>5. ASSUME NEW i \in DOMAIN q, Holds(q[i], Bound(X, to)) PROVE Holds(x[i], Bound(X, to))
  <2>1. CASE i = source
    <3>1. Holds(Append(q[source], p), Bound(X, to))
      BY <1>1, <1>5, <2>1, HoldsAppend DEF p
    <3> QED BY <1>4, <2>1, <3>1
  <2>2. CASE i # source
    BY <1>4, <1>5, <2>2
  <2> QED BY <2>1, <2>2
<1>6. ASSUME p \in Bound(X, to) PROVE Holds(x[source], Bound(X, to))
  BY <1>1, <1>4, <1>6, HoldsAppend DEF p
<1> QED BY <1>2, <1>3, <1>4, <1>5, <1>6 DEF NetHolds, q, new

\* A request for the node it comes from is delivered.
LEMMA NetHoldsPushOrDeliver ==
  ASSUME NEW n, NEW K, NEW net \in NetSet(n, K), NEW source \in 0 .. n - 1,
         NEW req \in Request, NEW to2 \in Nat, N!Packet(req, to2) \in K,
         NEW X, NEW to \in 0 .. n - 1, NetHolds(net, X, to) \/ (req \in X /\ to2 = to)
  PROVE  NetHolds(N!PushOrDeliver(net, source, req, to2), X, to)
<1>1. CASE source # to2
  <2>1. N!PushOrDeliver(net, source, req, to2) = N!Push(net, source, req, to2)
    BY <1>1 DEF N!PushOrDeliver
  <2> QED BY <2>1, NetHoldsPush
<1>2. CASE source = to2
  <2> DEFINE q == net.out_reqs
             x == [q EXCEPT ![source] = Append(@, req)]
             new == N!PushOrDeliver(net, source, req, to2)
  <2>1. q[source] \in Seq(At(K, source)) /\ DOMAIN q = 0 .. n - 1
    BY NetParts DEF Each
  <2>2. req \in At(K, source)
    BY <1>2 DEF At
  <2>3. new.in_reqs = net.in_reqs /\ new.inflight = net.inflight /\ new.out_reqs = x
    BY <1>2 DEF N!PushOrDeliver, NetSet
  <2> HIDE DEF q, new
  <2>4. x[source] = Append(q[source], req) /\ \A i \in DOMAIN q : i # source => x[i] = q[i]
    BY <2>1
  <2> HIDE DEF x
  <2>5. ASSUME Holds(q[to], X) \/ (req \in X /\ to2 = to) PROVE Holds(x[to], X)
    <3>1. CASE to = source
      <4>1. Holds(Append(q[source], req), X)
        BY <2>1, <2>2, <2>5, <3>1, HoldsAppend
      <4> QED BY <2>4, <3>1, <4>1
    <3>2. CASE to # source
      BY <1>2, <2>1, <2>4, <2>5, <3>2
    <3> QED BY <3>1, <3>2
  <2> QED BY <2>3, <2>5 DEF NetHolds, q, new
<1> QED BY <1>1, <1>2

\* What a node takes from the network is no longer in it.
LEMMA NetHoldsPop ==
  ASSUME NEW n, NEW K, NEW net \in NetSet(n, K), NEW i \in 0 .. n - 1,
         NEW X, NEW to \in 0 .. n - 1, NetHolds(net, X, to)
  PROVE  NetHolds(N!PopOut(net, i), X, to) \/ (i = to /\ Head(net.out_reqs[i]) \in X)
<1> DEFINE q == net.out_reqs
           x == [q EXCEPT ![i] = Tail(@)]
           new == N!PopOut(net, i)
<1>1. q[to] \in Seq(At(K, to)) /\ DOMAIN q = 0 .. n - 1
  BY NetParts DEF Each
<1>2. new.in_reqs = net.in_reqs /\ new.inflight = net.inflight /\ new.out_reqs = x
  BY DEF N!PopOut, NetSet
<1> HIDE DEF q, new
<1>3. x[to] = IF i = to THEN Tail(q[to]) ELSE q[to]
  BY <1>1
<1> HIDE DEF x
<1>4. ASSUME Holds(q[to], X) PROVE Holds(x[to], X) \/ (i = to /\ Head(q[i]) \in X)
  BY <1>1, <1>3, <1>4, HoldsTail
<1> QED BY <1>2, <1>4 DEF NetHolds, q, new

\* The ideal network delivers its packets.
LEMMA NetHoldsIdeal ==
  ASSUME NEW n \in Nat, NEW K \in SUBSET Packets, NEW net \in NetSet(n, K), net.kind = "Ideal",
         NEW X, NEW to \in 0 .. n - 1, NetHolds(net, X, to)
  PROVE  NetHolds(N!IdealCycle(net), X, to)
<1> DEFINE s == [k \in 1 .. net.n_nodes |-> net.in_reqs[k - 1]]
           all == N!FlattenSeq(s)
           mine == [k \in DOMAIN all |-> IF all[k].icnt_to = to THEN <<all[k].req>> ELSE <<>>]
           new == N!IdealCycle(net)
<1>0. /\ net.n_nodes = n /\ net.in_reqs \in [0 .. n - 1 -> Seq(K)]
      /\ net.out_reqs[to] \in Seq(At(K, to)) /\ DOMAIN net.out_reqs = 0 .. n - 1
  BY NetParts DEF Each
<1>1. s \in [1 .. n -> Seq(K)] /\ \A i \in 0 .. n - 1 : i + 1 \in 1 .. n /\ s[i + 1] = net.in_reqs[i]
  <2>1. \A i \in 0 .. n - 1 : i + 1 \in 1 .. n /\ (i + 1) - 1 = i
    OBVIOUS
  <2> QED BY <1>0, <2>1
<1>2. new.inflight = net.inflight /\ new.out_reqs[to] = net.out_reqs[to] \o N!FlattenSeq(mine)
  BY <1>0 DEF N!IdealCycle, NetSet
<1> HIDE DEF s, new
<1>3. all \in Seq(K)
  BY <1>1, FlattenType
<1> HIDE DEF all
<1>4. Len(all) \in Nat /\ DOMAIN all = 1 .. Len(all) /\ \A k \in DOMAIN all : all[k] \in K
  BY <1>3
<1>5. mine \in [1 .. Len(all) -> Seq(At(K, to))]
  <2>1. ASSUME NEW k \in DOMAIN all, all[k].icnt_to = to PROVE all[k].req \in At(K, to)
    <3>1. all[k] \in Packets /\ all[k] \in K
      BY <1>4
    <3>2. all[k] = N!Packet(all[k].req, to) /\ all[k].req \in Request
      BY <2>1, <3>1 DEF Packets, N!Packet
    <3> QED BY <3>1, <3>2 DEF At
  <2>2. ASSUME NEW k \in DOMAIN all
        PROVE  (IF all[k].icnt_to = to THEN <<all[k].req>> ELSE <<>>) \in Seq(At(K, to))
    <3>1. CASE all[k].icnt_to = to
      BY <2>1, <3>1
    <3>2. CASE all[k].icnt_to # to
      BY <3>2
    <3> QED BY <3>1, <3>2
  <2> QED BY <1>4, <2>2
<1>6. N!FlattenSeq(mine) \in Seq(At(K, to))
  <2> HIDE DEF mine
  <2> QED BY <1>4, <1>5, FlattenType
<1>7. ASSUME NEW i \in DOMAIN net.in_reqs, Holds(net.in_reqs[i], Bound(X, to))
      PROVE  Holds(N!FlattenSeq(mine), X)
  <2>1. Holds(s[i + 1], Bound(X, to)) /\ i + 1 \in 1 .. n
    BY <1>0, <1>1, <1>7
  <2>2. Holds(all, Bound(X, to))
    BY <1>1, <2>1, HoldsFlatten DEF all
  <2>3. PICK k \in DOMAIN all : all[k] \in Bound(X, to)
    BY <2>2 DEF Holds, Range
  <2>4. mine[k] = <<all[k].req>> /\ all[k].req \in X
    BY <2>3 DEF Bound
  <2> HIDE DEF mine
  <2> QED BY <1>4, <1>5, <2>4, HoldsChosen
<1>8. ASSUME Holds(N!FlattenSeq(mine), X) \/ Holds(net.out_reqs[to], X)
      PROVE  Holds(new.out_reqs[to], X)
  <2> HIDE DEF mine
  <2>1. Holds(net.out_reqs[to] \o N!FlattenSeq(mine), X)
    BY <1>0, <1>6, <1>8, HoldsConcat
  <2> QED BY <1>2, <2>1
<1> HIDE DEF mine
<1> QED BY <1>2, <1>7, <1>8 DEF NetHolds, new

\* A packet in the mesh stays there unless a node receives it.
LEMMA HoldsRemaining ==
  ASSUME NEW n, NEW K, NEW net \in NetSet(n, K), NEW receipt, NEW i \in 0 .. n - 1, NEW X,
         NEW k \in DOMAIN net.inflight[i], net.inflight[i][k] \in X,
         \A j \in DOMAIN receipt : receipt[j] # <<i, k>>
  PROVE  Holds(N!Remaining(net, receipt, i), X)
<1> DEFINE q == net.inflight[i]
           stays(l) == \A j \in DOMAIN receipt : receipt[j] # <<i, l>>
           s == [l \in DOMAIN q |-> IF stays(l) THEN <<q[l]>> ELSE <<>>]
<1>1. q \in Seq(K)
  <2>1. net.inflight \in [0 .. n - 1 -> Seq(K)]
    BY NetParts
  <2> QED BY <2>1
<1>2. N!Remaining(net, receipt, i) = N!FlattenSeq(s)
  BY DEF N!Remaining
<1>3. stays(k) /\ k \in DOMAIN q /\ q[k] \in X
  OBVIOUS
<1> HIDE DEF q, stays
<1>4. Len(q) \in Nat /\ DOMAIN q = 1 .. Len(q) /\ \A l \in DOMAIN q : <<q[l]>> \in Seq(K)
  BY <1>1
<1>5. s \in [1 .. Len(q) -> Seq(K)] /\ s[k] = <<q[k]>>
  BY <1>3, <1>4
<1> HIDE DEF s
<1> QED BY <1>2, <1>3, <1>4, <1>5, HoldsChosen

\* The mesh keeps its packets or delivers them.
LEMMA NetHoldsMesh ==
  ASSUME NEW n \in Nat, NEW K \in SUBSET Packets, NEW net \in NetSet(n, K),
         NEW receipt \in N!Receipts(net),
         NEW X, NEW to \in 0 .. n - 1, NetHolds(net, X, to)
  PROVE  NetHolds(N!MeshCycle(net, receipt), X, to)
<1> DEFINE B == Bound(X, to)
           new == N!MeshCycle(net, receipt)
           sends(i) == net.in_reqs[i] # <<>> /\ N!HasBuffer(net, i)
           got == net.inflight[receipt[to][1]][receipt[to][2]].req
<1>0. /\ net.n_nodes = n /\ net.in_reqs \in [0 .. n - 1 -> Seq(K)]
      /\ net.inflight \in [0 .. n - 1 -> Seq(K)]
      /\ net.out_reqs[to] \in Seq(At(K, to)) /\ DOMAIN net.out_reqs = 0 .. n - 1
  BY NetParts DEF Each
<1>t. new \in NetSet(n, K)
  BY NetMeshCycle
<1>1. /\ \A i \in 0 .. n - 1 :
           /\ new.in_reqs[i] = IF sends(i) THEN Tail(net.in_reqs[i]) ELSE net.in_reqs[i]
           /\ new.inflight[i] = IF sends(i)
                THEN Append(N!Remaining(net, receipt, i), Head(net.in_reqs[i]))
                ELSE N!Remaining(net, receipt, i)
      /\ new.out_reqs[to] = IF receipt[to] = N!NoPacket THEN net.out_reqs[to]
                            ELSE Append(net.out_reqs[to], got)
  BY <1>0 DEF N!MeshCycle, NetSet
<1>2. DOMAIN new.in_reqs = 0 .. n - 1 /\ DOMAIN new.inflight = 0 .. n - 1
  BY <1>t, NetParts
<1> HIDE DEF new, B, got
<1>3. ASSUME NEW i \in 0 .. n - 1, sends(i)
      PROVE  /\ net.in_reqs[i] \in Seq(K) /\ Head(net.in_reqs[i]) \in K
             /\ N!Remaining(net, receipt, i) \in Seq(K)
  <2>1. net.in_reqs[i] \in Seq(K) /\ net.in_reqs[i] # <<>>
    BY <1>0, <1>3
  <2> QED BY <2>1, TailElements, NetRemaining
<1> HIDE DEF sends
\* a packet that waits to enter
<1>4. ASSUME NEW i \in 0 .. n - 1, Holds(net.in_reqs[i], B)
      PROVE  Holds(new.in_reqs[i], B) \/ Holds(new.inflight[i], B)
  <2>1. CASE ~ sends(i)
    BY <1>1, <1>4, <2>1
  <2>2. CASE sends(i)
    <3>1. Head(net.in_reqs[i]) \in B \/ Holds(Tail(net.in_reqs[i]), B)
      BY <1>3, <1>4, <2>2, HoldsTail
    <3>2. ASSUME Head(net.in_reqs[i]) \in B
          PROVE  Holds(Append(N!Remaining(net, receipt, i), Head(net.in_reqs[i])), B)
      BY <1>3, <2>2, <3>2, HoldsAppend
    <3> QED BY <1>1, <2>2, <3>1, <3>2
  <2> QED BY <2>1, <2>2
\* a packet inside
<1>5. ASSUME NEW i \in 0 .. n - 1, Holds(N!Remaining(net, receipt, i), B)
      PROVE  Holds(new.inflight[i], B)
  <2>1. CASE ~ sends(i)
    BY <1>1, <1>5, <2>1
  <2>2. CASE sends(i)
    <3>1. Holds(Append(N!Remaining(net, receipt, i), Head(net.in_reqs[i])), B)
      BY <1>3, <1>5, <2>2, HoldsAppend
    <3> QED BY <1>1, <2>2, <3>1
  <2> QED BY <2>1, <2>2
<1>r. ASSUME NEW j \in 0 .. n - 1, receipt[j] # N!NoPacket
      PROVE  /\ receipt[j][1] \in 0 .. n - 1
             /\ receipt[j][2] \in DOMAIN net.inflight[receipt[j][1]]
             /\ net.inflight[receipt[j][1]][receipt[j][2]].icnt_to = j
  <2> DEFINE x == receipt[j]
             p == net.inflight[x[1]][x[2]]
  <2>1. x \in N!Arriving(net, j)
    BY <1>0, <1>r DEF N!Receipts, N!Node
  <2> HIDE DEF x
  <2>2. /\ x \in (0 .. n - 1) \X (1 .. MeshSlots)
        /\ x[2] <= Len(net.inflight[x[1]]) /\ p.icnt_to = j
    BY <1>0, <2>1 DEF N!Arriving, N!Node
  <2> HIDE DEF p
  <2>3. x[1] \in 0 .. n - 1 /\ x[2] \in 1 .. MeshSlots
    <3>1. \A a, b : \A y \in a \X b : y[1] \in a /\ y[2] \in b
      OBVIOUS
    <3> QED BY <2>2, <3>1
  <2>4. net.inflight[x[1]] \in Seq(K)
    BY <1>0, <2>3
  <2>5. /\ Len(net.inflight[x[1]]) \in Nat
        /\ DOMAIN net.inflight[x[1]] = 1 .. Len(net.inflight[x[1]])
    BY <2>4, LenProperties
  <2>6. MeshSlots \in Nat
    BY AccAssumption
  <2>7. x[2] \in DOMAIN net.inflight[x[1]]
    BY <2>2, <2>3, <2>5, <2>6
  <2> QED BY <2>2, <2>3, <2>7 DEF x, p
<1>6. ASSUME NEW i \in 0 .. n - 1, Holds(net.inflight[i], B)
      PROVE  Holds(new.inflight[i], B) \/ Holds(new.out_reqs[to], X)
  <2>1. PICK k \in DOMAIN net.inflight[i] : net.inflight[i][k] \in B
    BY <1>6 DEF Holds, Range
  <2>2. CASE \A j \in DOMAIN receipt : receipt[j] # <<i, k>>
    BY <1>5, <2>1, <2>2, HoldsRemaining
  <2>3. CASE \E j \in DOMAIN receipt : receipt[j] = <<i, k>>
    <3>1. PICK j \in DOMAIN receipt : receipt[j] = <<i, k>>
      BY <2>3
    <3>2. j \in 0 .. n - 1 /\ receipt[j] # N!NoPacket
      BY <1>0, <3>1 DEF N!Receipts, N!Node, N!NoPacket
    <3>3. receipt[j][1] = i /\ receipt[j][2] = k
      BY <3>1
    <3>4. j = to
      BY <1>r, <2>1, <3>2, <3>3 DEF B, Bound
    <3>5. got \in X
      BY <2>1, <3>3, <3>4 DEF got, B, Bound
    <3>6. got \in At(K, to)
      <4> DEFINE p == net.inflight[i][k]
      <4>1. p \in K
        <5>1. net.inflight[i] \in Seq(K)
          BY <1>0
        <5> QED BY <5>1
      <4>2. p = N!Packet(p.req, to) /\ p.req \in Request
        BY <2>1, <4>1 DEF B, Bound, Packets, N!Packet
      <4>3. got = p.req
        BY <3>3, <3>4 DEF got
      <4> HIDE DEF p
      <4> QED BY <4>1, <4>2, <4>3 DEF At
    <3>7. Holds(Append(net.out_reqs[to], got), X)
      BY <1>0, <3>5, <3>6, HoldsAppend
    <3> QED BY <1>1, <3>2, <3>4, <3>7
  <2> QED BY <2>2, <2>3
\* a packet that was delivered
<1>7. ASSUME Holds(net.out_reqs[to], X) PROVE Holds(new.out_reqs[to], X)
  <2>1. CASE receipt[to] = N!NoPacket
    BY <1>1, <1>7, <2>1
  <2>2. CASE receipt[to] # N!NoPacket
    <3> DEFINE i == receipt[to][1]
               k == receipt[to][2]
               p == net.inflight[i][k]
    <3>1. i \in 0 .. n - 1 /\ k \in DOMAIN net.inflight[i] /\ p.icnt_to = to
      BY <1>r, <2>2
    <3> HIDE DEF i, k
    <3>2. p \in K
      <4>1. net.inflight[i] \in Seq(K)
        BY <1>0, <3>1
      <4> QED BY <3>1, <4>1
    <3>3. p = N!Packet(p.req, to) /\ p.req \in Request
      BY <3>1, <3>2 DEF Packets, N!Packet
    <3>4. got = p.req
      BY DEF got, i, k
    <3> HIDE DEF p
    <3>5. got \in At(K, to)
      BY <3>2, <3>3, <3>4 DEF At
    <3>6. Holds(Append(net.out_reqs[to], got), X)
      BY <1>0, <1>7, <3>5, HoldsAppend
    <3> QED BY <1>1, <2>2, <3>6
  <2> QED BY <2>1, <2>2
<1> QED BY <1>0, <1>2, <1>4, <1>6, <1>7 DEF NetHolds, new, B

\* Whatever a network delivers in a cycle, it loses nothing.
LEMMA NetHoldsCycle ==
  ASSUME NEW n \in Nat, NEW K \in SUBSET Packets, NEW net \in NetSet(n, K),
         NEW receipt \in N!Outcomes(net),
         NEW X, NEW to \in 0 .. n - 1, NetHolds(net, X, to)
  PROVE  NetHolds(N!DoCycle(net, receipt), X, to)
<1>1. CASE net.kind = "Ideal"
  <2>1. N!DoCycle(net, receipt) = N!IdealCycle(net)
    BY <1>1 DEF N!DoCycle
  <2> QED BY <1>1, <2>1, NetHoldsIdeal
<1>2. CASE net.kind = "Mesh"
  <2>1. receipt \in N!Receipts(net)
    BY <1>2 DEF N!Outcomes
  <2>2. N!DoCycle(net, receipt) = N!MeshCycle(net, receipt)
    BY <1>2 DEF N!DoCycle
  <2> QED BY <2>1, <2>2, NetHoldsMesh
<1> QED BY <1>1, <1>2, NetParts

\* One of the requests X is in the L3 cache.
MemHolds(l3, X) == \/ \E p \in Banks : Holds(l3.in_request_queues[p], X)
                   \/ \E r \in l3.inside : r \in X
                   \/ \E p \in Banks : Holds(l3.out_resp_queues[p], X)

\* A request that comes to a bank
LEMMA MemHoldsArrive ==
  ASSUME NEW S, NEW l3 \in MemorySet(S), NEW p \in Banks, NEW r \in ToBank(S, p),
         NEW X, MemHolds(l3, X) \/ r \in X
  PROVE  MemHolds([l3 EXCEPT !.in_request_queues[p] = Append(@, r)], X)
<1> DEFINE q == l3.in_request_queues
           x == [q EXCEPT ![p] = Append(@, r)]
           new == [l3 EXCEPT !.in_request_queues[p] = Append(@, r)]
<1>1. q[p] \in Seq(ToBank(S, p)) /\ DOMAIN q = Banks
  BY MemoryParts DEF Each
<1>2. /\ new.in_request_queues = x /\ new.inside = l3.inside
      /\ new.out_resp_queues = l3.out_resp_queues
  BY DEF MemorySet
<1> HIDE DEF q, new
<1>3. x[p] = Append(q[p], r) /\ \A k \in Banks : k # p => x[k] = q[k]
  BY <1>1
<1> HIDE DEF x
<1>4. ASSUME Holds(q[p], X) \/ r \in X PROVE Holds(x[p], X)
  BY <1>1, <1>3, <1>4, HoldsAppend
<1>5. ASSUME NEW k \in Banks, Holds(q[k], X) PROVE Holds(x[k], X)
  BY <1>3, <1>4, <1>5
<1> QED BY <1>2, <1>4, <1>5 DEF MemHolds, q, new

\* An answer that leaves its bank
LEMMA MemHoldsDepart ==
  ASSUME NEW S, NEW l3 \in MemorySet(S), NEW p \in Banks, NEW X, MemHolds(l3, X)
  PROVE  MemHolds([l3 EXCEPT !.out_resp_queues[p] = Tail(@)], X)
         \/ Head(l3.out_resp_queues[p]) \in X
<1> DEFINE q == l3.out_resp_queues
           x == [q EXCEPT ![p] = Tail(@)]
           new == [l3 EXCEPT !.out_resp_queues[p] = Tail(@)]
<1>1. q[p] \in Seq(FromBank(S, p)) /\ DOMAIN q = Banks
  BY MemoryParts DEF Each
<1>2. /\ new.out_resp_queues = x /\ new.inside = l3.inside
      /\ new.in_request_queues = l3.in_request_queues
  BY DEF MemorySet
<1> HIDE DEF q, new
<1>3. x[p] = Tail(q[p]) /\ \A k \in Banks : k # p => x[k] = q[k]
  BY <1>1
<1> HIDE DEF x
<1>4. ASSUME Holds(q[p], X) PROVE Holds(x[p], X) \/ Head(q[p]) \in X
  BY <1>1, <1>3, <1>4, HoldsTail
<1>5. ASSUME NEW k \in Banks, Holds(q[k], X) PROVE Holds(x[k], X) \/ Head(q[p]) \in X
  BY <1>3, <1>4, <1>5
<1> QED BY <1>2, <1>5 DEF MemHolds, q, new

\* The memory keeps every read until it is answered.
LEMMA MemHoldsCycle ==
  ASSUME NEW S, NEW l3 \in MemorySet(S), NEW mc \in L3!Cycles(l3),
         NEW X, \A r \in X : IsRead(r), MemHolds(l3, X)
  PROVE  MemHolds(L3!DoCycle(l3, mc.accept, mc.answer), X)
<1> DEFINE taken == UNION {L3!Range(SubSeq(l3.in_request_queues[p], 1, mc.accept[p])) : p \in Banks}
           given == UNION {L3!Range(mc.answer[p]) : p \in Banks}
           new == L3!DoCycle(l3, mc.accept, mc.answer)
<1>0. \A p \in Banks : /\ l3.in_request_queues[p] \in Seq(ToBank(S, p))
                       /\ l3.out_resp_queues[p] \in Seq(FromBank(S, p))
  BY MemoryParts
<1>1. ASSUME NEW p \in Banks
      PROVE  /\ mc.accept[p] \in 0 .. Len(l3.in_request_queues[p])
             /\ mc.answer[p] \in Seq(FromBank(S, p))
  <2>1. mc.accept[p] \in L3!Accepts(l3, p) /\ mc.answer[p] \in L3!Answers(l3, p)
    BY DEF L3!Cycles, L3!Bank, Banks
  <2>2. Len(l3.in_request_queues[p]) \in Nat
    <3>1. l3.in_request_queues[p] \in Seq(ToBank(S, p))
      BY <1>0
    <3> QED BY <3>1
  <2>3. multi_l3cache_port \in Nat
    BY AccAssumption
  <2>4. mc.accept[p] \in 0 .. Len(l3.in_request_queues[p])
    BY <2>1, <2>2, <2>3 DEF L3!Accepts
  <2>5. l3.inside \in SUBSET Fetches(S)
    BY MemoryParts
  <2>6. mc.answer[p] = <<>> \/ \E r \in FromBank(S, p) : mc.answer[p] = <<r>>
    BY <2>1, <2>5 DEF L3!Answers, FromBank
  <2>7. mc.answer[p] \in Seq(FromBank(S, p))
    <3> DEFINE Y == FromBank(S, p)
               Q == Seq(Y)
    <3>1. <<>> \in Q /\ \A r \in Y : <<r>> \in Q
      OBVIOUS
    <3> HIDE DEF Q
    <3> QED BY <2>6, <3>1 DEF Q
  <2> QED BY <2>4, <2>7
<1>2. /\ \A p \in Banks :
           /\ new.in_request_queues[p]
              = SubSeq(l3.in_request_queues[p], mc.accept[p] + 1, Len(l3.in_request_queues[p]))
           /\ new.out_resp_queues[p] = l3.out_resp_queues[p] \o mc.answer[p]
      /\ new.inside = (l3.inside \ given) \cup {r \in taken : IsRead(r)}
  BY DEF L3!DoCycle, L3!Bank, Banks
<1> HIDE DEF new
<1>3. ASSUME NEW p \in Banks, Holds(l3.in_request_queues[p], X)
      PROVE  MemHolds(new, X)
  <2> DEFINE q == l3.in_request_queues[p]
             k == mc.accept[p]
  <2>1. q \in Seq(ToBank(S, p)) /\ k \in 0 .. Len(q)
    BY <1>0, <1>1
  <2>2. \/ Holds(SubSeq(q, 1, k), X)
        \/ Holds(SubSeq(q, k + 1, Len(q)), X)
    BY <1>3, <2>1, HoldsSplit
  <2>3. ASSUME Holds(SubSeq(q, 1, k), X) PROVE \E r \in new.inside : r \in X
    <3>1. PICK r \in X : r \in Range(SubSeq(q, 1, k))
      BY <2>3 DEF Holds
    <3>2. r \in taken
      BY <3>1 DEF Range, L3!Range
    <3> HIDE DEF taken, given
    <3> QED BY <1>2, <3>1, <3>2
  <2> QED BY <1>2, <2>2, <2>3 DEF MemHolds
<1>4. ASSUME NEW r \in X, r \in l3.inside PROVE MemHolds(new, X)
  <2>1. CASE r \notin given
    <3> HIDE DEF taken, given
    <3>1. r \in new.inside
      BY <1>2, <1>4, <2>1
    <3> QED BY <3>1 DEF MemHolds
  <2>2. CASE r \in given
    <3>1. PICK p \in Banks : r \in Range(mc.answer[p])
      BY <2>2 DEF Range, L3!Range
    <3>2. Holds(mc.answer[p], X)
      BY <3>1 DEF Holds
    <3>3. Holds(l3.out_resp_queues[p] \o mc.answer[p], X)
      BY <1>0, <1>1, <3>2, HoldsConcat
    <3> QED BY <1>2, <3>3 DEF MemHolds
  <2> QED BY <2>1, <2>2
<1>5. ASSUME NEW p \in Banks, Holds(l3.out_resp_queues[p], X) PROVE MemHolds(new, X)
  <2>1. Holds(l3.out_resp_queues[p] \o mc.answer[p], X)
    BY <1>0, <1>1, <1>5, HoldsConcat
  <2> QED BY <1>2, <2>1 DEF MemHolds
<1> HIDE DEF taken, given
<1> QED BY <1>3, <1>4, <1>5 DEF MemHolds, new

\* One of the requests X is in a private cache.
CacheHolds(p, X) == Holds(p.in_request, X) \/ Holds(p.out_send_q, X)

\* A private cache passes on what it is asked for.
LEMMA CacheHoldsCycle ==
  ASSUME NEW S, NEW i, NEW p \in CacheSet(S, i), NEW X, CacheHolds(p, X)
  PROVE  CacheHolds(P!DoCycle(p), X)
<1>0. p.in_request \in Seq(Values(S, i)) /\ p.out_send_q \in Seq(Values(S, i))
  BY DEF CacheSet
<1>1. CASE p.in_request = <<>> \/ Len(p.out_send_q) >= private_out_size
  BY <1>1 DEF P!DoCycle, P!FromInToOut
<1>2. CASE ~ (p.in_request = <<>> \/ Len(p.out_send_q) >= private_out_size)
  <2> DEFINE new == P!DoCycle(p)
  <2>1. /\ new.in_request = Tail(p.in_request)
        /\ new.out_send_q = Append(p.out_send_q, Head(p.in_request))
    BY <1>2 DEF P!DoCycle, P!FromInToOut
  <2> HIDE DEF new
  <2>2. Head(p.in_request) \in Values(S, i)
    BY <1>0, <1>2, TailElements
  <2>3. ASSUME Holds(p.in_request, X)
        PROVE  Holds(Tail(p.in_request), X) \/ Head(p.in_request) \in X
    BY <1>0, <2>3, HoldsTail
  <2>4. ASSUME Holds(p.out_send_q, X) \/ Head(p.in_request) \in X
        PROVE  Holds(new.out_send_q, X)
    BY <1>0, <2>1, <2>2, <2>4, HoldsAppend
  <2> QED BY <2>1, <2>3, <2>4 DEF CacheHolds, new
<1> QED BY <1>1, <1>2

\* The requests for the list of literal v; the list write unit u will write that
\* list: a request for it waits, it has an entry, or its write has been sent.
ForList(v) == {r \in Request : L!ValueOf(r) = v}
UnitHolds(u, v) == \/ Holds(u.in_request, ForList(v)) \/ v \in DOMAIN u.current_req
                   \/ Holds(u.out_mem_requst, ForList(v))

\* The writes are requests.
LEMMA WritesForList ==
  ASSUME NEW r \in ListWrites
  PROVE  r \in ForList(L!ValueOf(r))
BY DEF ListWrites, Listed, Owned, ForList

\* A unit that is given another request
LEMMA UnitHoldsGiven ==
  ASSUME NEW S, NEW T, NEW u \in UnitSet(S, T), NEW r \in Listed(S),
         NEW v, UnitHolds(u, v) \/ L!ValueOf(r) = v
  PROVE  UnitHolds([u EXCEPT !.in_request = Append(@, r)], v)
<1> DEFINE x == Append(u.in_request, r)
           new == [u EXCEPT !.in_request = Append(@, r)]
<1>1. u.in_request \in Seq(Listed(S))
  BY UnitParts
<1>2. r \in Request
  BY DEF Listed, Owned
<1>3. ASSUME Holds(u.in_request, ForList(v)) \/ L!ValueOf(r) = v PROVE Holds(x, ForList(v))
  <2>1. Holds(u.in_request, ForList(v)) \/ r \in ForList(v)
    BY <1>2, <1>3 DEF ForList
  <2> QED BY <1>1, <2>1, HoldsAppend
<1>4. /\ new.in_request = x /\ new.current_req = u.current_req
      /\ new.out_mem_requst = u.out_mem_requst
  BY DEF UnitSet
<1> HIDE DEF x, new
<1> QED BY <1>3, <1>4 DEF UnitHolds, new

\* A unit that drops an entry sends its write.
LEMMA UnitHoldsDrop ==
  ASSUME NEW S, NEW T, NEW u \in UnitSet(S, T), NEW r \in ListWrites,
         NEW d \in LessOne(S, T, u, L!ValueOf(r), r), NEW v, UnitHolds(u, v)
  PROVE  UnitHolds(d, v)
<1> DEFINE out == Append(u.out_mem_requst, r)
           w == L!ValueOf(r)
<1>1. /\ d.in_request = u.in_request /\ d.out_mem_requst = out
      /\ DOMAIN d.current_req = DOMAIN u.current_req \ {w}
  BY DEF LessOne
<1>2. u.out_mem_requst \in Seq(ListWrites)
  BY UnitParts
<1>3. ASSUME Holds(u.out_mem_requst, ForList(v)) \/ r \in ForList(v) PROVE Holds(out, ForList(v))
  BY <1>2, <1>3, HoldsAppend
<1>4. v = w => r \in ForList(v)
  BY WritesForList
<1> HIDE DEF out, w
<1> QED BY <1>1, <1>3, <1>4 DEF UnitHolds

\* A merge; the list that is merged has an entry.
LEMMA MergeHolds ==
  ASSUME NEW S, NEW T, NEW u \in UnitSet(S, T), NEW r \in ListWrites,
         L!ValueOf(r) \in DOMAIN u.current_map, NEW v, UnitHolds(u, v)
  PROVE  UnitHolds(L!MergeEntry(u, L!ValueOf(r), r), v)
<1> DEFINE w == L!ValueOf(r)
<1>1. CASE u.current_map[w] < max_merge
  <2> DEFINE map == [u.current_map EXCEPT ![w] = @ + 1]
             new == L!MergeEntry(u, w, r)
  <2>1. PICK in, o, mp, rq, ag :
          u = [in_request |-> in, out_mem_requst |-> o, current_map |-> mp,
               current_req |-> rq, entry_aging_queue |-> ag]
    BY UnitParts
  <2>2. new = [u EXCEPT !.current_map = map]
    BY <1>1, <2>1 DEF L!MergeEntry
  <2> HIDE DEF map, new
  <2>3. /\ new.in_request = u.in_request /\ new.current_req = u.current_req
        /\ new.out_mem_requst = u.out_mem_requst
    BY <2>1, <2>2
  <2> QED BY <2>3 DEF UnitHolds, new
<1>2. CASE ~ (u.current_map[w] < max_merge)
  <2>1. L!MergeEntry(u, w, r) = L!DropEntry(L!Emit(u, r), w)
    BY <1>2 DEF L!MergeEntry
  <2>2. Dropped(u, w, r, u.entry_aging_queue) \in LessOne(S, T, u, w, r)
    <3>1. /\ u.entry_aging_queue \in Seq(Entries(T))
          /\ \A x \in DOMAIN u.current_req :
               \E k \in DOMAIN u.entry_aging_queue : u.entry_aging_queue[k] = x
      BY UnitParts
    <3> QED BY <3>1, UnitDrop
  <2>3. L!Emit(u, r) = [L!Emit(u, r) EXCEPT !.entry_aging_queue = u.entry_aging_queue]
    BY EmitOfParts
  <2>4. L!MergeEntry(u, w, r) \in LessOne(S, T, u, w, r)
    BY <2>1, <2>2, <2>3 DEF Dropped
  <2> QED BY <2>4, UnitHoldsDrop
<1> QED BY <1>1, <1>2

\* An eviction
LEMMA EvictHolds ==
  ASSUME NEW S, NEW T, NEW u \in UnitSet(S, T), DOMAIN u.current_req # {},
         NEW v, UnitHolds(u, v)
  PROVE  UnitHolds(L!EvictEntry(u), v)
<1>1. PICK w \in DOMAIN u.current_req : L!EvictEntry(u) \in LessOne(S, T, u, w, u.current_req[w])
  BY EvictKeeps
<1>2. u.current_req[w] \in ListWrites /\ L!ValueOf(u.current_req[w]) = w
  BY UnitParts
<1> QED BY <1>1, <1>2, UnitHoldsDrop

\* A new entry
LEMMA EntryHolds ==
  ASSUME NEW S, NEW T, NEW u \in UnitSet(S, T), NEW w, NEW r, NEW v, UnitHolds(u, v) \/ v = w
  PROVE  UnitHolds(L!NewEntry(u, w, r), v)
<1> DEFINE new == L!NewEntry(u, w, r)
           req == L!Insert(u.current_req, w, r)
           map == L!Insert(u.current_map, w, 1)
           aging == Append(u.entry_aging_queue, w)
<1>1. PICK in, o, mp, rq, ag :
        u = [in_request |-> in, out_mem_requst |-> o, current_map |-> mp,
             current_req |-> rq, entry_aging_queue |-> ag]
  BY UnitParts
<1>2. new = [[[u EXCEPT !.entry_aging_queue = aging]
                EXCEPT !.current_map = map] EXCEPT !.current_req = req]
  BY <1>1 DEF L!NewEntry
<1>3. DOMAIN req = DOMAIN u.current_req \cup {w}
  BY DEF L!Insert
<1> HIDE DEF req, map, aging, new
<1>4. /\ new.in_request = u.in_request /\ new.current_req = req
      /\ new.out_mem_requst = u.out_mem_requst
  BY <1>1, <1>2
<1> QED BY <1>3, <1>4 DEF UnitHolds, new

\* A cycle of a list write unit
LEMMA UnitHoldsCycle ==
  ASSUME NEW S, NEW T, S \subseteq Assign, S # {} => T = Assign, NEW u \in UnitSet(S, T),
         NEW v, UnitHolds(u, v)
  PROVE  UnitHolds(L!DoCycle(u), v)
<1> DEFINE h == Head(u.in_request)
           r == [h EXCEPT !.type = "WriteWatcherList"]
           w == L!ValueOf(r)
           popped == [u EXCEPT !.in_request = Tail(@)]
<1>1. CASE u.in_request = <<>>
  BY <1>1 DEF L!DoCycle
<1>2. CASE u.in_request # <<>>
  <2>1. u.in_request \in Seq(Listed(S))
    BY UnitParts
  <2>2. h \in Listed(S) /\ Tail(u.in_request) \in Seq(Listed(S))
    BY <1>2, <2>1, TailElements
  <2>3. r \in Listed(S) /\ r.type = "WriteWatcherList" /\ w = L!ValueOf(h)
    <3> HIDE DEF h
    <3> QED BY <2>2 DEF Listed, Owned, Request, AccessType, L!ValueOf
  <2>4. popped \in UnitSet(S, T)
    <3>1. PICK in, o, mp, rq, ag :
            u = [in_request |-> in, out_mem_requst |-> o, current_map |-> mp,
                 current_req |-> rq, entry_aging_queue |-> ag]
      BY UnitParts
    <3>2. popped = [in_request |-> Tail(u.in_request), out_mem_requst |-> o, current_map |-> mp,
                    current_req |-> rq, entry_aging_queue |-> ag]
      <4> DEFINE t == Tail(u.in_request)
      <4> HIDE DEF t
      <4>1. [u EXCEPT !.in_request = t]
            = [in_request |-> t, out_mem_requst |-> o, current_map |-> mp,
               current_req |-> rq, entry_aging_queue |-> ag]
        BY <3>1
      <4> QED BY <4>1 DEF t
    <3>3. /\ o = u.out_mem_requst /\ mp = u.current_map
          /\ rq = u.current_req /\ ag = u.entry_aging_queue
      BY <3>1
    <3> HIDE DEF popped
    <3>4. [in_request |-> Tail(u.in_request), out_mem_requst |-> u.out_mem_requst,
           current_map |-> u.current_map, current_req |-> u.current_req,
           entry_aging_queue |-> u.entry_aging_queue] \in UnitSet(S, T)
      <4>1. /\ u.current_map \in [DOMAIN u.current_req -> Int]
            /\ u.current_req \in [DOMAIN u.current_req -> ListWrites]
            /\ DOMAIN u.current_req \in SUBSET Entries(T)
            /\ u.out_mem_requst \in Seq(ListWrites)
            /\ u.entry_aging_queue \in Seq(Entries(T))
            /\ \A x \in DOMAIN u.current_req :
                    /\ L!ValueOf(u.current_req[x]) = x
                    /\ \E k \in DOMAIN u.entry_aging_queue : u.entry_aging_queue[k] = x
        BY UnitParts
      <4> QED BY <2>2, <4>1, UnitMade
    <3> QED BY <3>2, <3>3, <3>4
  <2>5. /\ popped.in_request = Tail(u.in_request) /\ popped.current_map = u.current_map
        /\ popped.current_req = u.current_req /\ popped.out_mem_requst = u.out_mem_requst
        /\ DOMAIN u.current_map = DOMAIN u.current_req
    BY UnitParts DEF UnitSet
  <2>6. r \in ListWrites
    <3>1. r \in Listed(Assign)
      BY <2>3, KindsMonotone
    <3> QED BY <2>3, <3>1 DEF ListWrites
  <2> HIDE DEF popped
  <2>7. UnitHolds(popped, v) \/ v = w
    <3>1. ASSUME Holds(u.in_request, ForList(v)) PROVE v = w \/ Holds(Tail(u.in_request), ForList(v))
      <4>1. h \in ForList(v) \/ Holds(Tail(u.in_request), ForList(v))
        BY <2>1, <3>1, HoldsTail
      <4>2. h \in ForList(v) => v = w
        BY <2>3 DEF ForList
      <4> QED BY <4>1, <4>2
    <3> HIDE DEF h, r, w
    <3> QED BY <2>5, <3>1 DEF UnitHolds
  <2> HIDE DEF r, h, w
  <2>8. CASE w \in DOMAIN u.current_map
    <3>1. L!DoCycle(u) = L!MergeEntry(popped, w, r)
      BY <1>2, <2>8 DEF L!DoCycle, popped, w, r, h
    <3>2. UnitHolds(popped, v)
      BY <2>5, <2>7, <2>8 DEF UnitHolds
    <3>3. w = L!ValueOf(r) /\ w \in DOMAIN popped.current_map
      BY <2>5, <2>8 DEF w
    <3> QED BY <2>4, <2>6, <3>1, <3>2, <3>3, MergeHolds
  <2>9. CASE w \notin DOMAIN u.current_map
    <3> DEFINE room == IF L!Full(u) THEN L!EvictEntry(popped) ELSE popped
    <3>1. L!DoCycle(u) = L!NewEntry(room, w, r)
      BY <1>2, <2>9 DEF L!DoCycle, popped, w, r, h
    <3>2. room \in UnitSet(S, T) /\ (UnitHolds(popped, v) => UnitHolds(room, v))
      <4>1. CASE L!Full(u)
        <5>1. DOMAIN u.current_map # {}
          <6>1. L!Cardinality({}) = 0
            BY FS_EmptySet DEF Cardinality, L!Cardinality
          <6>2. max_entry \in Nat /\ max_entry > 0
            BY AccAssumption
          <6> QED BY <4>1, <6>1, <6>2 DEF L!Full
        <5>2. DOMAIN popped.current_req # {}
          BY <2>5, <5>1
        <5>3. UnitHolds(popped, v) => UnitHolds(L!EvictEntry(popped), v)
          BY <2>4, <5>2, EvictHolds
        <5> QED BY <2>4, <4>1, <5>2, <5>3, EvictKeeps
      <4>2. CASE ~ L!Full(u)
        BY <2>4, <4>2
      <4> QED BY <4>1, <4>2
    <3> HIDE DEF room
    <3> QED BY <2>7, <3>1, <3>2, EntryHolds
  <2> QED BY <2>8, <2>9
<1> QED BY <1>1, <1>2

\* flush sends the write of every entry.
LEMMA FlushHolds ==
  ASSUME NEW S, NEW T, NEW u \in UnitSet(S, T),
         NEW order \in L!KeyOrders(u.current_req), NEW v, UnitHolds(u, v)
  PROVE  UnitHolds(L!FlushUnit(u, order), v)
<1> DEFINE D == DOMAIN u.current_req
           q == u.entry_aging_queue
           n == L!Cardinality(D)
           sent == L!InOrder(u.current_req, order)
           out == u.out_mem_requst \o sent
           new == L!FlushUnit(u, order)
<1>1. /\ u.current_req \in [D -> ListWrites]
      /\ u.out_mem_requst \in Seq(ListWrites) /\ q \in Seq(Entries(T))
      /\ \A x \in D : /\ L!ValueOf(u.current_req[x]) = x
                      /\ \E k \in DOMAIN q : q[k] = x
  BY UnitParts
<1>2. IsFiniteSet(D)
  <2> HIDE DEF q, D
  <2>1. Range(q) = {q[k] : k \in DOMAIN q} /\ DOMAIN q = 1 .. Len(q) /\ Len(q) \in Nat
    BY <1>1 DEF Range
  <2>2. q \in Surjection(1 .. Len(q), Range(q))
    <3>1. q \in [1 .. Len(q) -> Range(q)]
      BY <1>1, <2>1
    <3>2. \A x \in Range(q) : \E k \in 1 .. Len(q) : q[k] = x
      BY <2>1
    <3> QED BY <3>1, <3>2 DEF Surjection
  <2>3. IsFiniteSet(1 .. Len(q))
    BY <2>1, FS_Interval
  <2>4. D \subseteq Range(q)
    BY <1>1, <2>1
  <2> QED BY <2>2, <2>3, <2>4, FS_Surjection, FS_Subset
<1>3. n = Cardinality(D) /\ n \in Nat
  <2>1. Cardinality(D) \in Nat
    BY <1>2, FS_CardinalityType
  <2>2. L!Cardinality(D) = Cardinality(D)
    BY DEF Cardinality, L!Cardinality
  <2> QED BY <2>1, <2>2
<1>4. /\ order \in [1 .. n -> D]
      /\ \A i, j \in 1 .. n : i # j => order[i] # order[j]
  <2>1. /\ order \in [1 .. n -> D]
        /\ \A i, j \in 1 .. n : order[i] = order[j] => i = j
    BY DEF L!KeyOrders, L!SetToSeqs, L!IsInjective
  <2> QED BY <2>1
<1> HIDE DEF D, q, n
\* an injective sequence of as many elements as there are has them all
<1>5. \A x \in D : \E i \in 1 .. n : order[i] = x
  <2> DEFINE R == {order[i] : i \in 1 .. n}
  <2>1. order \in Bijection(1 .. n, R)
    <3>1. order \in Surjection(1 .. n, R)
      <4>1. order \in [1 .. n -> R]
        BY <1>4
      <4> QED BY <4>1 DEF Surjection
    <3>2. order \in Injection(1 .. n, R)
      <4>1. order \in [1 .. n -> R]
        BY <1>4
      <4> QED BY <1>4, <4>1 DEF Injection, IsInjective
    <3> QED BY <3>1, <3>2 DEF Bijection
  <2>2. IsFiniteSet(1 .. n) /\ Cardinality(1 .. n) = n
    BY <1>3, FS_Interval
  <2>3. ExistsBijection(1 .. n, R)
    BY <2>1 DEF ExistsBijection
  <2> HIDE DEF R
  <2>4. IsFiniteSet(R) /\ Cardinality(R) = n
    BY <2>2, <2>3, FS_Bijection
  <2>5. R \subseteq D
    BY <1>4 DEF R
  <2>6. R = D
    BY <1>2, <1>3, <2>4, <2>5, FS_Subset
  <2> QED BY <2>6 DEF R
<1>6. sent \in Seq(ListWrites) /\ \A i \in 1 .. n : i \in DOMAIN sent /\ sent[i] = u.current_req[order[i]]
  <2> DEFINE f == u.current_req
  <2>1. f \in [D -> ListWrites] /\ order \in [1 .. n -> D] /\ n \in Nat
    BY <1>1, <1>3, <1>4
  <2> HIDE DEF f
  <2>2. sent \in [1 .. n -> ListWrites] /\ \A i \in 1 .. n : sent[i] = f[order[i]]
    BY <2>1 DEF L!InOrder, f
  <2> HIDE DEF sent
  <2> QED BY <2>1, <2>2 DEF f
<1> HIDE DEF sent
<1>7. ASSUME v \in D PROVE Holds(sent, ForList(v))
  <2>1. PICK i \in 1 .. n : order[i] = v
    BY <1>5, <1>7
  <2>2. sent[i] \in Range(sent) /\ sent[i] = u.current_req[v]
    BY <1>6, <2>1 DEF Range
  <2>3. u.current_req[v] \in ListWrites /\ L!ValueOf(u.current_req[v]) = v
    BY <1>1, <1>7
  <2>4. u.current_req[v] \in ForList(v)
    BY <2>3, WritesForList
  <2> QED BY <2>2, <2>4 DEF Holds
<1>8. PICK in, o, mp, rq, ag :
        u = [in_request |-> in, out_mem_requst |-> o, current_map |-> mp,
             current_req |-> rq, entry_aging_queue |-> ag]
  BY UnitParts
<1>9. new = [[[[u EXCEPT !.entry_aging_queue = <<>>] EXCEPT !.out_mem_requst = out]
                EXCEPT !.current_map = L!EmptyMap] EXCEPT !.current_req = L!EmptyMap]
  BY <1>8 DEF L!FlushUnit, sent
<1> HIDE DEF out, new
<1>10. new.in_request = u.in_request /\ new.out_mem_requst = out
  BY <1>8, <1>9
<1>11. Holds(u.out_mem_requst, ForList(v)) \/ Holds(sent, ForList(v)) => Holds(out, ForList(v))
  BY <1>1, <1>6, HoldsConcat DEF out
<1> QED BY <1>7, <1>10, <1>11 DEF UnitHolds, D, new

\* A write that leaves a unit
LEMMA UnitHoldsPop ==
  ASSUME NEW S, NEW T, NEW u \in UnitSet(S, T), u.out_mem_requst # <<>>, NEW v, UnitHolds(u, v)
  PROVE  UnitHolds([u EXCEPT !.out_mem_requst = Tail(@)], v) \/ L!ValueOf(Head(u.out_mem_requst)) = v
<1> DEFINE q == u.out_mem_requst
           new == [u EXCEPT !.out_mem_requst = Tail(@)]
<1>1. q \in Seq(ListWrites)
  BY UnitParts
<1>2. /\ new.in_request = u.in_request /\ new.current_req = u.current_req
      /\ new.out_mem_requst = Tail(q)
  BY DEF UnitSet
<1> HIDE DEF new
<1>3. ASSUME Holds(q, ForList(v)) PROVE Holds(Tail(q), ForList(v)) \/ L!ValueOf(Head(q)) = v
  <2>1. Head(q) \in ForList(v) \/ Holds(Tail(q), ForList(v))
    BY <1>1, <1>3, HoldsTail
  <2> QED BY <2>1 DEF ForList
<1> HIDE DEF q
<1> QED BY <1>2, <1>3 DEF UnitHolds, q, new

\* The requests for assignment a; the reads for it that stand for the rest of its
\* list: its meta data, the last line and the last value; the requests for watcher
\* k and for one up to k.
Of(a)       == {r \in Request : r.as = a}
LastRead(a) == {r \in Of(a) : \/ r.type = "ReadWatcherMetaData"
                              \/ r.type = "ReadWatcherData" /\ W!LastLine(r)
                              \/ r.type = "ReadWatcherValue" /\ W!LastValue(r)}
Upto(a, k)   == {r \in Of(a) : r.watcherId <= k}
Update(a, k) == {r \in Of(a) : r.watcherId = k}

\* A watcher has still to send the update for watcher k of assignment a.
WatcherHolds(w, a, k) ==
  \/ Holds(w.in_task_queue, Of(a)) \/ Holds(w.waiting_read_meta_queue, Of(a))
  \/ Holds(w.waiting_read_watcher_queue, Of(a)) \/ Holds(w.waiting_value_watcher_queue, Of(a))
  \/ Holds(w.out_memory_read_queue, LastRead(a)) \/ Holds(w.in_memory_resp_queue, LastRead(a))
  \/ Holds(w.waiting_process_queue, Upto(a, k))
  \/ Holds(w.out_write_watcher_list_queue, Update(a, k))

\* The request at the head of a queue is edited.
LEMMA HoldsEdited ==
  ASSUME NEW Y, NEW q \in Seq(Y), q # <<>>, NEW e, NEW X, Holds(q, X)
  PROVE  /\ Head(q) \in X \/ Holds([q EXCEPT ![1] = e], X)
         /\ e \in X => Holds([q EXCEPT ![1] = e], X)
<1> DEFINE x == [q EXCEPT ![1] = e]
<1>1. /\ Len(q) \in Nat /\ DOMAIN q = 1 .. Len(q) /\ 1 \in DOMAIN q /\ Head(q) = q[1]
      /\ DOMAIN x = DOMAIN q /\ x[1] = e /\ \A j \in DOMAIN q : j # 1 => x[j] = q[j]
  OBVIOUS
<1> HIDE DEF x
<1>2. PICK j \in DOMAIN q : q[j] \in X
  BY DEF Holds, Range
<1>3. \A l \in DOMAIN q : x[l] \in Range(x)
  BY <1>1 DEF Range
<1> QED BY <1>1, <1>2, <1>3 DEF Holds, x

\* What the queue of the lists in work holds after its head has dealt with n
\* more watchers
LEMMA AdvanceHolds ==
  ASSUME NEW S, NEW q \in Seq(Owned(S)), q # <<>>, NEW n \in Nat, NEW a \in Assign, NEW k \in Nat,
         k < get_watcher_size[a]
  PROVE  /\ Holds(q, Of(a)) => \/ Holds(W!Advance(q, n), Of(a))
                               \/ /\ Head(q) \in Of(a)
                                  /\ Head(q).watcherId + n >= get_watcher_size[a]
         /\ Holds(q, Upto(a, k)) => \/ Holds(W!Advance(q, 1), Upto(a, k))
                                    \/ Head(q) \in Update(a, k)
<1> DEFINE h == Head(q)
           e(l) == [h EXCEPT !.watcherId = @ + l]
<1>1. h \in Owned(S) /\ h = q[1] /\ 1 \in DOMAIN q
  BY TailElements
<1>2. h \in Request /\ h.watcherId \in Nat /\ h.as \in Assign /\ get_watcher_size[h.as] \in Int
  BY <1>1, TableAssumption DEF Owned, Request
<1>3. \A l : [q EXCEPT ![1].watcherId = @ + l] = [q EXCEPT ![1] = e(l)]
  BY <1>1
<1> HIDE DEF h
<1>4. \A l \in Nat : e(l) \in Request /\ e(l).as = h.as /\ e(l).watcherId = h.watcherId + l
  BY <1>2 DEF Request
<1> HIDE DEF e
<1>5. \A l : W!Advance(q, l) = IF h.watcherId + l >= get_watcher_size[h.as] THEN Tail(q)
                               ELSE [q EXCEPT ![1] = e(l)]
  BY <1>3 DEF W!Advance, W!Size, h
<1>6. ASSUME Holds(q, Of(a)), ~ (h \in Of(a) /\ h.watcherId + n >= get_watcher_size[a])
      PROVE  Holds(W!Advance(q, n), Of(a))
  <2>1. CASE h.watcherId + n >= get_watcher_size[h.as]
    <3>1. h \notin Of(a)
      BY <1>6, <2>1 DEF Of
    <3>2. Holds(Tail(q), Of(a))
      BY <1>6, <3>1, HoldsTail DEF h
    <3> QED BY <1>5, <2>1, <3>2
  <2>2. CASE ~ (h.watcherId + n >= get_watcher_size[h.as])
    <3>1. h \in Of(a) => e(n) \in Of(a)
      BY <1>4 DEF Of
    <3>2. Holds([q EXCEPT ![1] = e(n)], Of(a))
      BY <1>6, <3>1, HoldsEdited DEF h
    <3> QED BY <1>5, <2>2, <3>2
  <2> QED BY <2>1, <2>2
<1>7. ASSUME Holds(q, Upto(a, k)), h \notin Update(a, k)
      PROVE  Holds(W!Advance(q, 1), Upto(a, k))
  <2>1. h \in Upto(a, k) => h.as = a /\ h.watcherId + 1 <= k
    BY <1>2, <1>7 DEF Upto, Of, Update
  <2>2. CASE h.watcherId + 1 >= get_watcher_size[h.as]
    <3>1. h \notin Upto(a, k)
      <4>1. get_watcher_size[a] \in Int
        BY TableAssumption
      <4> QED BY <1>2, <2>1, <2>2, <4>1
    <3>2. Holds(Tail(q), Upto(a, k))
      BY <1>7, <3>1, HoldsTail DEF h
    <3> QED BY <1>5, <2>2, <3>2
  <2>3. CASE ~ (h.watcherId + 1 >= get_watcher_size[h.as])
    <3>1. h \in Upto(a, k) => e(1) \in Upto(a, k)
      BY <1>2, <1>4, <2>1 DEF Upto, Of
    <3>2. Holds([q EXCEPT ![1] = e(1)], Upto(a, k))
      BY <1>7, <3>1, HoldsEdited DEF h
    <3> QED BY <1>5, <2>3, <3>2
  <2> QED BY <2>2, <2>3
<1> QED BY <1>6, <1>7 DEF h

\* The steps of a watcher: the meta data is asked for.
LEMMA MetaOutHolds ==
  ASSUME NEW S, NEW i, NEW w \in WatcherSet(S, i), NEW a, NEW k, WatcherHolds(w, a, k)
  PROVE  WatcherHolds(W!FromWatcherMetaToMemory(w), a, k)
<1> DEFINE q == w.waiting_read_meta_queue
           r == [Head(q) EXCEPT !.type = "ReadWatcherMetaData", !.watcherId = 0]
           out == Append(w.out_memory_read_queue, r)
           new == [w EXCEPT !.out_memory_read_queue = Append(@, r),
                            !.waiting_read_meta_queue = Tail(@)]
<1>1. CASE q = <<>>
  BY <1>1 DEF W!FromWatcherMetaToMemory
<1>2. CASE q # <<>>
  <2>1. q \in Seq(Fresh(S)) /\ w.out_memory_read_queue \in Seq(ListReads(S))
    BY DEF WatcherSet
  <2>2. Head(q) \in Fresh(S)
    BY <1>2, <2>1, TailElements
  <2>3. r \in ListReads(S)
    BY <2>2 DEF Fresh, ListReads, Owned, Request, WatcherReads, AccessType
  <2>4. Head(q) \in Of(a) => r \in LastRead(a)
    BY <2>2 DEF Fresh, Request, AccessType, LastRead, Of
  <2>5. W!FromWatcherMetaToMemory(w) = new
    BY <1>2 DEF W!FromWatcherMetaToMemory
  <2>6. /\ new.in_task_queue = w.in_task_queue /\ new.waiting_read_meta_queue = Tail(q)
        /\ new.waiting_read_watcher_queue = w.waiting_read_watcher_queue
        /\ new.waiting_value_watcher_queue = w.waiting_value_watcher_queue
        /\ new.out_memory_read_queue = out
        /\ new.in_memory_resp_queue = w.in_memory_resp_queue
        /\ new.waiting_process_queue = w.waiting_process_queue
        /\ new.out_write_watcher_list_queue = w.out_write_watcher_list_queue
    BY DEF WatcherSet
  <2> HIDE DEF new, r
  <2>7. Holds(q, Of(a)) => Holds(Tail(q), Of(a)) \/ r \in LastRead(a)
    BY <2>1, <2>4, HoldsTail
  <2>8. Holds(w.out_memory_read_queue, LastRead(a)) \/ r \in LastRead(a) => Holds(out, LastRead(a))
    BY <2>1, <2>3, HoldsAppend
  <2> HIDE DEF q, out
  <2> QED BY <2>5, <2>6, <2>7, <2>8 DEF WatcherHolds, q
<1> QED BY <1>1, <1>2

\* A value is asked for.
LEMMA ValueOutHolds ==
  ASSUME NEW S, NEW i, NEW w \in WatcherSet(S, i), NEW a \in Assign, NEW k \in Nat,
         k < get_watcher_size[a], WatcherHolds(w, a, k)
  PROVE  WatcherHolds(W!FromValueToOutMem(w), a, k)
<1> DEFINE q == w.waiting_value_watcher_queue
           h == Head(q)
           r == [h EXCEPT !.type = "ReadWatcherValue"]
           out == Append(w.out_memory_read_queue, r)
           rest == W!Advance(q, 1)
           new == [w EXCEPT !.out_memory_read_queue = Append(@, r),
                            !.outgoing_read_watcher_value = @ + 1,
                            !.waiting_value_watcher_queue = rest]
<1>1. CASE q = <<>>
  BY <1>1 DEF W!FromValueToOutMem
<1>2. CASE q # <<>>
  <2>1. q \in Seq(Listed(S)) /\ w.out_memory_read_queue \in Seq(ListReads(S))
    BY DEF WatcherSet
  <2>2. h \in Listed(S) /\ h \in Owned(S) /\ q \in Seq(Owned(S))
    <3>1. Listed(S) \subseteq Owned(S)
      BY DEF Listed
    <3> QED BY <1>2, <2>1, <3>1, TailElements
  <2>3. r \in ListReads(S)
    BY <2>2, ListEdited DEF WatcherReads
  <2>4. h \in Of(a) /\ h.watcherId + 1 >= get_watcher_size[a] => r \in LastRead(a)
    <3> HIDE DEF h
    <3> QED BY <2>2 DEF Owned, Request, AccessType, LastRead, Of, W!LastValue, W!Size
  <2>5. W!FromValueToOutMem(w) = new
    BY <1>2 DEF W!FromValueToOutMem
  <2>6. Holds(q, Of(a)) => Holds(rest, Of(a)) \/ r \in LastRead(a)
    BY <1>2, <2>2, <2>4, AdvanceHolds
  <2> HIDE DEF rest
  <2>7. /\ new.in_task_queue = w.in_task_queue
        /\ new.waiting_read_meta_queue = w.waiting_read_meta_queue
        /\ new.waiting_read_watcher_queue = w.waiting_read_watcher_queue
        /\ new.waiting_value_watcher_queue = rest
        /\ new.out_memory_read_queue = out
        /\ new.in_memory_resp_queue = w.in_memory_resp_queue
        /\ new.waiting_process_queue = w.waiting_process_queue
        /\ new.out_write_watcher_list_queue = w.out_write_watcher_list_queue
    BY DEF WatcherSet
  <2> HIDE DEF new, r
  <2>8. Holds(w.out_memory_read_queue, LastRead(a)) \/ r \in LastRead(a) => Holds(out, LastRead(a))
    BY <2>1, <2>3, HoldsAppend
  <2> HIDE DEF q, out
  <2> QED BY <2>5, <2>6, <2>7, <2>8 DEF WatcherHolds, q
<1> QED BY <1>1, <1>2

\* A watcher is processed: the update of its list is sent.
LEMMA ProcessHolds ==
  ASSUME NEW S, NEW i, NEW w \in WatcherSet(S, i), NEW a \in Assign, NEW k \in Nat,
         k < get_watcher_size[a], WatcherHolds(w, a, k)
  PROVE  WatcherHolds(W!FromProcessToOut(w), a, k)
<1> DEFINE q == w.waiting_process_queue
           h == Head(q)
           task == [h EXCEPT !.clauseId = 0]
           rest == W!Advance(q, 1)
           send == IF <<h.as, h.watcherId>> \in is_read_clause
                   THEN Append(w.out_send_queue, task) ELSE w.out_send_queue
           count == IF h.watcherId + 1 >= W!Size(h)
                    THEN w.num_inflight_request - 1 ELSE w.num_inflight_request
           out == Append(w.out_write_watcher_list_queue, h)
           new == [w EXCEPT !.out_write_watcher_list_queue = out, !.out_send_queue = send,
                            !.num_inflight_request = count, !.waiting_process_queue = rest]
<1>1. CASE q = <<>>
  BY <1>1 DEF W!FromProcessToOut
<1>2. CASE q # <<>>
  <2>1. /\ q \in Seq(From(Listed(S), i))
        /\ w.out_write_watcher_list_queue \in Seq(From(Listed(S), i))
    BY DEF WatcherSet
  <2>2. h \in From(Listed(S), i) /\ q \in Seq(Owned(S))
    <3>1. From(Listed(S), i) \subseteq Owned(S)
      BY DEF Listed, From
    <3> QED BY <1>2, <2>1, <3>1, TailElements
  <2>3. W!FromProcessToOut(w) = new
    BY <1>2 DEF W!FromProcessToOut
  <2>4. Holds(q, Upto(a, k)) => Holds(rest, Upto(a, k)) \/ h \in Update(a, k)
    BY <1>2, <2>2, AdvanceHolds
  <2>5. Holds(w.out_write_watcher_list_queue, Update(a, k)) \/ h \in Update(a, k)
        => Holds(out, Update(a, k))
    BY <2>1, <2>2, HoldsAppend
  <2> HIDE DEF rest, send, count, out
  <2>6. /\ new.in_task_queue = w.in_task_queue
        /\ new.waiting_read_meta_queue = w.waiting_read_meta_queue
        /\ new.waiting_read_watcher_queue = w.waiting_read_watcher_queue
        /\ new.waiting_value_watcher_queue = w.waiting_value_watcher_queue
        /\ new.out_memory_read_queue = w.out_memory_read_queue
        /\ new.in_memory_resp_queue = w.in_memory_resp_queue
        /\ new.waiting_process_queue = rest
        /\ new.out_write_watcher_list_queue = out
    BY DEF WatcherSet
  <2> HIDE DEF new, q
  <2> QED BY <2>3, <2>4, <2>5, <2>6 DEF WatcherHolds, q
<1> QED BY <1>1, <1>2

\* A line is asked for; a list with a watcher is not taken for an empty one.
LEMMA DataOutHolds ==
  ASSUME NEW S, NEW i, NEW w \in WatcherSet(S, i), NEW a \in Assign, NEW k \in Nat,
         k < get_watcher_size[a], WatcherHolds(w, a, k)
  PROVE  WatcherHolds(W!FromReadWatcherToMem(w), a, k)
<1> DEFINE q == w.waiting_read_watcher_queue
           h == Head(q)
           r == [h EXCEPT !.type = "ReadWatcherData"]
           rest == W!Advance(q, LineSize)
           out == Append(w.out_memory_read_queue, r)
           gone == [w EXCEPT !.waiting_read_watcher_queue = Tail(@), !.num_inflight_request = @ - 1]
           new == [w EXCEPT !.out_memory_read_queue = Append(@, r),
                            !.outgoing_read_watcher_data = @ + 1,
                            !.waiting_read_watcher_queue = rest]
<1>1. CASE q = <<>>
  BY <1>1 DEF W!FromReadWatcherToMem
<1>2. CASE q # <<>>
  <2>1. q \in Seq(Owned(S)) /\ w.out_memory_read_queue \in Seq(ListReads(S))
    BY DEF WatcherSet
  <2>2. h \in Owned(S)
    BY <1>2, <2>1, TailElements
  <2>3. h.watcherId \in Nat /\ W!Size(h) \in Int /\ W!Size(h) = get_watcher_size[h.as]
        /\ (h.watcherId = 0 \/ h.watcherId < W!Size(h))
    BY <2>2, TableAssumption DEF Owned, Request, W!Size
  <2>4. CASE h.watcherId >= W!Size(h)
    <3>1. W!FromReadWatcherToMem(w) = gone
      BY <1>2, <2>3, <2>4 DEF W!FromReadWatcherToMem
    <3>2. h \notin Of(a)
      BY <2>3, <2>4 DEF Of
    <3>3. Holds(q, Of(a)) => Holds(Tail(q), Of(a))
      BY <2>1, <3>2, HoldsTail
    <3>4. /\ gone.in_task_queue = w.in_task_queue
          /\ gone.waiting_read_meta_queue = w.waiting_read_meta_queue
          /\ gone.waiting_read_watcher_queue = Tail(q)
          /\ gone.waiting_value_watcher_queue = w.waiting_value_watcher_queue
          /\ gone.out_memory_read_queue = w.out_memory_read_queue
          /\ gone.in_memory_resp_queue = w.in_memory_resp_queue
          /\ gone.waiting_process_queue = w.waiting_process_queue
          /\ gone.out_write_watcher_list_queue = w.out_write_watcher_list_queue
      BY DEF WatcherSet
    <3> HIDE DEF gone, q
    <3> QED BY <3>1, <3>3, <3>4 DEF WatcherHolds, q
  <2>5. CASE h.watcherId < W!Size(h)
    <3>1. W!FromReadWatcherToMem(w) = new
      BY <1>2, <2>3, <2>5 DEF W!FromReadWatcherToMem
    <3>2. r \in ListReads(S)
      <4>1. h \in Listed(S)
        BY <2>2, <2>5 DEF Listed, W!Size
      <4> QED BY <2>2, <4>1, ListEdited DEF WatcherReads
    <3>3. h \in Of(a) /\ h.watcherId + LineSize >= get_watcher_size[a] => r \in LastRead(a)
      <4> HIDE DEF h
      <4> QED BY <2>2 DEF Owned, Request, AccessType, LastRead, Of, W!LastLine, W!Size
    <3>4. Holds(q, Of(a)) => Holds(rest, Of(a)) \/ r \in LastRead(a)
      BY <1>2, <2>1, <3>3, AdvanceHolds, AccAssumption
    <3>5. Holds(w.out_memory_read_queue, LastRead(a)) \/ r \in LastRead(a) => Holds(out, LastRead(a))
      BY <2>1, <3>2, HoldsAppend
    <3> HIDE DEF rest
    <3>6. /\ new.in_task_queue = w.in_task_queue
          /\ new.waiting_read_meta_queue = w.waiting_read_meta_queue
          /\ new.waiting_read_watcher_queue = rest
          /\ new.waiting_value_watcher_queue = w.waiting_value_watcher_queue
          /\ new.out_memory_read_queue = out
          /\ new.in_memory_resp_queue = w.in_memory_resp_queue
          /\ new.waiting_process_queue = w.waiting_process_queue
          /\ new.out_write_watcher_list_queue = w.out_write_watcher_list_queue
      BY DEF WatcherSet
    <3> HIDE DEF new, r, q, out
    <3> QED BY <3>1, <3>4, <3>5, <3>6 DEF WatcherHolds, q
  <2> QED BY <2>3, <2>4, <2>5
<1> QED BY <1>1, <1>2

\* A task enters.
LEMMA TaskInHolds ==
  ASSUME NEW S, NEW i, NEW w \in WatcherSet(S, i), NEW a, NEW k, WatcherHolds(w, a, k)
  PROVE  WatcherHolds(W!FromInToRead(w), a, k)
<1> DEFINE q == w.in_task_queue
           r == [Head(q) EXCEPT !.type = "ReadWatcherMetaData"]
           meta == Append(w.waiting_read_meta_queue, r)
           new == [w EXCEPT !.num_inflight_request = @ + 1, !.waiting_read_meta_queue = Append(@, r),
                            !.in_task_queue = Tail(@)]
<1>1. CASE q = <<>>
  BY <1>1 DEF W!FromInToRead
<1>2. CASE q # <<>>
  <2>1. q \in Seq(Fresh(S)) /\ w.waiting_read_meta_queue \in Seq(Fresh(S))
    BY DEF WatcherSet
  <2>2. Head(q) \in Fresh(S)
    BY <1>2, <2>1, TailElements
  <2>3. r \in Fresh(S) /\ (Head(q) \in Of(a) => r \in Of(a))
    BY <2>2 DEF Fresh, Request, AccessType, Of
  <2>4. W!FromInToRead(w) = new
    BY <1>2 DEF W!FromInToRead
  <2>5. /\ new.in_task_queue = Tail(q) /\ new.waiting_read_meta_queue = meta
        /\ new.waiting_read_watcher_queue = w.waiting_read_watcher_queue
        /\ new.waiting_value_watcher_queue = w.waiting_value_watcher_queue
        /\ new.out_memory_read_queue = w.out_memory_read_queue
        /\ new.in_memory_resp_queue = w.in_memory_resp_queue
        /\ new.waiting_process_queue = w.waiting_process_queue
        /\ new.out_write_watcher_list_queue = w.out_write_watcher_list_queue
    BY DEF WatcherSet
  <2> HIDE DEF new, r
  <2>6. Holds(q, Of(a)) => Holds(Tail(q), Of(a)) \/ r \in Of(a)
    BY <2>1, <2>3, HoldsTail
  <2>7. Holds(w.waiting_read_meta_queue, Of(a)) \/ r \in Of(a) => Holds(meta, Of(a))
    BY <2>1, <2>3, HoldsAppend
  <2> HIDE DEF q, meta
  <2> QED BY <2>4, <2>5, <2>6, <2>7 DEF WatcherHolds, q
<1> QED BY <1>1, <1>2

\* The last answer of a kind moves the list on.
LEMMA RespHolds ==
  ASSUME NEW S, NEW i, NEW w \in WatcherSet(S, i), NEW a, NEW k \in Nat, WatcherHolds(w, a, k)
  PROVE  WatcherHolds(W!FromRespToInsider(w), a, k)
<1> DEFINE q == w.in_memory_resp_queue
           h == Head(q)
           restart == [h EXCEPT !.watcherId = 0]
           again == [restart EXCEPT !.type = "ReadWatcherData"]
           popped == W!CountAnswer([w EXCEPT !.in_memory_resp_queue = Tail(@)], h)
           new == W!FromRespToInsider(w)
           values == IF h.type = "ReadWatcherData" /\ W!LastLine(h)
                     THEN Append(w.waiting_value_watcher_queue, restart)
                     ELSE w.waiting_value_watcher_queue
           process == IF h.type = "ReadWatcherValue" /\ W!LastValue(h)
                      THEN Append(w.waiting_process_queue, restart)
                      ELSE w.waiting_process_queue
           lists == IF h.type = "ReadWatcherMetaData"
                    THEN Append(w.waiting_read_watcher_queue, again)
                    ELSE w.waiting_read_watcher_queue
<1>1. CASE q = <<>>
  BY <1>1 DEF W!FromRespToInsider
<1>2. CASE q # <<>>
  <2>1. /\ q \in Seq(From(ListReads(S), i)) /\ w.waiting_value_watcher_queue \in Seq(Listed(S))
        /\ w.waiting_process_queue \in Seq(From(Listed(S), i))
        /\ w.waiting_read_watcher_queue \in Seq(Owned(S))
    BY DEF WatcherSet
  <2>2. h \in From(ListReads(S), i)
    BY <1>2, <2>1, TailElements
  <2>3. /\ h \in Owned(S) /\ h.ComponentId = i /\ h.type \in WatcherReads
        /\ h.type # "ReadWatcherMetaData" => h \in Listed(S)
    BY <2>2 DEF From, ListReads
  <2>4. /\ restart \in Owned(S)
        /\ h.type # "ReadWatcherMetaData" => restart \in From(Listed(S), i)
        /\ again \in Owned(S)
    <3> HIDE DEF h
    <3> QED BY <2>3, ListEdited DEF From, WatcherReads
  <2>5. h \in Of(a) => restart \in Of(a) /\ restart \in Upto(a, k) /\ again \in Of(a)
    <3> HIDE DEF h
    <3>1. h \in Request
      BY <2>3 DEF Owned
    <3>2. /\ restart \in Request /\ restart.as = h.as /\ restart.watcherId = 0
          /\ again \in Request /\ again.as = h.as
      <4>1. restart \in Request /\ restart.as = h.as /\ restart.watcherId = 0
        BY <3>1 DEF Request
      <4> HIDE DEF restart
      <4>2. again \in Request /\ again.as = restart.as
        BY <4>1 DEF Request, AccessType
      <4> QED BY <4>1, <4>2
    <3> HIDE DEF restart, again
    <3> QED BY <3>2 DEF Of, Upto
  <2>6. /\ new.in_task_queue = w.in_task_queue
        /\ new.waiting_read_meta_queue = w.waiting_read_meta_queue
        /\ new.waiting_read_watcher_queue = lists
        /\ new.waiting_value_watcher_queue = values
        /\ new.out_memory_read_queue = w.out_memory_read_queue
        /\ new.in_memory_resp_queue = Tail(q)
        /\ new.waiting_process_queue = process
        /\ new.out_write_watcher_list_queue = w.out_write_watcher_list_queue
    <3> HIDE DEF h, restart, again
    <3>1. CASE h.type = "ReadWatcherData"
      <4>1. new = [popped EXCEPT !.waiting_value_watcher_queue =
                     IF W!LastLine(h) THEN Append(@, restart) ELSE @]
        BY <1>2, <3>1 DEF W!FromRespToInsider, h, restart
      <4>2. popped = [[w EXCEPT !.in_memory_resp_queue = Tail(@)]
                        EXCEPT !.outgoing_read_watcher_data = @ - 1]
        BY <3>1 DEF W!CountAnswer
      <4> HIDE DEF popped, new
      <4> QED BY <3>1, <4>1, <4>2 DEF WatcherSet
    <3>2. CASE h.type = "ReadWatcherValue"
      <4>1. new = [popped EXCEPT !.waiting_process_queue =
                     IF W!LastValue(h) THEN Append(@, restart) ELSE @]
        BY <1>2, <3>2 DEF W!FromRespToInsider, h, restart
      <4>2. popped = [[w EXCEPT !.in_memory_resp_queue = Tail(@)]
                        EXCEPT !.outgoing_read_watcher_value = @ - 1]
        BY <3>2 DEF W!CountAnswer
      <4> HIDE DEF popped, new
      <4> QED BY <3>2, <4>1, <4>2 DEF WatcherSet
    <3>3. CASE h.type = "ReadWatcherMetaData"
      <4>1. new = [popped EXCEPT !.waiting_read_watcher_queue = Append(@, again)]
        BY <1>2, <3>3 DEF W!FromRespToInsider, h, restart, again
      <4>2. popped = [w EXCEPT !.in_memory_resp_queue = Tail(@)]
        BY <3>3 DEF W!CountAnswer
      <4> HIDE DEF popped, new
      <4> QED BY <3>3, <4>1, <4>2 DEF WatcherSet
    <3> QED BY <2>3, <3>1, <3>2, <3>3 DEF WatcherReads
  <2> HIDE DEF restart, again, new
  <2>7. Holds(w.waiting_value_watcher_queue, Of(a)) => Holds(values, Of(a))
    BY <2>1, <2>4, HoldsAppend DEF From
  <2>8. Holds(w.waiting_process_queue, Upto(a, k)) => Holds(process, Upto(a, k))
    BY <2>1, <2>4, HoldsAppend
  <2>9. Holds(w.waiting_read_watcher_queue, Of(a)) => Holds(lists, Of(a))
    BY <2>1, <2>4, HoldsAppend
  <2>10. ASSUME Holds(q, LastRead(a))
         PROVE  \/ Holds(Tail(q), LastRead(a)) \/ Holds(values, Of(a))
                \/ Holds(process, Upto(a, k)) \/ Holds(lists, Of(a))
    <3>1. h \in LastRead(a) \/ Holds(Tail(q), LastRead(a))
      BY <2>1, <2>10, HoldsTail
    <3> HIDE DEF h
    <3>2. ASSUME h \in LastRead(a), h.type = "ReadWatcherData" PROVE Holds(values, Of(a))
      <4>1. W!LastLine(h) /\ h \in Of(a)
        BY <3>2 DEF LastRead
      <4>2. restart \in Listed(S)
        BY <2>4, <3>2 DEF From
      <4>3. Holds(Append(w.waiting_value_watcher_queue, restart), Of(a))
        BY <2>1, <2>5, <4>1, <4>2, HoldsAppend
      <4> QED BY <3>2, <4>1, <4>3
    <3>3. ASSUME h \in LastRead(a), h.type = "ReadWatcherValue" PROVE Holds(process, Upto(a, k))
      <4>1. W!LastValue(h) /\ h \in Of(a)
        BY <3>3 DEF LastRead
      <4>2. Holds(Append(w.waiting_process_queue, restart), Upto(a, k))
        BY <2>1, <2>4, <2>5, <3>3, <4>1, HoldsAppend
      <4> QED BY <3>3, <4>1, <4>2
    <3>4. ASSUME h \in LastRead(a), h.type = "ReadWatcherMetaData" PROVE Holds(lists, Of(a))
      <4>1. h \in Of(a)
        BY <3>4 DEF LastRead
      <4>2. Holds(Append(w.waiting_read_watcher_queue, again), Of(a))
        BY <2>1, <2>4, <2>5, <4>1, HoldsAppend
      <4> QED BY <3>4, <4>2
    <3> HIDE DEF values, process, lists, q
    <3> QED BY <2>3, <3>1, <3>2, <3>3, <3>4 DEF WatcherReads
  <2> HIDE DEF values, process, lists, q
  <2> QED BY <2>6, <2>7, <2>8, <2>9, <2>10 DEF WatcherHolds, q, new
<1> QED BY <1>1, <1>2

\* A cycle of a watcher
LEMMA WatcherHoldsCycle ==
  ASSUME NEW S, NEW i, NEW w \in WatcherSet(S, i), NEW a \in Assign, NEW k \in Nat,
         k < get_watcher_size[a], WatcherHolds(w, a, k)
  PROVE  WatcherHolds(W!DoCycle(w), a, k)
<1> DEFINE w1 == W!FromWatcherMetaToMemory(w)
           w2 == W!FromValueToOutMem(w1)
           w3 == W!FromProcessToOut(w2)
           w4 == W!FromReadWatcherToMem(w3)
           w5 == W!FromInToRead(w4)
<1>1. w1 \in WatcherSet(S, i) /\ WatcherHolds(w1, a, k)
  BY WatcherMetaOut, MetaOutHolds
<1> HIDE DEF w1
<1>2. w2 \in WatcherSet(S, i) /\ WatcherHolds(w2, a, k)
  BY <1>1, WatcherValueOut, ValueOutHolds
<1> HIDE DEF w2
<1>3. w3 \in WatcherSet(S, i) /\ WatcherHolds(w3, a, k)
  BY <1>2, WatcherProcess, ProcessHolds
<1> HIDE DEF w3
<1>4. w4 \in WatcherSet(S, i) /\ WatcherHolds(w4, a, k)
  BY <1>3, WatcherDataOut, DataOutHolds
<1> HIDE DEF w4
<1>5. w5 \in WatcherSet(S, i) /\ WatcherHolds(w5, a, k)
  BY <1>4, WatcherTaskIn, TaskInHolds
<1> HIDE DEF w5
<1>6. W!DoCycle(w) = W!FromRespToInsider(w5)
  BY DEF W!DoCycle, w1, w2, w3, w4, w5
<1> QED BY <1>5, <1>6, RespHolds
-----------------------------------------------------------------------------
(* The update of a list in the machine                                      *)

\* The answers that the watcher of an assignment waits for: those of its private
\* cache and those of the memory
Awaited(a) == {r \in LastRead(a) : r.ComponentId = WatcherOf(a)}
Fetched(a) == {r \in Awaited(a) : r.type # "ReadWatcherValue"}

\* The list that watcher k of an assignment changes, and the unit that writes it
Changed(a, k) == L!ValueOf([as |-> a, watcherId |-> k])
UnitOf(a, k)  == IF get_pushed[<<a, k>>] = NotPushed THEN WatcherOf(a)
                 ELSE Changed(a, k) % num_watchers

\* The update is on its way to the unit, in a watcher, a private cache, a network
\* or the memory; or the unit has it, or has sent the list.
Held(m, a, k) ==
  \/ WatcherHolds(m.watchers[WatcherOf(a)], a, k)
  \/ CacheHolds(m.m_private_caches[WatcherOf(a)], Awaited(a))
  \/ NetHolds(m.memory_read_icnt, Fetched(a), WatcherOf(a))
  \/ \E p \in Banks : NetHolds(m.memory_read_icnt, Fetched(a), num_watchers + p)
  \/ MemHolds(m.m_cache_interface, Fetched(a))
  \/ NetHolds(m.watcher_to_writer_icnt, Update(a, k), UnitOf(a, k))
  \/ UnitHolds(m.m_watcher_write_unit[UnitOf(a, k)], Changed(a, k))
  \/ <<UnitOf(a, k), Changed(a, k)>> \in m.written

\* The numbers of the watcher and of the write unit; the list of a request.
LEMMA UpdateNumbers ==
  ASSUME NEW a \in Assign, NEW k \in Nat, k < get_watcher_size[a]
  PROVE  /\ WatcherOf(a) \in Tile /\ WatcherOf(a) \in ComponentIds
         /\ TileOf(WatcherOf(a)) = WatcherOf(a)
         /\ WatcherOf(a) \in 0 .. num_watchers - 1 /\ WatcherOf(a) \in 0 .. MemoryNodes - 1
         /\ UnitOf(a, k) \in Tile /\ UnitOf(a, k) \in 0 .. num_watchers - 1
         /\ \A r \in Update(a, k) :
              /\ L!ValueOf(r) = Changed(a, k) /\ r.as = a /\ r.watcherId = k
              /\ get_pushed[<<a, k>>] # NotPushed => Changed(a, k) = get_pushed[<<a, k>>]
<1>1. WatcherOf(a) \in Tile
  BY WatcherNumbers
<1>2. \A i \in Tile : i \in ComponentIds /\ TileOf(i) = i /\ i \in 0 .. num_watchers - 1
                      /\ i \in 0 .. MemoryNodes - 1
  BY ClauseNumbers, BankNumbers DEF TileOf
<1>3. get_pushed[<<a, k>>] # NotPushed =>
        Changed(a, k) = get_pushed[<<a, k>>] /\ Changed(a, k) \in Int
  <2>1. k \in 0 .. get_watcher_size[a] - 1 /\ Value \subseteq Int
    BY TableAssumption
  <2>2. get_pushed[<<a, k>>] \in Value \cup {NotPushed}
    BY <2>1, TableAssumption
  <2> QED BY <2>1, <2>2 DEF Changed, L!ValueOf
<1>4. UnitOf(a, k) \in Tile
  <2>1. CASE get_pushed[<<a, k>>] = NotPushed
    BY <1>1, <2>1 DEF UnitOf
  <2>2. CASE get_pushed[<<a, k>>] # NotPushed
    <3> DEFINE v == Changed(a, k)
    <3>1. v \in Int /\ UnitOf(a, k) = v % num_watchers
      BY <1>3, <2>2 DEF UnitOf
    <3> HIDE DEF v
    <3>2. v % num_watchers \in 0 .. num_watchers - 1
      BY <3>1, Sizes
    <3> QED BY <3>1, <3>2 DEF Tile
  <2> QED BY <2>1, <2>2
<1>5. \A r \in Update(a, k) : /\ L!ValueOf(r) = Changed(a, k) /\ r.as = a /\ r.watcherId = k
  BY DEF Update, Of, Changed, L!ValueOf
<1> QED BY <1>1, <1>2, <1>3, <1>4, <1>5

\* Held looks only at these parts.
LEMMA HeldParts ==
  ASSUME NEW m, NEW x, NEW a, NEW k, Held(m, a, k),
         x.watchers[WatcherOf(a)] = m.watchers[WatcherOf(a)],
         x.m_private_caches = m.m_private_caches, x.memory_read_icnt = m.memory_read_icnt,
         x.m_cache_interface = m.m_cache_interface,
         x.watcher_to_writer_icnt = m.watcher_to_writer_icnt,
         x.m_watcher_write_unit = m.m_watcher_write_unit, x.written = m.written
  PROVE  Held(x, a, k)
BY DEF Held

\* A watcher of which one queue changes
LEMMA WatcherHoldsEdited ==
  ASSUME NEW S, NEW i, NEW w \in WatcherSet(S, i), NEW a, NEW k
  PROVE  /\ \A q : WatcherHolds(w, a, k) => WatcherHolds([w EXCEPT !.out_send_queue = q], a, k)
         /\ \A r \in From(ListReads(S), i) : WatcherHolds(w, a, k) \/ r \in LastRead(a) =>
              WatcherHolds([w EXCEPT !.in_memory_resp_queue = Append(@, r)], a, k)
         /\ \A r \in Fresh(S) : WatcherHolds(w, a, k) \/ r \in Of(a) =>
              WatcherHolds([w EXCEPT !.in_task_queue = Append(@, r)], a, k)
         /\ WatcherHolds(w, a, k) =>
              \/ WatcherHolds([w EXCEPT !.out_memory_read_queue = Tail(@)], a, k)
              \/ w.out_memory_read_queue # <<>> /\ Head(w.out_memory_read_queue) \in LastRead(a)
         /\ WatcherHolds(w, a, k) =>
              \/ WatcherHolds([w EXCEPT !.out_write_watcher_list_queue = Tail(@)], a, k)
              \/ /\ w.out_write_watcher_list_queue # <<>>
                 /\ Head(w.out_write_watcher_list_queue) \in Update(a, k)
<1>1. ASSUME NEW q, WatcherHolds(w, a, k)
      PROVE  WatcherHolds([w EXCEPT !.out_send_queue = q], a, k)
  BY <1>1 DEF WatcherHolds, WatcherSet
<1>2. ASSUME NEW r \in From(ListReads(S), i), WatcherHolds(w, a, k) \/ r \in LastRead(a)
      PROVE  WatcherHolds([w EXCEPT !.in_memory_resp_queue = Append(@, r)], a, k)
  <2> DEFINE q == w.in_memory_resp_queue
             x == Append(q, r)
  <2>1. Holds(q, LastRead(a)) \/ r \in LastRead(a) => Holds(x, LastRead(a))
    <3>1. q \in Seq(From(ListReads(S), i))
      BY DEF WatcherSet
    <3> HIDE DEF q
    <3> QED BY <3>1, HoldsAppend
  <2>2. [w EXCEPT !.in_memory_resp_queue = Append(@, r)] = [w EXCEPT !.in_memory_resp_queue = x]
    OBVIOUS
  <2> HIDE DEF x
  <2> QED BY <1>2, <2>1, <2>2 DEF WatcherHolds, WatcherSet
<1>3. ASSUME NEW r \in Fresh(S), WatcherHolds(w, a, k) \/ r \in Of(a)
      PROVE  WatcherHolds([w EXCEPT !.in_task_queue = Append(@, r)], a, k)
  <2> DEFINE q == w.in_task_queue
             x == Append(q, r)
  <2>1. Holds(q, Of(a)) \/ r \in Of(a) => Holds(x, Of(a))
    <3>1. q \in Seq(Fresh(S))
      BY DEF WatcherSet
    <3> HIDE DEF q
    <3> QED BY <3>1, HoldsAppend
  <2>2. [w EXCEPT !.in_task_queue = Append(@, r)] = [w EXCEPT !.in_task_queue = x]
    OBVIOUS
  <2> HIDE DEF x
  <2> QED BY <1>3, <2>1, <2>2 DEF WatcherHolds, WatcherSet
<1>4. ASSUME WatcherHolds(w, a, k)
      PROVE  \/ WatcherHolds([w EXCEPT !.out_memory_read_queue = Tail(@)], a, k)
             \/ w.out_memory_read_queue # <<>> /\ Head(w.out_memory_read_queue) \in LastRead(a)
  <2> DEFINE q == w.out_memory_read_queue
             x == Tail(q)
  <2>1. Holds(q, LastRead(a)) => Holds(x, LastRead(a)) \/ (q # <<>> /\ Head(q) \in LastRead(a))
    <3>1. q \in Seq(ListReads(S))
      BY DEF WatcherSet
    <3> HIDE DEF q
    <3> QED BY <3>1, HoldsTail
  <2>2. [w EXCEPT !.out_memory_read_queue = Tail(@)] = [w EXCEPT !.out_memory_read_queue = x]
    OBVIOUS
  <2> HIDE DEF x
  <2> QED BY <1>4, <2>1, <2>2 DEF WatcherHolds, WatcherSet
<1>5. ASSUME WatcherHolds(w, a, k)
      PROVE  \/ WatcherHolds([w EXCEPT !.out_write_watcher_list_queue = Tail(@)], a, k)
             \/ /\ w.out_write_watcher_list_queue # <<>>
                /\ Head(w.out_write_watcher_list_queue) \in Update(a, k)
  <2> DEFINE q == w.out_write_watcher_list_queue
             x == Tail(q)
  <2>1. Holds(q, Update(a, k)) => Holds(x, Update(a, k)) \/ (q # <<>> /\ Head(q) \in Update(a, k))
    <3>1. q \in Seq(From(Listed(S), i))
      BY DEF WatcherSet
    <3> HIDE DEF q
    <3> QED BY <3>1, HoldsTail
  <2>2. [w EXCEPT !.out_write_watcher_list_queue = Tail(@)]
        = [w EXCEPT !.out_write_watcher_list_queue = x]
    OBVIOUS
  <2> HIDE DEF x
  <2> QED BY <1>5, <2>1, <2>2 DEF WatcherHolds, WatcherSet
<1> QED BY <1>1, <1>2, <1>3, <1>4, <1>5

\* What enters a network towards the memory stays held there.
LEMMA ToMemoryHolds ==
  ASSUME NEW S, NEW net \in MemoryNets(S), NEW source \in Tile, NEW req \in Fetches(S) \cup Stores,
         NEW X, NEW to, NetHolds(net, X, to) \/ (req \in X /\ to = num_watchers + BankOf(req))
  PROVE  NetHolds(ToMemory(net, source, req), X, to)
<1>1. req \in Request
  BY DEF Fetches, Stores, ListReads, LiteralReads, Literal, ListWrites, ClauseWrites, Listed, Owned
<1>2. num_watchers + BankOf(req) \in Nat
  BY <1>1, BankNumbers DEF Banks
<1>3. N!Packet(req, num_watchers + BankOf(req)) \in MemoryPackets(S)
  BY <1>1, <1>2 DEF N!Packet, MemoryPackets, Packets
<1>4. source \in 0 .. MemoryNodes - 1
  BY BankNumbers
<1> QED BY <1>1, <1>2, <1>3, <1>4, NetHoldsPush DEF ToMemory, MemoryNets

\* A private cache that takes a read, or gives an answer
LEMMA CacheHoldsEdited ==
  ASSUME NEW S, NEW i, NEW p \in CacheSet(S, i), NEW X
  PROVE  /\ \A r \in Values(S, i) : CacheHolds(p, X) \/ r \in X =>
              CacheHolds([p EXCEPT !.in_request = Append(@, r)], X)
         /\ CacheHolds(p, X) => \/ CacheHolds([p EXCEPT !.out_send_q = Tail(@)], X)
                                \/ p.out_send_q # <<>> /\ Head(p.out_send_q) \in X
<1>1. ASSUME NEW r \in Values(S, i), CacheHolds(p, X) \/ r \in X
      PROVE  CacheHolds([p EXCEPT !.in_request = Append(@, r)], X)
  <2> DEFINE q == p.in_request
             x == Append(q, r)
  <2>1. Holds(q, X) \/ r \in X => Holds(x, X)
    <3>1. q \in Seq(Values(S, i))
      BY DEF CacheSet
    <3> HIDE DEF q
    <3> QED BY <3>1, HoldsAppend
  <2>2. [p EXCEPT !.in_request = Append(@, r)] = [p EXCEPT !.in_request = x]
    OBVIOUS
  <2> HIDE DEF x
  <2> QED BY <1>1, <2>1, <2>2 DEF CacheHolds, CacheSet
<1>2. ASSUME CacheHolds(p, X)
      PROVE  \/ CacheHolds([p EXCEPT !.out_send_q = Tail(@)], X)
             \/ p.out_send_q # <<>> /\ Head(p.out_send_q) \in X
  <2> DEFINE q == p.out_send_q
             x == Tail(q)
  <2>1. Holds(q, X) => Holds(x, X) \/ (q # <<>> /\ Head(q) \in X)
    <3>1. q \in Seq(Values(S, i))
      BY DEF CacheSet
    <3> HIDE DEF q
    <3> QED BY <3>1, HoldsTail
  <2>2. [p EXCEPT !.out_send_q = Tail(@)] = [p EXCEPT !.out_send_q = x]
    OBVIOUS
  <2> HIDE DEF x
  <2> QED BY <1>2, <2>1, <2>2 DEF CacheHolds, CacheSet
<1> QED BY <1>1, <1>2

\* The units of the tiles are functions on the tiles.
LEMMA TileDomains ==
  ASSUME NEW S, NEW T, NEW F, NEW m \in Machines(S, T, F)
  PROVE  /\ DOMAIN m.watchers = Tile /\ DOMAIN m.m_private_caches = Tile
         /\ DOMAIN m.m_watcher_write_unit = Tile
<1>1. DOMAIN Watchers(S) = Tile /\ DOMAIN Caches(S) = Tile
  BY DEF Watchers, Caches
<1>2. /\ m.watchers \in AllWatchers(S) /\ m.m_private_caches \in AllCaches(S)
      /\ m.m_watcher_write_unit \in AllUnits(S, T)
  BY MachineParts
<1> QED BY <1>1, <1>2 DEF AllWatchers, AllCaches, AllUnits, Each

\* The hooks that only move the work of clauses
LEMMA ClauseHooksHold ==
  ASSUME NEW S, NEW T, NEW F, NEW m \in Machines(S, T, F),
         NEW a, NEW k, Held(m, a, k)
  PROVE  /\ \A c : Held(ClauseToTrail(m, c), a, k) /\ Held(ClauseToWriteUnit(m, c), a, k)
         /\ \A i : Held(WatcherIcntOut(m, i), a, k)
<1>1. ASSUME NEW c PROVE Held(ClauseToTrail(m, c), a, k)
  <2> DEFINE x == ClauseToTrail(m, c)
  <2>1. /\ x.watchers = m.watchers /\ x.m_private_caches = m.m_private_caches
        /\ x.memory_read_icnt = m.memory_read_icnt /\ x.m_cache_interface = m.m_cache_interface
        /\ x.watcher_to_writer_icnt = m.watcher_to_writer_icnt
        /\ x.m_watcher_write_unit = m.m_watcher_write_unit /\ x.written = m.written
    BY DEF ClauseToTrail, Machines
  <2> HIDE DEF x
  <2>2. Held(x, a, k)
    BY <2>1, HeldParts
  <2> QED BY <2>2 DEF x
<1>2. ASSUME NEW c PROVE Held(ClauseToWriteUnit(m, c), a, k)
  <2> DEFINE x == ClauseToWriteUnit(m, c)
  <2>1. /\ x.watchers = m.watchers /\ x.m_private_caches = m.m_private_caches
        /\ x.memory_read_icnt = m.memory_read_icnt /\ x.m_cache_interface = m.m_cache_interface
        /\ x.watcher_to_writer_icnt = m.watcher_to_writer_icnt
        /\ x.m_watcher_write_unit = m.m_watcher_write_unit /\ x.written = m.written
    BY DEF ClauseToWriteUnit, Machines
  <2> HIDE DEF x
  <2>2. Held(x, a, k)
    BY <2>1, HeldParts
  <2> QED BY <2>2 DEF x
<1>3. ASSUME NEW i PROVE Held(WatcherIcntOut(m, i), a, k)
  <2> DEFINE x == WatcherIcntOut(m, i)
  <2>1. /\ x.watchers = m.watchers /\ x.m_private_caches = m.m_private_caches
        /\ x.memory_read_icnt = m.memory_read_icnt /\ x.m_cache_interface = m.m_cache_interface
        /\ x.watcher_to_writer_icnt = m.watcher_to_writer_icnt
        /\ x.m_watcher_write_unit = m.m_watcher_write_unit /\ x.written = m.written
    BY DEF WatcherIcntOut, Asserted, Machines
  <2> HIDE DEF x
  <2>2. Held(x, a, k)
    BY <2>1, HeldParts
  <2> QED BY <2>2 DEF x
<1> QED BY <1>1, <1>2, <1>3

\* watcher_out, to the clauses
LEMMA WatcherToClauseHolds ==
  ASSUME NEW S, NEW T, NEW F, NEW m \in Machines(S, T, F), NEW i \in Tile,
         NEW a \in Assign, NEW k \in Nat, k < get_watcher_size[a], Held(m, a, k)
  PROVE  Held(WatcherToClause(m, i), a, k)
<1> DEFINE w == m.watchers[i]
           w2 == [w EXCEPT !.out_send_queue = Tail(w.out_send_queue)]
           ws == [m.watchers EXCEPT ![i] = w2]
           x == WatcherToClause(m, i)
           j == WatcherOf(a)
<1>1. CASE x = m
  BY <1>1
<1>2. CASE x # m
  <2>1. /\ x.watchers = ws /\ x.m_private_caches = m.m_private_caches
        /\ x.memory_read_icnt = m.memory_read_icnt /\ x.m_cache_interface = m.m_cache_interface
        /\ x.watcher_to_writer_icnt = m.watcher_to_writer_icnt
        /\ x.m_watcher_write_unit = m.m_watcher_write_unit /\ x.written = m.written
    BY <1>2 DEF WatcherToClause, Machines
  <2>2. w \in WatcherSet(S, i) /\ DOMAIN m.watchers = Tile /\ j \in Tile
    BY TileParts, TileDomains, UpdateNumbers
  <2>3. WatcherHolds(m.watchers[j], a, k) => WatcherHolds(ws[j], a, k)
    <3>1. WatcherHolds(w, a, k) => WatcherHolds(w2, a, k)
      <4> HIDE DEF w
      <4> QED BY <2>2, WatcherHoldsEdited
    <3> HIDE DEF w2
    <3> QED BY <2>2, <3>1
  <2> HIDE DEF ws, x
  <2> QED BY <2>1, <2>3 DEF Held, x
<1> QED BY <1>1, <1>2

\* clause_to_mem
LEMMA ClauseToMemHolds ==
  ASSUME NEW S, NEW T, NEW F, NEW m \in Machines(S, T, F), NEW c \in ClauseIds,
         NEW a \in Assign, NEW k \in Nat, k < get_watcher_size[a], Held(m, a, k)
  PROVE  Held(ClauseToMem(m, c), a, k)
<1> DEFINE u == m.clauses[c]
           q == u.out_memory_read_queue
           i == HomeTile(c)
           req == [Head(q) EXCEPT !.ComponentId = ClauseComponent(c)]
           data == q # <<>> /\ req.type = "ReadClauseData" /\ N!HasBuffer(m.memory_read_icnt, i)
           value == q # <<>> /\ req.type # "ReadClauseData" /\ P!RecieveRdy(m.m_private_caches[i])
           p == m.m_private_caches[i]
           p2 == [p EXCEPT !.in_request = Append(@, req)]
           ps == [m.m_private_caches EXCEPT ![i] = p2]
           net == ToMemory(m.memory_read_icnt, i, req)
           x == ClauseToMem(m, c)
           j == WatcherOf(a)
<1>0. i \in Tile /\ ClauseComponent(c) \in ComponentIds /\ IsClause(ClauseComponent(c))
      /\ ClauseOfComponent(ClauseComponent(c)) = c
  BY ClauseNumbers
<1>1. CASE ~ value /\ ~ data
  <2>1. x = m
    BY <1>1 DEF ClauseToMem
  <2> QED BY <2>1
<1>2. ASSUME q # <<>>
      PROVE  req \in LiteralReads(S) /\ req.ComponentId = ClauseComponent(c)
  <2>1. u \in ClauseSet(S, T)
    BY ClauseParts
  <2>2. q \in Seq(LiteralReads(S))
    BY <2>1 DEF ClauseSet
  <2> DEFINE h == Head(q)
  <2>4. h \in LiteralReads(S)
    BY <1>2, <2>2, TailElements
  <2>5. h \in Request
    BY <2>4 DEF LiteralReads, Literal
  <2> HIDE DEF h, q
  <2>6. [h EXCEPT !.ComponentId = ClauseComponent(c)] \in LiteralReads(S)
        /\ [h EXCEPT !.ComponentId = ClauseComponent(c)].ComponentId = ClauseComponent(c)
    BY <1>0, <2>4, <2>5, Readdressed
  <2> QED BY <2>6 DEF h
<1>3. CASE value
  <2>1. /\ x.watchers = m.watchers /\ x.m_private_caches = ps
        /\ x.memory_read_icnt = m.memory_read_icnt /\ x.m_cache_interface = m.m_cache_interface
        /\ x.watcher_to_writer_icnt = m.watcher_to_writer_icnt
        /\ x.m_watcher_write_unit = m.m_watcher_write_unit /\ x.written = m.written
    BY <1>3 DEF ClauseToMem, Machines
  <2>2. req \in LiteralReads(S) /\ req.ComponentId = ClauseComponent(c)
        /\ req.type # "ReadClauseData"
    BY <1>2, <1>3
  <2> HIDE DEF req
  <2>3. req \in Values(S, i)
    BY <1>0, <2>2 DEF Values, LiteralReads, ClauseReads
  <2>4. p \in CacheSet(S, i) /\ DOMAIN m.m_private_caches = Tile /\ j \in Tile
    BY <1>0, TileParts, TileDomains, UpdateNumbers
  <2> HIDE DEF i
  <2>5. CacheHolds(m.m_private_caches[j], Awaited(a)) => CacheHolds(ps[j], Awaited(a))
    <3>1. CacheHolds(p, Awaited(a)) => CacheHolds(p2, Awaited(a))
      <4> HIDE DEF p
      <4> QED BY <2>3, <2>4, CacheHoldsEdited
    <3> HIDE DEF p2
    <3> QED BY <1>0, <2>4, <3>1
  <2> HIDE DEF ps, x
  <2> QED BY <2>1, <2>5 DEF Held, x
<1>4. CASE data
  <2>1. /\ x.watchers = m.watchers /\ x.m_private_caches = m.m_private_caches
        /\ x.memory_read_icnt = net /\ x.m_cache_interface = m.m_cache_interface
        /\ x.watcher_to_writer_icnt = m.watcher_to_writer_icnt
        /\ x.m_watcher_write_unit = m.m_watcher_write_unit /\ x.written = m.written
    BY <1>4 DEF ClauseToMem, Machines
  <2>2. req \in LiteralReads(S) /\ req.ComponentId = ClauseComponent(c)
        /\ req.type = "ReadClauseData"
    BY <1>2, <1>4
  <2> HIDE DEF req
  <2>3. req \in Fetches(S)
    BY <1>0, <2>2 DEF Fetches
  <2>4. m.memory_read_icnt \in MemoryNets(S)
    BY MachineParts
  <2> HIDE DEF i
  <2>5. \A to : NetHolds(m.memory_read_icnt, Fetched(a), to) => NetHolds(net, Fetched(a), to)
    BY <1>0, <2>3, <2>4, ToMemoryHolds
  <2> HIDE DEF net, x
  <2> QED BY <2>1, <2>5 DEF Held, x
<1> QED BY <1>1, <1>3, <1>4

\* watcher_out, to the private cache and to the memory
LEMMA WatcherToMemoryHolds ==
  ASSUME NEW S, NEW T, NEW F, NEW m \in Machines(S, T, F), NEW i \in Tile,
         NEW a \in Assign, NEW k \in Nat, k < get_watcher_size[a], Held(m, a, k)
  PROVE  Held(WatcherToMemory(m, i), a, k)
<1> DEFINE w == m.watchers[i]
           q == w.out_memory_read_queue
           req == [Head(q) EXCEPT !.ComponentId = i]
           w2 == [w EXCEPT !.out_memory_read_queue = Tail(@)]
           ws == [m.watchers EXCEPT ![i] = w2]
           value == q # <<>> /\ req.type = "ReadWatcherValue" /\ P!RecieveRdy(m.m_private_caches[i])
           other == q # <<>> /\ req.type # "ReadWatcherValue" /\ N!HasBuffer(m.memory_read_icnt, i)
           p == m.m_private_caches[i]
           p2 == [p EXCEPT !.in_request = Append(@, req)]
           ps == [m.m_private_caches EXCEPT ![i] = p2]
           net == ToMemory(m.memory_read_icnt, i, req)
           x == WatcherToMemory(m, i)
           j == WatcherOf(a)
<1>0. /\ w \in WatcherSet(S, i) /\ p \in CacheSet(S, i) /\ j \in Tile
      /\ DOMAIN m.watchers = Tile /\ DOMAIN m.m_private_caches = Tile
      /\ m.memory_read_icnt \in MemoryNets(S)
  BY TileParts, TileDomains, UpdateNumbers, MachineParts
<1>1. CASE ~ value /\ ~ other
  <2>1. x = m
    BY <1>1 DEF WatcherToMemory
  <2> QED BY <2>1
<1>2. ASSUME q # <<>>
      PROVE  /\ req \in ListReads(S) /\ req \in Request /\ req.ComponentId = i
             /\ Head(q) \in LastRead(a) => req \in LastRead(a)
  <2> DEFINE h == Head(q)
  <2>1. h \in ListReads(S) /\ h \in Request /\ i \in ComponentIds
    <3>1. q \in Seq(ListReads(S))
      BY <1>0 DEF WatcherSet
    <3>2. h \in ListReads(S)
      BY <1>2, <3>1, TailElements
    <3> QED BY <3>2, ClauseNumbers DEF ListReads, Owned
  <2>2. req = [h EXCEPT !.ComponentId = i]
    OBVIOUS
  <2> HIDE DEF h, q, req
  <2>3. /\ req \in ListReads(S) /\ req \in Request /\ req.ComponentId = i
        /\ req.as = h.as /\ req.watcherId = h.watcherId /\ req.type = h.type
    BY <2>1, <2>2, Readdressed
  <2>4. h \in LastRead(a) => req \in LastRead(a)
    BY <2>3 DEF LastRead, Of, W!LastLine, W!LastValue, W!Size
  <2> QED BY <2>3, <2>4 DEF h
<1>3. q # <<>> => \/ WatcherHolds(m.watchers[j], a, k) => WatcherHolds(ws[j], a, k)
                  \/ i = j /\ req \in Awaited(a)
  <2>1. WatcherHolds(w, a, k) => WatcherHolds(w2, a, k) \/ (q # <<>> /\ Head(q) \in LastRead(a))
    <3> HIDE DEF w
    <3> QED BY <1>0, WatcherHoldsEdited
  <2>2. q # <<>> /\ Head(q) \in LastRead(a) /\ i = j => req \in Awaited(a)
    <3> HIDE DEF req, q
    <3> QED BY <1>2 DEF Awaited
  <2> HIDE DEF q, req, w2
  <2> QED BY <1>0, <2>1, <2>2
<1>4. CASE value
  <2>1. /\ x.watchers = ws /\ x.m_private_caches = ps
        /\ x.memory_read_icnt = m.memory_read_icnt /\ x.m_cache_interface = m.m_cache_interface
        /\ x.watcher_to_writer_icnt = m.watcher_to_writer_icnt
        /\ x.m_watcher_write_unit = m.m_watcher_write_unit /\ x.written = m.written
    BY <1>4 DEF WatcherToMemory, Machines
  <2>2. q # <<>> /\ req \in Values(S, i)
    BY <1>2, <1>4 DEF Values
  <2> HIDE DEF q, req, ws
  <2>3. CacheHolds(p, Awaited(a)) \/ req \in Awaited(a) => CacheHolds(p2, Awaited(a))
    <3> HIDE DEF p
    <3> QED BY <1>0, <2>2, CacheHoldsEdited
  <2> HIDE DEF p2
  <2>4. /\ CacheHolds(m.m_private_caches[j], Awaited(a)) => CacheHolds(ps[j], Awaited(a))
        /\ i = j /\ req \in Awaited(a) => CacheHolds(ps[j], Awaited(a))
    BY <1>0, <2>3
  <2> HIDE DEF ps, x
  <2> QED BY <1>3, <2>1, <2>2, <2>4 DEF Held, x
<1>5. CASE other
  <2>1. /\ x.watchers = ws /\ x.m_private_caches = m.m_private_caches
        /\ x.memory_read_icnt = net /\ x.m_cache_interface = m.m_cache_interface
        /\ x.watcher_to_writer_icnt = m.watcher_to_writer_icnt
        /\ x.m_watcher_write_unit = m.m_watcher_write_unit /\ x.written = m.written
    BY <1>5 DEF WatcherToMemory, Machines
  <2>2. q # <<>> /\ req \in Fetches(S) /\ req.type # "ReadWatcherValue" /\ BankOf(req) \in Banks
    <3>1. q # <<>> /\ req \in ListReads(S) /\ req \in Request /\ req.ComponentId = i
          /\ req.type # "ReadWatcherValue"
      BY <1>2, <1>5
    <3> HIDE DEF q, req
    <3> QED BY <3>1, BankNumbers DEF Fetches
  <2> HIDE DEF q, req, ws
  <2>3. \A to : NetHolds(m.memory_read_icnt, Fetched(a), to)
                \/ (req \in Fetched(a) /\ to = num_watchers + BankOf(req))
                => NetHolds(net, Fetched(a), to)
    BY <1>0, <2>2, ToMemoryHolds
  <2>4. req \in Awaited(a) => req \in Fetched(a)
    BY <2>2 DEF Fetched
  <2> HIDE DEF net, x
  <2>5. req \in Awaited(a) => \E b \in Banks : NetHolds(net, Fetched(a), num_watchers + b)
    BY <2>2, <2>3, <2>4
  <2> QED BY <1>3, <2>1, <2>2, <2>3, <2>5 DEF Held, x
<1> QED BY <1>1, <1>4, <1>5

\* cache_to_clause_and_watchers
LEMMA CacheToClauseAndWatchersHolds ==
  ASSUME NEW S, NEW T, NEW F, NEW m \in Machines(S, T, F), NEW p \in Banks,
         NEW a \in Assign, NEW k \in Nat, k < get_watcher_size[a], Held(m, a, k)
  PROVE  Held(CacheToClauseAndWatchers(m, p), a, k)
<1> DEFINE l3 == m.m_cache_interface
           q == l3.out_resp_queues[p]
           req == Head(q)
           l3x == [l3 EXCEPT !.out_resp_queues[p] = Tail(@)]
           to2 == TileOf(req.ComponentId)
           net == N!Push(m.memory_read_icnt, num_watchers + p, req, to2)
           x == CacheToClauseAndWatchers(m, p)
<1>1. CASE q = <<>>
  <2>1. x = m
    BY <1>1 DEF CacheToClauseAndWatchers
  <2> QED BY <2>1
<1>2. CASE q # <<>>
  <2>1. l3 \in MemorySet(S)
    BY MachineParts
  <2>2. req \in FromBank(S, p)
    BY <1>2, <2>1, MemoryDepart
  <2>3. req \in Fetches(S)
    BY <2>2 DEF FromBank
  <2>4. /\ x.watchers = m.watchers /\ x.m_private_caches = m.m_private_caches
        /\ x.memory_read_icnt = net /\ x.m_cache_interface = l3x
        /\ x.watcher_to_writer_icnt = m.watcher_to_writer_icnt
        /\ x.m_watcher_write_unit = m.m_watcher_write_unit /\ x.written = m.written
    BY <1>2 DEF CacheToClauseAndWatchers, Asserted, Machines
  <2>5. MemHolds(l3, Fetched(a)) => MemHolds(l3x, Fetched(a)) \/ req \in Fetched(a)
    <3> HIDE DEF l3
    <3> QED BY <2>1, MemHoldsDepart
  <2> HIDE DEF l3x, req, l3, q
  <2>6. req \in Request /\ to2 \in Tile
    <3>1. req \in Request
      BY <2>3 DEF Fetches, ListReads, LiteralReads, Literal, Listed, Owned
    <3>2. req.ComponentId \in ComponentIds
      BY <3>1 DEF Request, ComponentIds
    <3> QED BY <3>1, <3>2, ClauseNumbers
  <2>7. to2 \in Nat
    BY <2>6, BankNumbers DEF Tile
  <2>8. req \in Fetched(a) => to2 = WatcherOf(a)
    BY UpdateNumbers DEF Fetched, Awaited
  <2>9. N!Packet(req, to2) \in MemoryPackets(S)
    BY <2>3, <2>6, <2>7 DEF N!Packet, MemoryPackets, Packets
  <2> HIDE DEF to2
  <2>10. \A to : NetHolds(m.memory_read_icnt, Fetched(a), to) \/ (req \in Fetched(a) /\ to2 = to)
                 => NetHolds(net, Fetched(a), to)
    <3>1. m.memory_read_icnt \in NetSet(MemoryNodes, MemoryPackets(S))
      BY MachineParts DEF MemoryNets
    <3>2. num_watchers + p \in 0 .. MemoryNodes - 1
      BY BankNumbers
    <3> QED BY <2>6, <2>7, <2>9, <3>1, <3>2, NetHoldsPush
  <2> HIDE DEF net, x
  <2> QED BY <2>4, <2>5, <2>8, <2>10 DEF Held, l3, x
<1> QED BY <1>1, <1>2

\* clause_write_unit_to_cache
LEMMA ClauseWriteUnitToCacheHolds ==
  ASSUME NEW S, NEW T, NEW F, NEW m \in Machines(S, T, F), NEW i \in Tile,
         NEW a \in Assign, NEW k \in Nat, k < get_watcher_size[a], Held(m, a, k)
  PROVE  Held(ClauseWriteUnitToCache(m, i), a, k)
<1> DEFINE w == m.m_clause_write_unit[i]
           q == w.out
           req == Head(q)
           net == ToMemory(m.memory_read_icnt, TileOf(req.ComponentId), req)
           x == ClauseWriteUnitToCache(m, i)
<1>1. CASE q = <<>>
  <2>1. x = m
    BY <1>1 DEF ClauseWriteUnitToCache
  <2> QED BY <2>1
<1>2. CASE q # <<>>
  <2>1. req \in ClauseWrites
    <3>1. w \in WriterSet(S)
      BY UnitOfTile
    <3>2. q \in Seq(ClauseWrites)
      BY <3>1 DEF WriterSet
    <3> QED BY <1>2, <3>2, TailElements
  <2>2. IsClause(req.ComponentId) /\ req \in Request
    BY <2>1 DEF ClauseWrites, Literal
  <2>3. /\ x.watchers = m.watchers /\ x.m_private_caches = m.m_private_caches
        /\ x.memory_read_icnt = net /\ x.m_cache_interface = m.m_cache_interface
        /\ x.watcher_to_writer_icnt = m.watcher_to_writer_icnt
        /\ x.m_watcher_write_unit = m.m_watcher_write_unit /\ x.written = m.written
    BY <1>2, <2>2 DEF ClauseWriteUnitToCache, Asserted, Machines
  <2> HIDE DEF req
  <2>4. \A to : NetHolds(m.memory_read_icnt, Fetched(a), to) => NetHolds(net, Fetched(a), to)
    <3>1. TileOf(req.ComponentId) \in Tile
      BY <2>2, ClauseNumbers DEF Request, ComponentIds
    <3>2. req \in Fetches(S) \cup Stores
      BY <2>1 DEF Stores
    <3> QED BY <3>1, <3>2, MachineParts, ToMemoryHolds
  <2> HIDE DEF net, x
  <2> QED BY <2>3, <2>4 DEF Held, x
<1> QED BY <1>1, <1>2

\* private_cache
LEMMA PrivateCacheOutHolds ==
  ASSUME NEW S, NEW T, NEW F, NEW m \in Machines(S, T, F), NEW i \in Tile,
         NEW a \in Assign, NEW k \in Nat, k < get_watcher_size[a], Held(m, a, k)
  PROVE  Held(PrivateCacheOut(m, i), a, k)
<1> DEFINE p == m.m_private_caches[i]
           q == p.out_send_q
           req == Head(q)
           c == ClauseOfComponent(req.ComponentId)
           p2 == [p EXCEPT !.out_send_q = Tail(@)]
           ps == [m.m_private_caches EXCEPT ![i] = p2]
           w == m.watchers[i]
           w2 == [w EXCEPT !.in_memory_resp_queue = Append(@, req)]
           ws == [m.watchers EXCEPT ![i] = w2]
           mine == IF req.type = "ReadClauseValue"
                   THEN IsClause(req.ComponentId) /\ HomeTile(c) = i
                   ELSE req.ComponentId = i
           x == PrivateCacheOut(m, i)
           j == WatcherOf(a)
<1>0. /\ w \in WatcherSet(S, i) /\ p \in CacheSet(S, i) /\ j \in Tile
      /\ DOMAIN m.watchers = Tile /\ DOMAIN m.m_private_caches = Tile
  BY TileParts, TileDomains, UpdateNumbers
<1>1. CASE q = <<>>
  <2>1. x = m
    BY <1>1 DEF PrivateCacheOut
  <2> QED BY <2>1
<1>2. CASE q # <<>>
  <2>1. req \in Values(S, i)
    <3>1. q \in Seq(Values(S, i))
      BY <1>0 DEF CacheSet
    <3> QED BY <1>2, <3>1, TailElements
  <2>2. mine
    BY <2>1 DEF Values, ListReads, WatcherReads
  <2>3. CacheHolds(p, Awaited(a)) => CacheHolds(p2, Awaited(a)) \/ req \in Awaited(a)
    <3> HIDE DEF p
    <3> QED BY <1>0, CacheHoldsEdited
  <2>4. \/ CacheHolds(m.m_private_caches[j], Awaited(a)) => CacheHolds(ps[j], Awaited(a))
        \/ i = j /\ req \in Awaited(a)
    <3> HIDE DEF p2, req
    <3> QED BY <1>0, <2>3
  <2>5. CASE req.type = "ReadClauseValue"
    <3>1. /\ x.watchers = m.watchers /\ x.m_private_caches = ps
          /\ x.memory_read_icnt = m.memory_read_icnt /\ x.m_cache_interface = m.m_cache_interface
          /\ x.watcher_to_writer_icnt = m.watcher_to_writer_icnt
          /\ x.m_watcher_write_unit = m.m_watcher_write_unit /\ x.written = m.written
      BY <1>2, <2>2, <2>5 DEF PrivateCacheOut, Machines
    <3>2. req \notin Awaited(a)
      BY <2>5 DEF Awaited, LastRead
    <3> HIDE DEF ps, req, x
    <3> QED BY <2>4, <3>1, <3>2 DEF Held, x
  <2>6. CASE req.type # "ReadClauseValue"
    <3>1. /\ x.watchers = ws /\ x.m_private_caches = ps
          /\ x.memory_read_icnt = m.memory_read_icnt /\ x.m_cache_interface = m.m_cache_interface
          /\ x.watcher_to_writer_icnt = m.watcher_to_writer_icnt
          /\ x.m_watcher_write_unit = m.m_watcher_write_unit /\ x.written = m.written
      BY <1>2, <2>2, <2>6 DEF PrivateCacheOut, Machines
    <3>2. req \in From(ListReads(S), i)
      BY <2>1, <2>6 DEF Values, From
    <3> HIDE DEF ps, req
    <3>3. WatcherHolds(w, a, k) \/ req \in LastRead(a) => WatcherHolds(w2, a, k)
      <4> HIDE DEF w
      <4> QED BY <1>0, <3>2, WatcherHoldsEdited
    <3> HIDE DEF w2
    <3>4. /\ WatcherHolds(m.watchers[j], a, k) => WatcherHolds(ws[j], a, k)
          /\ i = j /\ req \in Awaited(a) => WatcherHolds(ws[j], a, k)
      BY <1>0, <3>3 DEF Awaited
    <3> HIDE DEF ws, x
    <3> QED BY <2>4, <3>1, <3>4 DEF Held, x
  <2> QED BY <2>5, <2>6
<1> QED BY <1>1, <1>2

\* trail_to_watcher: the update of an assignment that is started is in its task.
LEMMA TrailToWatcherHolds ==
  ASSUME NEW S, NEW T, NEW F, Fits(S, T, F), NEW m \in Machines(S, T, F),
         NEW a \in Assign, NEW k \in Nat, k < get_watcher_size[a],
         a \in TrailToWatcher(m).started, a \in m.started => Held(m, a, k)
  PROVE  Held(TrailToWatcher(m), a, k)
<1> DEFINE req == Head(m.in_m_trail)
           i == WatcherOf(req.as)
           w == m.watchers[i]
           w2 == [w EXCEPT !.in_task_queue = Append(@, req)]
           ws == [m.watchers EXCEPT ![i] = w2]
           x == TrailToWatcher(m)
           j == WatcherOf(a)
           still == ~ MayStart(m) \/ m.in_m_trail = <<>> \/ ~ W!RecieveRdy(w)
<1>1. CASE still
  <2>1. x = m
    BY <1>1 DEF TrailToWatcher
  <2> QED BY <2>1
<1>2. CASE ~ still
  <2>1. m \in Machines(Assign, T, F) /\ T \subseteq Assign
    BY MachinesMonotone DEF Fits
  <2>2. req \in Fresh(Assign) /\ req \in Request /\ req.as \in Assign
    <3>1. req \in Fresh(T) /\ req.as \in Assign
      BY <1>2, MachineParts, TasksOnTrail
    <3> HIDE DEF req
    <3> QED BY <2>1, <3>1, KindsMonotone DEF Fresh
  <2>3. /\ x.watchers = ws /\ x.m_private_caches = m.m_private_caches
        /\ x.memory_read_icnt = m.memory_read_icnt /\ x.m_cache_interface = m.m_cache_interface
        /\ x.watcher_to_writer_icnt = m.watcher_to_writer_icnt
        /\ x.m_watcher_write_unit = m.m_watcher_write_unit /\ x.written = m.written
        /\ x.started = m.started \cup {req.as}
    BY <1>2 DEF TrailToWatcher, Machines
  <2> HIDE DEF req
  <2>4. i \in Tile /\ j \in Tile
    BY <2>2, WatcherNumbers
  <2>5. req.as = a => i = j
    OBVIOUS
  <2> HIDE DEF i
  <2>6. w \in WatcherSet(Assign, i) /\ DOMAIN m.watchers = Tile
    BY <2>1, <2>4, TileParts, TileDomains
  <2>7. WatcherHolds(w, a, k) \/ req \in Of(a) => WatcherHolds(w2, a, k)
    <3> HIDE DEF w
    <3> QED BY <2>2, <2>6, WatcherHoldsEdited
  <2> HIDE DEF w2
  <2>8. /\ WatcherHolds(m.watchers[j], a, k) => WatcherHolds(ws[j], a, k)
        /\ req.as = a => WatcherHolds(ws[j], a, k)
    BY <2>2, <2>4, <2>5, <2>6, <2>7 DEF Of
  <2> HIDE DEF ws, x, j
  <2>9. a \in m.started \/ req.as = a
    BY <2>3 DEF x
  <2> QED BY <2>3, <2>8, <2>9 DEF Held, x, j
<1> QED BY <1>1, <1>2

\* watcher_to_writeuite
LEMMA WatcherToWriteUnitHolds ==
  ASSUME NEW S, NEW T, NEW F, NEW m \in Machines(S, T, F), NEW i \in Tile,
         NEW a \in Assign, NEW k \in Nat, k < get_watcher_size[a], Held(m, a, k)
  PROVE  Held(WatcherToWriteUnit(m, i), a, k)
<1> DEFINE w == m.watchers[i]
           q == w.out_write_watcher_list_queue
           req == Head(q)
           pushed == get_pushed[<<req.as, req.watcherId>>]
           w2 == [w EXCEPT !.out_write_watcher_list_queue = Tail(@)]
           ws == [m.watchers EXCEPT ![i] = w2]
           u == m.m_watcher_write_unit[i]
           u2 == [u EXCEPT !.in_request = Append(@, req)]
           us == [m.m_watcher_write_unit EXCEPT ![i] = u2]
           net == N!PushOrDeliver(m.watcher_to_writer_icnt, i, req, pushed % num_watchers)
           x == WatcherToWriteUnit(m, i)
           j == WatcherOf(a)
           n == UnitOf(a, k)
<1>0. /\ w \in WatcherSet(S, i) /\ u \in UnitSet(S, T) /\ j \in Tile /\ n \in Tile
      /\ n \in 0 .. num_watchers - 1 /\ i \in 0 .. num_watchers - 1
      /\ DOMAIN m.watchers = Tile /\ DOMAIN m.m_watcher_write_unit = Tile
      /\ m.watcher_to_writer_icnt \in NetSet(num_watchers, WriterPackets(S))
  BY TileParts, UnitOfTile, TileDomains, UpdateNumbers, BankNumbers, MachineParts DEF WriterNets
<1>1. CASE q = <<>>
  <2>1. x = m
    BY <1>1 DEF WatcherToWriteUnit
  <2> QED BY <2>1
<1>2. CASE q # <<>>
  <2>1. req \in Listed(S) /\ req.ComponentId = i
    <3>1. q \in Seq(From(Listed(S), i))
      BY <1>0 DEF WatcherSet
    <3>2. req \in From(Listed(S), i)
      BY <1>2, <3>1, TailElements
    <3> QED BY <3>2 DEF From
  <2>2. \/ WatcherHolds(m.watchers[j], a, k) => WatcherHolds(ws[j], a, k)
        \/ i = j /\ req \in Update(a, k)
    <3>1. WatcherHolds(w, a, k) => WatcherHolds(w2, a, k) \/ req \in Update(a, k)
      <4> HIDE DEF w
      <4> QED BY <1>0, WatcherHoldsEdited
    <3> HIDE DEF w2, req
    <3> QED BY <1>0, <3>1
  <2>3. CASE pushed = NotPushed
    <3>1. /\ x.watchers = ws /\ x.m_private_caches = m.m_private_caches
          /\ x.memory_read_icnt = m.memory_read_icnt /\ x.m_cache_interface = m.m_cache_interface
          /\ x.watcher_to_writer_icnt = m.watcher_to_writer_icnt
          /\ x.m_watcher_write_unit = us /\ x.written = m.written
      BY <1>2, <2>3 DEF WatcherToWriteUnit, Asserted, Machines
    <3> HIDE DEF req, ws
    <3>2. req \in Update(a, k) /\ i = j => i = n /\ L!ValueOf(req) = Changed(a, k)
      BY <2>3, UpdateNumbers DEF UnitOf
    <3>3. UnitHolds(u, Changed(a, k)) \/ L!ValueOf(req) = Changed(a, k) => UnitHolds(u2, Changed(a, k))
      <4> HIDE DEF u
      <4> QED BY <1>0, <2>1, UnitHoldsGiven
    <3> HIDE DEF u2, n
    <3>4. /\ UnitHolds(m.m_watcher_write_unit[n], Changed(a, k)) => UnitHolds(us[n], Changed(a, k))
          /\ i = j /\ req \in Update(a, k) => UnitHolds(us[n], Changed(a, k))
      BY <1>0, <3>2, <3>3
    <3> HIDE DEF us, x
    <3> QED BY <2>2, <3>1, <3>4 DEF Held, x, n
  <2>4. CASE pushed # NotPushed
    <3>1. /\ x.watchers = ws /\ x.m_private_caches = m.m_private_caches
          /\ x.memory_read_icnt = m.memory_read_icnt /\ x.m_cache_interface = m.m_cache_interface
          /\ x.watcher_to_writer_icnt = net
          /\ x.m_watcher_write_unit = m.m_watcher_write_unit /\ x.written = m.written
      BY <1>2, <2>4 DEF WatcherToWriteUnit, Asserted, Machines
    <3> HIDE DEF req, ws
    <3>2. req \in Request /\ pushed % num_watchers \in Nat
      <4>1. /\ req \in Request /\ req.as \in Assign
            /\ req.watcherId \in 0 .. get_watcher_size[req.as] - 1
        BY <2>1, TableAssumption DEF Listed, Owned, Request
      <4>2. pushed \in Int
        BY <2>4, <4>1, TableAssumption
      <4> HIDE DEF pushed
      <4> QED BY <4>1, <4>2, Sizes
    <3>3. N!Packet(req, pushed % num_watchers) \in WriterPackets(S)
      BY <2>1, <3>2 DEF N!Packet, WriterPackets, Packets
    <3>4. req \in Update(a, k) => pushed % num_watchers = n
      BY <2>4, UpdateNumbers DEF UnitOf
    <3> HIDE DEF pushed, n
    <3>5. NetHolds(m.watcher_to_writer_icnt, Update(a, k), n) \/ req \in Update(a, k)
          => NetHolds(net, Update(a, k), n)
      BY <1>0, <3>2, <3>3, <3>4, NetHoldsPushOrDeliver
    <3> HIDE DEF net, x
    <3> QED BY <2>2, <3>1, <3>5 DEF Held, x, n
  <2> QED BY <2>3, <2>4
<1> QED BY <1>1, <1>2

\* watcher_write_unit_to_cache
LEMMA WatcherWriteUnitToCacheHolds ==
  ASSUME NEW S, NEW T, NEW F, NEW m \in Machines(S, T, F), NEW i \in Tile,
         NEW a \in Assign, NEW k \in Nat, k < get_watcher_size[a], Held(m, a, k)
  PROVE  Held(WatcherWriteUnitToCache(m, i), a, k)
<1> DEFINE u == m.m_watcher_write_unit[i]
           q == u.out_mem_requst
           req == Head(q)
           u2 == [u EXCEPT !.out_mem_requst = Tail(@)]
           us == [m.m_watcher_write_unit EXCEPT ![i] = u2]
           net == ToMemory(m.memory_read_icnt, i, req)
           wr == m.written \cup {<<i, L!ValueOf(req)>>}
           x == WatcherWriteUnitToCache(m, i)
           n == UnitOf(a, k)
           v == Changed(a, k)
<1>0. u \in UnitSet(S, T) /\ n \in Tile /\ DOMAIN m.m_watcher_write_unit = Tile
      /\ m.memory_read_icnt \in MemoryNets(S)
  BY UnitOfTile, TileDomains, UpdateNumbers, MachineParts
<1>1. CASE q = <<>>
  <2>1. x = m
    BY <1>1 DEF WatcherWriteUnitToCache
  <2> QED BY <2>1
<1>2. CASE q # <<>>
  <2>1. req \in Fetches(S) \cup Stores
    <3>1. q \in Seq(ListWrites)
      BY <1>0, UnitParts
    <3>2. req \in ListWrites
      BY <1>2, <3>1, TailElements
    <3> QED BY <3>2 DEF Stores
  <2>2. /\ x.watchers = m.watchers /\ x.m_private_caches = m.m_private_caches
        /\ x.memory_read_icnt = net /\ x.m_cache_interface = m.m_cache_interface
        /\ x.watcher_to_writer_icnt = m.watcher_to_writer_icnt
        /\ x.m_watcher_write_unit = us /\ x.written = wr
    BY <1>2 DEF WatcherWriteUnitToCache, Machines
  <2>3. UnitHolds(u, v) => UnitHolds(u2, v) \/ L!ValueOf(req) = v
    <3> HIDE DEF u, v
    <3> QED BY <1>0, <1>2, UnitHoldsPop
  <2> HIDE DEF u2, req, n, v
  <2>4. UnitHolds(m.m_watcher_write_unit[n], v) => UnitHolds(us[n], v) \/ <<n, v>> \in wr
    BY <1>0, <2>3
  <2>5. <<n, v>> \in m.written => <<n, v>> \in wr
    OBVIOUS
  <2>6. \A to : NetHolds(m.memory_read_icnt, Fetched(a), to) => NetHolds(net, Fetched(a), to)
    BY <1>0, <2>1, ToMemoryHolds
  <2> HIDE DEF us, wr, net, x
  <2> QED BY <2>2, <2>4, <2>5, <2>6 DEF Held, x, n, v
<1> QED BY <1>1, <1>2

\* watcher_icnt_to_watcher_writer
LEMMA WatcherIcntToWatcherWriterHolds ==
  ASSUME NEW S, NEW T, NEW F, NEW m \in Machines(S, T, F), NEW i \in Tile,
         NEW a \in Assign, NEW k \in Nat, k < get_watcher_size[a], Held(m, a, k)
  PROVE  Held(WatcherIcntToWatcherWriter(m, i), a, k)
<1> DEFINE q == m.watcher_to_writer_icnt.out_reqs[i]
           req == Head(q)
           net == N!PopOut(m.watcher_to_writer_icnt, i)
           u == m.m_watcher_write_unit[i]
           u2 == [u EXCEPT !.in_request = Append(@, req)]
           us == [m.m_watcher_write_unit EXCEPT ![i] = u2]
           x == WatcherIcntToWatcherWriter(m, i)
           n == UnitOf(a, k)
           v == Changed(a, k)
<1>0. /\ u \in UnitSet(S, T) /\ n \in Tile /\ DOMAIN m.m_watcher_write_unit = Tile
      /\ m.watcher_to_writer_icnt \in NetSet(num_watchers, WriterPackets(S))
      /\ i \in 0 .. num_watchers - 1 /\ n \in 0 .. num_watchers - 1
  BY UnitOfTile, TileDomains, UpdateNumbers, BankNumbers, MachineParts DEF WriterNets
<1>1. CASE q = <<>>
  <2>1. x = m
    BY <1>1 DEF WatcherIcntToWatcherWriter
  <2> QED BY <2>1
<1>2. CASE q # <<>>
  <2>1. /\ x.watchers = m.watchers /\ x.m_private_caches = m.m_private_caches
        /\ x.memory_read_icnt = m.memory_read_icnt /\ x.m_cache_interface = m.m_cache_interface
        /\ x.watcher_to_writer_icnt = net
        /\ x.m_watcher_write_unit = us /\ x.written = m.written
    BY <1>2 DEF WatcherIcntToWatcherWriter, Machines
  <2>2. req \in Listed(S)
    <3>1. req \in At(WriterPackets(S), i)
      BY <1>0, <1>2, NetPop
    <3> HIDE DEF req
    <3> QED BY <3>1 DEF At, WriterPackets, N!Packet
  <2>3. NetHolds(m.watcher_to_writer_icnt, Update(a, k), n)
        => NetHolds(net, Update(a, k), n) \/ (i = n /\ req \in Update(a, k))
    <3> HIDE DEF n
    <3> QED BY <1>0, NetHoldsPop
  <2> HIDE DEF q, req
  <2>4. req \in Update(a, k) => L!ValueOf(req) = v
    <3> HIDE DEF u, u2, us, net, x, n
    <3> QED BY DEF Update, Of, Changed, L!ValueOf
  <2>5. UnitHolds(u, v) \/ L!ValueOf(req) = v => UnitHolds(u2, v)
    <3> HIDE DEF u, v
    <3> QED BY <1>0, <2>2, UnitHoldsGiven
  <2> HIDE DEF u2, n, v
  <2>6. /\ UnitHolds(m.m_watcher_write_unit[n], v) => UnitHolds(us[n], v)
        /\ i = n /\ req \in Update(a, k) => UnitHolds(us[n], v)
    BY <1>0, <2>4, <2>5
  <2> HIDE DEF us, net, x
  <2> QED BY <2>1, <2>3, <2>6 DEF Held, x, n, v
<1> QED BY <1>1, <1>2

\* icnt_to_other, to the units of a tile
LEMMA IcntToTileHolds ==
  ASSUME NEW S, NEW T, NEW F, NEW m \in Machines(S, T, F), NEW i \in Tile,
         NEW a \in Assign, NEW k \in Nat, k < get_watcher_size[a], Held(m, a, k)
  PROVE  Held(IcntToTile(m, i), a, k)
<1> DEFINE q == m.memory_read_icnt.out_reqs[i]
           req == Head(q)
           id == req.ComponentId
           c == ClauseOfComponent(id)
           net == N!PopOut(m.memory_read_icnt, i)
           w == m.watchers[i]
           w2 == [w EXCEPT !.in_memory_resp_queue = Append(@, req)]
           ws == [m.watchers EXCEPT ![i] = w2]
           ready == q # <<>> /\ W!RecieveMemRdy(m.watchers[i])
           x == IcntToTile(m, i)
           j == WatcherOf(a)
<1>0. /\ w \in WatcherSet(S, i) /\ j \in Tile /\ DOMAIN m.watchers = Tile
      /\ m.memory_read_icnt \in NetSet(MemoryNodes, MemoryPackets(S))
      /\ i \in 0 .. MemoryNodes - 1 /\ j \in 0 .. MemoryNodes - 1
  BY TileParts, TileDomains, UpdateNumbers, BankNumbers, MachineParts DEF MemoryNets
<1>1. CASE ~ ready
  <2>1. x = m
    BY <1>1 DEF IcntToTile
  <2> QED BY <2>1
<1>2. CASE ready
  <2>1. req \in Fetches(S) /\ TileOf(id) = i /\ id \in ComponentIds
    <3>1. req \in At(MemoryPackets(S), i)
      BY <1>0, <1>2, NetPop
    <3>2. req \in Request /\ req \in Fetches(S) /\ TileOf(id) = i
      BY <3>1, MemoryArrivals
    <3> QED BY <3>2 DEF Request, ComponentIds
  <2>2. \A to \in 0 .. MemoryNodes - 1 : NetHolds(m.memory_read_icnt, Fetched(a), to)
          => NetHolds(net, Fetched(a), to) \/ (i = to /\ req \in Fetched(a))
    BY <1>0, NetHoldsPop
  <2>3. /\ NetHolds(m.memory_read_icnt, Fetched(a), j)
           => NetHolds(net, Fetched(a), j) \/ (i = j /\ req \in Fetched(a))
        /\ \A p \in Banks : NetHolds(m.memory_read_icnt, Fetched(a), num_watchers + p)
                            => NetHolds(net, Fetched(a), num_watchers + p)
    <3> HIDE DEF net, req, j
    <3> QED BY <1>0, <2>2, BankNumbers
  <2>4. CASE IsClause(id)
    <3>1. req \in LiteralReads(S) /\ req.type = "ReadClauseData" /\ HomeTile(c) = i
      BY <2>1, <2>4, ClauseNumbers DEF Fetches, TileOf
    <3>2. /\ x.watchers = m.watchers /\ x.m_private_caches = m.m_private_caches
          /\ x.memory_read_icnt = net /\ x.m_cache_interface = m.m_cache_interface
          /\ x.watcher_to_writer_icnt = m.watcher_to_writer_icnt
          /\ x.m_watcher_write_unit = m.m_watcher_write_unit /\ x.written = m.written
      BY <1>2, <2>4, <3>1 DEF IcntToTile, Machines
    <3>3. req \notin Fetched(a)
      BY <3>1 DEF Fetched, Awaited, LastRead
    <3> HIDE DEF req, net, x
    <3> QED BY <2>3, <3>2, <3>3 DEF Held, x
  <2>5. CASE ~ IsClause(id)
    <3>1. /\ req \in From(ListReads(S), i) /\ id = i
          /\ req.type \in {"ReadWatcherMetaData", "ReadWatcherData"}
      BY <2>1, <2>5 DEF Fetches, TileOf, ListReads, WatcherReads, From
    <3>2. /\ x.watchers = ws /\ x.m_private_caches = m.m_private_caches
          /\ x.memory_read_icnt = net /\ x.m_cache_interface = m.m_cache_interface
          /\ x.watcher_to_writer_icnt = m.watcher_to_writer_icnt
          /\ x.m_watcher_write_unit = m.m_watcher_write_unit /\ x.written = m.written
      BY <1>2, <2>5, <3>1 DEF IcntToTile, Machines
    <3> HIDE DEF req
    <3>3. WatcherHolds(w, a, k) \/ req \in LastRead(a) => WatcherHolds(w2, a, k)
      <4> HIDE DEF w
      <4> QED BY <1>0, <3>1, WatcherHoldsEdited
    <3> HIDE DEF w2
    <3>4. /\ WatcherHolds(m.watchers[j], a, k) => WatcherHolds(ws[j], a, k)
          /\ i = j /\ req \in Fetched(a) => WatcherHolds(ws[j], a, k)
      BY <1>0, <3>3 DEF Fetched, Awaited
    <3> HIDE DEF ws, net, x
    <3> QED BY <2>3, <3>2, <3>4 DEF Held, x
  <2> QED BY <2>4, <2>5
<1> QED BY <1>1, <1>2

\* icnt_to_other, to a bank
LEMMA IcntToBankHolds ==
  ASSUME NEW S, NEW T, NEW F, NEW m \in Machines(S, T, F), NEW p \in Banks,
         NEW a \in Assign, NEW k \in Nat, k < get_watcher_size[a], Held(m, a, k)
  PROVE  Held(IcntToBank(m, p), a, k)
<1> DEFINE n == num_watchers + p
           q == m.memory_read_icnt.out_reqs[n]
           req == Head(q)
           net == N!PopOut(m.memory_read_icnt, n)
           l3 == m.m_cache_interface
           l3x == [l3 EXCEPT !.in_request_queues[p] = Append(@, req)]
           full == Len(m.m_cache_interface.in_request_queues[p]) >= l3_in_size
           x == IcntToBank(m, p)
           j == WatcherOf(a)
<1>0. /\ l3 \in MemorySet(S) /\ j \in Tile /\ j \in 0 .. MemoryNodes - 1
      /\ m.memory_read_icnt \in NetSet(MemoryNodes, MemoryPackets(S))
      /\ n \in 0 .. MemoryNodes - 1
  BY UpdateNumbers, BankNumbers, MachineParts DEF MemoryNets
<1>1. CASE q = <<>> \/ full
  <2>1. x = m
    BY <1>1 DEF IcntToBank
  <2> QED BY <2>1
<1>2. CASE ~ (q = <<>> \/ full)
  <2>1. req \in ToBank(S, p)
    <3>1. req \in At(MemoryPackets(S), n)
      BY <1>0, <1>2, NetPop
    <3> QED BY <3>1, MemoryArrivals
  <2>2. \A to \in 0 .. MemoryNodes - 1 : NetHolds(m.memory_read_icnt, Fetched(a), to)
          => NetHolds(net, Fetched(a), to) \/ req \in Fetched(a)
    <3> HIDE DEF n
    <3> QED BY <1>0, NetHoldsPop
  <2>3. /\ NetHolds(m.memory_read_icnt, Fetched(a), j)
           => NetHolds(net, Fetched(a), j) \/ req \in Fetched(a)
        /\ \A b \in Banks : NetHolds(m.memory_read_icnt, Fetched(a), num_watchers + b)
                            => NetHolds(net, Fetched(a), num_watchers + b) \/ req \in Fetched(a)
    <3> HIDE DEF net, req, j
    <3> QED BY <1>0, <2>2, BankNumbers
  <2>4. /\ x.watchers = m.watchers /\ x.m_private_caches = m.m_private_caches
        /\ x.memory_read_icnt = net /\ x.m_cache_interface = l3x
        /\ x.watcher_to_writer_icnt = m.watcher_to_writer_icnt
        /\ x.m_watcher_write_unit = m.m_watcher_write_unit /\ x.written = m.written
    BY <1>2 DEF IcntToBank, Machines
  <2> HIDE DEF req, net
  <2>5. MemHolds(l3, Fetched(a)) \/ req \in Fetched(a) => MemHolds(l3x, Fetched(a))
    <3> HIDE DEF l3
    <3> QED BY <1>0, <2>1, MemHoldsArrive
  <2> HIDE DEF l3x, x, l3
  <2> QED BY <2>3, <2>4, <2>5 DEF Held, x, l3
<1> QED BY <1>1, <1>2

\* Only trail_to_watcher starts an assignment.
LEMMA StartedKept ==
  ASSUME NEW S, NEW T, NEW F, NEW m \in Machines(S, T, F), NEW i
  PROVE  /\ WatcherToClause(m, i).started = m.started
         /\ WatcherToMemory(m, i).started = m.started
         /\ PrivateCacheOut(m, i).started = m.started
         /\ WatcherToWriteUnit(m, i).started = m.started
         /\ ClauseWriteUnitToCache(m, i).started = m.started
         /\ WatcherWriteUnitToCache(m, i).started = m.started
         /\ IcntToTile(m, i).started = m.started
         /\ WatcherIcntOut(m, i).started = m.started
         /\ WatcherIcntToWatcherWriter(m, i).started = m.started
         /\ ClauseToMem(m, i).started = m.started
         /\ ClauseToTrail(m, i).started = m.started
         /\ ClauseToWriteUnit(m, i).started = m.started
         /\ CacheToClauseAndWatchers(m, i).started = m.started
         /\ IcntToBank(m, i).started = m.started
<1>1. WatcherToClause(m, i).started = m.started
  BY DEF WatcherToClause, Machines
<1>2. WatcherToMemory(m, i).started = m.started
  BY DEF WatcherToMemory, Machines
<1>3. PrivateCacheOut(m, i).started = m.started
  BY DEF PrivateCacheOut, Asserted, Machines
<1>4. WatcherToWriteUnit(m, i).started = m.started
  BY DEF WatcherToWriteUnit, Asserted, Machines
<1>5. ClauseWriteUnitToCache(m, i).started = m.started
  BY DEF ClauseWriteUnitToCache, Asserted, Machines
<1>6. WatcherWriteUnitToCache(m, i).started = m.started
  BY DEF WatcherWriteUnitToCache, Machines
<1>7. IcntToTile(m, i).started = m.started
  BY DEF IcntToTile, Asserted, Machines
<1>8. WatcherIcntOut(m, i).started = m.started
  BY DEF WatcherIcntOut, Asserted, Machines
<1>9. WatcherIcntToWatcherWriter(m, i).started = m.started
  BY DEF WatcherIcntToWatcherWriter, Machines
<1>10. ClauseToMem(m, i).started = m.started
  BY DEF ClauseToMem, Machines
<1>11. ClauseToTrail(m, i).started = m.started
  BY DEF ClauseToTrail, Machines
<1>12. ClauseToWriteUnit(m, i).started = m.started
  BY DEF ClauseToWriteUnit, Machines
<1>13. CacheToClauseAndWatchers(m, i).started = m.started
  BY DEF CacheToClauseAndWatchers, Asserted, Machines
<1>14. IcntToBank(m, i).started = m.started
  BY DEF IcntToBank, Machines
<1> QED BY <1>1, <1>2, <1>3, <1>4, <1>5, <1>6, <1>7,
           <1>8, <1>9, <1>10, <1>11, <1>12, <1>13, <1>14

\* watcher_out, whole
LEMMA WatcherOutHolds ==
  ASSUME NEW S, NEW T, NEW F, Fits(S, T, F), NEW m \in Machines(S, T, F), NEW i \in Tile
  PROVE  /\ WatcherOut(m, i).started = m.started
         /\ \A a \in Assign, k \in Nat : k < get_watcher_size[a] /\ Held(m, a, k)
              => Held(WatcherOut(m, i), a, k)
<1> DEFINE y == WatcherToClause(m, i)
<1>1. /\ y \in Machines(S, T, F) /\ y.started = m.started
      /\ \A a \in Assign, k \in Nat : k < get_watcher_size[a] /\ Held(m, a, k) => Held(y, a, k)
  BY WatcherToClauseKeeps, WatcherToClauseHolds, StartedKept
<1>2. WatcherOut(m, i) = WatcherToMemory(y, i)
  BY DEF WatcherOut
<1> HIDE DEF y
<1>3. \A a \in Assign, k \in Nat : k < get_watcher_size[a] /\ Held(y, a, k)
        => Held(WatcherToMemory(y, i), a, k)
  BY <1>1, WatcherToMemoryHolds
<1>4. WatcherToMemory(y, i).started = y.started
  BY <1>1, StartedKept
<1> QED BY <1>1, <1>2, <1>3, <1>4

\* The machines that have lost no update: those that hold, for each assignment
\* that was started, the update of each list that its watchers change.
NoUpdateLost(m) ==
  \A a \in m.started : \A k \in 0 .. get_watcher_size[a] - 1 : Held(m, a, k)
Lossless(T, F) == {m \in Working(T, F) : NoUpdateLost(m)}

\* What follows if a step starts nothing and drops no update
LEMMA LosslessStep ==
  ASSUME NEW m, NoUpdateLost(m), m.started \subseteq Assign, NEW x,
         /\ x.started = m.started
         /\ \A a \in Assign, k \in Nat : k < get_watcher_size[a] /\ Held(m, a, k) => Held(x, a, k)
  PROVE  NoUpdateLost(x)
<1> SUFFICES ASSUME NEW a \in m.started, NEW k \in 0 .. get_watcher_size[a] - 1
             PROVE  Held(x, a, k)
  BY DEF NoUpdateLost
<1>1. a \in Assign /\ get_watcher_size[a] \in Nat
  BY TableAssumption
<1>2. k \in Nat /\ k < get_watcher_size[a]
  BY <1>1
<1>3. Held(m, a, k)
  BY DEF NoUpdateLost
<1> QED BY <1>1, <1>2, <1>3

\* No act of a hook loses an update.
LEMMA HookHolds ==
  ASSUME NEW T, NEW F, NEW m \in Lossless(T, F), NEW k \in DOMAIN clock_passes,
         NEW i \in 0 .. Passes(clock_passes[k]) - 1
  PROVE  Hook(clock_passes[k], m, i) \in Lossless(T, F)
<1> DEFINE x == Hook(clock_passes[k], m, i)
           Safe(y) == /\ y.started = m.started
                      /\ \A a \in Assign, n \in Nat :
                           n < get_watcher_size[a] /\ Held(m, a, n) => Held(y, a, n)
<1>0. m \in Working(T, F) /\ NoUpdateLost(m) /\ x \in Working(T, F)
  BY HookKeeps DEF Lossless
<1>1. PICK S : Fits(S, T, F) /\ m \in Machines(S, T, F)
  BY <1>0, WorkingIs
<1>s. m.started \subseteq Assign
  BY <1>1, MachineParts
<1>2. ASSUME NEW j \in Tile
      PROVE  /\ Safe(WatcherOut(m, j)) /\ Safe(PrivateCacheOut(m, j))
             /\ Safe(WatcherToWriteUnit(m, j)) /\ Safe(ClauseWriteUnitToCache(m, j))
             /\ Safe(WatcherWriteUnitToCache(m, j)) /\ Safe(IcntToTile(m, j))
             /\ Safe(WatcherIcntOut(m, j)) /\ Safe(WatcherIcntToWatcherWriter(m, j))
  <2>1. Safe(WatcherOut(m, j))
    BY <1>1, WatcherOutHolds
  <2>2. Safe(PrivateCacheOut(m, j))
    BY <1>1, PrivateCacheOutHolds, StartedKept
  <2>3. Safe(WatcherToWriteUnit(m, j))
    BY <1>1, WatcherToWriteUnitHolds, StartedKept
  <2>4. Safe(ClauseWriteUnitToCache(m, j))
    BY <1>1, ClauseWriteUnitToCacheHolds, StartedKept
  <2>5. Safe(WatcherWriteUnitToCache(m, j))
    BY <1>1, WatcherWriteUnitToCacheHolds, StartedKept
  <2>6. Safe(IcntToTile(m, j))
    BY <1>1, IcntToTileHolds, StartedKept
  <2>7. Safe(WatcherIcntOut(m, j))
    BY <1>1, ClauseHooksHold, StartedKept
  <2>8. Safe(WatcherIcntToWatcherWriter(m, j))
    BY <1>1, WatcherIcntToWatcherWriterHolds, StartedKept
  <2> QED BY <2>1, <2>2, <2>3, <2>4, <2>5, <2>6, <2>7, <2>8
<1>3. ASSUME NEW c \in ClauseIds
      PROVE  Safe(ClauseToMem(m, c)) /\ Safe(ClauseToTrail(m, c)) /\ Safe(ClauseToWriteUnit(m, c))
  <2>1. Safe(ClauseToMem(m, c))
    BY <1>1, ClauseToMemHolds, StartedKept
  <2>2. Safe(ClauseToTrail(m, c))
    BY <1>1, ClauseHooksHold, StartedKept
  <2>3. Safe(ClauseToWriteUnit(m, c))
    BY <1>1, ClauseHooksHold, StartedKept
  <2> QED BY <2>1, <2>2, <2>3
<1>4. ASSUME NEW p \in Banks
      PROVE  Safe(CacheToClauseAndWatchers(m, p)) /\ Safe(IcntToBank(m, p))
  <2>1. Safe(CacheToClauseAndWatchers(m, p))
    BY <1>1, CacheToClauseAndWatchersHolds, StartedKept
  <2>2. Safe(IcntToBank(m, p))
    BY <1>1, IcntToBankHolds, StartedKept
  <2> QED BY <2>1, <2>2
<1>5. NoUpdateLost(TrailToWatcher(m))
  <2> DEFINE y == TrailToWatcher(m)
  <2> SUFFICES ASSUME NEW a \in y.started, NEW n \in 0 .. get_watcher_size[a] - 1
               PROVE  Held(y, a, n)
    BY DEF NoUpdateLost
  <2>1. a \in Assign
    <3>1. PICK R : y \in Machines(R, T, F)
      BY <1>1, TrailToWatcherKeeps
    <3> HIDE DEF y
    <3> QED BY <3>1, MachineParts
  <2>2. get_watcher_size[a] \in Nat
    BY <2>1, TableAssumption
  <2>3. n \in Nat /\ n < get_watcher_size[a]
    BY <2>2
  <2>4. a \in m.started => Held(m, a, n)
    BY <1>0 DEF NoUpdateLost
  <2> QED BY <1>1, <2>1, <2>3, <2>4, TrailToWatcherHolds
<1> HIDE DEF Safe
<1>6. Safe(x) \/ x = TrailToWatcher(m)
  BY <1>2, <1>3, <1>4, HookIs
<1> HIDE DEF x
<1>7. NoUpdateLost(x)
  <2>1. ASSUME Safe(x) PROVE NoUpdateLost(x)
    BY <1>0, <1>s, <2>1, LosslessStep DEF Safe
  <2> QED BY <1>5, <1>6, <2>1
<1> QED BY <1>0, <1>7 DEF Lossless, x

\* The hooks of a cycle lose no update.
LEMMA HooksHold ==
  ASSUME NEW T, NEW F, NEW m \in Lossless(T, F)
  PROVE  Hooks(m) \in Lossless(T, F)
<1> DEFINE M == Lossless(T, F)
<1>1. ASSUME NEW x \in M, NEW k \in DOMAIN clock_passes PROVE ForEach(clock_passes[k], x) \in M
  <2>1. \A y \in M : \A i \in 0 .. Passes(clock_passes[k]) - 1 : Hook(clock_passes[k], y, i) \in M
    BY HookHolds
  <2>2. Passes(clock_passes[k]) \in Nat
    BY PassesCount
  <2> HIDE DEF M
  <2> QED BY <2>1, <2>2, ForEachKeeps
<1> HIDE DEF M
<1>2. m \in M
  BY DEF M
<1> QED BY <1>1, <1>2, HooksKeepAll DEF M

\* The units of a cycle lose no update.
LEMMA ComponentsHold ==
  ASSUME NEW S, NEW T, NEW F, Fits(S, T, F), NEW m \in Machines(S, T, F),
         NEW mc \in L3!Cycles(m.m_cache_interface),
         NEW memory \in N!Outcomes(m.memory_read_icnt),
         NEW clause,
         NEW writer \in N!Outcomes(m.watcher_to_writer_icnt)
  PROVE  /\ Components(m, mc, memory, clause, writer).started = m.started
         /\ \A a \in Assign, k \in Nat : k < get_watcher_size[a] /\ Held(m, a, k)
              => Held(Components(m, mc, memory, clause, writer), a, k)
<1> DEFINE x == Components(m, mc, memory, clause, writer)
           l3 == L3!DoCycle(m.m_cache_interface, mc.accept, mc.answer)
           us == [i \in Tile |-> L!DoCycle(m.m_watcher_write_unit[i])]
           n1 == N!DoCycle(m.memory_read_icnt, memory)
           n3 == N!DoCycle(m.watcher_to_writer_icnt, writer)
           ws == [i \in Tile |-> W!DoCycle(m.watchers[i])]
           ps == [i \in Tile |-> P!DoCycle(m.m_private_caches[i])]
<1>0. S \subseteq Assign /\ (S # {} => T = Assign)
  BY DEF Fits
<1>1. /\ x.m_cache_interface = l3 /\ x.m_watcher_write_unit = us /\ x.memory_read_icnt = n1
      /\ x.watcher_to_writer_icnt = n3 /\ x.watchers = ws /\ x.m_private_caches = ps
      /\ x.started = m.started /\ x.written = m.written
  BY DEF Components, Asserted, Machines
<1> SUFFICES ASSUME NEW a \in Assign, NEW k \in Nat, k < get_watcher_size[a], Held(m, a, k)
               PROVE  Held(x, a, k)
  BY <1>1
<1> DEFINE j == WatcherOf(a)
           n == UnitOf(a, k)
           v == Changed(a, k)
<1>3. /\ j \in Tile /\ n \in Tile /\ j \in 0 .. MemoryNodes - 1 /\ n \in 0 .. num_watchers - 1
      /\ \A p \in Banks : num_watchers + p \in 0 .. MemoryNodes - 1
      /\ num_watchers \in Nat /\ MemoryNodes \in Nat
  BY UpdateNumbers, BankNumbers
<1>4. WatcherHolds(m.watchers[j], a, k) => WatcherHolds(ws[j], a, k)
  <2>1. m.watchers[j] \in WatcherSet(S, j)
    BY <1>3, TileParts
  <2> HIDE DEF j
  <2> QED BY <1>3, <2>1, WatcherHoldsCycle
<1>5. CacheHolds(m.m_private_caches[j], Awaited(a)) => CacheHolds(ps[j], Awaited(a))
  <2>1. m.m_private_caches[j] \in CacheSet(S, j)
    BY <1>3, TileParts
  <2> HIDE DEF j
  <2> QED BY <1>3, <2>1, CacheHoldsCycle
<1>6. \A to \in 0 .. MemoryNodes - 1 :
        NetHolds(m.memory_read_icnt, Fetched(a), to) => NetHolds(n1, Fetched(a), to)
  <2>1. m.memory_read_icnt \in NetSet(MemoryNodes, MemoryPackets(S))
        /\ MemoryPackets(S) \in SUBSET Packets
    BY MachineParts DEF MemoryNets, MemoryPackets
  <2> QED BY <1>3, <2>1, NetHoldsCycle
<1>7. MemHolds(m.m_cache_interface, Fetched(a)) => MemHolds(l3, Fetched(a))
  <2>1. \A r \in Fetched(a) : IsRead(r)
    BY DEF Fetched, Awaited, LastRead, IsRead, IsWrite
  <2> QED BY <2>1, MachineParts, MemHoldsCycle
<1>8. NetHolds(m.watcher_to_writer_icnt, Update(a, k), n) => NetHolds(n3, Update(a, k), n)
  <2>1. m.watcher_to_writer_icnt \in NetSet(num_watchers, WriterPackets(S))
        /\ WriterPackets(S) \in SUBSET Packets
    BY MachineParts DEF WriterNets, WriterPackets
  <2> HIDE DEF n
  <2> QED BY <1>3, <2>1, NetHoldsCycle
<1>9. UnitHolds(m.m_watcher_write_unit[n], v) => UnitHolds(us[n], v)
  <2>1. m.m_watcher_write_unit[n] \in UnitSet(S, T)
    BY <1>3, UnitOfTile
  <2> HIDE DEF n, v
  <2> QED BY <1>0, <1>3, <2>1, UnitHoldsCycle
<1> HIDE DEF x, l3, us, n1, n3, ws, ps
<1>10. /\ NetHolds(m.memory_read_icnt, Fetched(a), j) => NetHolds(n1, Fetched(a), j)
       /\ \A p \in Banks : NetHolds(m.memory_read_icnt, Fetched(a), num_watchers + p)
                           => NetHolds(n1, Fetched(a), num_watchers + p)
  BY <1>3, <1>6
<1> QED BY <1>1, <1>4, <1>5, <1>7, <1>8, <1>9, <1>10 DEF Held

\* flush_all loses no update.
LEMMA FlushAllHolds ==
  ASSUME NEW S, NEW T, NEW F, NEW m \in Machines(S, T, F), NEW order,
         \A i \in Tile : order[i] \in L!KeyOrders(m.m_watcher_write_unit[i].current_req),
         NEW x, x = [m EXCEPT !.m_watcher_write_unit =
                       [i \in Tile |-> L!FlushUnit(m.m_watcher_write_unit[i], order[i])]],
         NEW a \in Assign, NEW k \in Nat, k < get_watcher_size[a], Held(m, a, k)
  PROVE  Held(x, a, k)
<1> DEFINE us == [i \in Tile |-> L!FlushUnit(m.m_watcher_write_unit[i], order[i])]
           n == UnitOf(a, k)
           v == Changed(a, k)
<1>1. /\ x.watchers = m.watchers /\ x.m_private_caches = m.m_private_caches
      /\ x.memory_read_icnt = m.memory_read_icnt /\ x.m_cache_interface = m.m_cache_interface
      /\ x.watcher_to_writer_icnt = m.watcher_to_writer_icnt
      /\ x.m_watcher_write_unit = us /\ x.written = m.written
  BY DEF Machines
<1>2. n \in Tile
  BY UpdateNumbers
<1>3. UnitHolds(m.m_watcher_write_unit[n], v) => UnitHolds(us[n], v)
  <2>1. m.m_watcher_write_unit[n] \in UnitSet(S, T)
    BY <1>2, UnitOfTile
  <2> HIDE DEF n, v
  <2> QED BY <1>2, <2>1, FlushHolds
<1> HIDE DEF us
<1> QED BY <1>1, <1>3 DEF Held

\* A machine that works on nothing, with nothing in its write units, has written
\* whatever list it was to write: only writes are on their way in it.
LEMMA IdleHasWritten ==
  ASSUME NEW F, NEW m \in Machines({}, {}, F),
         \A i \in Tile : L!IsEmpty(m.m_watcher_write_unit[i]),
         NEW a \in Assign, NEW k \in Nat, k < get_watcher_size[a], Held(m, a, k)
  PROVE  <<UnitOf(a, k), Changed(a, k)>> \in m.written
<1> DEFINE j == WatcherOf(a)
           n == UnitOf(a, k)
           v == Changed(a, k)
<1>1. /\ j \in Tile /\ n \in Tile /\ j \in 0 .. MemoryNodes - 1 /\ n \in 0 .. num_watchers - 1
      /\ \A p \in Banks : num_watchers + p \in 0 .. MemoryNodes - 1
  BY UpdateNumbers, BankNumbers
<1>2. /\ Fresh({}) = {} /\ Owned({}) = {} /\ Listed({}) = {} /\ ListReads({}) = {}
      /\ Literal({}) = {} /\ LiteralReads({}) = {} /\ Fetches({}) = {}
      /\ \A i : From(Listed({}), i) = {} /\ From(ListReads({}), i) = {} /\ Values({}, i) = {}
  BY DEF Fresh, Owned, Listed, ListReads, Literal, LiteralReads, Fetches, From, Values
<1>3. \A q \in Seq({}) : \A X : ~ Holds(q, X)
  BY DEF Holds, Range
<1>4. \A Y, X : Y \cap X = {} => \A q \in Seq(Y) : ~ Holds(q, X)
  BY RangeOf DEF Holds
<1>5. Stores \cap Fetched(a) = {}
  BY DEF Stores, ListWrites, ClauseWrites, Fetched, Awaited, LastRead
<1>6. ~ WatcherHolds(m.watchers[j], a, k)
  <2>1. m.watchers[j] \in WatcherSet({}, j)
    BY <1>1, TileParts
  <2> HIDE DEF j
  <2> QED BY <1>2, <1>3, <2>1 DEF WatcherSet, WatcherHolds
<1>7. ~ CacheHolds(m.m_private_caches[j], Awaited(a))
  <2>1. m.m_private_caches[j] \in CacheSet({}, j)
    BY <1>1, TileParts
  <2> HIDE DEF j
  <2> QED BY <1>2, <1>3, <2>1 DEF CacheSet, CacheHolds
<1>8. \A to \in 0 .. MemoryNodes - 1 : ~ NetHolds(m.memory_read_icnt, Fetched(a), to)
  <2> TAKE to \in 0 .. MemoryNodes - 1
  <2> DEFINE K == MemoryPackets({})
             net == m.memory_read_icnt
  <2>1. \A p \in K : p.req \in Stores
    BY <1>2 DEF MemoryPackets
  <2>2. K \cap Bound(Fetched(a), to) = {} /\ At(K, to) \cap Fetched(a) = {}
    BY <1>5, <2>1 DEF Bound, At, N!Packet
  <2>3. net \in NetSet(MemoryNodes, K)
    BY MachineParts DEF MemoryNets
  <2> HIDE DEF K, net
  <2>4. /\ net.in_reqs \in [0 .. MemoryNodes - 1 -> Seq(K)]
        /\ net.inflight \in [0 .. MemoryNodes - 1 -> Seq(K)]
        /\ net.out_reqs[to] \in Seq(At(K, to))
    BY <2>3, NetParts
  <2>5. ~ NetHolds(net, Fetched(a), to)
    BY <1>4, <2>2, <2>4 DEF NetHolds
  <2> QED BY <2>5 DEF net
<1>9. ~ MemHolds(m.m_cache_interface, Fetched(a))
  <2> DEFINE l3 == m.m_cache_interface
  <2>1. l3 \in MemorySet({})
    BY MachineParts
  <2> HIDE DEF l3
  <2>2. /\ l3.inside \subseteq Fetches({})
        /\ \A p \in Banks : /\ l3.in_request_queues[p] \in Seq(ToBank({}, p))
                            /\ l3.out_resp_queues[p] \in Seq(FromBank({}, p))
    BY <2>1, MemoryParts
  <2>3. \A p : ToBank({}, p) \cap Fetched(a) = {} /\ FromBank({}, p) \cap Fetched(a) = {}
    BY <1>2, <1>5 DEF ToBank, FromBank
  <2>4. ~ MemHolds(l3, Fetched(a))
    BY <1>2, <1>4, <2>2, <2>3 DEF MemHolds
  <2> QED BY <2>4 DEF l3
<1>10. ~ NetHolds(m.watcher_to_writer_icnt, Update(a, k), n)
  <2> DEFINE K == WriterPackets({})
             net == m.watcher_to_writer_icnt
  <2>1. K = {} /\ At(K, n) = {}
    BY <1>2 DEF WriterPackets, At
  <2>2. net \in NetSet(num_watchers, K)
    BY MachineParts DEF WriterNets
  <2> HIDE DEF K, net, n
  <2>3. /\ net.in_reqs \in [0 .. num_watchers - 1 -> Seq(K)]
        /\ net.inflight \in [0 .. num_watchers - 1 -> Seq(K)]
        /\ net.out_reqs[n] \in Seq(At(K, n))
    BY <1>1, <2>2, NetParts
  <2>4. ~ NetHolds(net, Update(a, k), n)
    BY <1>3, <2>1, <2>3 DEF NetHolds
  <2> QED BY <2>4 DEF net, n
<1>11. ~ UnitHolds(m.m_watcher_write_unit[n], v)
  <2> DEFINE u == m.m_watcher_write_unit[n]
  <2>1. u \in UnitSet({}, {}) /\ L!IsEmpty(u)
    BY <1>1, UnitOfTile
  <2> HIDE DEF u, v
  <2>2. u.in_request \in Seq({}) /\ DOMAIN u.current_req = {}
    BY <1>2, <2>1, UnitParts DEF Entries
  <2>3. u.out_mem_requst \in Seq({})
    BY <2>1 DEF L!IsEmpty
  <2> QED BY <1>3, <2>2, <2>3 DEF UnitHolds, u, v
<1>12. \A p \in Banks : ~ NetHolds(m.memory_read_icnt, Fetched(a), num_watchers + p)
  BY <1>1, <1>8
<1> HIDE DEF v
<1> QED BY <1>1, <1>6, <1>7, <1>8, <1>9, <1>10, <1>11, <1>12 DEF Held, v

\* The invariant: no update is lost, and the program ends with nothing under way.
FlushInv == /\ AccInv
            /\ NoUpdateLost(machine)
            /\ driver = "done" => IsEmpty(machine)

\* In the beginning nothing is started.
LEMMA FlushInit == Init => FlushInv
<1> SUFFICES ASSUME Init PROVE FlushInv
  OBVIOUS
<1>1. AccInv
  BY AccInit
<1>2. machine.started = {} /\ driver = "running"
  BY DEF Init, NewMachine
<1>3. NoUpdateLost(machine)
  BY <1>2 DEF NoUpdateLost
<1> QED BY <1>1, <1>2, <1>3 DEF FlushInv

\* What AccInv says of the machine: it works on something.
LEMMA InvWorks ==
  ASSUME AccInv
  PROVE  \E T \in {{}, Assign} : machine \in Working(T, Allowed)
<1>1. PICK S \in SUBSET Assign, T \in {{}, Assign} :
        Fits(S, T, Allowed) /\ machine \in Machines(S, T, Allowed)
  BY DEF AccInv
<1> HIDE DEF Allowed
<1> QED BY <1>1, WorkingIs

\* The next machine loses no update: one conjunct for each step that changes it.
LEMMA FlushStep ==
  ASSUME FlushInv, Next
  PROVE  NoUpdateLost(machine')
<1>1. PICK T \in {{}, Assign} : machine \in Lossless(T, Allowed)
  BY InvWorks DEF FlushInv, Lossless
<1>2. PICK S : Fits(S, T, Allowed) /\ machine \in Machines(S, T, Allowed)
  BY <1>1, WorkingIs DEF Lossless
<1> HIDE DEF Allowed
<1>3. NoUpdateLost(machine) /\ machine.started \subseteq Assign
  BY <1>1, <1>2, MachineParts DEF Lossless
<1>4. CASE Submit
  <2> DEFINE trail == machine.in_m_trail \o [k \in DOMAIN Head(batches) |-> Task(Head(batches)[k])]
             x == [machine EXCEPT !.in_m_trail = trail]
  <2>1. machine' = x
    BY <1>4 DEF Submit
  <2> HIDE DEF trail
  <2>2. /\ x.watchers = machine.watchers /\ x.m_private_caches = machine.m_private_caches
        /\ x.memory_read_icnt = machine.memory_read_icnt
        /\ x.m_cache_interface = machine.m_cache_interface
        /\ x.watcher_to_writer_icnt = machine.watcher_to_writer_icnt
        /\ x.m_watcher_write_unit = machine.m_watcher_write_unit
        /\ x.written = machine.written /\ x.started = machine.started
    BY <1>2 DEF Machines
  <2> HIDE DEF x
  <2>3. \A a \in Assign, k \in Nat : k < get_watcher_size[a] /\ Held(machine, a, k) => Held(x, a, k)
    BY <2>2, HeldParts
  <2>4. NoUpdateLost(x)
    BY <1>3, <2>2, <2>3, LosslessStep
  <2> QED BY <2>1, <2>4
<1>5. CASE Cycle
  <2> DEFINE h == Hooks(machine)
  <2>1. PICK mc \in L3!Cycles(h.m_cache_interface),
             memory \in N!Outcomes(h.memory_read_icnt),
             clause \in N!Outcomes(h.watcher_to_clause_icnt),
             writer \in N!Outcomes(h.watcher_to_writer_icnt) :
          machine' = Components(h, mc, memory, clause, writer)
    BY <1>5 DEF Cycle
  <2>2. h \in Lossless(T, Allowed)
    BY <1>1, HooksHold
  <2> HIDE DEF h
  <2>3. PICK R : Fits(R, T, Allowed) /\ h \in Machines(R, T, Allowed)
    BY <2>2, WorkingIs DEF Lossless
  <2>4. NoUpdateLost(h) /\ h.started \subseteq Assign
    BY <2>2, <2>3, MachineParts DEF Lossless
  <2> DEFINE x == Components(h, mc, memory, clause, writer)
  <2>5. /\ x.started = h.started
        /\ \A a \in Assign, k \in Nat : k < get_watcher_size[a] /\ Held(h, a, k) => Held(x, a, k)
    BY <2>1, <2>3, ComponentsHold
  <2> HIDE DEF x
  <2>6. NoUpdateLost(x)
    BY <2>4, <2>5, LosslessStep
  <2> QED BY <2>1, <2>6 DEF x
<1>6. CASE FlushAll
  <2> DEFINE orders(i) == L!KeyOrders(machine.m_watcher_write_unit[i].current_req)
  <2>1. PICK order : /\ \A i \in Tile : order[i] \in orders(i)
                     /\ machine' = [machine EXCEPT !.m_watcher_write_unit =
                          [i \in Tile |-> L!FlushUnit(machine.m_watcher_write_unit[i], order[i])]]
    BY <1>6 DEF FlushAll
  <2> DEFINE us == [i \in Tile |-> L!FlushUnit(machine.m_watcher_write_unit[i], order[i])]
             x  == [machine EXCEPT !.m_watcher_write_unit = us]
  <2>2. \A a \in Assign, k \in Nat : k < get_watcher_size[a] /\ Held(machine, a, k) => Held(x, a, k)
    BY <1>2, <2>1, FlushAllHolds
  <2>3. x.started = machine.started
    BY <1>2 DEF Machines
  <2>4. machine' = x
    BY <2>1
  <2> HIDE DEF x
  <2>5. NoUpdateLost(x)
    BY <1>3, <2>2, <2>3, LosslessStep
  <2> QED BY <2>4, <2>5
<1>7. CASE FlushAllReturns
  <2>1. machine' = machine
    BY <1>7, FlushAllReturnsSame DEF FlushInv
  <2> QED BY <1>3, <2>1
<1> QED BY <1>4, <1>5, <1>6, <1>7 DEF Next

\* Every step of the program, and stuttering
LEMMA FlushNext ==
  ASSUME FlushInv, [Next]_vars
  PROVE  FlushInv'
<1>1. AccInv'
  BY AccNext DEF FlushInv
<1>2. NoUpdateLost(machine')
  <2>1. CASE Next
    BY <2>1, FlushStep
  <2>2. CASE UNCHANGED vars
    BY <2>2 DEF vars, FlushInv
  <2> QED BY <2>1, <2>2
<1>3. driver' = "done" => IsEmpty(machine')
  <2>1. CASE Submit \/ Cycle \/ FlushAll
    BY <2>1 DEF Submit, Cycle, FlushAll
  <2>2. CASE FlushAllReturns
    <3>1. machine' = machine
      BY <2>2, FlushAllReturnsSame DEF FlushInv
    <3>2. IsEmpty(machine)
      BY <2>2 DEF FlushAllReturns
    <3> QED BY <3>1, <3>2
  <2>3. CASE UNCHANGED vars
    BY <2>3 DEF vars, FlushInv
  <2> QED BY <2>1, <2>2, <2>3 DEF Next
<1>4. NoUpdateLost(machine)'
  <2>1. rust_config' = rust_config
    BY DEF Next, Submit, Cycle, FlushAll, FlushAllReturns, vars
  <2>2. \A a : WatcherOf(a)' = WatcherOf(a)
    BY <2>1 DEF WatcherOf
  <2>3. \A a, k : UnitOf(a, k)' = UnitOf(a, k) /\ Fetched(a)' = Fetched(a) /\ Awaited(a)' = Awaited(a)
    BY <2>2 DEF UnitOf, Fetched, Awaited
  <2>4. \A a, k : Held(machine', a, k) => Held(machine, a, k)'
    BY <2>2, <2>3 DEF Held
  <2>5. \A a \in machine'.started : \A k \in 0 .. get_watcher_size[a] - 1 : Held(machine', a, k)
    BY <1>2 DEF NoUpdateLost
  <2> QED BY <2>4, <2>5 DEF NoUpdateLost
<1>5. (driver = "done" => IsEmpty(machine))'
  BY <1>3
<1> QED BY <1>1, <1>4, <1>5 DEF FlushInv

\* When flush_all has returned, only a list that was sent can hold an update.
LEMMA FlushInvWrites == FlushInv => FlushWritesEveryList
<1> SUFFICES ASSUME FlushInv, driver = "done", NEW a \in machine.started,
                    NEW k \in 0 .. get_watcher_size[a] - 1
             PROVE  <<UnitOf(a, k), Changed(a, k)>> \in machine.written
  <2>1. \A a \in machine.started :
          Updates(a) = {<<UnitOf(a, k), Changed(a, k)>> : k \in 0 .. get_watcher_size[a] - 1}
    BY DEF Updates, UnitOf, Changed
  <2> QED BY <2>1 DEF FlushWritesEveryList
<1>1. machine \in Machines({}, {}, Allowed)
  BY DEF FlushInv, AccInv
<1> HIDE DEF Allowed
<1>2. a \in Assign
  BY <1>1, MachineParts
<1>3. k \in Nat /\ k < get_watcher_size[a]
  <2>1. get_watcher_size[a] \in Nat
    BY <1>2, TableAssumption
  <2> QED BY <2>1
<1>4. \A i \in Tile : L!IsEmpty(machine.m_watcher_write_unit[i])
  BY DEF FlushInv, IsEmpty, ComponentsEmpty
<1>5. Held(machine, a, k)
  BY DEF FlushInv, NoUpdateLost
<1> QED BY <1>1, <1>2, <1>3, <1>4, <1>5, IdleHasWritten

\* When flush_all returns, every list write unit that was given an update of a
\* list has sent that list to the cache: acc's loop, its hooks, the merging of
\* updates in the tables, their aging and the flush lose none.
THEOREM AccFlushWritesEveryList == Spec => []FlushWritesEveryList
<1>1. Init => FlushInv
  BY FlushInit
<1>2. FlushInv /\ [Next]_vars => FlushInv'
  BY FlushNext
<1>3. FlushInv => FlushWritesEveryList
  BY FlushInvWrites
<1> QED BY <1>1, <1>2, <1>3, PTL DEF Spec

===============================================================================
