----------------------------- MODULE WriteBuffer -----------------------------
(***************************************************************************)
(* What a merging write unit promises, with no table, no counters and no   *)
(* aging queue: updates of watcher lists (named by the literal they belong *)
(* to) arrive in a queue, a list that has an update nobody has written yet *)
(* is dirty, and a list leaves the dirty set only by being written.        *)
(***************************************************************************)
EXTENDS Integers, Sequences, FiniteSets, SequencesExt

CONSTANTS Value,      \* the literals, i.e. the watcher lists
          Capacity    \* how many lists may be dirty at once

VARIABLES incoming,   \* updates that have arrived, oldest first
          dirty,      \* lists with an update that has not been written
          written     \* writes on their way to the memory, oldest first

vars == <<incoming, dirty, written>>

Init == incoming = <<>> /\ dirty = {} /\ written = <<>>

\* An update of list v arrives.
Arrive(v) ==
  /\ incoming' = Append(incoming, v)
  /\ UNCHANGED <<dirty, written>>

\* The next update is kept: its list is dirty from now on.
Keep ==
  /\ incoming # <<>>
  /\ Cardinality(dirty \cup {Head(incoming)}) <= Capacity
  /\ incoming' = Tail(incoming)
  /\ dirty' = dirty \cup {Head(incoming)}
  /\ UNCHANGED written

\* The next update is written together with the ones kept for its list.
WriteThrough ==
  /\ incoming # <<>>
  /\ Head(incoming) \in dirty
  /\ incoming' = Tail(incoming)
  /\ dirty' = dirty \ {Head(incoming)}
  /\ written' = Append(written, Head(incoming))

\* The next update is kept in the room made by writing another list.
Replace ==
  /\ incoming # <<>>
  /\ Head(incoming) \notin dirty
  /\ \E w \in dirty :
       /\ dirty' = (dirty \ {w}) \cup {Head(incoming)}
       /\ written' = Append(written, w)
  /\ incoming' = Tail(incoming)

\* Every dirty list is written, each of them once.
WriteAll ==
  /\ \E order \in SetToSeqs(dirty) : written' = written \o order
  /\ dirty' = {}
  /\ UNCHANGED incoming

\* The memory accepts the oldest write.
Accept ==
  /\ written # <<>>
  /\ written' = Tail(written)
  /\ UNCHANGED <<incoming, dirty>>

Next == \/ \E v \in Value : Arrive(v)
        \/ Keep \/ WriteThrough \/ Replace \/ WriteAll \/ Accept

Spec == Init /\ [][Next]_vars
=============================================================================
