--------------------------------- MODULE Icnt ---------------------------------
(***************************************************************************)
(* icnt_base, icnt_ideal and icnt_mesh: a network is one record with the   *)
(* queues its users fill (in_reqs) and empty (out_reqs), one of each per   *)
(* node.  The ideal network delivers everything in its cycle.  The mesh    *)
(* hands one request per node to the mesh library and takes at most one    *)
(* per node from it; the library is external: it holds what it was given   *)
(* and delivers it at any later time, in any order.                        *)
(***************************************************************************)
EXTENDS Integers, Sequences, FiniteSets, SequencesExt

CONSTANTS
  buffer_size,    \* in_reqs of an ideal network with room (16 in the code)
  MeshSlots       \* requests of one node the mesh holds (external: mesh.h)

Node(n_nodes) == 0 .. n_nodes - 1

\* A request on its way carries icnt_to; icnt_from is the node it was pushed at.
Packet(req, to) == [req |-> req, icnt_to |-> to]

NewIcnt(kind, n_nodes) ==
  [kind |-> kind, n_nodes |-> n_nodes,
   in_reqs  |-> [i \in Node(n_nodes) |-> <<>>],
   inflight |-> [i \in Node(n_nodes) |-> <<>>],   \* in the mesh, by source
   out_reqs |-> [i \in Node(n_nodes) |-> <<>>]]

HasBuffer(net, source) ==
  CASE net.kind = "Ideal" -> Len(net.in_reqs[source]) < buffer_size
    [] net.kind = "Mesh"  -> Len(net.inflight[source]) < MeshSlots

Push(net, source, req, to) ==
  [net EXCEPT !.in_reqs[source] = Append(@, Packet(req, to))]

\* A request for the node it comes from does not enter the network.
PushOrDeliver(net, source, req, to) ==
  IF source = to THEN [net EXCEPT !.out_reqs[source] = Append(@, req)]
  ELSE Push(net, source, req, to)

PopOut(net, node) == [net EXCEPT !.out_reqs[node] = Tail(@)]

IsEmpty(net) ==
  \A i \in Node(net.n_nodes) :
    net.in_reqs[i] = <<>> /\ net.inflight[i] = <<>> /\ net.out_reqs[i] = <<>>

-----------------------------------------------------------------------------
(* icnt_ideal::do_cycle: the nodes' queues are emptied one after the other  *)


IdealCycle(net) ==
  LET all == FlattenSeq([k \in 1 .. net.n_nodes |-> net.in_reqs[k - 1]])
      to(node) == FlattenSeq([k \in DOMAIN all |->
                    IF all[k].icnt_to = node THEN <<all[k].req>> ELSE <<>>])
  IN  [net EXCEPT
         !.in_reqs  = [i \in DOMAIN @ |-> <<>>],
         !.out_reqs = [i \in DOMAIN @ |-> @[i] \o to(i)]]

-----------------------------------------------------------------------------
(* icnt_mesh::do_cycle                                                      *)

NoPacket == <<>>

\* External (mesh.h): the packets node may receive, as <<source, position>>
Arriving(net, node) ==
  {x \in Node(net.n_nodes) \X (1 .. MeshSlots) :
     x[2] <= Len(net.inflight[x[1]]) /\ net.inflight[x[1]][x[2]].icnt_to = node}

\* The choices of a cycle: what each node receives, if anything
Receipts(net) ==
  {f \in [Node(net.n_nodes) -> {NoPacket} \cup UNION {Arriving(net, i) : i \in Node(net.n_nodes)}] :
     \A i \in DOMAIN f : f[i] \in {NoPacket} \cup Arriving(net, i)}

\* The packets of source that stay in the mesh
Remaining(net, receipt, source) ==
  LET stays(k) == \A i \in DOMAIN receipt : receipt[i] # <<source, k>>
      q == net.inflight[source]
  IN  FlattenSeq([k \in DOMAIN q |-> IF stays(k) THEN <<q[k]>> ELSE <<>>])

MeshCycle(net, receipt) ==
  LET sends(i) == net.in_reqs[i] # <<>> /\ HasBuffer(net, i)
  IN  [net EXCEPT
         !.in_reqs  = [i \in DOMAIN @ |-> IF sends(i) THEN Tail(@[i]) ELSE @[i]],
         !.inflight = [i \in DOMAIN @ |->
            IF sends(i) THEN Append(Remaining(net, receipt, i), Head(net.in_reqs[i]))
                        ELSE Remaining(net, receipt, i)],
         !.out_reqs = [i \in DOMAIN @ |->
            IF receipt[i] = NoPacket THEN @[i]
            ELSE Append(@[i], net.inflight[receipt[i][1]][receipt[i][2]].req)]]

-----------------------------------------------------------------------------
\* What may happen in a cycle, and what a cycle does
Outcomes(net) ==
  IF net.kind = "Ideal" THEN {[i \in Node(net.n_nodes) |-> NoPacket]} ELSE Receipts(net)

\* The cycles in which a packet leaves the mesh
Deliveries(net) == {r \in Outcomes(net) : \E i \in DOMAIN r : r[i] # NoPacket}

DoCycle(net, receipt) ==
  CASE net.kind = "Ideal" -> IdealCycle(net)
    [] net.kind = "Mesh"  -> MeshCycle(net, receipt)
=============================================================================
