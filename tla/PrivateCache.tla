----------------------------- MODULE PrivateCache -----------------------------
(***************************************************************************)
(* private_cache: the cache for literal values that a watcher shares with  *)
(* the clause units of its tile.  from_in_to_out sets the result of every  *)
(* access to a hit, so nothing misses and nothing is filled: in_resp,      *)
(* out_miss_queue and addr_to_req stay empty, and are left out.            *)
(***************************************************************************)
EXTENDS Integers, Sequences

CONSTANTS private_size,       \* private_cache::in_size
          private_out_size    \* private_cache::out_size

NewCache == [in_request |-> <<>>, out_send_q |-> <<>>]

RecieveRdy(p) == Len(p.in_request) < private_size
IsEmpty(p) == p.in_request = <<>> /\ p.out_send_q = <<>>

FromInToOut(p) ==
  IF p.in_request = <<>> \/ Len(p.out_send_q) >= private_out_size THEN p
  ELSE [in_request |-> Tail(p.in_request),
        out_send_q |-> Append(p.out_send_q, Head(p.in_request))]

DoCycle(p) == FromInToOut(p)
=============================================================================
