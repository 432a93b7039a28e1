----------------------------- MODULE ClauseWriter -----------------------------
(***************************************************************************)
(* clause_writer: turns a clause that is done into the writes of the lines *)
(* it touches: one for a clause that fits into a line, two for a longer one*)
(* (its first and its middle line).                                        *)
(***************************************************************************)
EXTENDS Integers, Sequences

CONSTANTS get_clause_literal, LineSize

NewWriter == [in |-> <<>>, out |-> <<>>]

IsEmpty(w) == w.in = <<>> /\ w.out = <<>>

\* The assertions of do_cycle: the request is for the last literal of its clause.
AssertionsHold(w) ==
  w.in # <<>> => Head(w.in).clauseId + 1 = get_clause_literal[<<Head(w.in).as, Head(w.in).watcherId>>]

DoCycle(w) ==
  IF w.in = <<>> THEN w
  ELSE LET req  == [Head(w.in) EXCEPT !.type = "WriteClause"]
           size == get_clause_literal[<<req.as, req.watcherId>>]
       IN [in  |-> Tail(w.in),
           out |-> w.out \o IF size <= LineSize THEN <<req>> ELSE <<req, req>>]
=============================================================================
