------------------------------- MODULE MCClause -------------------------------
(* A clause of two lines, and two clauses of one line that become unit.      *)
EXTENDS Clause, TLC
CONSTANTS a1, a2, a3, a4

MCWatched == {<<a1, 0>>, <<a1, 1>>, <<a2, 0>>}
MCget_clause_literal == <<a1, 0>> :> 3 @@ <<a1, 1>> :> 2 @@ <<a2, 0>> :> 1
MCget_generated == <<a1, 0>> :> Nothing @@ <<a1, 1>> :> a3 @@ <<a2, 0>> :> a4
=============================================================================
