----------------------------- MODULE MCSeqPipeline -----------------------------
(* a1 has three watchers: the clause of the first becomes unit and yields a2, *)
(* the second one moves to another list, the clause of the third is not read. *)
(* a2 yields a3, which has no watchers.  a4 has two watchers and one clause,  *)
(* a5 two clauses, the second of which becomes unit, a7 an empty list.        *)
EXTENDS SeqPipeline
CONSTANTS a1, a2, a3, a4, a5, a6, a7

MCget_watcher_size ==
  a1 :> 3 @@ a2 :> 1 @@ a3 :> 0 @@ a4 :> 2 @@ a5 :> 2 @@ a6 :> 1 @@ a7 :> 0
MCis_read_clause ==
  {<<a1, 0>>, <<a1, 1>>, <<a2, 0>>, <<a4, 1>>, <<a5, 0>>, <<a5, 1>>}
MCget_pushed == [c \in is_read_clause |-> CASE c = <<a1, 1>> -> 7
                                             [] c = <<a2, 0>> -> 5
                                             [] c = <<a5, 1>> -> 7
                                             [] OTHER -> NotPushed]
MCget_generated == [c \in is_read_clause |-> CASE c = <<a1, 0>> -> a2
                                                [] c = <<a2, 0>> -> a3
                                                [] c = <<a5, 1>> -> a6
                                                [] OTHER -> Nothing]
MCTasks == {a1, a4, a5, a7}
=============================================================================
