-------------------------------- MODULE MCAcc --------------------------------
(* Two tiles with two clause units each.  Assignment a1 has a list of two    *)
(* watchers: the first becomes unit and yields a2, the second moves to the   *)
(* list of literal 5, which is also written by its own watcher, in the other *)
(* tile.  a2 has a list of one watcher with a clause of two lines, a3 no     *)
(* watchers.  a4 comes in a second batch and merges with what the write      *)
(* units still hold.                                                         *)
EXTENDS Acc
CONSTANTS a1, a2, a3, a4

MCValue == {2, 3, 4, 5}
MCget_value == a1 :> 2 @@ a2 :> 5 @@ a3 :> 4 @@ a4 :> 3
MCget_watcher_size == a1 :> 2 @@ a2 :> 1 @@ a3 :> 0 @@ a4 :> 1
MCget_pushed == <<a1, 0>> :> NotPushed @@ <<a1, 1>> :> 5 @@ <<a2, 0>> :> NotPushed
                @@ <<a4, 0>> :> 5
MCis_read_clause == {<<a1, 0>>, <<a1, 1>>, <<a2, 0>>, <<a4, 0>>}
MCget_clause_literal == <<a1, 0>> :> 1 @@ <<a1, 1>> :> 2 @@ <<a2, 0>> :> 3 @@ <<a4, 0>> :> 1
MCget_generated == <<a1, 0>> :> a2 @@ <<a1, 1>> :> Nothing @@ <<a2, 0>> :> Nothing
                   @@ <<a4, 0>> :> Nothing
MCget_clause_id == <<a1, 0>> :> 6 @@ <<a1, 1>> :> 7 @@ <<a2, 0>> :> 8 @@ <<a4, 0>> :> 9
MCpartition_id ==
  [x \in Assign \X AccessType |-> IF x[2] = "ReadClauseData" THEN 0 ELSE num_partition - 1]

Config(icnt, clause_icnt, writer_icnt, type, seq, single) ==
  [icnt |-> icnt, watcher_to_clause_icnt |-> clause_icnt,
   watcher_to_writer_icnt |-> writer_icnt, watcher_to_clause_type |-> type,
   seq |-> seq, single_watcher |-> single]
MCConfigs == {Config("Ideal", "Mesh", "Mesh", "Icnt", FALSE, FALSE),
              Config("Mesh", "Ideal", "Mesh", "Icnt", TRUE, FALSE),
              Config("Ideal", "Ideal", "Ideal", "Icnt", FALSE, TRUE)}
MCStraight == {Config("Mesh", "Ideal", "Mesh", "Streight", FALSE, FALSE)}
MCBatches == <<<<a1, a3>>, <<a4>>>>
=============================================================================
