------------------------------ MODULE MCWatcher ------------------------------
(* A list of two lines, a list of one line and an empty list.               *)
EXTENDS Watcher, TLC
CONSTANTS a1, a2, a3

MCget_watcher_size == a1 :> 3 @@ a2 :> 1 @@ a3 :> 0
MCis_read_clause == {<<a1, 1>>, <<a1, 2>>, <<a2, 0>>}
=============================================================================
