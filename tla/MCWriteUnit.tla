----------------------------- MODULE MCWriteUnit -----------------------------
(* Two assignments; the list of a1 has a watcher that moves to the list of  *)
(* literal 6, so three lists compete for two entries.                       *)
EXTENDS WriteUnit, TLC
CONSTANTS a1, a2

MCValue == {2, 4, 6}
MCget_value == a1 :> 2 @@ a2 :> 4
MCget_watcher_size == a1 :> 2 @@ a2 :> 1
MCget_pushed == <<a1, 0>> :> NotPushed @@ <<a1, 1>> :> 6 @@ <<a2, 0>> :> NotPushed
=============================================================================
