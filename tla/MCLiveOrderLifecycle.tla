------------------------- MODULE MCLiveOrderLifecycle -------------------------
(* One order of three lots; fills of one and of two lots, so that it can be *)
(* filled at once, in two steps, and overfilled by a repeated report.       *)
EXTENDS LiveOrderLifecycle, TLC

CONSTANTS f1, f2, f3, x1, x2

MCFills   == {f1, f2, f3}
MCFillQty == f1 :> 1 @@ f2 :> 2 @@ f3 :> 3
MCExIds   == {x1, x2}
=============================================================================
