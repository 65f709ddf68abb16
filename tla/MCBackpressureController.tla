---------------------- MODULE MCBackpressureController ----------------------
(* One consumer takes every overflow policy and every timeout action, the   *)
(* other is the one events may be evicted from.                             *)
EXTENDS BackpressureController

CONSTANTS k1, k2

MCRegistrations ==
    k1 :> {[overflow |-> "REJECT_NEWEST", timeout |-> "NONE"],
           [overflow |-> "DROP_NEWEST", timeout |-> "PAUSE_CONSUMER"],
           [overflow |-> "PAUSE_CONSUMER", timeout |-> "MARK_DEGRADED"],
           [overflow |-> "FAIL_CONSUMER", timeout |-> "MARK_DEGRADED"],
           [overflow |-> "DROP_OLDEST", timeout |-> "FAIL_CONSUMER"]}
    @@ k2 :> {[overflow |-> "DROP_OLDEST", timeout |-> "DROP_TIMED_OUT"]}
=============================================================================
