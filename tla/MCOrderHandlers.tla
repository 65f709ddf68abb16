---------------------------- MODULE MCOrderHandlers ----------------------------
(* One order of two lots, filled at once (f2) or in two steps (f1, g1).     *)
EXTENDS OrderHandlers, TLC

CONSTANTS f1, g1, f2, x, submit, cancel, replace, reconcile

MCFillQty == [f \in Fills |-> IF f = f2 THEN 2 ELSE 1]

MCOp == [c \in Commands |->
            CASE c = submit  -> "SUBMIT"
              [] c = cancel  -> "CANCEL"
              [] c = replace -> "REPLACE"
              [] OTHER       -> "RECONCILE"]

MCFills == {f1, g1, f2}
MCExIds == {x}

\* Only reconciliation is repeated (a repeated submission: see README).
MCAttempts == [c \in Commands |-> IF c = reconcile THEN 2 ELSE 1]
\* The order is to be cancelled or to be replaced, not both.
OneRequest == attempts'[cancel] = 0 \/ attempts'[replace] = 0
=============================================================================
