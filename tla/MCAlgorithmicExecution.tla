----------------------- MODULE MCAlgorithmicExecution -----------------------
(* One slice of two lots, two orders for it and two fills of each.          *)
EXTENDS AlgorithmicExecution, TLC

CONSTANTS c1, c2, s1, k1, k2, f1, g1, f2, g2

MCTarget == s1 :> 2
MCFillOf == f1 :> k1 @@ g1 :> k1 @@ f2 :> k2 @@ g2 :> k2
MCFillQty == f1 :> 1 @@ g1 :> 2 @@ f2 :> 1 @@ g2 :> 1

\* One caller trades; the other one, which controls the execution and reports
\* fills, overlaps with it up to version 7. Where that has led to an overwriting save, the run
\* ends: whatever is stored then could have been stored without overlap.
Control == {"pause", "resume", "cancel", "fail", "applyFill"}
TraderAndControl ==
    /\ ~overwritten
    /\ call'[c2] # NoCall => call'[c2].request.op \in Control /\ (call[c2] = NoCall => call[c1] # NoCall /\ stored.version < 7)
    /\ call[c1] = NoCall /\ call'[c1] # NoCall => call[c2] = NoCall
    /\ stored' # None => Len(stored'.later) <= 1
    /\ stored # None /\ stored.version = 0 => \A c \in Callers : call'[c] # NoCall => call'[c].request.op = "start"
=============================================================================
