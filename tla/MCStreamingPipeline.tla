------------------------- MODULE MCStreamingPipeline -------------------------
(* Four events in sequence and one without, which is late once the third    *)
(* has been released. Each policy sees two or three of them.                *)
EXTENDS StreamingPipeline, TLC

CONSTANTS c1, c2, k

MCEvents == 1..5
MCSeqNo == <<1, 2, 3, 0, 4>>
MCStamp == <<2, 3, 4, 1, 5>>

\* The defaults, but for a validator that leaves gaps to the buffer.
Default == [gapAction |-> "ACCEPT_WITHOUT_ADVANCE", ignoreDuplicate |-> TRUE, ignoreStale |-> FALSE,
            allowUnsequenced |-> TRUE, rejectInvalid |-> TRUE,
            mode |-> "HYBRID", gap |-> "FLUSH_ON_TIMEOUT", overflow |-> "REJECT_NEWEST", late |-> "DROP",
            capacity |-> 2, consumer |-> TRUE, timeout |-> "MARK_DEGRADED", maxReleased |-> 1000,
            events |-> {1, 2, 3}, requests |-> {"plain"}, lags |-> {0}, crowded |-> FALSE]

\* The second event never comes.
Gapped == [Default EXCEPT !.timeout = "PAUSE_CONSUMER", !.events = {1, 3, 5}, !.lags = {0, 1}]

\* A strict validator, resets, and a buffer that waits for the missing event.
Strict == [Default EXCEPT !.gapAction = "REJECT", !.ignoreDuplicate = FALSE, !.gap = "WAIT", !.late = "REJECT",
                          !.consumer = FALSE, !.requests = {"plain", "reset"}]

\* A validator that steps over gaps, and a buffer that closes them at once.
Advancing == [Default EXCEPT !.gapAction = "ACCEPT_AND_ADVANCE", !.ignoreStale = TRUE, !.gap = "FLUSH_IMMEDIATELY",
                             !.timeout = "DROP_TIMED_OUT", !.requests = {"plain", "mismatch"}]

\* Events with and without a sequence, on a buffer with room for one.
Mixed == [Default EXCEPT !.overflow = "DROP_OLDEST", !.capacity = 1, !.timeout = "NONE", !.events = {1, 3, 4}]

\* Events in the order of their timestamps, on a buffer other streams fill.
Timed == [Default EXCEPT !.mode = "TIMESTAMP", !.late = "RELEASE", !.overflow = "FLUSH_OLDEST", !.capacity = 1,
                         !.rejectInvalid = FALSE, !.allowUnsequenced = FALSE, !.maxReleased = 1,
                         !.consumer = FALSE, !.events = {3, 4}, !.crowded = TRUE]

\* Events in sequence, on a buffer other streams fill.
Crowded == [Default EXCEPT !.mode = "SEQUENCE", !.late = "REJECT", !.overflow = "DROP_OLDEST", !.capacity = 1,
                           !.timeout = "FAIL_CONSUMER", !.events = {2, 3, 4}, !.crowded = TRUE]

MCPolicies == {Default, Gapped, Strict, Advancing, Mixed, Timed, Crowded}
=============================================================================
