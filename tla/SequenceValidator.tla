-------------------------- MODULE SequenceValidator --------------------------
(***************************************************************************)
(* SequenceValidator, for the events of one stream: what validate answers  *)
(* and how it moves the current sequence. Counters and the health flag of  *)
(* the stream are left out; sequence 0 stands for an absent one.           *)
(***************************************************************************)
EXTENDS Naturals

CONSTANTS SeqNo     \* the sequence of each event

GapActions == {"REJECT", "ACCEPT_AND_ADVANCE", "ACCEPT_WITHOUT_ADVANCE"}

\* The branch validate takes for event e. The caller may ask for a reset (an
\* order book snapshot always does), or name a previous sequence that does not
\* match the current one.
Verdict(current, e, request) ==
    IF request = "reset" THEN "RESET"
    ELSE IF SeqNo[e] = 0 THEN "UNSEQUENCED"
    ELSE IF current = 0 THEN "INITIALIZED"
    ELSE IF request = "mismatch" THEN "GAP"
    ELSE IF SeqNo[e] = current THEN "DUPLICATE"
    ELSE IF SeqNo[e] < current THEN "STALE"
    ELSE IF SeqNo[e] = current + 1 THEN "ACCEPTED"
    ELSE "GAP"

\* result.accepted. STRICT mode is the gap action REJECT.
Accepts(policy, verdict) ==
    CASE verdict = "GAP"         -> policy.gapAction # "REJECT"
      [] verdict = "DUPLICATE"   -> policy.ignoreDuplicate
      [] verdict = "STALE"       -> policy.ignoreStale
      [] verdict = "UNSEQUENCED" -> policy.allowUnsequenced
      [] OTHER                   -> TRUE

\* The current sequence after the verdict.
Advanced(policy, current, e, verdict) ==
    IF \/ verdict \in {"RESET", "INITIALIZED", "ACCEPTED"}
       \/ verdict = "GAP" /\ policy.gapAction = "ACCEPT_AND_ADVANCE"
    THEN SeqNo[e] ELSE current

=============================================================================
