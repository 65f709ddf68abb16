------------------------- MODULE EventOrderingBuffer -------------------------
(***************************************************************************)
(* EventOrderingBuffer, for one stream: what enqueue and flushExpired      *)
(* release, drop and refuse. A stream is a record                          *)
(*    known     the stream has been created                                *)
(*    buffered  the events waiting, each with its age                      *)
(*    next, lastSeq, lastTs, lastId   nextExpectedSequence and             *)
(*              lastReleased*, 0 when undefined                            *)
(*    changed   the time since lastChangedAt                               *)
(* Times are ages: an event is enqueued with the lag of its receivedAt     *)
(* behind the clock. Left out: counters, manual flush and removeStream,    *)
(* which nothing in the repository calls.                                  *)
(***************************************************************************)
EXTENDS Naturals, Sequences, SequencesExt, FiniteSets, FiniteSetsExt, Functions

CONSTANTS Events,       \* positive numbers
          SeqNo,        \* event.sequence, 0 when it has none
          Stamp,        \* getOrderingTimestamp
          Lateness,     \* maxTimestampLatenessMs
          MaxAge,       \* maxBufferAgeMs
          MaxLag        \* the largest lag of a receivedAt

\* How long an event has waited; it may have arrived late.
Ages == 0..MaxAge \cup 0..MaxLag
Streams == [known : BOOLEAN, buffered : UNION {[S -> Ages] : S \in SUBSET Events},
            next : Nat, lastSeq : Nat, lastTs : Nat, lastId : {0} \cup Events, changed : Nat]

NewStream == [known |-> FALSE, buffered |-> [e \in {} |-> 0], next |-> 0, lastSeq |-> 0,
              lastTs |-> 0, lastId |-> 0, changed |-> 0]

Outcome(stream, status, released) == [stream |-> stream, status |-> status, released |-> released]

-----------------------------------------------------------------------------
(* Orders *)

Sequenced(S) == {e \in S : SeqNo[e] # 0}

\* The sequence of the elements of S in the order Before.
Sorted(S, Before(_, _)) ==
    CHOOSE s \in [1..Cardinality(S) -> S] : \A i, j \in DOMAIN s : i < j => Before(s[i], s[j])

\* Mutant: the comparison is the wrong way round.
BySequenceDownwards(S) == Sorted(S, LAMBDA e, f : SeqNo[e] > SeqNo[f])

BySequence(S) == Sorted(S, LAMBDA e, f : SeqNo[e] < SeqNo[f])

\* compareBufferedByTimestamp. Equal timestamps, which the code tells apart by
\* sequence, age and id, are told apart by the number of the event.
Earlier(e, f) == Stamp[e] < Stamp[f] \/ (Stamp[e] = Stamp[f] /\ e < f)
ByTimestamp(S) == Sorted(S, Earlier)

\* compareBufferedByAge
Older(ages, e, f) == ages[e] > ages[f] \/ (ages[e] = ages[f] /\ e < f)
ByAge(ages, S) == Sorted(S, LAMBDA e, f : Older(ages, e, f))
Oldest(ages) == CHOOSE e \in DOMAIN ages : \A f \in DOMAIN ages \ {e} : Older(ages, e, f)

\* getDeterministicallyOrderedEvents
FlushOrder(policy, S) ==
    IF policy.mode = "TIMESTAMP" THEN ByTimestamp(S)
    ELSE BySequence(Sequenced(S)) \o ByTimestamp(S \ Sequenced(S))

-----------------------------------------------------------------------------
(* Release *)

\* releaseEvent, for the events of rel one after the other.
Released(st, rel) ==
    LET sequenced == {i \in DOMAIN rel : SeqNo[rel[i]] # 0}
        last      == SeqNo[rel[Max(sequenced)]]
    IN  IF rel = <<>> THEN st
        ELSE [st EXCEPT !.buffered = Restrict(@, DOMAIN @ \ ToSet(rel)),
                        !.lastSeq = IF sequenced = {} THEN @ ELSE last,
                        !.next = IF sequenced = {} THEN @ ELSE last + 1,
                        !.lastTs = Stamp[Last(rel)],
                        !.lastId = Last(rel)]

\* What is buffered from sequence n on, without a gap.
Run(S, n) == {e \in S : SeqNo[e] >= n /\ \A m \in n..SeqNo[e] : \E f \in S : SeqNo[f] = m}

\* releaseBySequence. Before the first sequenced event, the lowest one is expected.
\* Where gaps are closed at once, the oldest goes next when the expected one is
\* missing, until the buffer is empty: no more than one event there has a
\* sequence, since the one before it emptied the buffer.
InSequence(policy, st) ==
    LET S        == DOMAIN st.buffered
        expected == IF st.next # 0 \/ Sequenced(S) = {} THEN st.next
                    ELSE Min({SeqNo[e] : e \in Sequenced(S)})
        run      == Run(S, expected)
        rest     == IF policy.gap = "FLUSH_IMMEDIATELY" THEN ByAge(st.buffered, S \ run) ELSE <<>>
    IN  IF expected = 0 THEN <<>> ELSE BySequence(run) \o rest

\* releaseByTimestamp: what the newest event is ahead of by the lateness.
InTime(st) ==
    LET S == DOMAIN st.buffered
    IN  ByTimestamp({e \in S : \E f \in S : Stamp[e] + Lateness <= Stamp[f]})

\* releaseAvailableEvents
Available(policy, st) ==
    IF \/ policy.mode = "TIMESTAMP"
       \/ policy.mode = "HYBRID" /\ Sequenced(DOMAIN st.buffered) = {}
    THEN InTime(st) ELSE InSequence(policy, st)

-----------------------------------------------------------------------------
(* enqueue and flushExpired *)

\* Mutant: sequences are not compared.
DuplicateById(policy, st, e) == e \in DOMAIN st.buffered \/ st.lastId = e

\* classifySequence, and the event id.
Duplicate(policy, st, e) ==
    \/ e \in DOMAIN st.buffered \/ st.lastId = e
    \/ /\ policy.mode # "TIMESTAMP" /\ SeqNo[e] # 0
       /\ SeqNo[e] \in {st.lastSeq} \cup {SeqNo[f] : f \in DOMAIN st.buffered}
Stale(policy, st, e) == policy.mode # "TIMESTAMP" /\ SeqNo[e] # 0 /\ SeqNo[e] < st.lastSeq
Late(st, e) == Lateness # 0 /\ Stamp[e] + Lateness < st.lastTs

\* handleLateEvent
LateOutcome(policy, st, e) ==
    CASE policy.late = "REJECT"  -> Outcome(st, "REJECTED", <<>>)
      [] policy.late = "DROP"    -> Outcome(st, "DROPPED", <<>>)
      [] policy.late = "RELEASE" -> Outcome(Released(st, <<e>>), "LATE", <<e>>)

\* prepareCapacity: the oldest event makes room. FLUSH_OLDEST releases it, and
\* the event it releases is returned to nobody.
Relieved(policy, st) ==
    LET e == Oldest(st.buffered) IN
    IF policy.overflow = "FLUSH_OLDEST" THEN Released(st, <<e>>)
    ELSE [st EXCEPT !.buffered = Restrict(@, DOMAIN @ \ {e})]

\* maxBufferedEventsPerStream is reached.
Full(policy, st) == Cardinality(DOMAIN st.buffered) >= policy.capacity

Buffering(ages, e, age) == [f \in DOMAIN ages \cup {e} |-> IF f = e THEN age ELSE ages[f]]

\* Mutant: the age of an event counts from before it was received.
StoredOlder(policy, st, e, lag) ==
    Outcome([st EXCEPT !.buffered = Buffering(@, e, lag + 1)], "BUFFERED", <<>>)

\* The event is stored and what has become available is released.
Stored(policy, st, e, lag) ==
    LET with == [st EXCEPT !.buffered = Buffering(@, e, lag)]
        rel  == Available(policy, with)
    IN  Outcome(Released(with, rel), IF rel = <<>> THEN "BUFFERED" ELSE "RELEASED", rel)

\* enqueue. When the buffer is crowded, other streams hold so much that the
\* total limit is reached, and it is one of them that makes room.
Enqueued(policy, stream, e, lag, crowded) ==
    LET st == IF stream.known THEN stream
              ELSE [stream EXCEPT !.known = TRUE, !.next = SeqNo[e], !.changed = lag]
        now == [st EXCEPT !.changed = lag]
    IN  IF lag > st.changed THEN Outcome(st, "FAILED", <<>>)
        ELSE IF Duplicate(policy, st, e) THEN Outcome(now, "DUPLICATE", <<>>)
        ELSE IF Stale(policy, st, e) THEN Outcome(now, "STALE", <<>>)
        ELSE IF Late(st, e) THEN LateOutcome(policy, now, e)
        ELSE IF ~Full(policy, st) /\ ~crowded THEN Stored(policy, now, e, lag)
        ELSE IF policy.overflow = "REJECT_NEWEST" THEN Outcome(st, "REJECTED", <<>>)
        ELSE Stored(policy, IF crowded THEN now ELSE Relieved(policy, now), e, lag)

\* flushExpired
Expired(policy, st) ==
    policy.gap = "FLUSH_ON_TIMEOUT" /\ \E e \in DOMAIN st.buffered : st.buffered[e] >= MaxAge

\* Mutant: what has expired is released only as far as it is in sequence.
FlushedInSequence(policy, st) ==
    LET rel == IF Expired(policy, st) THEN Available(policy, st) ELSE <<>>
    IN  Outcome([Released(st, rel) EXCEPT !.changed = IF rel = <<>> THEN @ ELSE 0], "FLUSHED", rel)

Flushed(policy, st) ==
    LET rel == IF Expired(policy, st) THEN FlushOrder(policy, DOMAIN st.buffered) ELSE <<>>
    IN  Outcome([Released(st, rel) EXCEPT !.changed = IF rel = <<>> THEN @ ELSE 0], "FLUSHED", rel)

\* The clock.
Later(n, max) == IF n < max THEN n + 1 ELSE n
StreamAged(st) ==
    [st EXCEPT !.buffered = [e \in DOMAIN st.buffered |-> Later(st.buffered[e], MaxAge)],
               !.changed = Later(st.changed, MaxLag)]

=============================================================================
