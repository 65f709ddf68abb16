----------------------- MODULE BackpressureController -----------------------
(***************************************************************************)
(* BackpressureController: one bounded queue per consumer, what is in      *)
(* flight, the watermarks that pause and resume a consumer, the overflow   *)
(* policies and the acknowledgement timeouts.                              *)
(*                                                                         *)
(* Each operation is an operator on the function of consumer records, so   *)
(* that the streaming pipeline can run several of them in one step; the    *)
(* actions below run them one at a time, as clients of the controller do.  *)
(*                                                                         *)
(* Left out: counters, listeners, snapshots, and the timestamps beyond the *)
(* age of what is in flight (an entry's id grows with its admission time). *)
(***************************************************************************)
EXTENDS Naturals, Sequences, SequencesExt, FiniteSets, FiniteSetsExt

CONSTANTS Consumers, Events,
          MaxPending,       \* registration.maxPendingEvents
          HighWatermark,    \* highWatermarkCount
          LowWatermark,     \* lowWatermarkCount
          MaxGlobal,        \* maxGlobalPendingEvents
          AckTimeout,       \* acknowledgementTimeoutMs, in steps of the clock
          Registrations,    \* the policies each consumer may register with
          MaxEntries        \* bound: entries ever created

VARIABLES consumers,    \* the consumer records
          nextEntry,    \* nextEntrySequence
          overridden    \* consumers made ACTIVE by hand at or above the high watermark

vars == <<consumers, nextEntry, overridden>>

States == {"ABSENT", "ACTIVE", "PAUSED", "DEGRADED", "FAILED"}
OverflowPolicies == {"REJECT_NEWEST", "DROP_NEWEST", "DROP_OLDEST", "PAUSE_CONSUMER", "FAIL_CONSUMER"}
\* NONE stands for an acknowledgement timeout of zero.
TimeoutActions == {"NONE", "MARK_DEGRADED", "PAUSE_CONSUMER", "FAIL_CONSUMER", "DROP_TIMED_OUT"}

ASSUME BackpressureAssumption ==
    /\ IsFiniteSet(Consumers)
    /\ LowWatermark \in Nat /\ HighWatermark \in Nat /\ MaxPending \in Nat /\ MaxGlobal \in Nat
    /\ AckTimeout \in Nat /\ MaxEntries \in Nat
    /\ Registrations \in [Consumers -> SUBSET [overflow : OverflowPolicies, timeout : TimeoutActions]]
    /\ LowWatermark < HighWatermark /\ HighWatermark <= MaxPending /\ MaxPending <= MaxGlobal

Entries == [id : 1..MaxEntries, event : Events, retried : BOOLEAN, age : 0..AckTimeout]
Records == [state : States, overflow : OverflowPolicies, timeout : TimeoutActions,
            queue : Seq(Entries), inFlight : SUBSET Entries]
NoConsumer == [state |-> "ABSENT", overflow |-> "REJECT_NEWEST", timeout |-> "NONE",
               queue |-> <<>>, inFlight |-> {}]

TypeOK ==
    /\ consumers \in [Consumers -> Records]
    /\ nextEntry \in 1..MaxEntries + 1
    /\ overridden \subseteq Consumers

-----------------------------------------------------------------------------
(* The operations, on the consumer records *)

Pending(r) == Len(r.queue) + Cardinality(r.inFlight)
GlobalPending(cs) ==
    LET pending == [k \in Consumers |-> Pending(cs[k])]
    IN  MapThenSumSet(LAMBDA k : pending[k], Consumers)
Registered(cs, k) == cs[k].state # "ABSENT"

\* Mutant: a consumer is paused only above the high watermark.
ReconciledAbove(r) ==
    [r EXCEPT !.state =
        IF @ = "FAILED" THEN @
        ELSE IF Pending(r) > HighWatermark THEN "PAUSED"
        ELSE IF Pending(r) <= LowWatermark THEN "ACTIVE" ELSE @]

\* reconcileWatermarks
Reconciled(r) ==
    [r EXCEPT !.state =
        IF @ = "FAILED" THEN @
        ELSE IF Pending(r) >= HighWatermark THEN "PAUSED"
        ELSE IF Pending(r) <= LowWatermark THEN "ACTIVE" ELSE @]

\* Mutant: only the limit of all consumers counts.
AtGlobalCapacity(cs, k) == GlobalPending(cs) >= MaxGlobal

AtCapacity(cs, k) == GlobalPending(cs) >= MaxGlobal \/ Pending(cs[k]) >= MaxPending

\* The queues an entry may be evicted from: every queue when the controller is
\* full, the consumer's own otherwise.
Victims(cs, k) == {j \in IF GlobalPending(cs) >= MaxGlobal THEN Consumers ELSE {k} : cs[j].queue # <<>>}
OldestId(r) == Min({r.queue[i].id : i \in DOMAIN r.queue})
\* dropQueuedEntry, of the oldest.
Evicted(cs, k) ==
    IF Victims(cs, k) = {} THEN cs
    ELSE LET j == CHOOSE v \in Victims(cs, k) :
                     \A w \in Victims(cs, k) : OldestId(cs[v]) <= OldestId(cs[w])
         IN  [cs EXCEPT ![j].queue = RemoveAt(@, CHOOSE i \in DOMAIN @ : @[i].id = OldestId(cs[j]))]

\* The status admit answers with.
Admission(cs, k) ==
    CASE cs[k].state = "FAILED" -> "CONSUMER_FAILED"
      [] cs[k].state = "PAUSED" -> "CONSUMER_PAUSED"
      [] cs[k].state \in {"ACTIVE", "DEGRADED"} ->
            IF ~AtCapacity(cs, k) THEN "ACCEPTED"
            ELSE CASE cs[k].overflow = "REJECT_NEWEST"  -> "REJECTED"
                   [] cs[k].overflow = "DROP_NEWEST"    -> "DROPPED"
                   [] cs[k].overflow = "DROP_OLDEST"    -> IF Victims(cs, k) = {} THEN "REJECTED" ELSE "ACCEPTED"
                   [] cs[k].overflow = "PAUSE_CONSUMER" -> "CONSUMER_PAUSED"
                   [] cs[k].overflow = "FAIL_CONSUMER"  -> "CONSUMER_FAILED"

Pushed(cs, k, entry) == [cs EXCEPT ![k] = Reconciled([cs[k] EXCEPT !.queue = Append(@, entry)])]

\* Mutant: nothing is evicted for the newest event.
AdmittedWithoutEviction(cs, k, e, id) ==
    LET entry == [id |-> id, event |-> e, retried |-> FALSE, age |-> 0] IN
    CASE Admission(cs, k) = "ACCEPTED"        -> Pushed(cs, k, entry)
      [] Admission(cs, k) = "CONSUMER_PAUSED" -> [cs EXCEPT ![k].state = "PAUSED"]
      [] Admission(cs, k) = "CONSUMER_FAILED" -> [cs EXCEPT ![k].state = "FAILED"]
      [] OTHER                                -> cs

\* admit
Admitted(cs, k, e, id) ==
    LET entry == [id |-> id, event |-> e, retried |-> FALSE, age |-> 0] IN
    CASE Admission(cs, k) = "ACCEPTED"        -> Pushed(IF AtCapacity(cs, k) THEN Evicted(cs, k) ELSE cs, k, entry)
      [] Admission(cs, k) = "CONSUMER_PAUSED" -> [cs EXCEPT ![k].state = "PAUSED"]
      [] Admission(cs, k) = "CONSUMER_FAILED" -> [cs EXCEPT ![k].state = "FAILED"]
      [] OTHER                                -> cs

\* drain: the first n of the queue are in flight.
Drained(cs, k, n) ==
    [cs EXCEPT ![k] = Reconciled(
        [cs[k] EXCEPT !.queue = SubSeq(@, n + 1, Len(@)),
                      !.inFlight = @ \cup {cs[k].queue[i] : i \in DOMAIN cs[k].queue \cap 1..n}])]

\* acknowledge
Acknowledged(cs, k, x) == [cs EXCEPT ![k] = Reconciled([cs[k] EXCEPT !.inFlight = @ \ {x}])]

\* Mutant: an entry that is to be retried joins the end of the queue.
FailedToTheEnd(cs, k, x, retry) ==
    [cs EXCEPT ![k] = Reconciled(
        [cs[k] EXCEPT !.inFlight = @ \ {x},
                      !.queue = IF retry THEN Append(@, [x EXCEPT !.age = 0, !.retried = TRUE]) ELSE @,
                      !.state = IF @ = "ACTIVE" THEN "DEGRADED" ELSE @])]

\* fail
Failed(cs, k, x, retry) ==
    [cs EXCEPT ![k] = Reconciled(
        [cs[k] EXCEPT !.inFlight = @ \ {x},
                      !.queue = IF retry THEN <<[x EXCEPT !.age = 0, !.retried = TRUE]>> \o @ ELSE @,
                      !.state = IF @ = "ACTIVE" THEN "DEGRADED" ELSE @])]

TimedOut(r) == IF r.timeout = "NONE" THEN {} ELSE {x \in r.inFlight : x.age >= AckTimeout}
\* handleTimedOutEntry, for all that has timed out.
AfterTimeouts(r) ==
    IF TimedOut(r) = {} THEN r
    ELSE CASE r.timeout = "MARK_DEGRADED"  -> [r EXCEPT !.state = "DEGRADED"]
           [] r.timeout = "PAUSE_CONSUMER" -> [r EXCEPT !.state = "PAUSED"]
           [] r.timeout = "FAIL_CONSUMER"  -> [r EXCEPT !.state = "FAILED"]
           [] r.timeout = "DROP_TIMED_OUT" -> [r EXCEPT !.inFlight = @ \ TimedOut(r)]

\* Mutant: the watermarks are looked at only where something has timed out.
TickedTimedOut(cs) ==
    [k \in Consumers |->
        IF Registered(cs, k) /\ TimedOut(cs[k]) # {} THEN Reconciled(AfterTimeouts(cs[k])) ELSE cs[k]]

\* tick
Ticked(cs) == [k \in Consumers |-> IF Registered(cs, k) THEN Reconciled(AfterTimeouts(cs[k])) ELSE cs[k]]

\* The clock: what is in flight grows older.
Older(x) == [x EXCEPT !.age = IF @ < AckTimeout THEN @ + 1 ELSE @]
Aged(cs) == [k \in Consumers |-> [cs[k] EXCEPT !.inFlight = {Older(x) : x \in @}]]

-----------------------------------------------------------------------------
(* The clients of the controller *)

Init ==
    /\ consumers = [k \in Consumers |-> NoConsumer]
    /\ nextEntry = 1
    /\ overridden = {}

StillAbove == {k \in overridden : consumers'[k].state # "PAUSED" /\ Pending(consumers'[k]) >= HighWatermark}

Register(k, reg) ==
    /\ ~Registered(consumers, k)
    /\ consumers' = [consumers EXCEPT ![k] =
                        [NoConsumer EXCEPT !.state = "ACTIVE", !.overflow = reg.overflow, !.timeout = reg.timeout]]
    /\ UNCHANGED <<nextEntry, overridden>>

Unregister(k, force) ==
    /\ Registered(consumers, k) /\ (force \/ Pending(consumers[k]) = 0)
    /\ consumers' = [consumers EXCEPT ![k] = NoConsumer]
    /\ overridden' = StillAbove
    /\ UNCHANGED nextEntry

Admit(k, e) ==
    /\ Registered(consumers, k) /\ nextEntry <= MaxEntries
    /\ consumers' = Admitted(consumers, k, e, nextEntry)
    /\ nextEntry' = IF Admission(consumers, k) = "ACCEPTED" THEN nextEntry + 1 ELSE nextEntry
    /\ overridden' = StillAbove

Drain(k, n) ==
    /\ Registered(consumers, k) /\ consumers[k].state # "FAILED"
    /\ consumers' = Drained(consumers, k, n)
    /\ overridden' = StillAbove
    /\ UNCHANGED nextEntry

Acknowledge(k, x) ==
    /\ x \in consumers[k].inFlight
    /\ consumers' = Acknowledged(consumers, k, x)
    /\ overridden' = StillAbove
    /\ UNCHANGED nextEntry

Fail(k, x, retry) ==
    /\ x \in consumers[k].inFlight
    /\ consumers' = Failed(consumers, k, x, retry)
    /\ overridden' = StillAbove
    /\ UNCHANGED nextEntry

Pause(k) ==
    /\ Registered(consumers, k)
    /\ consumers' = [consumers EXCEPT ![k].state = "PAUSED"]
    /\ overridden' = StillAbove
    /\ UNCHANGED nextEntry

Resume(k, force) ==
    /\ Registered(consumers, k) /\ consumers[k].state # "FAILED"
    /\ force \/ Pending(consumers[k]) <= LowWatermark
    /\ consumers' = [consumers EXCEPT ![k].state = "ACTIVE"]
    /\ overridden' = StillAbove \cup {j \in {k} : Pending(consumers[k]) >= HighWatermark}
    /\ UNCHANGED nextEntry

\* The watermarks are not looked at when the pending events are kept.
Reset(k, clear) ==
    /\ Registered(consumers, k)
    /\ consumers' = [consumers EXCEPT ![k].state = "ACTIVE",
                                      ![k].queue = IF clear THEN <<>> ELSE @,
                                      ![k].inFlight = IF clear THEN {} ELSE @]
    /\ overridden' = StillAbove \cup {j \in {k} : Pending(consumers'[k]) >= HighWatermark}
    /\ UNCHANGED nextEntry

Tick ==
    /\ consumers' = Ticked(consumers)
    /\ overridden' = StillAbove
    /\ UNCHANGED nextEntry

TimePasses ==
    /\ consumers' = Aged(consumers)
    /\ UNCHANGED <<nextEntry, overridden>>

Next ==
    \/ \E k \in Consumers :
          \/ \E reg \in Registrations[k] : Register(k, reg)
          \/ \E e \in Events : Admit(k, e)
          \/ \E n \in 1..MaxPending : Drain(k, n)
          \/ \E x \in consumers[k].inFlight : Acknowledge(k, x) \/ \E retry \in BOOLEAN : Fail(k, x, retry)
          \/ Pause(k)
          \/ \E force \in BOOLEAN : Unregister(k, force) \/ Resume(k, force)
          \/ \E clear \in BOOLEAN : Reset(k, clear)
    \/ Tick \/ TimePasses

\* Maintenance ticks are issued for ever (StreamingOrchestrator.tick).
Spec == Init /\ [][Next]_vars /\ WF_vars(Tick)

-----------------------------------------------------------------------------
(* Properties *)

\* No sequence of admissions, evictions, retries and resets takes the pending
\* events of all consumers together over the global limit.
GlobalBound == GlobalPending(consumers) <= MaxGlobal

\* A consumer at or above its high watermark takes no events, unless a resume or
\* reset by hand has overruled the watermark since it was last looked at.
PausedAtHigh ==
    \A k \in Consumers \ overridden :
        Pending(consumers[k]) >= HighWatermark => consumers[k].state \in {"PAUSED", "FAILED"}

\* A consumer grows beyond its own capacity only when it was overruled in that
\* way and the controller is full: the eviction is then another consumer's.
CapacityKept ==
    [][\A k \in Consumers :
          Pending(consumers'[k]) > MaxPending /\ Pending(consumers'[k]) > Pending(consumers[k]) =>
              k \in overridden /\ GlobalPending(consumers) >= MaxGlobal]_vars

\* An event is dispatched for the first time only when no older event of its
\* consumer is left waiting, be it for its first dispatch or for a retry.
DispatchInOrder ==
    [][\A k \in Consumers : \A x \in consumers'[k].inFlight \ consumers[k].inFlight :
          ~x.retried /\ x.age = 0 => \A i \in DOMAIN consumers'[k].queue : consumers'[k].queue[i].id > x.id]_vars

\* A consumer that is paused with few events pending is resumed by some tick.
PauseEnds ==
    \A k \in Consumers :
        consumers[k].state = "PAUSED" /\ Pending(consumers[k]) <= LowWatermark ~> consumers[k].state # "PAUSED"

=============================================================================
