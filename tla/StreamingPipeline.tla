-------------------------- MODULE StreamingPipeline --------------------------
(***************************************************************************)
(* StreamingOrchestrator over the sequence validator, the ordering buffer, *)
(* the backpressure controller and the stream router, for one stream and   *)
(* one consumer. process() is cut where it awaits: after validation, and   *)
(* while the listeners of the router run. Calls overlap with each other    *)
(* and with one maintenance tick.                                          *)
(*                                                                         *)
(* Left out: health and latency signals (nothing reads them back),         *)
(* heartbeat and reconnection ticks, counters, and results.                *)
(*                                                                         *)
(* External: the exchange may send an event again, late or early; the      *)
(* listeners of the routes take their time and may fail.                   *)
(***************************************************************************)
EXTENDS Naturals, Sequences, SequencesExt, FiniteSets

CONSTANTS Callers, Events, SeqNo, Stamp,
          Policies,         \* the configurations of the pipeline
          Lateness, MaxAge, MaxLag,
          Consumer, MaxPending, HighWatermark, LowWatermark, AckTimeout,
          MaxCalls          \* bound: calls of process

VARIABLES policy,       \* the configuration, chosen once
          current,      \* the validator's current sequence
          stream,       \* the ordering buffer's stream
          consumers, nextEntry,     \* the backpressure controller
          op,           \* what each caller's process() waits for
          line,         \* callers whose event is validated, in order
          tick,         \* the events a maintenance tick still routes
          ticking,      \* the tick waits for the listeners of the first of them
          calls,        \* process() calls made
          delivered,    \* how often the listeners were given each event
          taken,        \* events the ordering buffer took in
          accounted,    \* events of these that were dropped or refused, and said so
          overlapped    \* two operations have been under way at once

\* What the constructors of the components accept, as far as it is modelled, with
\* what the exchange sends and the callers ask for.
Configurations ==
    [gapAction : {"REJECT", "ACCEPT_AND_ADVANCE", "ACCEPT_WITHOUT_ADVANCE"},
     ignoreDuplicate : BOOLEAN, ignoreStale : BOOLEAN, allowUnsequenced : BOOLEAN, rejectInvalid : BOOLEAN,
     mode : {"TIMESTAMP", "SEQUENCE", "HYBRID"}, gap : {"WAIT", "FLUSH_ON_TIMEOUT", "FLUSH_IMMEDIATELY"},
     overflow : {"REJECT_NEWEST", "DROP_OLDEST", "FLUSH_OLDEST"}, late : {"REJECT", "DROP", "RELEASE"},
     capacity : Nat \ {0}, maxReleased : Nat \ {0}, consumer : BOOLEAN,
     timeout : {"NONE", "MARK_DEGRADED", "PAUSE_CONSUMER", "FAIL_CONSUMER", "DROP_TIMED_OUT"},
     events : SUBSET Events, requests : SUBSET {"plain", "reset", "mismatch"}, lags : SUBSET (0..MaxLag),
     crowded : BOOLEAN]

ASSUME StreamingAssumption ==
    /\ Events \subseteq Nat \ {0} /\ IsFiniteSet(Events)
    /\ SeqNo \in [Events -> Nat] /\ Stamp \in [Events -> Nat]
    /\ Lateness \in Nat /\ MaxAge \in Nat /\ MaxLag \in Nat /\ MaxCalls \in Nat
    /\ MaxPending \in Nat /\ HighWatermark \in Nat /\ LowWatermark \in Nat /\ AckTimeout \in Nat
    /\ Policies \subseteq Configurations

vars == <<policy, current, stream, consumers, nextEntry, op, line, tick, ticking, calls,
          delivered, taken, accounted, overlapped>>
history == <<delivered, taken, accounted>>

MaxEntries == MaxCalls * Cardinality(Events)
V == INSTANCE SequenceValidator
O == INSTANCE EventOrderingBuffer
B == INSTANCE BackpressureController WITH
        Consumers <- {Consumer}, MaxGlobal <- MaxPending, Registrations <- {}, overridden <- {}

NoEvent == 0
Idle == [pc |-> "idle", event |-> NoEvent, lag |-> 0, todo |-> <<>>, entry |-> 0]
Active(c) == op[c].pc # "idle"
TickActive == ticking \/ tick # <<>>

TypeOK ==
    /\ policy \in Policies
    /\ current \in Nat
    /\ stream \in O!Streams
    /\ B!TypeOK
    /\ op \in [Callers -> [pc : {"idle", "validated", "releasing", "routing"}, event : {NoEvent} \cup Events,
                           lag : 0..MaxLag, todo : Seq(Events), entry : 0..MaxEntries]]
    /\ line \in Seq(Callers) /\ tick \in Seq(Events) /\ ticking \in BOOLEAN
    /\ calls \in 0..MaxCalls
    /\ delivered \in [Events -> Nat]
    /\ taken \subseteq Events /\ accounted \subseteq Events /\ overlapped \in BOOLEAN

Init ==
    /\ policy \in Policies
    /\ current = 0
    /\ stream = O!NewStream
    /\ consumers = [k \in {Consumer} |-> [B!NoConsumer EXCEPT !.state = "ACTIVE", !.timeout = policy.timeout]]
    /\ nextEntry = 1
    /\ op = [c \in Callers |-> Idle]
    /\ line = <<>> /\ tick = <<>> /\ ticking = FALSE
    /\ calls = 0
    /\ delivered = [e \in Events |-> 0]
    /\ taken = {} /\ accounted = {} /\ overlapped = FALSE

-----------------------------------------------------------------------------
(* process *)

\* A call for an event that is being processed shares that operation.
Process(c, e, lag, request) ==
    LET verdict == V!Verdict(current, e, request) IN
    /\ ~Active(c) /\ calls < MaxCalls
    /\ \A d \in Callers : op[d].event # e
    /\ calls' = calls + 1
    /\ current' = V!Advanced(policy, current, e, verdict)
    /\ overlapped' = (overlapped \/ TickActive \/ \E d \in Callers : Active(d))
    /\ IF V!Accepts(policy, verdict) \/ ~policy.rejectInvalid
       THEN /\ op' = [op EXCEPT ![c] = [Idle EXCEPT !.pc = "validated", !.event = e, !.lag = lag]]
            /\ line' = Append(line, c)
       ELSE UNCHANGED <<op, line>>
    /\ UNCHANGED <<policy, stream, consumers, nextEntry, tick, ticking, history>>

\* The event enters the ordering buffer; what the buffer releases is this call's
\* to deliver, up to maxReleasedEventsPerOperation.
Order(c, crowded) ==
    /\ line # <<>> /\ c = Head(line)
    /\ line' = Tail(line)
    /\ \E out \in {O!Enqueued(policy, stream, op[c].event, op[c].lag, crowded)} :
          LET own == SubSeq(out.released, 1, Min({policy.maxReleased, Len(out.released)})) IN
          /\ stream' = out.stream
          /\ op' = [op EXCEPT ![c] = IF own = <<>> THEN Idle
                                         ELSE [op[c] EXCEPT !.pc = "releasing", !.todo = own]]
          /\ taken' = IF out.status \in {"BUFFERED", "RELEASED", "LATE"} THEN taken \cup {op[c].event} ELSE taken
          /\ accounted' = IF policy.overflow = "DROP_OLDEST"
                          THEN accounted \cup (DOMAIN stream.buffered \ (DOMAIN out.stream.buffered \cup ToSet(out.released)))
                          ELSE accounted
    /\ UNCHANGED <<policy, current, consumers, nextEntry, tick, ticking, calls, delivered, overlapped>>

\* Mutant: a call returns after its first event.
ProceedsOnce(c) == op' = [op EXCEPT ![c] = Idle]

\* The call goes on to the next event it has to deliver, or returns.
Proceeds(c) == op' = [op EXCEPT ![c] =
    IF Len(op[c].todo) = 1 THEN Idle
    ELSE [op[c] EXCEPT !.pc = "releasing", !.todo = Tail(op[c].todo), !.entry = 0]]

\* The consumer does not admit the event: it is skipped.
Refuse(c) ==
    /\ op[c].pc = "releasing" /\ policy.consumer
    /\ B!Admission(consumers, Consumer) # "ACCEPTED"
    /\ consumers' = B!Admitted(consumers, Consumer, Head(op[c].todo), nextEntry)
    /\ accounted' = accounted \cup {Head(op[c].todo)}
    /\ Proceeds(c)
    /\ UNCHANGED <<policy, current, stream, nextEntry, line, tick, ticking, calls, delivered, taken, overlapped>>

\* The router gives an event to its listeners, unless no subscription is active.
Routed(e) ==
    \/ delivered' = [delivered EXCEPT ![e] = @ + 1] /\ UNCHANGED accounted
    \/ accounted' = accounted \cup {e} /\ UNCHANGED delivered

\* admit, drain and route: the event at the head of the consumer's queue is the
\* one that is routed.
Dispatch(c) ==
    LET admitted == B!Admitted(consumers, Consumer, Head(op[c].todo), nextEntry)
        entry    == Head(admitted[Consumer].queue) IN
    /\ op[c].pc = "releasing" /\ policy.consumer
    /\ B!Admission(consumers, Consumer) = "ACCEPTED" /\ nextEntry <= MaxEntries
    /\ consumers' = B!Drained(admitted, Consumer, 1)
    /\ nextEntry' = nextEntry + 1
    /\ Routed(entry.event)
    /\ op' = [op EXCEPT ![c].pc = "routing", ![c].entry = entry.id]
    /\ UNCHANGED <<policy, current, stream, line, tick, ticking, calls, taken, overlapped>>

\* Without a consumer the event goes to the router as it is.
RouteDirectly(c) ==
    /\ op[c].pc = "releasing" /\ ~policy.consumer
    /\ Routed(Head(op[c].todo))
    /\ op' = [op EXCEPT ![c].pc = "routing"]
    /\ UNCHANGED <<policy, current, stream, consumers, nextEntry, line, tick, ticking, calls, taken, overlapped>>

\* Mutant: an entry whose routing has failed is not given back.
ListenersReturnKept(c, ok) ==
    LET mine == {x \in consumers[Consumer].inFlight : x.id = op[c].entry} IN
    /\ op[c].pc = "routing"
    /\ consumers' = IF mine = {} \/ ~ok THEN consumers
                    ELSE B!Acknowledged(consumers, Consumer, CHOOSE x \in mine : TRUE)
    /\ Proceeds(c)
    /\ UNCHANGED <<policy, current, stream, nextEntry, line, tick, ticking, calls, history, overlapped>>

\* The listeners have returned, or one has thrown. An entry that has timed out
\* and was dropped meanwhile can be neither acknowledged nor failed.
ListenersReturn(c, ok) ==
    LET mine == {x \in consumers[Consumer].inFlight : x.id = op[c].entry} IN
    /\ op[c].pc = "routing"
    /\ consumers' = IF mine = {} THEN consumers
                    ELSE LET x == CHOOSE x \in mine : TRUE
                         IN  IF ok THEN B!Acknowledged(consumers, Consumer, x)
                                   ELSE B!Failed(consumers, Consumer, x, FALSE)
    /\ Proceeds(c)
    /\ UNCHANGED <<policy, current, stream, nextEntry, line, tick, ticking, calls, history, overlapped>>

-----------------------------------------------------------------------------
(* tick *)

\* The backpressure tick follows the routing of what the buffer has flushed.
TickBegin ==
    /\ ~TickActive
    /\ \E out \in {O!Flushed(policy, stream)} :
          /\ stream' = out.stream
          /\ tick' = out.released
          /\ consumers' = IF out.released = <<>> THEN B!Ticked(consumers) ELSE consumers
          /\ overlapped' = (overlapped \/ (out.released # <<>> /\ \E d \in Callers : Active(d)))
    /\ UNCHANGED <<policy, current, nextEntry, op, line, ticking, calls, history>>

\* Flushed events are routed past the backpressure controller.
TickRoute ==
    /\ tick # <<>> /\ ~ticking
    /\ Routed(Head(tick))
    /\ ticking' = TRUE
    /\ UNCHANGED <<policy, current, stream, consumers, nextEntry, op, line, tick, calls, taken, overlapped>>

TickListenersReturn ==
    /\ ticking
    /\ ticking' = FALSE
    /\ tick' = Tail(tick)
    /\ consumers' = IF Len(tick) = 1 THEN B!Ticked(consumers) ELSE consumers
    /\ UNCHANGED <<policy, current, stream, nextEntry, op, line, calls, history, overlapped>>

TimePasses ==
    /\ stream' = O!StreamAged(stream)
    /\ consumers' = B!Aged(consumers)
    /\ UNCHANGED <<policy, current, nextEntry, op, line, tick, ticking, calls, history, overlapped>>

Continues(c) ==
    \/ Order(c, FALSE) \/ Refuse(c) \/ Dispatch(c) \/ RouteDirectly(c)
    \/ \E ok \in BOOLEAN : ListenersReturn(c, ok)

Next ==
    \/ \E c \in Callers :
          \/ \E e \in policy.events, lag \in policy.lags, request \in policy.requests : Process(c, e, lag, request)
          \/ Continues(c)
          \/ policy.crowded /\ Order(c, TRUE)
    \/ TickBegin \/ TickRoute \/ TickListenersReturn
    \/ TimePasses

\* Ticks are issued for ever and time passes; listeners return.
Fairness ==
    /\ WF_vars(TickBegin) /\ WF_vars(TickRoute) /\ WF_vars(TickListenersReturn) /\ WF_vars(TimePasses)
    /\ \A c \in Callers : WF_vars(Continues(c))

Spec == Init /\ [][Next]_vars /\ Fairness

-----------------------------------------------------------------------------
(* Properties *)

\* The configurations that keep order: events are sequenced by the buffer, none is
\* let past it, and other streams do not fill it (its first event may else be
\* refused, and what comes before that event then stays behind it).
Orderly ==
    /\ policy.mode # "TIMESTAMP" /\ policy.late # "RELEASE"
    /\ policy.overflow # "FLUSH_OLDEST" /\ ~policy.crowded

\* However often the exchange repeats a sequenced event, and however calls,
\* ticks and resets interleave, the listeners are given it once.
AtMostOnce == Orderly => \A e \in Events : SeqNo[e] # 0 => delivered[e] <= 1

\* As long as no two operations overlap, the listeners see sequenced events in
\* the order of their sequences.
InOrder ==
    [][Orderly /\ ~overlapped' =>
          \A e \in Events : SeqNo[e] # 0 /\ delivered'[e] > delivered[e] =>
              \A f \in Events : SeqNo[f] > SeqNo[e] => delivered[f] = 0]_vars

\* No event that the ordering buffer has taken in gets lost between the
\* components. FLUSH_OLDEST and a bound on the events released do lose some.
Pending(e) ==
    \/ e \in DOMAIN stream.buffered
    \/ \E c \in Callers : op[c].pc \in {"releasing", "routing"} /\ e \in ToSet(op[c].todo)
    \/ e \in ToSet(tick)
NothingLost ==
    policy.overflow # "FLUSH_OLDEST" /\ policy.maxReleased >= Cardinality(Events) =>
        \A e \in taken : Pending(e) \/ delivered[e] > 0 \/ e \in accounted

\* When no call waits for the listeners, nothing is left in the consumer's queue
\* or in flight: no failed, late or timed out delivery uses up its capacity.
NoCapacityLeak ==
    (\A c \in Callers : op[c].pc # "routing") => B!Pending(consumers[Consumer]) = 0

\* With FLUSH_ON_TIMEOUT no event waits for ever behind a gap.
GapsEnd ==
    policy.gap = "FLUSH_ON_TIMEOUT" =>
        \A e \in Events : e \in DOMAIN stream.buffered ~> e \notin DOMAIN stream.buffered

=============================================================================
