# Formal models of QuantumTradeAI

TLA+ models, TLC runs and machine-checked proofs for the parts of the repository
that keep state over awaits: the path of real orders (`src/trading/execution`),
the algorithmic execution engine (`src/trading/algorithmic-execution`), and the
websocket client and event streaming (`src/trading/exchange-connectivity`). The
modules are translated from the TypeScript source; line numbers are those of the
commit the models were written against, and `PROJECT.json` gives for every
definition the file and lines it stands for.

    tlc -workers 2 -config <run>.cfg <module>.tla      a run (table below)
    tlapm <module>_proofs.tla                          the proofs of a module

## 1. The system

QuantumTradeAI is a TypeScript backend: a small REST application (users,
authentication, exchanges, audit, over Prisma) and, under `src/trading`, a
library of about 540 000 lines. Most of that library computes: indicators,
scores, optimisers, prices of arbitrage routes, statistics of back tests. State
that outlives a call, and code that awaits while others run, is found in a few
places.

| Component | State it keeps | Operations | What is hard |
|---|---|---|---|
| Live order aggregate (`live-order.ts`) | an immutable order: state, quantities, fills, version | create, transition, route, accept, fill, fail | twenty states; validation of every intermediate copy |
| Execution engine (`order-execution-engine.ts`) | commands in flight, one chain of promises per order, engine state, metrics; result store and history behind interfaces | execute, drain, start | interleaving at every await, retries, failing stores and observers, restarts |
| Submitter, canceller, replacer, reconciler (`order-*.ts`) | none of their own; repository, event publisher and exchange behind interfaces | submit, cancel, replace, reconcile | crash or error between save, publication and request; lost and late answers; stale snapshots |
| Router, validator (`order-router.ts`, `order-validator.ts`) | none | route, validate | scoring |
| Algorithmic execution (engine, child order lifecycle manager, progress calculator, in-memory repository) | executions with slices, child orders and fills, by version | create, start, pause, resume, cancel, fail, slices, child orders, fills | calls that compute from the same read; three books of fills; child orders against the slice |
| Exchange websocket client (`websocket/base-exchange-websocket-client.ts`) | connection state, authentication, subscriptions | connect, subscribe, unsubscribe, send, disconnect, destroy, callbacks of the transport | overlapping calls; one state for all sockets; late callbacks |
| Streaming (`streaming/`): orchestrator, sequence validator, event ordering buffer, backpressure controller, router | current sequence, buffered events, queues and events in flight by consumer | process, tick; enqueue, flush; admit, drain, acknowledge, fail, pause, resume, reset | reordering, gaps, duplicates; listeners that fail or time out; bounded buffers |
| Streaming connections: connection pool over the websocket manager (`streaming/websocket-connection-pool.ts`, `websocket-manager.ts`) | connections with status and leases, acquisitions pending by exchange; state and active operation of each connection | acquire, release, evict, clean up; register, connect, disconnect, unregister | limits and leases checked before an await; evictions that meet acquisitions; shared operations that fail |
| Exchange connectivity, the rest: reconnection, monitors, management, REST, health | heartbeats, connector states | reconnect, fail over | reconnect races, timing |
| Portfolio synchronization, multi-exchange coordination, smart order routing | snapshots, coordinator state | synchronize, dispatch legs, allocate | partial failure of legs |
| Market and historical data | caches, data sets | fetch, import | little |
| Enterprise risk, autonomous trading | breaker states, limits | evaluate, trip, reset | breaker timing |
| Trading swarm, multi-agent intelligence | leader terms, leases, versioned state store, task queues | elect, renew, replicate, dispatch | leader leases, version conflicts |
| Decision, market and meta-learning intelligence; portfolio, strategy and signal modules | scores, weights | evaluate | floating point, sequential |
| Arbitrage (cross-DEX, cross-chain, institutional) | execution state machines | execute legs, recover | recovery after partial execution |
| Back testing, indicators, strategy library | none between runs | run | none |
| REST backend | database rows | CRUD | I/O |

How the modelled parts interact. A caller hands a command (SUBMIT, CANCEL,
REPLACE or RECONCILE) with a command identifier to
`LiveOrderExecutionEngine.execute`. The engine joins duplicates of a command in
flight, asks a result store whether the command was completed before, chains it
behind the other commands of the same order and calls the handler. The handler
loads the order from the repository (the submitter takes it from the command),
derives the next order with the functions of `live-order.ts`, saves it,
publishes an event, calls the exchange through the transport, and does the same
with the answer. Everything runs on one JavaScript thread; interleaving happens
at `await` only.

`PROJECT.json` lists every component with its status and every hazard found
while reading, at its line.

The algorithmic execution engine and the streaming pipeline stand beside that
path and call none of it: the engine records child orders that somebody else
submits, the pipeline carries events from a socket to listeners. In both, several
calls may be suspended at awaits while others change the state they have read.
So may the calls of the connection pool, which lends the sockets such events
come from: it checks its limits and leases, awaits the manager's operations on
a connection, which several calls share, and goes on from what it checked.

## 2. Modules

| Module | Models | Kind |
|---|---|---|
| `LiveOrder` | the functions of `live-order.ts` as operators: for a function that throws, `CanX` says when it does not and `X` what it returns | operators |
| `LiveOrderLifecycle` | one order under every sequence of calls that are accepted | state machine over `LiveOrder` |
| `OrderExecutionEngine` | the engine: every await of `execute`, `executeIdempotently`, `enqueueByOrder`, `executeCore`, `drain`, `start`, and the death of the process | state machine |
| `OrderQueue` | what `enqueueByOrder` promises: a first-in first-out queue for each order | abstract specification |
| `OrderHandlers` | the four handlers, the repository, the publisher and the exchange, for one order | composition over `LiveOrder` |
| `ExchangeWebSocketClient` | the client's calls cut at their awaits, the callbacks, and the transport | state machine |
| `SequenceValidator`, `EventOrderingBuffer` | what the two return and how they change the record of a stream | operators |
| `BackpressureController` | queues, events in flight, watermarks, overflow policies, timeouts | operators and state machine |
| `StreamingPipeline` | `process` and `tick` of the orchestrator, cut at their awaits | composition of the three above |
| `AlgorithmicExecution` | every operation of the engine on one execution, and the repository | state machine |
| `WebSocketConnectionPool` | acquire, release and evictions of the pool over connect, disconnect and unregister of the manager, cut at their awaits | state machine, two components in one |
| `MC...` | values of the constants | for TLC |
| `CollectionLemmas` | sums over finite sets, least elements, sequences without one of their entries, finite sets as sequences | lemmas |
| `..._proofs` | theorems and proofs; those of `LiveOrderLifecycle` are at the head of `OrderHandlers_proofs`, which builds on them | for TLAPS |

### LiveOrder, LiveOrderLifecycle

An order is a record of state, requested and filled quantity (in lots), applied
fills, exchange identity and version. `AllowedTransitions` is the table of
`live-order.ts:276`; a state that is asked for must be in it, must fit the
quantities, and the order must have been valid before. `acceptLiveOrder`,
`applyLiveOrderRouting` and `applyLiveOrderFill` build an intermediate copy and
put it through `transitionLiveOrder`; the copy is modelled, because it is
validated too, and that is where the first finding below comes from. One call
of a function is one action.

Left out: prices, fees, averages, metadata, the transition log, the list of
failures (only the version shows a failure), timestamps. The time check that
can make `applyLiveOrderFailure` throw is kept where it matters, in the handlers.

### OrderExecutionEngine, OrderQueue

`pc[c]` names the await at which the execution of command `c` is suspended, and
an action is the code between two awaits. A promise in an order's chain is a
number, its ticket: `tail` is `orderTails`, `prev[c]` the promise `c` awaits,
`pending` the ones not resolved. Everything that can throw may throw: store
reads, store writes and history appends (before or after taking effect), observer,
handler; the five `ignore...`/`enable...` options are constants. `Crash` is the
end of the process: the engine is constructed anew over the same result store
and history; the store is modelled as durable, as its interface is for; the
in-memory implementation the repository has loses its content, which is the
situation of a fresh engine. A call for a command in flight changes nothing
(it is given the promise of the first call) and is not an action. `handled`,
`attempts` and `crashes` are history variables, which no guard of the code
reads; `attempts` and `crashes` bound the model.

`OrderQueue` has a queue per order and three actions (arrive, begin, finish at
the head) besides the restart. The mapping at the end of `OrderExecutionEngine`
reads the queue off the tickets: the commands of an order's chain, in the order
of their tickets (`QueueOf`).

### OrderHandlers

One order and a set of commands about it. The handlers run one at a time, as
the engine's `OneAtATime` says; two orders share nothing but a repository keyed
by order. `working[c]` is the local `order` of the handler. Saves may fail
before or after taking effect. Publishing may fail (`EmitFails`: the publisher
throws without having published; for one that throws after publishing, a
consumer sees the event the model shows in the success case). The network
carries one request for each command (`wire`), which survives a restart, a lost
answer and the death of its handler: an exchange may act on a request long
after the handler gave up. A repetition of a command waits until its earlier
request is off the wire; two copies of one request at once are not modelled.

The exchange is external: it may accept, reject or be unclear about a
submission, grant, take up, refuse or not find an amendment, execute at any
time, finish what it took up, let the order expire, and show snapshots that lag
behind its fills or say that the order is missing. It recognises a second
submission of the same order by its idempotency key
(`idempotencyKey` of `order-submitter.ts`). The snapshot states SUBMITTED and
FAILED of the exchange are not enumerated; `ClockMayLag` says whether the
exchange may date a failure before the order's last update, in which case
recording it throws.

`RoutedOrder` is the order a router leaves (version 4) and every SUBMIT command
carries. The submitter works on that order and not on the one the repository
has, so a submission that is executed *again*, after a failed save, goes back to
it: the repository's version then decreases. That is what the code does; the
engine repeats a command only when its caller does. The runs execute the
submission once; the theorems on writing ahead and on announcing hold for any
number of repetitions.

### ExchangeWebSocketClient

`call[c]` names the await at which a caller's `connect`, `subscribe`,
`unsubscribe`, `disconnect` or `destroy` is suspended; `OnOpen` and `OnClose` are
the callbacks the client hands to the transport (its `onError` only reports). The
client does not tell one socket's callbacks from another's. `sock`, `closeDue`
and `remote` (what the exchange serves on each socket) belong to the transport
and the exchange, which are external. `moved` stands for the
comparison of timestamps with which `destroy` finds out whether the state changed
during its await. `refused` and `teardownFailed` are history variables: they
mark a subscription whose message the transport did not accept, and a
disconnect or destroy that ended in its catch. `ActiveIsServed` excepts both,
because the code neither looks at the result of `send` nor marks anything
INACTIVE in that catch.

The transport keeps a promise only while its socket is open. The authenticator is
not tied to the socket: `AuthenticateResolves` has no condition on it, and, as in
the code (`base-exchange-websocket-client.ts:494-511`), READY follows even if the
socket has been closed, or the client disconnected, during the login. `outlived`
marks a READY that comes from a login whose socket was gone, close reported and
all: nothing takes it back, and `ReadyIsLive` excepts it. `lateLogin` marks that a
login has ended after its socket was closed. Callers may then subscribe on the
next socket while its own `connect` still waits, and the late close of the first
marks that subscription INACTIVE although it is served: `InactiveIsSilent` excepts
such a client. Without either exception TLC finds the violation.

### SequenceValidator, EventOrderingBuffer, BackpressureController, StreamingPipeline

The validator and the buffer are operators on a record of one stream, the
backpressure controller on the function of its consumers; each of them is
synchronous in the code. `BackpressureController` is also a state machine of its
own, in which clients call its operations in any order. `StreamingPipeline`
instantiates all three, in the way the orchestrator owns them. Its actions are
the code between two awaits: `Process` (validation), `Order` (the validated
events go through the buffer, in the order in which they were validated),
`Dispatch` (admit and drain; the router then calls the listeners), and
`ListenersReturn` (acknowledge or fail); the tick flushes what has waited too
long and routes it one event after another (`TickBegin`, `TickRoute`,
`TickListenersReturn`). `Proceeds` is the loop over the released events.

A *policy* is a configuration of the pipeline, chosen once: the gap, duplicate,
stale and late actions, the ordering mode, the capacity and overflow policy of
the buffer, the timeout action, and whether the buffer is shared with other
streams that may fill it (`crowded`). A policy also names the events the exchange
sends under it, any number of times and in any order. Times are ages:
`Lateness`, `MaxAge` and `AckTimeout` are small numbers of clock steps. What the
buffer sorts is written as what a sorted result is (`Sorted`), and the loop of
`releaseBySequence` as what it ends with: the gapless run from the expected
sequence on (`Run`) and, where gaps are closed at once, the rest by age. Events
with equal timestamps are told apart by their numbers.
`delivered`, `taken`, `accounted` and `overlapped` are history variables.

Four properties have stated exceptions, all of them things the code does.
`NothingLost` leaves out FLUSH_OLDEST and a bound on the events released, with
which events are counted as released and delivered to nobody. `InOrder` is
stated as long as no two operations have overlapped: a tick's flushed events
wait for listeners while a `process` routes later ones. Both, and `AtMostOnce`,
leave out buffers other streams fill, where the first event of a stream may be
refused after it has fixed the expected sequence. `PausedAtHigh` and
`CapacityKept` except a consumer that was resumed or reset by hand at or above
its high watermark (`overridden`).

### AlgorithmicExecution

Every public operation reads the execution, awaits, computes a new one from what
it has *read*, and saves that. `Read` is the first half, `Update` and `Create`
the second; `Throw` is an operation that finds its guard or table against it.
`Outcomes(x, r)` is the set of what operation `r` may save of execution `x`, put
together from the code's own functions (`transitionExecution`,
`updateSliceFromChildOrder`, `completeExecutionWhenEligible`, `withProgress`),
each of which adds one to the version. The repository takes a save if its
version is newer than the one it has (`Accepts`); what was read plays no part in
that. `overwritten` is a history variable: a save has replaced an execution its
caller had not read.

A caller may name the id of a child order, and nothing holds it against the ids in
use. `orders` has the first order with each id, which is the one `requireChildOrder`
finds; `later` has what was created under an id in use. An update replaces every
order with the id by the first (`Replaced`), and `SliceUpdated` counts each of them, so
that a slice may report more than was filled for it. The properties are about the
orders that ids find: no operation but `cancel` reaches another one until an update
has made it the same. `BooksAgree` compares them with the execution's fills and with what remains
of it, and says nothing of what the slices report, which `completeSlice` also
changes without a fill. `crowded` marks the slices for which two of these orders have
been active at once.

Quantities are lots. Left out are times, prices, metadata, and the events, which
are published after the save and read by nobody. The schedulers (TWAP, VWAP,
POV, iceberg, adaptive) compute a schedule in one synchronous call; the model
starts with the slices they leave.

### WebSocketConnectionPool

`call[c]` is the await at which a caller's `acquire`, `release`,
`evictConnection` or `cleanupIdleConnections` is suspended, with the connection
it works on and what an eviction or disconnection is for (`goal`). `pooled` is
the map `connections`; `record` outlives an entry of it, as the code's objects
do. `pending` is `pendingAcquisitions`: one acquisition at a time for an
exchange, the others wait for it (`waiting`) and start over (`Again`), or fail
with it. `state` and `operation` are the manager's record and
`activeOperations`: `Disconnects` waits for an active operation and starts over,
`Connects` shares it, whichever it is. What a promise resumes runs before the
next event of a connection (`Quiet`), as microtasks do. `overtaken` is a history
variable: the connections on which an eviction and another call have been at
work together.

The factory and the connections are external. They may fail at anything they are
asked, answer sooner or later, and may report at any time that they are open, closed
or in error (`Reports`, wherever the manager's table of transitions allows it: a late
`onClose` finds a connection still DISCONNECTING after its disconnection has failed).
The order in
which idle connections are chosen follows timestamps; here any may be chosen, the
failed ones first when a connection is to be evicted. A caller has at most one
lease.

Three properties state what the code keeps rather than what one would wish for.
`maxTotalConnections` is checked before the factory is awaited, so that
acquisitions of different exchanges pass the check together: `LimitsKept` allows
one connection more for every further exchange, and counts those being made. Two
acquisitions that both lack room may also evict the same idle connection, the
second one finding it already being disconnected, and then create one each: for
each connection so `overtaken` as many more are allowed. An
eviction that has begun while an acquisition connects the same connection goes
on after the lease is given, and takes a leased connection out of the pool:
`LeasesAreSound` excepts what is `overtaken`, but not the claim that nobody else
has a lease of it.

`NoneStranded` says what is left at rest. A connection without a lease that is not
IDLE still counts against the limits, but is not chosen, swept or evicted for room;
only `evictConnection` takes it out. Calls that overlap on a connection never leave
one so. What does is a failure of the connection: a failed attempt to connect,
disconnect or dispose leaves it FAILED, and a `release` whose disconnection fails
leaves it LEASED. `faulty` is a history variable: the connections whose last
operation to settle has failed.

## 3. Runs

| Run | Question | Bounds |
|---|---|---|
| `lifecycle` | Is every order a function returns valid, do its fills add up? | 3 lots; fills of 1, 2 and 3 lots; 14 versions |
| `engine_queue` | Are the commands of an order a queue, never two of them inside `executeCore`, with exact map entries; is a drained engine idle? | 3 commands of one order, one attempt, one drain; observer and history may throw |
| `engine_retry` | Do stored results stand over retries and restarts; is a reported success stored; has an attempt one verdict; do the metrics balance; does everything end? | 2 commands, 2 attempts, 1 restart; handlers and the result store may fail, history errors are ignored |
| `handlers` | Is everything persisted before it reaches the exchange and before it is announced; does the repository advance; are its final states true; does a reconciliation that gets through settle the order? | submission, a cancellation or a replacement, 2 reconciliations; 2 lots in 1 or 2 fills; 1 restart |
| `websocket` | Is READY live, ACTIVE served, INACTIVE silent, DESTROYED final? | 2 callers, 1 subscription, 3 connects, 4 other calls, `readyOnOpen` |
| `backpressure` | Do the bounds hold, the watermarks pause, does a pause end, is dispatch in order? | 2 consumers, 2 pending each and 3 together, watermarks 2 and 1, 4 entries, every overflow policy and timeout action |
| `streaming` | Is an event lost between the components, delivered twice or out of order, does one wait for ever, does capacity leak? | 2 callers, 4 calls of `process`, 7 policies with 2 or 3 of 5 events each |
| `algorithmic` | Do the books agree, is a slice overfilled, does anything trade after completion, are stale requests refused, does history stand? | 1 slice of 2 lots, 2 child orders, 4 fills, one order under an id in use, calls up to version 12, 2 callers that overlap up to version 7 |
| `pool` | Are the limits kept, leases exclusive and backed, unleased connections IDLE at rest unless they have failed; does every call end? | 2 callers, 2 exchanges, 2 connections at once (3 in all), 4 calls, `disconnectOnRelease` on and off |

Why the bounds are enough to be interesting. Three commands of one order are the
least for which a promise in the middle of a chain can be resolved, dropped or
overtaken. Two attempts and a restart give the retry after each of the awaits.
Two lots in fills of one and two are the least for which an order can be
partially filled, completed, filled at once and overfilled by a repeated report;
fourteen versions let an order go through recovery and doubt more than once. Two
reconciliations are needed for an order that gets to its final state by way of
UNKNOWN. `handlers` takes either the cancellation or the replacement
(`OneRequest`): both would be one after the other, and the second finds the order
of the first. Three connects let the callbacks of a first socket come after a
second was opened while a third call waits. In `backpressure` the two consumers
together may want more than the global limit, so that the eviction of one by the
other happens; each policy of `streaming` has the events that make it differ
from the default: a gap that never closes (`Gapped`), a buffer that must make
room (`Mixed`, `Timed`, `Crowded`), resets (`Strict`), gaps that are stepped over
or closed at once (`Advancing`). In `algorithmic` the quantities are such that
two orders, or one fill too large, overfill the slice; one caller trades and the
other pauses, cancels, fails or reports fills on top of what the trader has read
(`TraderAndControl`), which is every pair of operations of which one matters to
the properties; the run ends where a save has overwritten what its caller had
not read, since what is stored then could also have been stored without overlap.
In `pool` two callers suffice for an eviction to meet an acquisition, and for the
excess over `maxTotalConnections`, which the run reaches; three connections let an
evicted one be replaced while the other is at work.

`CHECK_DEADLOCK FALSE` where the bounded system stops: the handler, lifecycle,
websocket, streaming, algorithmic and pool runs, when their calls are used up. In the
engine and backpressure runs deadlock is checked.

Three further runs each check one property that a comment or table in the code
states and the code does not keep:

| Run | Property | What happens |
|---|---|---|
| `last_fill` | `FittingFillApplies` | The fill that completes a PARTIALLY_FILLED order throws: the copy with the new quantity still has state PARTIALLY_FILLED when `transitionLiveOrder` validates it (`live-order.ts:881`, `:1549`). The table (`:345`) allows PARTIALLY_FILLED to FILLED. |
| `handlers_replaced` | `ReplacementSettles` | An order replaced on the exchange while the answer was unclear is UNKNOWN, and the reconciliation that is given the snapshot REPLACED leaves it so: the table has no transition from UNKNOWN to REPLACED. |
| `algorithmic_final` | `FinalIsFinal` | `cancel` and a fill that completes add two and more to the version they have read. A `fail` or `cancel` saved meanwhile adds less, so that the stale save is the newer one and replaces FAILED by CANCELLED, or CANCELLED by COMPLETED, against the table (`algorithmic-execution-engine.ts:480`). |

A fourth disagreement has no run. FILL_RECONCILED is published inside the loop
over the fills (`order-reconciler.ts:427`), before the only save (`:451`), which
may still fail, although the class says that it publishes "after successful
persistence" (`:88`). `EventsFollowPersistence` therefore speaks of lifecycle
events only.

`ReconciliationSettles` speaks of the reconciliations that get through, with a
snapshot of an order that has ended. One may not: the handler throws when neither
the order nor the command has the exchange identity (`order-reconciler.ts:269`,
`BeginRefused`), as after a submission whose answer was lost between SUBMITTED and
ACCEPTED, and at a fill the order cannot take (`:416`), which is one for an order
in SUBMITTING, or the one that completes an order (see `last_fill`).

`FinalMeansDead` excepts FAILED: a submission whose answer is lost is recorded
as FAILED, with the order possibly open on the exchange. `SavedNeverRedispatched`
and `SuccessIsStored` are stated for a store whose errors are not ignored;
`CountsBalance` for ignored observer errors, the default, and as an equation for
ignored history errors too; `OneVerdict` for both ignored. With a strict history,
the default, an append that throws after completion was counted (`:869`) sends the
attempt to the catch block: it is counted as completed and as failed, and if the
append had taken effect the history has both verdicts. `TryFails` and
`RecordFailureFails` have that effect as a choice, and `engine_queue` runs with a
strict history and a strict observer. `StoppedIsIdle` holds when callers await `drain()` before
`start()` (`StartAwaitsDrain`): otherwise a new command may come in between the
settling of the last one and the resumption of `drain()`.

### Fairness

`engine_retry`: `WF(Step(c))` says that the promises the engine awaits are
settled: its own by the event loop, the others by result store, history, observer
and handler. The engine has no timeout, so for the latter this is an assumption
about them, without which a command behind a silent handler waits for ever.
`WF(DrainReturns(d))` is the event loop resuming `drain()`. The calls `execute`,
`drain`, `start` and the restart have no fairness.

`backpressure`: `WF(Tick)`, for the maintenance the controller's owner runs on a
timer. No client operation is fair.

`streaming`: weak fairness of the tick and of time, both driven by a timer, and
of what resumes a call (`Continues`), which for listeners is the assumption that
they return. `Process` has no fairness.

`pool`: weak fairness of each caller's continuation (`GoesOn`), which is the event
loop, and of the answers of the factory and the connections (`Ends`, `Answers`),
which is an assumption about them: neither the pool nor the manager has a timeout.
No call and no loss of a connection is fair.

## 4. Proofs

The theorems hold for every set of commands, orders, fills, drains, callers,
slices and sockets, every choice of the options and any bound on attempts,
restarts and calls, from the assumptions named in the modules
(`OrderAssumption`, `LifecycleAssumption`, `EngineAssumption`,
`HandlersAssumption`, `BackpressureAssumption`, `WebSocketAssumption`,
`PoolAssumption`, `AlgorithmAssumption`, `StreamingAssumption`: types of the
constants; an order and a fill have a positive quantity; the events of a stream are
finitely many and have sequences and timestamps that are numbers, equal or not;
consumers and exchanges are finitely many, the latter not none; the watermarks
are ordered as the constructor demands; there are slices, they and the child
orders are finitely many, and the quantities of child orders are positive.) Where a theorem needs more, its
statement says so: an option that is set, a finite set of commands, an order
submitted once.

| Theorem | Says |
|---|---|
| `OrderHandlers_proofs!LifeTypeCorrect`, `ReturnsAreValid` | the order keeps its type; no call returns an order that validation rejects |
| `FilledIsAccounted` | `FilledIsSumOfFills` |
| `OrderGrows`, `FinalStays` | fills are never given back and versions grow; final states stay |
| `OrderExecutionEngine_proofs!TypeCorrect` | type correctness |
| `ChainInvariant` | the inductive invariant of the promise chains |
| `MutualExclusion`, `TailsAreExact` | `OneAtATime` and `TailsMatchQueues` |
| `CommandsStartInTurn` | the commands of an order start in the order they joined its chain |
| `EngineIsAQueue` | `QueueSpec`: with one chain per order the engine implements `OrderQueue` |
| `StoredResultsStand`, `ToldIsStored` | a stored result is never dispatched again, restarts included; success is told only once it is stored |
| `VerdictsAreSingle` | `OneVerdict`: with observer and history errors ignored, an attempt has at most one verdict |
| `StoppedMeansIdle` | if callers await `drain()` before `start()`, a stopped engine has nothing in flight |
| `MetricsBalance` | with finitely many commands, the metrics lose none |
| `OrderHandlers_proofs!TypeCorrect` | type correctness |
| `SubmissionsAreWrittenAhead` | `WriteAhead` |
| `AnnouncedIsPersisted` | `EventsFollowPersistence` |
| `OrderHandlers_proofs!RepositoryNeverGoesBack` | `RepositoryAdvances`, for an order submitted by one command, once |
| `SnapshotsSettle` | `ReconciliationSettles`, without that condition |
| `FinalStatesAreDead`, `EndsAreTrue` | `FinalMeansDead`, for an order submitted by one command, once; the same for every end but REJECTED, without that condition |
| `ExchangeWebSocketClient_proofs!TypeCorrect` | type correctness |
| `ReadyNeedsASocket`, `DestroyedStays` | `ReadyIsLive`, `DestroyedIsFinal` |
| `ActiveOnThisSocket`, `InactiveOnThisSocket` | `ActiveIsServed`, `InactiveIsSilent` |
| `BackpressureController_proofs!TypeCorrect` | type correctness |
| `PendingIsBounded`, `OwnLimitKept` | `GlobalBound`, `CapacityKept` |
| `WatermarkPauses`, `DispatchKeepsOrder` | `PausedAtHigh`, `DispatchInOrder` |
| `AlgorithmicExecution_proofs!TypeCorrect` | type correctness |
| `StaleOnesAreRefused`, `RecordedHistoryStands` | `StaleRequestsRefused`, `HistoryStands` |
| `BooksAlwaysAgree`, `NoOverfillUncrowded`, `CompletionIsTheEnd` | `BooksAgree`, `OverfillNeedsCrowd`, `CompletedIsDone` |
| `WebSocketConnectionPool_proofs!TypeCorrect`, `LeasesSound` | type correctness; `LeasesAreSound` |
| `NoConnectionStranded`, `LimitsAreKept` | `NoneStranded`, `LimitsKept` |
| `StreamingPipeline_proofs!TypeCorrect` | type correctness |
| `EventsAreKept`, `CapacityComesBack` | `NothingLost`, `NoCapacityLeak` |
| `GivenOnce`, `OrderIsKept` | `AtMostOnce`, `InOrder` |

*Sums.* The models write sums with `MapThenSumSet` of the community modules, a
recursion that takes the elements of a set in the order `CHOOSE` gives them.
`CollectionLemmas` proves what the other modules need of it. The induction theorems of
the library have an operator as a parameter and cannot be instantiated; what
`WellFoundedInduction` says of minimal elements (`WFMin`) has none, and gives induction over the
subsets of a finite set, stated with the set of what the claim holds for
(`StrongSetInduction`). From it follow that a sum unfolds at any element, does not
look at what is zero, grows with its terms and its set, and may be taken by groups.

*Lifecycle.* The inductive invariant is the type together with
`ReturnedOrdersValid`: a function leaves a valid order valid because
`transitionLiveOrder` checks the target state against the quantities of the copy
it is given, and the other functions only reach the caller through it.
`FilledIsAccounted` adds that the fills kept are finitely many and sum up to
`filled`: a fill is taken only if it is not among them.

*The lock.* `OneAtATime` is not inductive: what keeps a queued command out is
the promise it awaits, and nothing in `OneAtATime` says whose that is.
`ChainInv` says it. Every command in a chain holds a pending ticket of its own
(`PlacesHeld`, `PlacesDistinct`); the tail of an order is one of them and the
largest (`TailIsAPlace`); and a command with others ahead of it awaits the ticket
of one of those, and no other of those is later than that one
(`NobodySkipped`): it awaits the one directly ahead. Releasing a ticket then
frees only commands that have nobody ahead of them left. If two commands ran,
the later would await a pending promise. A command that joins a chain must have
no place in one already: that is `InFlightMatches` (the commands in flight are
those whose execution is not over), which makes the invariant that is proved
`QInv == TypeOK /\ InFlightMatches /\ ChainInv`. `CommandsStartInTurn` needs
nothing more: a command that starts awaits a resolved promise, so nobody is
ahead of it.

*The queue.* `EngineIsAQueue` goes from tickets to sequences. Since tickets are distinct
(`PlacesDistinct`), there is exactly one list of a chain's commands in their order
(`ListChosen`, `ListOnly` of `CollectionLemmas`), which is what `QueueOf` chooses; a command that
joins has the largest ticket and is appended (`ListAppend`), one that
starts or leaves has nobody ahead of it and is the head (`ListHead`, `ListTail`). The other steps
leave every chain and its running command as they are, and are stuttering steps.

*Results, verdicts, metrics.* With a store whose errors are not ignored, a
command whose result is stored is never queued, started or dispatched
(`StoredIsPast`): the only way there is a read of the store that finds nothing,
and the result is stored after the dispatch, by the same execution.
`SuccessBacked` adds the awaits between the store and the answer; `VerdictOnce`
says that, with observer and history errors ignored, an attempt has no verdict
up to the await that records one.
For the metrics, `Balance` compares the counters with the cardinality of the set
`Undecided`, and one step moves one command in or out of that set. `DrainCovers`
says that a drain that has not returned awaits all that is in flight.

*Handlers.* `WriteAhead` relates the exchange to the repository, which are three
awaits and perhaps a restart apart. `HInv` adds what holds in between: a
submission on the wire, or about to be, has been persisted (`SentAfterSave`); no
handler at work has an order in state ROUTED unless the repository has, and a
submitter never has (`WorkingAhead`), so that no save goes back to ROUTED;
handlers run one at a time (`Exclusive`), so that what one has saved is still
there when it announces it (`Fresh`); and the answers fit the requests
(`RepliesFit`). The step lemmas follow the parts an action is made of: a handler
starts, goes on, sends, takes an answer, saves; the exchange acts alone or
answers; the process ends.

*The repository.* `Succeeds` says when one order may be stored over another; it
is a preorder, and every function of `live-order.ts` gives an order that succeeds
its argument, a terminal or filled argument excepted. `AInv` says that what a
handler at work holds succeeds what is stored (`LeadsOn`), that a handler between
its request and its end holds an order that is not over (`Unfinished`), and that
the order is as it was routed, and nobody at work on it, until the one submission
begins (`SubmittedFirst`): a second submission would go back to that order.

*Reconciliation.* For `SnapshotsSettle` the invariants are `AllFit`, every order
there is valid and in a state handlers use, and `SettleInv`: the reconciler that
waits has the order the repository has and an exchange that shows an end has had
the order, so it is not one of ROUTED; in the loop over the fills the order is
PARTIALLY_FILLED or FILLED; and a rejected order has no fills, at the exchange or
in a snapshot. From each state that is left the table leads to the end in one
step, or to UNKNOWN, and from UNKNOWN to the end.

*Final states.* An order claims something of the exchange: which fills it has
executed, and how the order ended (`Truthful`). `TInv` says that what the
repository stores and what the handlers work with is so at the exchange
(`AllTruthful`), and so are the answers, however late they are read
(`RepliesTrue`): the record of the exchange only grows, and a dead order stays
dead. A filled order is dead because its fills are among those of the exchange,
so that the sum of the latter is at least the quantity, and `Ledger` says that
the exchange closes an order it has filled. REJECTED needs that the order is
submitted once (`OnceSubmitted`: a submission arrives at an exchange that does
not have the order): an answer to a second submission may say so of an order
that is open.

*Websocket client.* `LiveInv` is `ReadyIsLive` with the part of the type it needs:
a `connect` that waits has a socket of its own (`CallsKnowTheirSocket`), the
transport resolves it only while that socket is open, and a login that resolves
later sets `outlived`. A socket stops being live only
when the client is told of its close or has torn it down, and both leave READY:
the steps either keep the sockets (`SameSockets`) or do not end in READY
(`NotReady`), apart from what a socket does by itself. For `ActiveIsServed` and
`InactiveIsSilent` the invariant says what a call that waits will find: only the socket in
use can be live, a socket that was never opened serves nothing, and for
each subscription the newest message not yet confirmed tells what the exchange does
on the socket in use, unless it was refused or the socket's end is still to be
reported. That READY waits for the socket's own `connect` (`NotReadyYet`,
`NothingBeforeReady`) holds only until a login is late.

*Backpressure.* Two facts about the operations carry the bounds: every one but an
accepted admission leaves each consumer with no more pending than before, and an
accepted admission adds one event after it has evicted one, if there was no room.
The sum over the consumers changes at one of them at most. After
every operation the watermarks are looked at, except where a resume or reset by
hand has been recorded in `overridden` (`BInv`). A queue is a block of retries followed by
the new entries in the order of their admission (`Sorted`), none newer than what
is yet to be admitted (`Known`), and a failed entry joins the block of retries: once a new entry is dispatched, what is left in the queue is newer.

*Algorithmic execution.* `HistoryInv` says that what a call has read is either
what is stored, or has an older version. A saved execution that adds one version
to an older one is then no newer than the one stored, and the repository refuses
it. For the history, `Follows` says what an operation makes of what it has read;
the lemmas about `Amends` count the versions its parts add. The books are
compared in whatever a call computes, not only in what is stored: every
operation takes an execution whose books agree to another one, and a call saves what
it computed from one it has read. That a slice is not overfilled adds that its only
active order asks for no more than the slice lacks, with the sums over the slice's orders
taken apart at that order. Orders under an id in use (`later`) only add to what the
slice counts, so that it offers no more than without them (`SliceUpdateStays`), and
they join without touching an order that an id finds (`LaterOfItsId`).

*Connection pool.* That no connection is leased twice rests on two facts three
awaits apart. An acquisition is alone in its exchange (`OnlyOne`), so that no
other can hold the connection it is connecting (`HeldIsFree`); and a connection
that is being taken off is not IDLE, so that it is not chosen, unless two calls
have met on it, which `overtaken` records (`Met`). `Backed` and `LeaseMatches` tie
the leases to the pool's records. `MayUse` is what an acquisition needs to know of
a connection, whether it chose it a moment ago or has been connecting it: the step
lemmas say how it is got (`ReusableMayBeUsed`, `HolderMayUse`), what follows when it
is used (`HoldingBegins`, `LeaseGranted`), and what an eviction does
(`EvictionBegins`, `WorkEnds`).

`NoneStranded` speaks of a pool at rest, and follows from what holds at work
(`StatusExplained`): a connection that is neither leased nor IDLE has somebody who holds
it or takes it off, or is `faulty`. Whoever is told of a failure works on a connection
that is `faulty` (`FailuresKnown`), so that a call that ends with a failure leaves what
is explained by it; and a success has somebody waiting for it (`OperationsAwaited`), who
explains what is not `faulty` any more. For `LimitsKept`, `RoomInv` says that the
acquisition that is about to create has room for it in its exchange (`HasRoom`), which
nobody else can take, and that the
connections in the pool, those being made, and a reserve for each exchange whose
acquisition is still to evict for a slot, stay within the bound (`TotalKept`). A connection
weighs more once it is `overtaken`: it may then have made room for every exchange.

*Streaming.* A released event is handed from the buffer to whoever released it, a
call or the tick (a *carrier*), and from there to the listeners; none of the
properties is inductive, for each looks at one end of this way. What makes them so
is `LeftOf`: the events a carrier has yet to give, without the one that may be with
the listeners. The buffer comes first, since everything rests on what it
releases: `CollectionLemmas` shows that a finite set has one arrangement in a
strict order, so that what `Sorted` chooses is that arrangement, and the lemmas on
`InSequence`, `Stored` and `Flushed` say that a release gives away buffered events
only, each once, sequenced ones ascending and after all released before
(`InTurn`), and keeps the rest (`Settled`: no sequence is buffered twice; where gaps
are closed at once, no sequenced event waits). Of the carriers, `OnceOnly` says
that what is left to one is ascending, not given yet, and left to no other, and
that what is left or given comes no later than the last sequence the buffer has
released: a repetition of it is a duplicate or stale there. While no two
operations have overlapped (`Alone`), nothing left comes before what was given
(`InSight`). `Kept` follows what was taken in from the buffer to a carrier, to the
listeners or to what is accounted for. For the capacity, `Flight` says that
whatever is in flight at the consumer is waited for by the call that dispatched
it, and that nothing is left queued between two steps. The bound in `Dispatch`
(`MaxEntries`) does not bind: a call releases an event at most once.

Proved and no longer in a run: `FinalIsFinal` of `LiveOrderLifecycle`,
`OneAtATime`, and the type invariants of the modules with a `TypeCorrect`.
`TypeOK` of `ExchangeWebSocketClient` and `AlgorithmicExecution` documents their
states and can be added to their runs.

Only model-checked: liveness (`EveryCommandSettles`, `EveryDrainReturns`,
`PauseEnds`, `CallsEnd`, `GapsEnd`), which is out of the prover's reach.

## 5. Not modelled

Inside the modelled components: the non-default options of the handlers
(`persistSubmittingState`, `persistPendingState` or
`captureTransportExceptions` off, and the like), changed quantities of a
replacement, price and fee arithmetic, the clock apart from `ClockMayLag` and
the ages of the streaming modules, the contents of history entries and events.
Floating-point quantities are whole lots. The engine and the handlers are not
composed in one run: the handlers rely on `OneAtATime`, which is proved for the
engine. Of the websocket client, the heartbeat and reconnect snapshots: the
protected methods that write them are called by no class. Of the streaming
orchestrator, disposal, manual flushes, the health, latency and heartbeat
monitors and the reconnection, and more than one stream (other streams only take
room in the buffer). Of the connection pool and the manager, `dispose`,
`ensureCapacity` (evictions that stop at the wanted number), `releaseConnection`
(several releases), the bulk operations, `send`, listeners, endpoints, requests
that do not connect, and connections that reconnect by themselves.

Outside: everything whose status is `not_modelled` in `PROJECT.json`, with the
reason there. The models stand for a small share of the lines of `src/trading`:
most of that library is sequential code over floating-point numbers (scores,
optimisers, statistics, pricing) and, in each of its packages, a validator of
thousands of lines that rejects malformed input field by field. Neither has
interleavings, failures or histories, which is what these models are about.

## 6. Plan

Done, in this order: `LiveOrder`, `LiveOrderLifecycle`, `OrderExecutionEngine`
with `OrderQueue`, `OrderHandlers`; `ExchangeWebSocketClient`;
`SequenceValidator`, `EventOrderingBuffer`, `BackpressureController` and
`StreamingPipeline`; `AlgorithmicExecution`; `WebSocketConnectionPool`; proofs of
every safety property that a passing run checks.

Next, most important first:

1. The subscription registry and the reconnection controller over the pool.
2. `SwarmLeaderElection` with `SwarmStateStore`: one leader in a term, no write
   of a deposed leader, versions without gaps.
3. Connector lifecycle, automatic failover and the risk circuit breaker: no
   routing to a connector that is down, no trade while the breaker is open.
4. The two arbitrage execution state machines with their recovery.

Rate limiting and retry, once in this plan, turned out to be interfaces with pure
functions over them: whoever implements them keeps the state.
