------------------------- MODULE OrderExecutionEngine -------------------------
(***************************************************************************)
(* LiveOrderExecutionEngine of                                             *)
(* src/src/trading/execution/order-execution-engine.ts: the component      *)
(* every submit, cancel, replace and reconcile command goes through.  It   *)
(* joins duplicate calls, answers repeated commands from a result store,   *)
(* runs the commands of one order one at a time, and can be drained and    *)
(* started again.                                                          *)
(*                                                                         *)
(* The program is single-threaded: an action is the code between two       *)
(* awaits, and the actions of different commands interleave at the awaits. *)
(* pc[c] names the await the execution of command c is suspended at.  The  *)
(* handlers behind dispatch are the subject of OrderHandlers; here they    *)
(* end well or with an error.                                              *)
(***************************************************************************)
EXTENDS Naturals, FiniteSets

CONSTANTS
    Commands,                   \* command identifiers
    Orders,                     \* order identifiers
    OrderOf,                    \* the order each command is about
    Drains,                     \* concurrent calls of drain()
    SerializePerOrder,          \* options of the engine (:232), recordHistory
    EnableIdempotency,          \*   being TRUE and a result store and an
    IgnoreResultStoreErrors,    \*   observer being configured
    IgnoreHistoryErrors,
    IgnoreObserverErrors,
    StartAwaitsDrain,           \* callers await drain() before start()
    MaxAttempts,                \* bound: executions of one command
    MaxCrashes                  \* bound: restarts of the process

ASSUME EngineAssumption ==
    /\ OrderOf \in [Commands -> Orders]
    /\ {SerializePerOrder, EnableIdempotency, IgnoreResultStoreErrors,
        IgnoreHistoryErrors, IgnoreObserverErrors, StartAwaitsDrain}
          \subseteq BOOLEAN
    /\ MaxAttempts \in Nat /\ MaxCrashes \in Nat

VARIABLES
    state,        \* RUNNING, DRAINING or STOPPED
    inFlight,     \* keys of inFlightByCommandId
    tail,         \* orderTails: the last ticket of each order, 0 if absent
    pc,           \* where the execution of each command is suspended
    ticket,       \* the promise a queued or running command put in the chain
    prev,         \* the promise that command awaits first, 0 if resolved
    pending,      \* promises of the chains that are not resolved
    nextTicket,   \* promises created so far
    count,        \* acceptedCommands, completedCommands, failedCommands
    draining,     \* drain() calls that have not returned
    awaited,      \* the commands each of them still waits for
    store,        \* commands with a result in the result store (durable)
    history,      \* verdicts recorded for the latest attempt (durable)
    outcome,      \* what the latest execution of the command came to
    handled,      \* history variable: commands whose handler has returned
    attempts,     \* history variable: executions per command
    crashes       \* history variable: restarts

queueVars == <<tail, ticket, prev, pending, nextTicket>>
drainVars == <<draining, awaited>>
ghostVars == <<handled, attempts, crashes>>
vars == <<state, inFlight, pc, queueVars, count, drainVars, store, history,
          outcome, ghostVars>>

\* Awaits inside executeCore, in the order they are met.
CorePcs == {"started", "dispatched", "saving", "recording", "notifying",
            "failRecording", "failNotifying"}

\* Between enqueueByOrder taking its place in the chain and its finally.
QueuePcs == CorePcs \cup {"queued", "leaving"}

Pcs == QueuePcs \cup {"idle", "reading", "hitNotifying", "settling"}

NoCount == [accepted |-> 0, completed |-> 0, failed |-> 0]

Init ==
    /\ state = "RUNNING"
    /\ inFlight = {}
    /\ tail = [o \in Orders |-> 0]
    /\ pc = [c \in Commands |-> "idle"]
    /\ ticket = [c \in Commands |-> 0]
    /\ prev = [c \in Commands |-> 0]
    /\ pending = {}
    /\ nextTicket = 0
    /\ count = NoCount
    /\ draining = {}
    /\ awaited = [d \in Drains |-> {}]
    /\ store = {}
    /\ history = [c \in Commands |-> {}]
    /\ outcome = [c \in Commands |-> "none"]
    /\ handled = {}
    /\ attempts = [c \in Commands |-> 0]
    /\ crashes = 0

Goto(c, label) == pc' = [pc EXCEPT ![c] = label]

-----------------------------------------------------------------------------
(* execute and executeIdempotently.                                        *)

\* enqueueByOrder up to its first await: the command takes the last place
\* in the chain of its order and awaits whatever was last before.
JoinQueue(c) ==
    /\ Goto(c, "queued")
    /\ IF SerializePerOrder
       THEN /\ nextTicket' = nextTicket + 1
            /\ ticket' = [ticket EXCEPT ![c] = nextTicket']
            /\ prev' = [prev EXCEPT ![c] = tail[OrderOf[c]]]
            /\ tail' = [tail EXCEPT ![OrderOf[c]] = nextTicket']
            /\ pending' = pending \cup {nextTicket'}
       ELSE UNCHANGED queueVars

\* A call for a command that is not in flight.  A call for one that is gets
\* the promise of the first (or an error) and changes nothing.
Execute(c) ==
    /\ state = "RUNNING"
    /\ c \notin inFlight
    /\ attempts[c] < MaxAttempts
    /\ inFlight' = inFlight \cup {c}
    /\ attempts' = [attempts EXCEPT ![c] = @ + 1]
    /\ outcome' = [outcome EXCEPT ![c] = "none"]
    /\ IF EnableIdempotency
       THEN Goto(c, "reading") /\ UNCHANGED queueVars
       ELSE JoinQueue(c)
    /\ UNCHANGED <<state, count, drainVars, store, history, handled, crashes>>

\* The result store answers with a result: it goes to the observer and back
\* to the caller without passing through the queue of the order.
CacheHit(c) ==
    /\ pc[c] = "reading" /\ c \in store
    /\ Goto(c, "hitNotifying")
    /\ UNCHANGED <<state, inFlight, queueVars, count, drainVars, store, history,
                   outcome, ghostVars>>

HitNotified(c) ==
    /\ pc[c] = "hitNotifying"
    /\ Goto(c, "settling")
    /\ \E result \in {"ok"} \cup (IF IgnoreObserverErrors THEN {}
                                                          ELSE {"error"}) :
          outcome' = [outcome EXCEPT ![c] = result]
    /\ UNCHANGED <<state, inFlight, queueVars, count, drainVars, store, history,
                   ghostVars>>

\* Mutant: the result the store answers with is not used.
CacheMissBlind(c) ==
    /\ pc[c] = "reading"
    /\ JoinQueue(c)
    /\ UNCHANGED <<state, inFlight, count, drainVars, store, history, outcome,
                   ghostVars>>

\* The store has nothing, or fails and its failures are ignored.
CacheMiss(c) ==
    /\ pc[c] = "reading"
    /\ c \notin store \/ IgnoreResultStoreErrors
    /\ JoinQueue(c)
    /\ UNCHANGED <<state, inFlight, count, drainVars, store, history, outcome,
                   ghostVars>>

CacheReadFails(c) ==
    /\ pc[c] = "reading" /\ ~IgnoreResultStoreErrors
    /\ Goto(c, "settling")
    /\ outcome' = [outcome EXCEPT ![c] = "error"]
    /\ UNCHANGED <<state, inFlight, queueVars, count, drainVars, store, history,
                   ghostVars>>

-----------------------------------------------------------------------------
(* executeCore.                                                            *)

\* Mutant: the work starts without awaiting the promise.
StartCoreAtOnce(c) ==
    /\ pc[c] = "queued"
    /\ Goto(c, "started")
    /\ count' = [count EXCEPT !.accepted = @ + 1]
    /\ history' = [history EXCEPT ![c] = {}]
    /\ UNCHANGED <<state, inFlight, queueVars, drainVars, store, outcome,
                   ghostVars>>

\* The promise awaited is resolved; executeCore runs up to notifyStarted.
StartCore(c) ==
    /\ pc[c] = "queued" /\ prev[c] \notin pending
    /\ Goto(c, "started")
    /\ count' = [count EXCEPT !.accepted = @ + 1]
    /\ history' = [history EXCEPT ![c] = {}]
    /\ UNCHANGED <<state, inFlight, queueVars, drainVars, store, outcome,
                   ghostVars>>

\* Where an execution goes when executeCore is over.
LeaveCore(c, result) ==
    /\ Goto(c, IF SerializePerOrder THEN "leaving" ELSE "settling")
    /\ outcome' = [outcome EXCEPT ![c] = result]

Dispatch(c) ==
    /\ pc[c] = "started"
    /\ Goto(c, "dispatched")
    /\ UNCHANGED <<state, inFlight, queueVars, count, drainVars, store, history,
                   outcome, ghostVars>>

\* onStarted throws outside the try block: nothing is counted or recorded.
StartObserverFails(c) ==
    /\ pc[c] = "started" /\ ~IgnoreObserverErrors
    /\ LeaveCore(c, "error")
    /\ UNCHANGED <<state, inFlight, queueVars, count, drainVars, store, history,
                   ghostVars>>

\* Mutant: the result is not saved.
DispatchReturnsUnsaved(c) ==
    /\ pc[c] = "dispatched"
    /\ Goto(c, "recording")
    /\ count' = [count EXCEPT !.completed = @ + 1]
    /\ handled' = handled \cup {c}
    /\ UNCHANGED <<state, inFlight, queueVars, drainVars, store, history,
                   outcome, attempts, crashes>>

\* The handler returns; without a store the command is complete at once.
DispatchReturns(c) ==
    /\ pc[c] = "dispatched"
    /\ IF EnableIdempotency
       THEN Goto(c, "saving") /\ UNCHANGED count
       ELSE /\ Goto(c, "recording")
            /\ count' = [count EXCEPT !.completed = @ + 1]
    /\ handled' = handled \cup {c}
    /\ UNCHANGED <<state, inFlight, queueVars, drainVars, store, history,
                   outcome, attempts, crashes>>

\* save has taken effect, or has failed and its failures are ignored.
Save(c) ==
    /\ pc[c] = "saving"
    /\ Goto(c, "recording")
    /\ count' = [count EXCEPT !.completed = @ + 1]
    /\ \/ store' = store \cup {c}
       \/ IgnoreResultStoreErrors /\ UNCHANGED store
    /\ UNCHANGED <<state, inFlight, queueVars, drainVars, history, outcome,
                   ghostVars>>

\* The history once an entry is appended.
Recorded(c, verdict) == [history EXCEPT ![c] = @ \cup {verdict}]

\* A success is recorded; a history failure is met in the same place.
RecordSuccess(c) ==
    /\ pc[c] = "recording"
    /\ Goto(c, "notifying")
    /\ \/ history' = Recorded(c, "COMPLETED")
       \/ IgnoreHistoryErrors /\ UNCHANGED history
    /\ UNCHANGED <<state, inFlight, queueVars, count, drainVars, store, outcome,
                   ghostVars>>

NotifyCompleted(c) ==
    /\ pc[c] = "notifying"
    /\ LeaveCore(c, "ok")
    /\ UNCHANGED <<state, inFlight, queueVars, count, drainVars, store, history,
                   ghostVars>>

\* Mutant: a failing observer is not ignored after completion.
TryFailsLate(c) ==
    /\ pc[c] = "notifying"
    /\ Goto(c, "failRecording")
    /\ count' = [count EXCEPT !.failed = @ + 1]
    /\ UNCHANGED <<state, inFlight, queueVars, drainVars, store, history,
                   outcome, ghostVars>>

\* Mutant: a failed dispatch is not counted.
TryFailsUncounted(c) ==
    /\ pc[c] = "dispatched"
    /\ Goto(c, "failRecording")
    /\ UNCHANGED <<state, inFlight, queueVars, count, drainVars, store,
                   history, outcome, ghostVars>>

\* The awaits of the try block, each of which can send it to the catch block;
\* save and append may have taken effect before they throw.
TryFails(c) ==
    /\ \/ pc[c] = "dispatched" /\ UNCHANGED <<store, history>>
       \/ /\ pc[c] = "saving" /\ ~IgnoreResultStoreErrors
          /\ store' \in {store, store \cup {c}}
          /\ UNCHANGED history
       \/ /\ pc[c] = "recording" /\ ~IgnoreHistoryErrors
          /\ history' \in {history, Recorded(c, "COMPLETED")}
          /\ UNCHANGED store
       \/ /\ pc[c] = "notifying" /\ ~IgnoreObserverErrors
          /\ UNCHANGED <<store, history>>
    /\ Goto(c, "failRecording")
    /\ count' = [count EXCEPT !.failed = @ + 1]
    /\ UNCHANGED <<state, inFlight, queueVars, drainVars, outcome, ghostVars>>

\* The catch block: the failure is recorded, or recording it fails too and
\* that error leaves executeCore without telling the observer.
RecordFailure(c) ==
    /\ pc[c] = "failRecording"
    /\ Goto(c, "failNotifying")
    /\ \/ history' = Recorded(c, "FAILED")
       \/ IgnoreHistoryErrors /\ UNCHANGED history
    /\ UNCHANGED <<state, inFlight, queueVars, count, drainVars, store, outcome,
                   ghostVars>>

RecordFailureFails(c) ==
    /\ pc[c] = "failRecording" /\ ~IgnoreHistoryErrors
    /\ LeaveCore(c, "error")
    /\ history' \in {history, Recorded(c, "FAILED")}
    /\ UNCHANGED <<state, inFlight, queueVars, count, drainVars, store, ghostVars>>

NotifyFailed(c) ==
    /\ pc[c] = "failNotifying"
    /\ LeaveCore(c, "error")
    /\ UNCHANGED <<state, inFlight, queueVars, count, drainVars, store, history,
                   ghostVars>>

-----------------------------------------------------------------------------
(* The two finally blocks an execution passes on its way out.              *)

\* Mutant: the map entry is dropped whoever put it there.
ReleaseDropsTail(c) ==
    /\ pc[c] = "leaving"
    /\ Goto(c, "settling")
    /\ pending' = pending \ {ticket[c]}
    /\ tail' = [tail EXCEPT ![OrderOf[c]] = 0]
    /\ ticket' = [ticket EXCEPT ![c] = 0]
    /\ prev' = [prev EXCEPT ![c] = 0]
    /\ UNCHANGED <<state, inFlight, nextTicket, count, drainVars, store, history,
                   outcome, ghostVars>>

\* Mutant: the promise is not resolved when the work has failed.
ReleaseOnSuccess(c) ==
    /\ pc[c] = "leaving"
    /\ Goto(c, "settling")
    /\ pending' = IF outcome[c] = "ok" THEN pending \ {ticket[c]} ELSE pending
    /\ tail' = [tail EXCEPT ![OrderOf[c]] = IF @ = ticket[c] THEN 0 ELSE @]
    /\ ticket' = [ticket EXCEPT ![c] = 0]
    /\ prev' = [prev EXCEPT ![c] = 0]
    /\ UNCHANGED <<state, inFlight, nextTicket, count, drainVars, store, history,
                   outcome, ghostVars>>

\* enqueueByOrder resolves its promise, and drops the map entry if no later
\* command has replaced it.
Release(c) ==
    /\ pc[c] = "leaving"
    /\ Goto(c, "settling")
    /\ pending' = pending \ {ticket[c]}
    /\ tail' = [tail EXCEPT ![OrderOf[c]] = IF @ = ticket[c] THEN 0 ELSE @]
    /\ ticket' = [ticket EXCEPT ![c] = 0]
    /\ prev' = [prev EXCEPT ![c] = 0]
    /\ UNCHANGED <<state, inFlight, nextTicket, count, drainVars, store, history,
                   outcome, ghostVars>>

\* execute removes the command from the map; its promise is settled, which
\* every drain() that awaits it takes note of.
Settle(c) ==
    /\ pc[c] = "settling"
    /\ Goto(c, "idle")
    /\ inFlight' = inFlight \ {c}
    /\ awaited' = [d \in Drains |-> awaited[d] \ {c}]
    /\ UNCHANGED <<state, queueVars, count, draining, store, history, outcome,
                   ghostVars>>

-----------------------------------------------------------------------------
(* drain, start, and the end of the process.                               *)

Drain(d) ==
    /\ d \notin draining
    /\ state # "STOPPED"
    /\ state' = "DRAINING"
    /\ draining' = draining \cup {d}
    /\ awaited' = [awaited EXCEPT ![d] = inFlight]
    /\ UNCHANGED <<inFlight, pc, queueVars, count, store, history, outcome,
                   ghostVars>>

\* Mutant: drain() does not wait for all it found in flight.
DrainReturnsEarly(d) ==
    /\ d \in draining
    /\ state' = "STOPPED"
    /\ draining' = draining \ {d}
    /\ UNCHANGED <<inFlight, pc, queueVars, count, awaited, store, history, outcome,
                   ghostVars>>

\* drain() resumes when every promise it awaited is settled.
DrainReturns(d) ==
    /\ d \in draining /\ awaited[d] = {}
    /\ state' = "STOPPED"
    /\ draining' = draining \ {d}
    /\ UNCHANGED <<inFlight, pc, queueVars, count, awaited, store, history, outcome,
                   ghostVars>>

Start ==
    /\ StartAwaitsDrain => draining = {}
    /\ inFlight = {} /\ \A o \in Orders : tail[o] = 0
    /\ state' = "RUNNING"
    /\ UNCHANGED <<inFlight, pc, queueVars, count, drainVars, store, history,
                   outcome, ghostVars>>

\* The process dies and a new engine is constructed over the same stores.
Crash ==
    /\ crashes < MaxCrashes
    /\ crashes' = crashes + 1
    /\ state' = "RUNNING"
    /\ inFlight' = {}
    /\ tail' = [o \in Orders |-> 0]
    /\ pc' = [c \in Commands |-> "idle"]
    /\ ticket' = [c \in Commands |-> 0]
    /\ prev' = [c \in Commands |-> 0]
    /\ pending' = {}
    /\ count' = NoCount
    /\ draining' = {}
    /\ awaited' = [d \in Drains |-> {}]
    /\ outcome' = [c \in Commands |-> "none"]
    /\ UNCHANGED <<nextTicket, store, history, handled, attempts>>

-----------------------------------------------------------------------------
\* What the engine does by itself once a command is in.
Step(c) ==
    \/ CacheHit(c) \/ HitNotified(c) \/ CacheMiss(c) \/ CacheReadFails(c)
    \/ StartCore(c) \/ Dispatch(c) \/ StartObserverFails(c)
    \/ DispatchReturns(c) \/ Save(c) \/ RecordSuccess(c) \/ NotifyCompleted(c)
    \/ TryFails(c) \/ RecordFailure(c) \/ RecordFailureFails(c)
    \/ NotifyFailed(c) \/ Release(c) \/ Settle(c)

Next ==
    \/ \E c \in Commands : Execute(c) \/ Step(c)
    \/ \E d \in Drains : Drain(d) \/ DrainReturns(d)
    \/ Start
    \/ Crash

Spec == Init /\ [][Next]_vars

\* The promises the engine awaits are settled: by the event loop for its own,
\* by the store, the observer and the handlers for theirs.  The engine itself
\* has no timeout, so the fairness of Step is an assumption about those.
Fairness ==
    /\ \A c \in Commands : WF_vars(Step(c))
    /\ \A d \in Drains : WF_vars(DrainReturns(d))

FairSpec == Spec /\ Fairness

-----------------------------------------------------------------------------
(* Properties.                                                             *)

Running(c) == pc[c] \in CorePcs \cup {"leaving"}

\* Type invariant.
TypeOK ==
    /\ state \in {"RUNNING", "DRAINING", "STOPPED"}
    /\ inFlight \subseteq Commands
    /\ tail \in [Orders -> Nat]
    /\ pc \in [Commands -> Pcs]
    /\ ticket \in [Commands -> Nat]
    /\ prev \in [Commands -> Nat]
    /\ pending \subseteq 1 .. nextTicket
    /\ nextTicket \in Nat
    /\ count \in [accepted : Nat, completed : Nat, failed : Nat]
    /\ draining \subseteq Drains
    /\ awaited \in [Drains -> SUBSET Commands]
    /\ store \subseteq Commands
    /\ history \in [Commands -> SUBSET {"COMPLETED", "FAILED"}]
    /\ outcome \in [Commands -> {"none", "ok", "error"}]
    /\ handled \subseteq Commands
    /\ attempts \in [Commands -> 0 .. MaxAttempts]
    /\ crashes \in 0 .. MaxCrashes

\* The chain of promises is a lock: two commands for the same order are
\* never inside executeCore together (:951), whatever retries, failures and
\* late releases come between.
OneAtATime ==
    SerializePerOrder =>
        \A c, d \in Commands :
            Running(c) /\ Running(d) /\ OrderOf[c] = OrderOf[d] => c = d

\* Why: the tickets of an order's chain, in the order of taking them.  A
\* command awaits the one before it or a later one, and the tail is the last.
HasPlace(c) == pc[c] \in QueuePcs

Ahead(c, d) == /\ HasPlace(c) /\ HasPlace(d) /\ OrderOf[c] = OrderOf[d]
               /\ ticket[c] < ticket[d]

\* Every command in a chain holds a promise of its own, and one whose turn
\* has come awaits none of those that are pending (:951).
PlacesHeld ==
    \A c \in Commands :
        HasPlace(c) => /\ ticket[c] \in pending
                       /\ prev[c] < ticket[c]
                       /\ Running(c) => prev[c] \notin pending
                       /\ ticket[c] <= tail[OrderOf[c]]

PlacesDistinct ==
    \A c, d \in Commands :
        HasPlace(c) /\ HasPlace(d) /\ ticket[c] = ticket[d] => c = d

TailIsAPlace ==
    \A o \in Orders :
        tail[o] # 0 => \E c \in Commands : /\ OrderOf[c] = o /\ HasPlace(c)
                                          /\ ticket[c] = tail[o]

\* A command with others ahead of it awaits the promise of one of them, and
\* no older one than theirs.
NobodySkipped ==
    \A c, d \in Commands :
        Ahead(c, d) => \E b \in Commands : /\ Ahead(b, d) /\ ticket[b] = prev[d]
                                           /\ ticket[c] <= ticket[b]

\* The inductive invariant behind the lock and the tails (:951 to :995).
ChainInv ==
    SerializePerOrder =>
        PlacesHeld /\ PlacesDistinct /\ TailIsAPlace /\ NobodySkipped

\* orderTails has an entry for exactly the orders with a command queued or
\* running (:988): the entry of an idle order would make start() throw for
\* ever, a missing one would let the next command overtake.
TailsMatchQueues ==
    SerializePerOrder =>
        \A o \in Orders :
            tail[o] # 0 <=>
               \E c \in Commands : OrderOf[c] = o /\ pc[c] \in QueuePcs

\* Once the result of a command is in the store, no later call of it, before
\* or after a restart, reaches a handler again, unless the engine is told to
\* ignore a store that cannot be read (:756, :1014).
SavedNeverRedispatched ==
    [][~IgnoreResultStoreErrors =>
          \A c \in Commands :
             c \in store /\ pc'[c] = "dispatched" => pc[c] = "dispatched"]_vars

\* A caller is told of success only after the result is in the store, so
\* that a repetition gets the same answer (:846 comes before :880).
SuccessIsStored ==
    EnableIdempotency /\ ~IgnoreResultStoreErrors =>
        \A c \in Commands : outcome[c] = "ok" => c \in store

\* drain() "Stops accepting new commands and waits for all active commands"
\* (:708): an engine that says STOPPED has none.
StoppedIsIdle == state = "STOPPED" => inFlight = {}

\* The history has one verdict for an attempt, not COMPLETED and FAILED:
\* "Immutable history entry generated for each execution attempt." (:166).  It
\* takes an engine that ignores the errors of the observer and of the history:
\* with the default, a strict history, an append that takes effect and then
\* throws (:869) sends the attempt to the catch block, which records FAILED too.
OneVerdict ==
    IgnoreHistoryErrors /\ IgnoreObserverErrors =>
        \A c \in Commands : Cardinality(history[c]) <= 1

\* With observer errors ignored, the default, the metrics lose no command: each
\* accepted one is counted completed, failed, or not decided yet (:814, :854,
\* :888). Counted twice is one whose history fails, strictly, after it was
\* counted completed.
CountsBalance ==
    LET open == Cardinality({c \in Commands : pc[c] \in {"started", "dispatched", "saving"}})
        decided == count.completed + count.failed
    IN  IgnoreObserverErrors =>
            /\ decided + open >= count.accepted
            /\ IgnoreHistoryErrors => decided + open = count.accepted

\* Every command accepted is answered, also one queued behind a command that
\* fails (:985).
EveryCommandSettles ==
    \A c \in Commands : c \in inFlight ~> c \notin inFlight

\* Every drain() returns, whatever is in flight when it is called (:717).
EveryDrainReturns ==
    \A d \in Drains : d \in draining ~> d \notin draining
-----------------------------------------------------------------------------
(* What enqueueByOrder implements.                                         *)

\* The queue of an order, read off the chain of promises: the commands that
\* hold a ticket, in the order of their tickets.
InChain(o) == {c \in Commands : OrderOf[c] = o /\ HasPlace(c)}

QueueOf(o) ==
    LET n == Cardinality(InChain(o))
    IN  CHOOSE s \in [1 .. n -> InChain(o)] :
           \A i, j \in 1 .. n : i < j => ticket[s[i]] < ticket[s[j]]

Queue == INSTANCE OrderQueue WITH
            queue   <- [o \in Orders |-> QueueOf(o)],
            started <- {c \in Commands : Running(c)}

\* enqueueByOrder implements a first-in first-out queue per order (:951).
QueueSpec == Queue!QSpec
=============================================================================
