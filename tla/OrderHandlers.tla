----------------------------- MODULE OrderHandlers -----------------------------
(***************************************************************************)
(* The four command handlers behind the execution engine and what they     *)
(* talk to, for one order: LiveOrderSubmitter, LiveOrderCanceller,         *)
(* LiveOrderReplacer and LiveOrderReconciler (order-submitter.ts,          *)
(* order-canceller.ts, order-replacer.ts, order-reconciler.ts under        *)
(* src/src/trading/execution), with their default options, over the order  *)
(* repository, the event publisher and the exchange, which are external.   *)
(*                                                                         *)
(* One order is enough: handlers of different orders share nothing but a   *)
(* repository keyed by order.  The handlers of one order run one at a      *)
(* time, which is what OneAtATime of OrderExecutionEngine promises.        *)
(*                                                                         *)
(* An action is the code between two awaits.  pc[c] names the await that   *)
(* command c is suspended at.                                              *)
(***************************************************************************)
EXTENDS LiveOrder, Sequences

CONSTANTS
    Commands,       \* command identifiers
    Op,             \* operation of each command
    KnowsId,        \* RECONCILE commands that carry an exchangeOrderId
    ExId,           \* the identity the exchange gives to the order
    ClockMayLag,    \* the local clock may be behind a time the exchange gave
    MaxAttempts,    \* bound: executions of each command
    MaxCrashes      \* bound: restarts of the process

Operations == {"SUBMIT", "CANCEL", "REPLACE", "RECONCILE"}

ASSUME HandlersAssumption ==
    /\ Op \in [Commands -> Operations]
    /\ KnowsId \subseteq Commands
    /\ ExId \in ExIds
    /\ ClockMayLag \in BOOLEAN
    /\ MaxAttempts \in [Commands -> Nat] /\ MaxCrashes \in Nat

VARIABLES
    repo,       \* the order as the repository has it (durable)
    pc,         \* where the handler of each command is suspended
    working,    \* the order the handler computes with
    loaded,     \* version of the order the reconciler started from
    wire,       \* the request of each command: none, sent, answered
    reply,      \* the status the exchange answered with
    seen,       \* the fill records in the snapshot it answered with
    event,      \* the event published last: an order and a phase
    ex,         \* the exchange's side of the order
    attempts,   \* history variable: executions of each command
    crashes     \* history variable: restarts

netVars == <<wire, reply, seen>>
vars == <<repo, pc, working, loaded, netVars, event, ex, attempts, crashes>>

Ended == {"idle", "done", "failed"}
Pcs == Ended \cup {"savePending", "emitPending", "waiting", "saveSubmitted",
                   "emitSubmitted", "emitFill", "saveFinal", "emitFinal"}

Phases == {"ROUTED", "PENDING", "SUBMITTED", "FILL_RECONCILED", "FINAL"}

\* The statuses of the responses and the order states of the snapshots.
Replies == States \cup {"none", "PENDING", "NOT_FOUND", "ALREADY_TERMINAL",
                        "MISSING"}

Active(c) == pc[c] \notin Ended

\* The order as a router leaves it and every SUBMIT command carries it: new,
\* validated (version 2) and routed (versions 3 and 4).
RoutedOrder == [NewOrder(Qty) EXCEPT !.state = "ROUTED", !.version = 4]

Init ==
    /\ repo = RoutedOrder
    /\ pc = [c \in Commands |-> "idle"]
    /\ working = [c \in Commands |-> RoutedOrder]
    /\ loaded = [c \in Commands |-> 0]
    /\ wire = [c \in Commands |-> "none"]
    /\ reply = [c \in Commands |-> "none"]
    /\ seen = [c \in Commands |-> {}]
    /\ event = [order |-> RoutedOrder, phase |-> "ROUTED"]
    /\ ex = [status |-> "none", log |-> <<>>, filled |-> 0]
    /\ attempts = [c \in Commands |-> 0]
    /\ crashes = 0

-----------------------------------------------------------------------------
(* The order states the handlers ask for.                                  *)

SubmittableStates == {"ROUTED", "RECOVERING"}
CancellableStates == {"SUBMITTED", "ACCEPTED", "PARTIALLY_FILLED",
                      "CANCEL_PENDING", "UNKNOWN", "RECOVERING"}
ReplaceableStates == {"ACCEPTED", "PARTIALLY_FILLED"}

\* Mutant: without the way over UNKNOWN.
TransitionIfAllowedOnly(order, state) ==
    IF order.state # state /\ CanTransition(order, state)
    THEN Transitioned(order, state) ELSE order

\* transitionIfAllowed: to state, or to UNKNOWN, or not at all.
TransitionIfAllowed(order, state) ==
    IF order.state # state /\ CanTransition(order, state)
    THEN Transitioned(order, state)
    ELSE IF /\ order.state \notin {state, "UNKNOWN"}
            /\ ~IsTerminal(order)
            /\ CanTransition(order, "UNKNOWN")
         THEN Transitioned(order, "UNKNOWN")
         ELSE order

\* What the reconciler makes of the state an exchange snapshot shows.
ReconcileState(order, target) ==
    IF order.state = target \/ order.state = "FILLED" THEN order
    ELSE IF \/ target = "PARTIALLY_FILLED" /\ order.filled = 0
            \/ target = "FILLED" /\ order.filled # order.qty
         THEN TransitionIfAllowed(order, "UNKNOWN")
         ELSE TransitionIfAllowed(order, target)

ShouldApplyAcceptance(order, target) ==
    /\ order.exId = NoId
    /\ order.state \in AcceptableStates
    /\ target = "ACCEPTED"

\* A failure is noted and the order is of unclear fate.
Doubted(order) == Transitioned(FailureNoted(order), "UNKNOWN")

\* The order after the exchange has answered the request.
SubmitOutcome(order, status) ==
    CASE status = "ACCEPTED" -> Accepted(order, ExId)
      [] status = "REJECTED" -> Transitioned(FailureNoted(order), "REJECTED")
      [] status = "UNKNOWN"  -> Doubted(order)

\* Mutant: a request that was taken up is taken for granted.
AmendOutcomeEager(order, status) ==
    CASE status \in {"CANCELLED", "REPLACED"} -> Transitioned(order, status)
      [] status = "PENDING" ->
            Transitioned(order, IF order.state = "CANCEL_PENDING"
                                THEN "CANCELLED" ELSE "REPLACED")
      [] OTHER -> Doubted(order)

AmendOutcome(order, status) ==
    CASE status \in {"CANCELLED", "REPLACED"} -> Transitioned(order, status)
      [] status = "PENDING" -> order
      [] OTHER -> Doubted(order)

-----------------------------------------------------------------------------
(* Steps shared by the handlers.                                           *)

Goto(c, label) == pc' = [pc EXCEPT ![c] = label]
Work(c, order, label) ==
    /\ working' = [working EXCEPT ![c] = order]
    /\ Goto(c, label)

Send(c) ==
    /\ wire' = [wire EXCEPT ![c] = "sent"]
    /\ reply' = [reply EXCEPT ![c] = "none"]
    /\ seen' = [seen EXCEPT ![c] = {}]

\* The engine runs the command: nothing else runs for the order.  A call that
\* threw may be repeated; one that returned is answered from the result store.
Begin(c) ==
    /\ pc[c] \in {"idle", "failed"} /\ wire[c] = "none"
    /\ \A d \in Commands : ~Active(d)
    /\ attempts[c] < MaxAttempts[c]
    /\ attempts' = [attempts EXCEPT ![c] = @ + 1]
    /\ UNCHANGED <<repo, event, ex, crashes>>

\* The handler throws before it has done anything.
Refuse(c) == Goto(c, "failed") /\ UNCHANGED <<working, loaded, netVars>>

\* Mutant: the exchange is called before SUBMITTING is persisted.
BeginSubmitUnsaved(c) ==
    /\ Op[c] = "SUBMIT" /\ Begin(c)
    /\ Work(c, Transitioned(RoutedOrder, "SUBMITTING"), "waiting")
    /\ Send(c)
    /\ UNCHANGED loaded

BeginSubmit(c) ==
    /\ Op[c] = "SUBMIT" /\ Begin(c)
    /\ Work(c, Transitioned(RoutedOrder, "SUBMITTING"), "savePending")
    /\ UNCHANGED <<loaded, netVars>>

\* Mutant: the pending state is announced without being persisted.
BeginCancelUnsaved(c) ==
    /\ Op[c] = "CANCEL" /\ Begin(c)
    /\ repo.state \in CancellableStates
    /\ CanTransition(repo, "CANCEL_PENDING")
    /\ Work(c, Transitioned(repo, "CANCEL_PENDING"), "emitPending")
    /\ UNCHANGED <<loaded, netVars>>

\* A terminal order is left alone and the command completes; an order whose
\* cancellation is already pending is cancelled again without a transition.
BeginCancel(c) ==
    /\ Op[c] = "CANCEL" /\ Begin(c)
    /\ UNCHANGED loaded
    /\ \/ /\ IsTerminal(repo)
          /\ Work(c, repo, "done") /\ UNCHANGED netVars
       \/ /\ repo.state = "CANCEL_PENDING"
          /\ Work(c, repo, "waiting") /\ Send(c)
       \/ /\ repo.state \in CancellableStates
          /\ CanTransition(repo, "CANCEL_PENDING")
          /\ Work(c, Transitioned(repo, "CANCEL_PENDING"), "savePending")
          /\ UNCHANGED netVars

\* A terminal order cannot be replaced, nor one whose filled quantity leaves
\* nothing of the (here unchanged) quantity.
BeginReplace(c) ==
    /\ Op[c] = "REPLACE" /\ Begin(c)
    /\ repo.state \in ReplaceableStates /\ repo.filled < repo.qty
    /\ CanTransition(repo, "REPLACE_PENDING")
    /\ Work(c, Transitioned(repo, "REPLACE_PENDING"), "savePending")
    /\ UNCHANGED <<loaded, netVars>>

\* Mutant: the handler goes on with the order of its previous execution.
BeginReconcileStale(c) ==
    /\ Op[c] = "RECONCILE" /\ Begin(c)
    /\ ~IsTerminal(working[c]) /\ (repo.exId # NoId \/ c \in KnowsId)
    /\ loaded' = [loaded EXCEPT ![c] = working[c].version]
    /\ Work(c, working[c], "waiting") /\ Send(c)

BeginReconcile(c) ==
    /\ Op[c] = "RECONCILE" /\ Begin(c)
    /\ loaded' = [loaded EXCEPT ![c] = repo.version]
    /\ \/ /\ IsTerminal(repo)
          /\ Work(c, repo, "done") /\ UNCHANGED netVars
       \/ /\ ~IsTerminal(repo)
          /\ repo.exId # NoId \/ c \in KnowsId
          /\ Work(c, repo, "waiting") /\ Send(c)

\* The states in which the handler of a command throws at once.
BeginRefused(c) ==
    /\ Begin(c)
    /\ \/ /\ Op[c] = "CANCEL" /\ ~IsTerminal(repo)
          /\ repo.state # "CANCEL_PENDING"
          /\ \/ repo.state \notin CancellableStates
             \/ ~CanTransition(repo, "CANCEL_PENDING")
       \/ /\ Op[c] = "REPLACE"
          /\ \/ repo.state \notin ReplaceableStates
             \/ repo.filled = repo.qty
       \/ /\ Op[c] = "RECONCILE" /\ ~IsTerminal(repo)
          /\ repo.exId = NoId /\ c \notin KnowsId
    /\ Refuse(c)

-----------------------------------------------------------------------------
(* Persisting and publishing.                                              *)

\* What follows each save, each publication, and each failure of either.
AfterSave == [savePending |-> "emitPending", saveSubmitted |-> "emitSubmitted",
              saveFinal |-> "emitFinal"]

Save(c) ==
    /\ pc[c] \in DOMAIN AfterSave
    /\ repo' = working[c]
    /\ Goto(c, AfterSave[pc[c]])
    /\ UNCHANGED <<working, loaded, netVars, event, ex, attempts, crashes>>

\* The repository reports an error, with or without having stored the order.
SaveFails(c) ==
    /\ pc[c] \in DOMAIN AfterSave
    /\ repo' \in {repo, working[c]}
    /\ Goto(c, "failed")
    /\ UNCHANGED <<working, loaded, netVars, event, ex, attempts, crashes>>

Publish(c, phase) == event' = [order |-> working[c], phase |-> phase]

\* After announcing the pending state the handler calls the exchange.
EmitPending(c) ==
    /\ pc[c] = "emitPending"
    /\ Publish(c, "PENDING")
    /\ Send(c)
    /\ Goto(c, "waiting")
    /\ UNCHANGED <<repo, working, loaded, ex, attempts, crashes>>

\* After announcing SUBMITTED the submitter applies the response it holds.
EmitSubmitted(c) ==
    /\ pc[c] = "emitSubmitted"
    /\ Publish(c, "SUBMITTED")
    /\ \/ Work(c, SubmitOutcome(working[c], reply[c]), "saveFinal")
       \/ /\ ClockMayLag /\ reply[c] # "ACCEPTED"
          /\ Goto(c, "failed") /\ UNCHANGED working
    /\ UNCHANGED <<repo, loaded, netVars, ex, attempts, crashes>>

EmitFinal(c) ==
    /\ pc[c] = "emitFinal"
    /\ Publish(c, "FINAL")
    /\ Goto(c, "done")
    /\ UNCHANGED <<repo, working, loaded, netVars, ex, attempts, crashes>>

EmitFails(c) ==
    /\ pc[c] \in {"emitPending", "emitSubmitted", "emitFill", "emitFinal"}
    /\ Goto(c, "failed")
    /\ UNCHANGED <<repo, working, loaded, netVars, event, ex, attempts,
                   crashes>>

-----------------------------------------------------------------------------
(* Reconciliation of a snapshot.                                           *)

Executed == {ex.log[i] : i \in 1 .. Len(ex.log)}

\* Fills are applied by time of execution.
IsNextFill(fill, unseen) ==
    \E i \in 1 .. Len(ex.log) :
        /\ ex.log[i] = fill
        /\ \A j \in 1 .. (i - 1) : ex.log[j] \notin unseen

\* The reconciler's loop from the point where order is what it has: the next
\* fill is applied and published, or throws; after the last one the state is
\* reconciled, and the order is saved if anything changed.
Proceed(c, order) ==
    LET unseen == seen[c] \ order.fills
        result == ReconcileState(order, reply[c])
    IN  \/ \E fill \in unseen :
              /\ IsNextFill(fill, unseen)
              /\ IF CanFill(order, fill)
                 THEN Work(c, Filled(order, fill), "emitFill")
                 ELSE Work(c, order, "failed")
        \/ /\ unseen = {} /\ result.version # loaded[c]
           /\ Work(c, result, "saveFinal")
        \/ /\ unseen = {} /\ result.version = loaded[c]
           /\ Work(c, result, "done")

EmitFill(c) ==
    /\ pc[c] = "emitFill"
    /\ Publish(c, "FILL_RECONCILED")
    /\ Proceed(c, working[c])
    /\ UNCHANGED <<repo, loaded, netVars, ex, attempts, crashes>>

-----------------------------------------------------------------------------
(* The answer of the exchange.                                             *)

Answered(c) ==
    /\ pc[c] = "waiting" /\ wire[c] = "answered"
    /\ wire' = [wire EXCEPT ![c] = "none"]
    /\ UNCHANGED <<repo, loaded, reply, seen, event, ex, attempts, crashes>>

ReceiveSubmit(c) ==
    /\ Op[c] = "SUBMIT" /\ Answered(c)
    /\ Work(c, Transitioned(working[c], "SUBMITTED"), "saveSubmitted")

\* A refused cancellation or replacement leaves the order UNKNOWN; recording
\* the failure throws if it is dated before the order's last update.
ReceiveAmend(c) ==
    /\ Op[c] \in {"CANCEL", "REPLACE"} /\ Answered(c)
    /\ \/ Work(c, AmendOutcome(working[c], reply[c]), "saveFinal")
       \/ /\ ClockMayLag
          /\ reply[c] \notin {"CANCELLED", "REPLACED", "PENDING"}
          /\ Work(c, working[c], "failed")

ReceiveSnapshot(c) ==
    /\ Op[c] = "RECONCILE" /\ Answered(c) /\ reply[c] # "MISSING"
    /\ Proceed(c, IF ShouldApplyAcceptance(working[c], reply[c])
                  THEN Accepted(working[c], ExId) ELSE working[c])

ReceiveMissing(c) ==
    /\ Op[c] = "RECONCILE" /\ Answered(c) /\ reply[c] = "MISSING"
    /\ Work(c, TransitionIfAllowed(FailureNoted(working[c]), "UNKNOWN"),
            "saveFinal")

\* The answer fails the handler's validation, which throws.
ReceiveInvalid(c) == Answered(c) /\ Work(c, working[c], "failed")

\* The transport throws: the request may be lost, still under way, or done
\* and only its answer lost.  The handler cannot tell and fails the order (the
\* reconciler doubts it), or throws if its clock is behind the order's.
TransportFails(c) ==
    /\ pc[c] = "waiting"
    /\ wire' \in {[wire EXCEPT ![c] = w] :
                     w \in {"none"} \cup ({wire[c]} \ {"answered"})}
    /\ \/ Work(c, IF Op[c] = "RECONCILE"
                  THEN TransitionIfAllowed(FailureNoted(working[c]), "UNKNOWN")
                  ELSE Failed(working[c], TRUE), "saveFinal")
       \/ ClockMayLag /\ Work(c, working[c], "failed")
    /\ UNCHANGED <<repo, loaded, reply, seen, event, ex, attempts, crashes>>

-----------------------------------------------------------------------------
(* The exchange: external, modelled from what the handlers accept of it.   *)

LiveStatuses == {"open", "cancelling", "replacing"}
DeadStatuses == {"filled", "cancelled", "replaced", "rejected", "expired"}

\* The request of c arrives; nobody listens any more if the handler gave up.
Answer(c, op, status) ==
    /\ Op[c] = op /\ wire[c] = "sent"
    /\ wire' = [wire EXCEPT ![c] =
                   IF pc[c] = "waiting" THEN "answered" ELSE "none"]
    /\ reply' = [reply EXCEPT ![c] = status]
    /\ UNCHANGED <<repo, pc, working, loaded, event, attempts, crashes>>

Becomes(status) == ex' = [ex EXCEPT !.status = status]

\* A second submission of the order is recognised by its idempotency key.
ExSubmit(c) ==
    /\ UNCHANGED seen
    /\ \/ /\ ex.status = "none" /\ Becomes("open")
          /\ \E s \in {"ACCEPTED", "UNKNOWN"} : Answer(c, "SUBMIT", s)
       \/ /\ ex.status = "none" /\ Becomes("rejected")
          /\ \E s \in {"REJECTED", "UNKNOWN"} : Answer(c, "SUBMIT", s)
       \/ /\ ex.status # "none" /\ UNCHANGED ex
          /\ \E s \in {"ACCEPTED", "REJECTED", "UNKNOWN"} :
                Answer(c, "SUBMIT", s)

\* A request to cancel (replace) is granted, taken up for later, refused, or
\* finds no order to apply to; what the answer says may be less than that.
ExAmend(c, op, later, done, granted) ==
    /\ UNCHANGED seen
    /\ \/ /\ ex.status \in LiveStatuses /\ Becomes(done)
          /\ \E s \in {granted, "UNKNOWN"} : Answer(c, op, s)
       \/ /\ ex.status \in LiveStatuses /\ Becomes(later)
          /\ \E s \in {"PENDING", "UNKNOWN"} : Answer(c, op, s)
       \/ /\ ex.status \in LiveStatuses /\ UNCHANGED ex
          /\ Answer(c, op, "REJECTED")
       \/ /\ ex.status \notin LiveStatuses /\ UNCHANGED ex
          /\ \E s \in {"NOT_FOUND", "ALREADY_TERMINAL"} : Answer(c, op, s)

ExCancel(c) == ExAmend(c, "CANCEL", "cancelling", "cancelled", "CANCELLED")
ExReplace(c) == ExAmend(c, "REPLACE", "replacing", "replaced", "REPLACED")

\* The order states a snapshot of each status is mapped to.
SnapshotStates ==
    [open       |-> {"ACCEPTED", "UNKNOWN"} \cup
                    (IF ex.filled > 0 THEN {"PARTIALLY_FILLED"} ELSE {}),
     cancelling |-> {"CANCEL_PENDING"},
     replacing  |-> {"REPLACE_PENDING"},
     filled     |-> {"FILLED"},
     cancelled  |-> {"CANCELLED"},
     replaced   |-> {"REPLACED"},
     rejected   |-> {"REJECTED"},
     expired    |-> {"EXPIRED"}]

\* A snapshot may lack fill records that the exchange has not yet listed, and
\* an order may be missing that is there.
ExFetch(c) ==
    /\ UNCHANGED ex
    /\ \/ /\ ex.status # "none"
          /\ \E s \in SnapshotStates[ex.status] : Answer(c, "RECONCILE", s)
          /\ \E listed \in SUBSET Executed :
                seen' = [seen EXCEPT ![c] = listed]
       \/ Answer(c, "RECONCILE", "MISSING") /\ UNCHANGED seen

\* The exchange on its own: it executes, finishes what it took up, expires.
ExFill(fill) ==
    /\ ex.status \in LiveStatuses
    /\ fill \notin Executed /\ ex.filled + FillQty[fill] <= Qty
    /\ ex' = [status |-> IF ex.filled + FillQty[fill] = Qty
                         THEN "filled" ELSE ex.status,
              log    |-> Append(ex.log, fill),
              filled |-> ex.filled + FillQty[fill]]
    /\ UNCHANGED <<repo, pc, working, loaded, netVars, event, attempts,
                   crashes>>

ExClose ==
    /\ \/ ex.status = "cancelling" /\ Becomes("cancelled")
       \/ ex.status = "replacing" /\ Becomes("replaced")
       \/ ex.status \in LiveStatuses /\ Becomes("expired")
    /\ UNCHANGED <<repo, pc, working, loaded, netVars, event, attempts,
                   crashes>>

-----------------------------------------------------------------------------
\* The process dies: the handlers are gone, the requests they sent are not.
Crash ==
    /\ crashes < MaxCrashes
    /\ crashes' = crashes + 1
    /\ pc' = [c \in Commands |-> IF Active(c) THEN "failed" ELSE pc[c]]
    /\ wire' = [c \in Commands |->
                   IF wire[c] = "answered" THEN "none" ELSE wire[c]]
    /\ UNCHANGED <<repo, working, loaded, reply, seen, event, ex, attempts>>

Handler(c) ==
    \/ BeginSubmit(c) \/ BeginCancel(c) \/ BeginReplace(c) \/ BeginReconcile(c)
    \/ BeginRefused(c)
    \/ Save(c) \/ SaveFails(c)
    \/ EmitPending(c) \/ EmitSubmitted(c) \/ EmitFill(c) \/ EmitFinal(c)
    \/ EmitFails(c)
    \/ ReceiveSubmit(c) \/ ReceiveAmend(c) \/ ReceiveSnapshot(c)
    \/ ReceiveMissing(c) \/ ReceiveInvalid(c) \/ TransportFails(c)

Exchange ==
    \/ \E c \in Commands :
          ExSubmit(c) \/ ExCancel(c) \/ ExReplace(c) \/ ExFetch(c)
    \/ \E fill \in Fills : ExFill(fill)
    \/ ExClose

Next == (\E c \in Commands : Handler(c)) \/ Exchange \/ Crash

Spec == Init /\ [][Next]_vars

-----------------------------------------------------------------------------
(* Properties.                                                             *)

\* Type invariant.
TypeOK ==
    /\ repo \in LiveOrders
    /\ pc \in [Commands -> Pcs]
    /\ working \in [Commands -> LiveOrders]
    /\ loaded \in [Commands -> Nat]
    /\ wire \in [Commands -> {"none", "sent", "answered"}]
    /\ reply \in [Commands -> Replies]
    /\ seen \in [Commands -> SUBSET Fills]
    /\ event \in [order : LiveOrders, phase : Phases]
    /\ ex \in [status : {"none"} \cup LiveStatuses \cup DeadStatuses,
              log : Seq(Fills), filled : 0 .. Qty]
    /\ attempts \in [Commands -> Nat]
    /\ crashes \in 0 .. MaxCrashes

\* Write-ahead: the exchange has an order only if the repository knows that
\* it may, whatever save, publication or restart came between.  The
\* submitter persists SUBMITTING before it calls the transport
\* (order-submitter.ts:283).
WriteAhead == ex.status # "none" => repo.state # "ROUTED"

\* The repository never goes back: over a save of any handler the version
\* grows, fills stay, and an order that was filled or is final keeps its
\* state.  No handler writes over what another one stored, and the reconciler
\* does not downgrade a filled order (order-reconciler.ts:717).
RepositoryAdvances ==
    [][/\ repo'.version >= repo.version
       /\ repo.version = repo'.version => repo' = repo
       /\ repo.fills \subseteq repo'.fills
       /\ repo.state \in TerminalStates \cup {"FILLED"} =>
             repo'.state = repo.state]_vars

\* Lifecycle events follow persistence: what is published as the state of
\* the order is what the repository holds at that moment, fill events apart
\* (order-submitter.ts:283, order-canceller.ts:231, order-reconciler.ts:450).
EventsFollowPersistence ==
    [][event' # event /\ event'.phase # "FILL_RECONCILED" =>
          event'.order = repo]_vars

\* A final state in the repository is the truth: the exchange will not
\* execute the order any more.  FAILED is excepted: it is what a lost answer
\* leads to (order-submitter.ts:336), with the order possibly open.
FinalMeansDead ==
    repo.state \in {"FILLED", "CANCELLED", "REPLACED", "REJECTED", "EXPIRED"}
       => ex.status \in DeadStatuses

\* The reconciliation of c gets through: the snapshot it was given is applied,
\* with all its fills, and what comes of it is saved if it is a change.
GetsThrough(c) ==
    /\ ReceiveSnapshot(c) \/ EmitFill(c)
    /\ pc'[c] \in {"saveFinal", "done"}

\* It brings the order to the end the snapshot shows, or, from a state that
\* cannot go there, to UNKNOWN, from where the next one must.
Settles(c) ==
    \/ working[c].state \in {reply[c], "FILLED"}
    \/ working[c].state = "UNKNOWN" /\ repo.state # "UNKNOWN"

\* Whatever state retries, refusals, lost answers and restarts have left the
\* order in, a reconciliation that gets through with the snapshot of an order
\* that was cancelled, rejected or has expired settles it, and the second one
\* at the latest for good (order-reconciler.ts:790).  It need not get through:
\* the handler throws for an order without exchange identity (:269) and at a
\* fill the order cannot take (:416).
ReconciliationSettles ==
    [][\A c \in Commands :
          GetsThrough(c) /\ reply[c] \in {"CANCELLED", "REJECTED", "EXPIRED"}
             => Settles(c)']_vars

\* ... and the same if it was replaced: the reconciler "resolves lifecycle
\* drift" (order-reconciler.ts:9) and maps REPLACED to REPLACED (:177).
ReplacementSettles ==
    [][\A c \in Commands :
          GetsThrough(c) /\ reply[c] = "REPLACED" => Settles(c)']_vars
=============================================================================
