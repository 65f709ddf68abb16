------------------------ MODULE AlgorithmicExecution ------------------------
(***************************************************************************)
(* AlgorithmicExecutionEngine with its child order lifecycle manager and   *)
(* progress calculator, for one execution in the in-memory repository.     *)
(*                                                                         *)
(* Every operation reads the execution, awaits, computes a new one from    *)
(* what it has read and saves that; overlapping calls read the same        *)
(* execution. Each operation is an operator that gives the set of what it  *)
(* saves: empty when it throws. Both automatic completions are on, their   *)
(* default.                                                                *)
(*                                                                         *)
(* Nothing keeps a child order id from being used again: an order is found *)
(* by its id, the first one with it, and replaced wherever the id occurs.  *)
(*                                                                         *)
(* Quantities are lots, so the tolerance is zero. Left out: times (an      *)
(* operation is dated when it reads), prices, metadata, and the events,    *)
(* which are published after the save and read by no operation.            *)
(*                                                                         *)
(* External: the scheduler, and the exchange that fills child orders.      *)
(***************************************************************************)
EXTENDS Naturals, Sequences, SequencesExt, FiniteSets, FiniteSetsExt

CONSTANTS Callers, Slices, Orders, Fills,
          Target,       \* targetQuantity of each slice
          FillOf,       \* the child order of each fill
          FillQty,      \* its quantity
          Quantities,   \* what child orders are created with
          MaxVersion    \* bound: the version from which on no call reads

\* A schedule has at least one slice (twap-scheduler.ts:422), a child order a
\* positive quantity (algorithmic-execution-child-order-lifecycle-manager.ts:744).
ASSUME AlgorithmAssumption ==
    /\ IsFiniteSet(Slices) /\ Slices # {} /\ IsFiniteSet(Orders)
    /\ Target \in [Slices -> Nat]
    /\ FillOf \in [Fills -> Orders] /\ FillQty \in [Fills -> Nat]
    /\ Quantities \subseteq Nat \ {0}

VARIABLES stored,       \* the execution in the repository
          call,         \* what each caller has asked for and read
          overwritten   \* a save has taken back what was stored since it was read

vars == <<stored, call, overwritten>>

Statuses == {"CREATED", "RUNNING", "PAUSED", "COMPLETED", "CANCELLED", "FAILED"}
SliceStatuses == {"PENDING", "READY", "SUBMITTING", "SUBMITTED", "PARTIALLY_FILLED", "FILLED", "CANCELLED", "FAILED"}
OrderStatuses == {"NONE", "CREATED", "SUBMITTING", "OPEN", "PARTIALLY_FILLED", "FILLED", "CANCELLED", "REJECTED", "FAILED"}

Final(status) == status \in {"COMPLETED", "CANCELLED", "FAILED"}
Active(o) == o.status \in {"CREATED", "SUBMITTING", "OPEN", "PARTIALLY_FILLED"}

\* EXECUTION_TRANSITIONS. The engine never sets VALIDATED or SCHEDULED.
ExecutionTransitions == [s \in Statuses |->
    CASE s = "CREATED" -> {"RUNNING", "CANCELLED", "FAILED"}
      [] s = "RUNNING" -> {"PAUSED", "COMPLETED", "CANCELLED", "FAILED"}
      [] s = "PAUSED"  -> {"RUNNING", "CANCELLED", "FAILED"}
      [] OTHER         -> {}]

\* CHILD_ORDER_TRANSITIONS, and a further partial fill. CANCELLING is never saved.
OrderTransitions == [s \in OrderStatuses |->
    CASE s = "CREATED"    -> {"SUBMITTING", "CANCELLED", "REJECTED", "FAILED"}
      [] s = "SUBMITTING" -> {"OPEN", "PARTIALLY_FILLED", "FILLED", "CANCELLING", "CANCELLED", "REJECTED", "FAILED"}
      [] s \in {"OPEN", "PARTIALLY_FILLED"} -> {"PARTIALLY_FILLED", "FILLED", "CANCELLING", "CANCELLED", "FAILED"}
      [] OTHER            -> {}]

Sum(f, S) == MapThenSumSet(LAMBDA e : f[e], S)
Total == Sum(Target, Slices)

-----------------------------------------------------------------------------
(* The execution *)

\* The list of child orders is kept in two parts: orders has the first order with
\* each id, the one the id finds, and later what was created under an id in use.
\* crowded is no field of the code's: the slices for which two of the orders that
\* ids find have been active at once.
SliceRecords == [status : SliceStatuses, submitted : Nat, filled : Nat, remaining : Nat]
OrderRecords == [status : OrderStatuses, slice : Slices, quantity : Nat, submitted : Nat,
                 filled : Nat, fills : Seq(Fills)]
Executions ==
    [version : Nat, status : Statuses, slices : [Slices -> SliceRecords], orders : [Orders -> OrderRecords],
     later : Seq([id : Orders, order : OrderRecords]), fills : Seq(Fills), remaining : Nat, crowded : SUBSET Slices]

Requests ==
    [op : {"create", "start", "pause", "resume", "cancel", "fail", "refresh"}]
    \cup [op : {"activateSlice", "completeSlice", "failSlice"}, slice : Slices]
    \cup [op : {"createChildOrder"}, slice : Slices, order : Orders, quantity : Quantities]
    \cup [op : {"markSubmitting", "markSubmitted", "cancelChildOrder", "rejectChildOrder", "failChildOrder"}, order : Orders]
    \cup [op : {"applyFill"}, fill : Fills]
\* No execution is stored.
None == [status |-> "NONE"]
NoCall == [request |-> None, read |-> None]

OrdersOf(x, s) == {k \in Orders : x.orders[k].status # "NONE" /\ x.orders[k].slice = s}
LaterOf(x, s) == {i \in DOMAIN x.later : x.later[i].order.slice = s}

\* The factory's state: every slice pending, nothing ordered.
Fresh ==
    [version |-> 0, status |-> "CREATED",
     slices |-> [s \in Slices |-> [status |-> "PENDING", submitted |-> 0, filled |-> 0, remaining |-> Target[s]]],
     orders |-> [k \in Orders |-> [status |-> "NONE", slice |-> CHOOSE s \in Slices : TRUE, quantity |-> 0,
                                   submitted |-> 0, filled |-> 0, fills |-> <<>>]],
     later |-> <<>>, fills |-> <<>>, remaining |-> Total, crowded |-> {}]

\* What the progress calculator says is left to fill.
FilledBy(fills) == Sum([i \in DOMAIN fills |-> FillQty[fills[i]]], DOMAIN fills)
Remaining(x) == Total - Min({Total, FilledBy(x.fills)})

\* withProgress
WithProgress(x) == [x EXCEPT !.remaining = Remaining(x)]

\* Mutant: the table of transitions is not consulted.
TransitionsUnchecked(x, status) == {[x EXCEPT !.status = status, !.version = @ + 1]}

\* transitionExecution
Transitions(x, status) ==
    IF status = x.status \/ status \in ExecutionTransitions[x.status]
    THEN {[x EXCEPT !.status = status, !.version = @ + 1]} ELSE {}

\* replaceChildOrder: every order with the id becomes this one.
Replaced(x, k, o) ==
    [x EXCEPT !.orders[k] = o,
              !.later = [i \in DOMAIN @ |-> IF @[i].id = k THEN [id |-> k, order |-> o] ELSE @[i]]]

\* updateSliceFromChildOrder counts every order of the slice, whatever its id. A
\* slice whose orders have ended keeps SUBMITTED if one of them had been submitted.
SliceUpdated(x, s) ==
    LET submitted == Min({Target[s], Sum([k \in Orders |-> x.orders[k].submitted], OrdersOf(x, s))
                                     + Sum([i \in DOMAIN x.later |-> x.later[i].order.submitted], LaterOf(x, s))})
        filled    == Min({Target[s], Sum([k \in Orders |-> x.orders[k].filled], OrdersOf(x, s))
                                     + Sum([i \in DOMAIN x.later |-> x.later[i].order.filled], LaterOf(x, s))})
        status    == IF filled = Target[s] THEN "FILLED"
                     ELSE IF filled > 0 THEN "PARTIALLY_FILLED"
                     ELSE IF submitted > 0 THEN "SUBMITTED"
                     ELSE IF /\ OrdersOf(x, s) # {} /\ \A k \in OrdersOf(x, s) : ~Active(x.orders[k])
                             /\ \A i \in LaterOf(x, s) : ~Active(x.later[i].order) THEN "CANCELLED"
                     ELSE x.slices[s].status
    IN  [x EXCEPT !.slices[s] = [status |-> status, submitted |-> submitted, filled |-> filled,
                                 remaining |-> Target[s] - filled],
                  !.version = @ + 1]

\* Mutant: an execution is completed when anything has been filled.
CompletedEarly(x) == IF Final(x.status) \/ x.fills = <<>> THEN {x} ELSE Transitions(x, "COMPLETED")

\* completeExecutionWhenEligible: PAUSED has no transition to COMPLETED.
Completed(x) ==
    IF Final(x.status) \/ x.remaining > 0 THEN {x} ELSE Transitions(x, "COMPLETED")

-----------------------------------------------------------------------------
(* The operations on the execution *)

\* start, pause, resume and fail.
Changed(x, status) == {WithProgress(y) : y \in Transitions(x, status)}

\* Whether markCancelling takes the order, if it is active.
Cancellable(o) == Active(o) => "CANCELLING" \in OrderTransitions[o.status]
Ended(o) == IF Active(o) THEN [o EXCEPT !.status = "CANCELLED"] ELSE o

\* cancel ends every active order, through CANCELLING. One that was created later
\* and can be cancelled is no other than the one its id finds.
Cancelled(x) ==
    LET y == [x EXCEPT !.orders = [k \in Orders |-> Ended(@[k])],
                       !.later = [i \in DOMAIN @ |-> [id |-> @[i].id, order |-> Ended(@[i].order)]],
                       !.version = @ + 1]
    IN  IF /\ ~Final(x.status)
           /\ \A k \in Orders : Cancellable(x.orders[k])
           /\ \A i \in DOMAIN x.later : Cancellable(x.later[i].order)
        THEN {WithProgress(z) : z \in Transitions(y, "CANCELLED")} ELSE {}

\* activateSlice
Activated(x, s) ==
    IF x.status = "RUNNING" /\ x.slices[s].status = "PENDING"
    THEN {WithProgress([x EXCEPT !.slices[s].status = "READY", !.version = @ + 1])} ELSE {}

\* completeSlice: what the slice says, whatever its orders have filled.
SliceCompleted(x, s) ==
    Completed(WithProgress([x EXCEPT !.slices[s] = [@ EXCEPT !.status = "FILLED", !.filled = Target[s], !.remaining = 0],
                                     !.version = @ + 1]))

\* failSlice
SliceFailed(x, s) == {WithProgress([x EXCEPT !.slices[s].status = "FAILED", !.version = @ + 1])}

\* The order joins the list: nothing asks whether its id is in use.
Joined(x, k, o) ==
    IF x.orders[k].status = "NONE"
    THEN [x EXCEPT !.orders[k] = o,
                   !.crowded = IF \E j \in OrdersOf(x, o.slice) : Active(x.orders[j]) THEN @ \cup {o.slice} ELSE @]
    ELSE [x EXCEPT !.later = Append(@, [id |-> k, order |-> o])]

NewOrder(s, quantity) ==
    [status |-> "CREATED", slice |-> s, quantity |-> quantity, submitted |-> 0, filled |-> 0, fills |-> <<>>]

TakesOrders(x, s) ==
    /\ x.status = "RUNNING"
    /\ x.slices[s].status \in {"READY", "SUBMITTING", "SUBMITTED", "PARTIALLY_FILLED"}

\* Mutant: the quantity is held against the target of the slice.
OrderCreatedForTarget(x, s, k, quantity) ==
    IF TakesOrders(x, s) /\ quantity <= Target[s]
    THEN {WithProgress([Joined(x, k, NewOrder(s, quantity)) EXCEPT !.slices[s].status = "SUBMITTING", !.version = @ + 1])}
    ELSE {}

\* createChildOrder: the quantity is held against what the slice has not filled,
\* open orders notwithstanding.
OrderCreated(x, s, k, quantity) ==
    IF TakesOrders(x, s) /\ quantity <= x.slices[s].remaining
    THEN {WithProgress([Joined(x, k, NewOrder(s, quantity)) EXCEPT !.slices[s].status = "SUBMITTING", !.version = @ + 1])}
    ELSE {}

\* commitChildOrderUpdate, for an order that moves to another status.
OrderMoved(x, k, status) ==
    IF status \in OrderTransitions[x.orders[k].status]
    THEN {WithProgress(SliceUpdated(
            [Replaced(x, k, [x.orders[k] EXCEPT !.status = status]) EXCEPT !.version = @ + 1], x.orders[k].slice))}
    ELSE {}

\* markChildOrderSubmitted: the slice is updated before the order is replaced.
OrderSubmitted(x, k) ==
    LET o == x.orders[k]
        status == IF o.filled = o.quantity THEN "FILLED" ELSE IF o.filled > 0 THEN "PARTIALLY_FILLED" ELSE "OPEN"
        p == [o EXCEPT !.status = status, !.submitted = o.quantity]
    IN  IF status \in OrderTransitions[o.status]
        THEN {WithProgress([Replaced(SliceUpdated(x, o.slice), k, p) EXCEPT !.version = @ + 1])}
        ELSE {}

\* Mutant: a fill that is already recorded is applied again.
FillAppliedAgain(x, f) ==
    LET k == FillOf[f]
        o == x.orders[k]
        filled == o.filled + FillQty[f]
        p == [o EXCEPT !.status = IF filled = o.quantity THEN "FILLED" ELSE "PARTIALLY_FILLED",
                       !.filled = filled, !.fills = Append(@, f)]
        y == [Replaced(x, k, p) EXCEPT !.fills = Append(@, f), !.version = @ + 1]
    IN  IF filled <= o.quantity /\ o.status \in {"SUBMITTING", "OPEN", "PARTIALLY_FILLED"}
        THEN Completed(WithProgress(SliceUpdated(y, o.slice))) ELSE {}

\* applyFill
FillApplied(x, f) ==
    LET k == FillOf[f]
        o == x.orders[k]
        filled == o.filled + FillQty[f]
        status == IF filled = o.quantity THEN "FILLED" ELSE "PARTIALLY_FILLED"
        p == [o EXCEPT !.status = status, !.filled = filled, !.fills = Append(@, f),
                       !.submitted = IF filled > @ THEN filled ELSE @]
        y == [Replaced(x, k, p) EXCEPT !.fills = Append(@, f), !.version = @ + 1]
    IN  IF f \notin ToSet(x.fills) /\ filled <= o.quantity /\ status \in OrderTransitions[o.status]
        THEN Completed(WithProgress(SliceUpdated(y, o.slice))) ELSE {}

\* cancelChildOrder
OrderCancelled(x, k) ==
    IF "CANCELLING" \in OrderTransitions[x.orders[k].status] THEN OrderMoved(x, k, "CANCELLED") ELSE {}

\* What an operation makes of the execution it has read.
Outcomes(x, r) ==
    CASE r.op \in {"start", "resume"}  -> Changed(x, "RUNNING")
      [] r.op = "pause"            -> Changed(x, "PAUSED")
      [] r.op = "fail"             -> Changed(x, "FAILED")
      [] r.op = "cancel"           -> Cancelled(x)
      [] r.op = "refresh"          -> Completed(WithProgress(x))
      [] r.op = "activateSlice"    -> Activated(x, r.slice)
      [] r.op = "completeSlice"    -> SliceCompleted(x, r.slice)
      [] r.op = "failSlice"        -> SliceFailed(x, r.slice)
      [] r.op = "createChildOrder" -> OrderCreated(x, r.slice, r.order, r.quantity)
      [] r.op = "markSubmitting"   -> OrderMoved(x, r.order, "SUBMITTING")
      [] r.op = "markSubmitted"    -> OrderSubmitted(x, r.order)
      [] r.op = "cancelChildOrder" -> OrderCancelled(x, r.order)
      [] r.op = "rejectChildOrder" -> OrderMoved(x, r.order, "REJECTED")
      [] r.op = "failChildOrder"   -> OrderMoved(x, r.order, "FAILED")
      [] r.op = "applyFill"        -> FillApplied(x, r.fill)

-----------------------------------------------------------------------------
(* The calls *)

Init ==
    /\ stored = None
    /\ call = [c \in Callers |-> NoCall]
    /\ overwritten = FALSE

\* An operation reads the execution: create must find none, the others one.
Read(c, r) ==
    /\ call[c] = NoCall
    /\ IF stored = None THEN r.op = "create" ELSE r.op # "create" /\ stored.version < MaxVersion
    /\ call' = [call EXCEPT ![c] = [request |-> r, read |-> stored]]
    /\ UNCHANGED <<stored, overwritten>>

\* Mutant: an execution of the same version is taken.
AcceptsSameVersion(x) == stored = None \/ x.version >= stored.version

\* assertValidVersionUpdate
Accepts(x) ==
    \/ stored = None
    \/ x.version > stored.version
    \/ x = stored

\* The repository takes the execution, or throws.
Saves(c, x) ==
    /\ stored' = IF Accepts(x) THEN x ELSE stored
    /\ overwritten' = (overwritten \/ (stored' # stored /\ call[c].read # stored))
    /\ call' = [call EXCEPT ![c] = NoCall]

Create(c) ==
    /\ call[c] # NoCall /\ call[c].read = None
    /\ Saves(c, Fresh)

Update(c) ==
    /\ call[c] # NoCall /\ call[c].read # None
    /\ \E x \in Outcomes(call[c].read, call[c].request) : Saves(c, x)

Throw(c) ==
    /\ call[c] # NoCall /\ call[c].read # None
    /\ Outcomes(call[c].read, call[c].request) = {}
    /\ call' = [call EXCEPT ![c] = NoCall]
    /\ UNCHANGED <<stored, overwritten>>

Next == \E c \in Callers : (\E r \in Requests : Read(c, r)) \/ Create(c) \/ Update(c) \/ Throw(c)

Spec == Init /\ [][Next]_vars

-----------------------------------------------------------------------------
(* Properties *)

TypeOK ==
    /\ stored \in {None} \cup Executions
    /\ \A c \in Callers : call[c] = NoCall \/ call[c] \in [request : Requests, read : {None} \cup Executions]
    /\ overwritten \in BOOLEAN

\* The three books agree, whatever was overwritten or refused and however often an
\* order id was used: no fill is entered twice, the fills of the execution are
\* those of the orders their ids find, and what remains of the execution is what
\* these orders have not filled. It is no claim about slices: completeSlice fills
\* a slice without a fill, and an order whose id is used again counts twice there.
BooksAgree ==
    stored # None =>
        LET entered == ToSet(stored.fills) IN
        /\ Cardinality(entered) = Len(stored.fills)
        /\ \A k \in Orders : stored.orders[k].filled = Sum(FillQty, {f \in entered : FillOf[f] = k})
        /\ stored.remaining = Total - Min({Total, Sum([k \in Orders |-> stored.orders[k].filled], Orders)})

\* More than its target is filled for a slice only if two orders for it were active
\* at once: ended and failed orders leave no room they have used up, and an order
\* that lands under an id in use takes none.
OverfillNeedsCrowd ==
    stored # None => \A s \in Slices \ stored.crowded :
        Sum([k \in Orders |-> stored.orders[k].filled], OrdersOf(stored, s)) <= Target[s]

\* Without such a slice, an execution is completed only when none of its orders
\* is active: nothing goes on trading for it.
CompletedIsDone ==
    stored # None /\ stored.status = "COMPLETED" /\ stored.crowded = {} =>
        \A k \in Orders : ~Active(stored.orders[k])

\* The operations that add one to the version are never saved over an execution
\* their caller has not read. Adding orders and making slices ready are among
\* them: they happen only to an execution that is running, and a pause, failure
\* or cancellation saved meanwhile is not missed.
SingleSteps == {"create", "start", "pause", "resume", "fail", "activateSlice", "failSlice", "createChildOrder"}
StaleRequestsRefused ==
    [][\A c \in Callers :
          call[c] # NoCall /\ call'[c] = NoCall /\ stored' # stored /\ call[c].request.op \in SingleSteps =>
              call[c].read = stored]_vars

\* As long as no save has overwritten what its caller had not read, a final
\* status stays, and recorded fills stay recorded.
HistoryStands ==
    [][stored # None /\ ~overwritten' =>
          /\ Final(stored.status) => stored'.status = stored.status
          /\ IsPrefix(stored.fills, stored'.fills)]_vars

\* What the table of transitions says of the final statuses: they have no
\* successors.
FinalIsFinal == [][stored # None /\ Final(stored.status) => stored'.status = stored.status]_vars

=============================================================================
