------------------------------ MODULE LiveOrder ------------------------------
(***************************************************************************)
(* The live-order aggregate: the immutable order value and the functions   *)
(* of src/src/trading/execution/live-order.ts that derive one order from   *)
(* another.  A function of the source that throws is a predicate here      *)
(* (CanX) next to the value it returns otherwise (X).                      *)
(*                                                                         *)
(* Data kept: the state, the requested and filled quantity in lots, the    *)
(* fills applied, the exchange order identity and the version.  Data       *)
(* abstracted: prices, fees, averages, the transition log, the recorded    *)
(* failures (only the version shows them), metadata and timestamps.        *)
(***************************************************************************)
EXTENDS Naturals, FiniteSetsExt

CONSTANTS Fills,        \* fill records the exchange can report
          FillQty,      \* lots executed by each fill
          ExIds,        \* identities the exchange can give to an order
          NoId,         \* exchangeOrderId === undefined
          Qty           \* requestedQuantity, in lots

ASSUME OrderAssumption ==
    /\ FillQty \in [Fills -> Nat \ {0}]
    /\ Qty \in Nat \ {0}
    /\ NoId \notin ExIds

States ==
    {"NEW", "VALIDATED", "ROUTING", "ROUTED", "SUBMITTING", "SUBMITTED",
     "ACCEPTED", "PARTIALLY_FILLED", "FILLED", "SETTLING", "SETTLED",
     "CANCEL_PENDING", "CANCELLED", "REPLACE_PENDING", "REPLACED",
     "REJECTED", "EXPIRED", "FAILED", "RECOVERING", "UNKNOWN"}

TerminalStates ==
    {"SETTLED", "CANCELLED", "REPLACED", "REJECTED", "EXPIRED", "FAILED"}

\* The states an order whose fills are still coming in may be moved to.
WorkingExits ==
    {"PARTIALLY_FILLED", "FILLED", "CANCEL_PENDING", "REPLACE_PENDING",
     "CANCELLED", "EXPIRED", "FAILED", "UNKNOWN", "RECOVERING"}

\* What the exchange can turn out to have done with an order of unclear fate.
Resolutions ==
    {"SUBMITTED", "ACCEPTED", "PARTIALLY_FILLED", "FILLED", "CANCELLED",
     "REJECTED", "EXPIRED", "FAILED"}

AllowedTransitions ==
    [NEW              |-> {"VALIDATED", "REJECTED", "FAILED"},
     VALIDATED        |-> {"ROUTING", "ROUTED", "REJECTED", "FAILED"},
     ROUTING          |-> {"ROUTED", "REJECTED", "FAILED", "RECOVERING"},
     ROUTED           |-> {"SUBMITTING", "SUBMITTED", "REJECTED", "FAILED",
                           "RECOVERING"},
     SUBMITTING       |-> {"SUBMITTED", "ACCEPTED", "REJECTED", "FAILED",
                           "UNKNOWN", "RECOVERING"},
     SUBMITTED        |-> {"ACCEPTED", "PARTIALLY_FILLED", "FILLED",
                           "CANCEL_PENDING", "REJECTED", "EXPIRED", "FAILED",
                           "UNKNOWN", "RECOVERING"},
     ACCEPTED         |-> WorkingExits,
     PARTIALLY_FILLED |-> WorkingExits,
     FILLED           |-> {"SETTLING", "SETTLED", "FAILED", "RECOVERING"},
     SETTLING         |-> {"SETTLED", "FAILED", "RECOVERING"},
     SETTLED          |-> {},
     CANCEL_PENDING   |-> {"CANCELLED", "PARTIALLY_FILLED", "FILLED",
                           "FAILED", "UNKNOWN", "RECOVERING"},
     CANCELLED        |-> {},
     REPLACE_PENDING  |-> {"REPLACED", "ACCEPTED", "PARTIALLY_FILLED",
                           "FILLED", "CANCELLED", "FAILED", "UNKNOWN",
                           "RECOVERING"},
     REPLACED         |-> {},
     REJECTED         |-> {},
     EXPIRED          |-> {},
     FAILED           |-> {"RECOVERING"},
     RECOVERING       |-> Resolutions \cup {"ROUTED", "UNKNOWN"},
     UNKNOWN          |-> Resolutions \cup {"RECOVERING"}]

LiveOrders ==
    [state   : States,
     qty     : Nat \ {0},
     filled  : Nat,
     fills   : SUBSET Fills,
     exId    : ExIds \cup {NoId},
     version : Nat \ {0}]

IsTerminal(order) == order.state \in TerminalStates

-----------------------------------------------------------------------------
(* Validation.                                                             *)

\* A state and a filled quantity that may appear together.
StateQuantityConsistent(state, filled, qty) ==
    /\ state = "PARTIALLY_FILLED" => 0 < filled /\ filled < qty
    /\ state \in {"FILLED", "SETTLING", "SETTLED"} => filled = qty

\* What validateLiveOrder accepts.  Every function below validates its
\* argument first: an order it does not accept can never be used again.
ValidOrder(order) ==
    /\ order.filled <= order.qty
    /\ StateQuantityConsistent(order.state, order.filled, order.qty)

-----------------------------------------------------------------------------
(* The functions that derive orders.                                       *)

NewOrder(qty) ==
    [state |-> "NEW", qty |-> qty, filled |-> 0, fills |-> {},
     exId |-> NoId, version |-> 1]

\* Mutant: the state is not checked against the quantities.
CanTransitionUnchecked(order, state) ==
    /\ ValidOrder(order)
    /\ \/ state = order.state /\ state = "PARTIALLY_FILLED"
       \/ state # order.state /\ state \in AllowedTransitions[order.state]

CanTransition(order, state) ==
    /\ ValidOrder(order)
    /\ \/ state = order.state /\ state = "PARTIALLY_FILLED"
       \/ state # order.state /\ state \in AllowedTransitions[order.state]
    /\ StateQuantityConsistent(state, order.filled, order.qty)

Transitioned(order, state) ==
    [order EXCEPT !.state = state, !.version = @ + 1]

\* applyLiveOrderRouting and acceptLiveOrder first copy the order with the
\* new data and version, and then put the copy through transitionLiveOrder.
CanRoute(order) ==
    order.state \in {"VALIDATED", "ROUTING", "RECOVERING"}
       /\ CanTransition(order, "ROUTED")

Routed(order) ==
    Transitioned([order EXCEPT !.version = @ + 1], "ROUTED")

AcceptableStates == {"SUBMITTING", "SUBMITTED", "RECOVERING", "UNKNOWN"}

CanAccept(order) ==
    order.state \in AcceptableStates /\ CanTransition(order, "ACCEPTED")

Accepted(order, id) ==
    Transitioned([order EXCEPT !.exId = id, !.version = @ + 1], "ACCEPTED")

\* The copy applyLiveOrderFill builds: the quantities are those after the
\* fill while the state is still the one before it.
WithFill(order, fill) ==
    [order EXCEPT !.filled  = @ + FillQty[fill],
                  !.fills   = @ \cup {fill},
                  !.version = @ + 1]

StateAfterFill(order, fill) ==
    IF order.filled + FillQty[fill] = order.qty
    THEN "FILLED" ELSE "PARTIALLY_FILLED"

\* Mutant: a fill that was applied before is applied again.
FillFitsTwice(order, fill) ==
    /\ ValidOrder(order)
    /\ ~IsTerminal(order)
    /\ order.filled + FillQty[fill] <= order.qty

\* The checks applyLiveOrderFill makes on the fill itself.
FillFits(order, fill) ==
    /\ ValidOrder(order)
    /\ ~IsTerminal(order)
    /\ fill \notin order.fills
    /\ order.filled + FillQty[fill] <= order.qty

\* ... and those transitionLiveOrder makes on the copy.
CanFill(order, fill) ==
    /\ FillFits(order, fill)
    /\ CanTransition(WithFill(order, fill), StateAfterFill(order, fill))

Filled(order, fill) ==
    Transitioned(WithFill(order, fill), StateAfterFill(order, fill))

\* applyLiveOrderFailure appends a failure record and, when asked to, moves
\* an order that is not terminal to FAILED.
FailureNoted(order) == [order EXCEPT !.version = @ + 1]

MovesToFailed(order, toFailed) == toFailed /\ ~IsTerminal(order)

CanFail(order, toFailed) ==
    /\ ValidOrder(order)
    /\ MovesToFailed(order, toFailed) =>
          CanTransition(FailureNoted(order), "FAILED")

Failed(order, toFailed) ==
    IF MovesToFailed(order, toFailed)
    THEN Transitioned(FailureNoted(order), "FAILED")
    ELSE FailureNoted(order)
=============================================================================
