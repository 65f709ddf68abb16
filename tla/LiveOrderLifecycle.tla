-------------------------- MODULE LiveOrderLifecycle --------------------------
(***************************************************************************)
(* The life of one live order under every sequence of calls the functions  *)
(* of live-order.ts accept.  Nothing decides here which call comes next:   *)
(* the handlers that do are in OrderHandlers.                              *)
(***************************************************************************)
EXTENDS LiveOrder

CONSTANT MaxVersion     \* bound on the length of a life

ASSUME LifecycleAssumption == MaxVersion \in Nat

VARIABLE order

LifeInit == order = NewOrder(Qty)

Transition(state) ==
    /\ CanTransition(order, state)
    /\ order' = Transitioned(order, state)

ApplyRouting ==
    /\ CanRoute(order)
    /\ order' = Routed(order)

Accept(id) ==
    /\ CanAccept(order)
    /\ order' = Accepted(order, id)

ApplyFill(fill) ==
    /\ CanFill(order, fill)
    /\ order' = Filled(order, fill)

ApplyFailure(toFailed) ==
    /\ CanFail(order, toFailed)
    /\ order' = Failed(order, toFailed)

LifeNext ==
    /\ order.version < MaxVersion
    /\ \/ \E state \in States : Transition(state)
       \/ ApplyRouting
       \/ \E id \in ExIds : Accept(id)
       \/ \E fill \in Fills : ApplyFill(fill)
       \/ \E toFailed \in BOOLEAN : ApplyFailure(toFailed)

LifeSpec == LifeInit /\ [][LifeNext]_order

-----------------------------------------------------------------------------

\* Type invariant.
LifeTypeOK == order \in LiveOrders /\ order.qty = Qty

\* No call returns an order that validateLiveOrder (live-order.ts:952)
\* rejects.  Every function validates its argument first, so such an order
\* could be persisted but never moved, filled or failed again.
ReturnedOrdersValid == ValidOrder(order)

\* The filled quantity is the sum of the fills kept, whichever path of
\* transitions, acceptances and failures lies between them (:753).
FilledIsSumOfFills ==
    order.filled = MapThenSumSet(LAMBDA f : FillQty[f], order.fills)

\* The terminal states other than FAILED are final: whatever is called
\* afterwards, the state, the quantities and the fills stay (:260, :760).
\* FAILED is terminal for fills but may be recovered.
FinalStates == TerminalStates \ {"FAILED"}
FinalIsFinal ==
    [][order.state \in FinalStates =>
          order' = [order EXCEPT !.version = order'.version]]_order

\* A fill, once applied, is never given back, and each call makes the
\* version grow (:862, :619).
FillsAndVersionGrow ==
    [][/\ order.fills \subseteq order'.fills
       /\ order.version < order'.version]_order

\* The table lists FILLED among the successors of PARTIALLY_FILLED (:345)
\* and applyLiveOrderFill selects it when nothing remains (:834): a fill
\* that fits and whose target state the table allows is applied.
FittingFillApplies ==
    \A fill \in Fills :
        /\ FillFits(order, fill)
        /\ StateAfterFill(order, fill) \in AllowedTransitions[order.state]
        => CanFill(order, fill)
=============================================================================
