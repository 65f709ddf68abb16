-------------------------- MODULE OrderHandlers_proofs --------------------------
(***************************************************************************)
(* Proofs about the command handlers, for every set of commands and fills, *)
(* every number of retries and restarts, and an exchange that answers or   *)
(* not as it likes.  Nothing reaches the exchange before it is persisted,  *)
(* and nothing is announced before it is.  The repository never goes back, *)
(* snapshots that get through settle it, and what it holds as final is so  *)
(* at the exchange. First, the order the handlers make, under whatever calls on   *)
(* live-order.ts: what LiveOrderLifecycle states of it.                    *)
(***************************************************************************)
EXTENDS OrderHandlers, LiveOrderLifecycle, CollectionLemmas, TLAPS

-----------------------------------------------------------------------------
(* The life of an order, for every quantity, every set of fills and every  *)
(* length of life. The inductive invariant is LifeTypeOK with              *)
(* ReturnedOrdersValid: the checks transitionLiveOrder makes before it     *)
(* returns are made on the copy it was given, so what is returned is valid *)
(* only because a transition changes nothing but the state and version.    *)
(* FilledIsSumOfFills is inductive over that, with the fills finite.       *)

LifeInv == LifeTypeOK /\ ReturnedOrdersValid

\* The version after this one is a version.
LEMMA NextVersion ==
    ASSUME NEW o \in LiveOrders
    PROVE  o.version + 1 \in Nat \ {0}
  BY DEF LiveOrders

\* A transition that is allowed returns a valid order of the same identity,
\* quantities and fills, and the new state is one of the table's.
LEMMA TransitionReturns ==
    ASSUME NEW o \in LiveOrders, NEW s \in States, CanTransition(o, s)
    PROVE  /\ Transitioned(o, s) \in LiveOrders
           /\ ValidOrder(Transitioned(o, s))
           /\ Transitioned(o, s) = [o EXCEPT !.state = s,
                                             !.version = o.version + 1]
           /\ \/ s = o.state /\ s = "PARTIALLY_FILLED"
              \/ s \in AllowedTransitions[o.state]
<1>1. Transitioned(o, s) \in LiveOrders
  BY NextVersion DEF Transitioned, LiveOrders
<1>2. ValidOrder(Transitioned(o, s))
  BY DEF CanTransition, Transitioned, ValidOrder, LiveOrders
<1> QED
  BY <1>1, <1>2 DEF CanTransition, Transitioned

\* The table has no way out of the final states.
LEMMA NoWayOut ==
    ASSUME NEW s \in FinalStates
    PROVE  AllowedTransitions[s] = {}
  BY DEF FinalStates, TerminalStates, AllowedTransitions

\* What an action does to the order: it returns a valid one of a higher
\* version, keeps its quantity and its fills, and leaves a final one alone
\* but for its version.
Advances(o, p) ==
    /\ p \in LiveOrders
    /\ ValidOrder(p)
    /\ p.qty = o.qty
    /\ o.version < p.version
    /\ o.fills \subseteq p.fills
    /\ o.state \in FinalStates => p = [o EXCEPT !.version = p.version]

LEMMA TransitionAdvances ==
    ASSUME NEW o \in LiveOrders, NEW s \in States, CanTransition(o, s)
    PROVE  Advances(o, Transitioned(o, s))
<1>1. Transitioned(o, s) \in LiveOrders /\ ValidOrder(Transitioned(o, s))
  BY TransitionReturns
<1>2. o.state \notin FinalStates
  BY NoWayOut DEF CanTransition, FinalStates, TerminalStates
<1>3. /\ Transitioned(o, s).qty = o.qty
      /\ o.version < Transitioned(o, s).version
      /\ o.fills \subseteq Transitioned(o, s).fills
  BY DEF Transitioned, LiveOrders
<1> QED
  BY <1>1, <1>2, <1>3 DEF Advances

LEMMA RoutingAdvances ==
    ASSUME NEW o \in LiveOrders, CanRoute(o)
    PROVE  Advances(o, Routed(o))
<1> DEFINE copy == [o EXCEPT !.version = @ + 1]
<1>1. copy \in LiveOrders /\ "ROUTED" \in States
  BY NextVersion DEF LiveOrders, States
<1>2. CanTransition(copy, "ROUTED")
  BY DEF CanRoute, CanTransition, ValidOrder, LiveOrders
<1>3. Advances(copy, Transitioned(copy, "ROUTED"))
  BY <1>1, <1>2, TransitionAdvances
<1>4. o.state \notin FinalStates
  BY DEF CanRoute, FinalStates, TerminalStates
<1> QED
  BY <1>1, <1>3, <1>4 DEF Advances, Routed, LiveOrders

LEMMA AcceptanceAdvances ==
    ASSUME NEW o \in LiveOrders, NEW id \in ExIds, CanAccept(o)
    PROVE  Advances(o, Accepted(o, id))
<1> DEFINE copy == [o EXCEPT !.exId = id, !.version = @ + 1]
<1>1. copy \in LiveOrders /\ "ACCEPTED" \in States
  BY NextVersion DEF LiveOrders, States
<1>2. CanTransition(copy, "ACCEPTED")
  BY DEF CanAccept, CanTransition, ValidOrder, LiveOrders
<1>3. Advances(copy, Transitioned(copy, "ACCEPTED"))
  BY <1>1, <1>2, TransitionAdvances
<1>4. o.state \notin FinalStates
  BY DEF CanAccept, AcceptableStates, FinalStates, TerminalStates
<1> QED
  BY <1>1, <1>3, <1>4 DEF Advances, Accepted, LiveOrders

LEMMA FillAdvances ==
    ASSUME NEW o \in LiveOrders, NEW f \in Fills, CanFill(o, f)
    PROVE  Advances(o, Filled(o, f))
<1> DEFINE copy   == WithFill(o, f)
           target == StateAfterFill(o, f)
<1>0. FillQty[f] \in Nat
  BY OrderAssumption
<1>1. copy \in LiveOrders /\ target \in States
  <2>1. o.filled + FillQty[f] \in Nat /\ o.fills \cup {f} \in SUBSET Fills
    BY <1>0 DEF LiveOrders
  <2>2. target \in States
    BY DEF StateAfterFill, States
  <2> QED
    BY <2>1, <2>2, NextVersion DEF WithFill, LiveOrders
<1>2. CanTransition(copy, target)
  BY DEF CanFill
<1>3. Advances(copy, Transitioned(copy, target))
  BY <1>1, <1>2, TransitionAdvances
<1>4. o.state \notin FinalStates
  BY DEF CanFill, FillFits, IsTerminal, FinalStates
<1>5. copy.qty = o.qty /\ o.version < copy.version /\ o.fills \subseteq copy.fills
  BY DEF WithFill, LiveOrders
<1>6. \A a, b, d \in Nat : a < b /\ b < d => a < d
  OBVIOUS
<1>7. o.version \in Nat /\ copy.version \in Nat
      /\ Transitioned(copy, target).version \in Nat
  BY <1>1, <1>3 DEF LiveOrders, Advances
<1> QED
  BY <1>1, <1>3, <1>4, <1>5, <1>6, <1>7 DEF Advances, Filled

LEMMA FailureAdvances ==
    ASSUME NEW o \in LiveOrders, NEW toFailed \in BOOLEAN,
           CanFail(o, toFailed)
    PROVE  Advances(o, Failed(o, toFailed))
<1> DEFINE copy == FailureNoted(o)
<1>1. /\ copy \in LiveOrders /\ "FAILED" \in States
      /\ copy = [o EXCEPT !.version = o.version + 1]
  BY NextVersion DEF FailureNoted, LiveOrders, States
<1>2. CASE MovesToFailed(o, toFailed)
  <2>1. Advances(copy, Transitioned(copy, "FAILED"))
    BY <1>1, <1>2, TransitionAdvances DEF CanFail
  <2>2. o.state \notin FinalStates
    BY <1>2 DEF MovesToFailed, IsTerminal, FinalStates
  <2> QED
    BY <1>1, <1>2, <2>1, <2>2 DEF Advances, Failed, LiveOrders
<1>3. CASE ~MovesToFailed(o, toFailed)
  BY <1>1, <1>3 DEF Advances, Failed, CanFail, ValidOrder, LiveOrders,
     FinalStates
<1> QED
  BY <1>2, <1>3

\* Whatever is called, the order advances.
LEMMA LifeAdvances ==
    ASSUME LifeTypeOK, LifeNext
    PROVE  Advances(order, order')
<1>0. order \in LiveOrders
  BY DEF LifeTypeOK
<1>1. ASSUME NEW s \in States, Transition(s) PROVE Advances(order, order')
  BY <1>0, <1>1, TransitionAdvances DEF Transition
<1>2. CASE ApplyRouting
  BY <1>0, <1>2, RoutingAdvances DEF ApplyRouting
<1>3. ASSUME NEW id \in ExIds, Accept(id) PROVE Advances(order, order')
  BY <1>0, <1>3, AcceptanceAdvances DEF Accept
<1>4. ASSUME NEW f \in Fills, ApplyFill(f) PROVE Advances(order, order')
  BY <1>0, <1>4, FillAdvances DEF ApplyFill
<1>5. ASSUME NEW toFailed \in BOOLEAN, ApplyFailure(toFailed)
      PROVE  Advances(order, order')
  BY <1>0, <1>5, FailureAdvances DEF ApplyFailure
<1> QED
  BY <1>1, <1>2, <1>3, <1>4, <1>5 DEF LifeNext

LEMMA LifeInductive == LifeSpec => []LifeInv
<1>1. LifeInit => LifeInv
  BY OrderAssumption DEF LifeInit, NewOrder, LifeInv, LifeTypeOK,
     ReturnedOrdersValid, ValidOrder, StateQuantityConsistent, LiveOrders,
     States
<1>2. LifeInv /\ [LifeNext]_order => LifeInv'
  <2>1. CASE LifeNext
    BY <2>1, LifeAdvances DEF LifeInv, LifeTypeOK, ReturnedOrdersValid, Advances
  <2>2. CASE UNCHANGED order
    BY <2>2 DEF LifeInv, LifeTypeOK, ReturnedOrdersValid
  <2> QED
    BY <2>1, <2>2
<1> QED
  BY <1>1, <1>2, PTL DEF LifeSpec

\* The order always has its type and its quantity.
THEOREM LifeTypeCorrect == LifeSpec => []LifeTypeOK
<1>1. LifeInv => LifeTypeOK
  BY DEF LifeInv
<1> QED
  BY <1>1, LifeInductive, PTL

\* No sequence of calls on live-order.ts returns an order its own validation
\* rejects, whatever the quantities and fills are.
THEOREM ReturnsAreValid == LifeSpec => []ReturnedOrdersValid
<1>1. LifeInv => ReturnedOrdersValid
  BY DEF LifeInv
<1> QED
  BY <1>1, LifeInductive, PTL

\* Fills are never given back and the version grows with every call.
THEOREM OrderGrows == LifeSpec => FillsAndVersionGrow
<1>1. LifeInv /\ [LifeNext]_order =>
        [/\ order.fills \subseteq order'.fills
         /\ order.version < order'.version]_order
  BY LifeAdvances DEF LifeInv, Advances
<1> QED
  BY <1>1, LifeInductive, PTL DEF LifeSpec, FillsAndVersionGrow

\* CANCELLED, REPLACED, REJECTED, EXPIRED and SETTLED are final, for every
\* sequence of calls: only failures may still be noted on the order.
THEOREM FinalStays == LifeSpec => FinalIsFinal
<1>1. LifeInv /\ [LifeNext]_order =>
        [order.state \in FinalStates =>
           order' = [order EXCEPT !.version = order'.version]]_order
  BY LifeAdvances DEF LifeInv, Advances
<1> QED
  BY <1>1, LifeInductive, PTL DEF LifeSpec, FinalIsFinal
-----------------------------------------------------------------------------
(* The filled quantity and the fills.                                      *)

\* The two agree. The fills are finitely many, although Fills need not be.
Accounted(o) ==
    /\ IsFiniteSet(o.fills)
    /\ o.filled = SumOver(FillQty, o.fills)

\* Only a fill touches either.
LEMMA TransitionAccounts ==
    ASSUME NEW o \in LiveOrders, Accounted(o), NEW s \in States
    PROVE  Accounted(Transitioned(o, s))
  BY DEF Accounted, Transitioned, LiveOrders

LEMMA RoutingAccounts ==
    ASSUME NEW o \in LiveOrders, Accounted(o) PROVE Accounted(Routed(o))
<1> DEFINE copy == [o EXCEPT !.version = @ + 1]
<1>1. copy \in LiveOrders /\ Accounted(copy) /\ "ROUTED" \in States
  BY NextVersion DEF Accounted, LiveOrders, States
<1> QED
  BY <1>1, TransitionAccounts DEF Routed

LEMMA AcceptanceAccounts ==
    ASSUME NEW o \in LiveOrders, Accounted(o), NEW id \in ExIds PROVE Accounted(Accepted(o, id))
<1> DEFINE copy == [o EXCEPT !.exId = id, !.version = @ + 1]
<1>1. copy \in LiveOrders /\ Accounted(copy) /\ "ACCEPTED" \in States
  BY NextVersion DEF Accounted, LiveOrders, States
<1> QED
  BY <1>1, TransitionAccounts DEF Accepted

LEMMA FailureAccounts ==
    ASSUME NEW o \in LiveOrders, Accounted(o), NEW toFailed \in BOOLEAN PROVE Accounted(Failed(o, toFailed))
<1>1. FailureNoted(o) \in LiveOrders /\ Accounted(FailureNoted(o)) /\ "FAILED" \in States
  BY NextVersion DEF FailureNoted, Accounted, LiveOrders, States
<1> QED
  BY <1>1, TransitionAccounts DEF Failed

\* A fill adds its lots to both: it is none of those kept.
LEMMA FillAccounts ==
    ASSUME NEW o \in LiveOrders, Accounted(o), NEW f \in Fills, CanFill(o, f)
    PROVE  Accounted(Filled(o, f))
<1> DEFINE copy   == WithFill(o, f)
           target == StateAfterFill(o, f)
<1>1. f \notin o.fills /\ o.fills \subseteq Fills /\ \A g \in Fills : FillQty[g] \in Nat
  BY OrderAssumption DEF CanFill, FillFits, LiveOrders
<1>2. IsFiniteSet(o.fills \cup {f}) /\ SumOver(FillQty, o.fills \cup {f}) = FillQty[f] + SumOver(FillQty, o.fills)
  BY <1>1, FS_AddElement, SumAdd DEF Accounted
<1>3. copy.fills = o.fills \cup {f} /\ copy.filled = o.filled + FillQty[f]
  BY DEF WithFill, LiveOrders
<1>4. Accounted(copy)
  <2>1. o.filled \in Nat /\ FillQty[f] \in Nat
    BY <1>1 DEF LiveOrders
  <2> QED
    BY <1>2, <1>3, <2>1 DEF Accounted
<1>5. copy \in LiveOrders /\ target \in States
  <2>1. o.filled + FillQty[f] \in Nat /\ o.fills \cup {f} \in SUBSET Fills
    BY <1>1 DEF LiveOrders
  <2>2. target \in States
    BY DEF StateAfterFill, States
  <2> QED
    BY <2>1, <2>2, NextVersion DEF WithFill, LiveOrders
<1> QED
  BY <1>4, <1>5, TransitionAccounts DEF Filled

LEMMA LifeAccounts ==
    ASSUME LifeTypeOK, Accounted(order), LifeNext PROVE Accounted(order')
<1>0. order \in LiveOrders
  BY DEF LifeTypeOK
<1>1. ASSUME NEW s \in States, Transition(s) PROVE Accounted(order')
  BY <1>0, <1>1, TransitionAccounts DEF Transition
<1>2. CASE ApplyRouting
  BY <1>0, <1>2, RoutingAccounts DEF ApplyRouting
<1>3. ASSUME NEW id \in ExIds, Accept(id) PROVE Accounted(order')
  BY <1>0, <1>3, AcceptanceAccounts DEF Accept
<1>4. ASSUME NEW f \in Fills, ApplyFill(f) PROVE Accounted(order')
  BY <1>0, <1>4, FillAccounts DEF ApplyFill
<1>5. ASSUME NEW toFailed \in BOOLEAN, ApplyFailure(toFailed) PROVE Accounted(order')
  BY <1>0, <1>5, FailureAccounts DEF ApplyFailure
<1> QED
  BY <1>1, <1>2, <1>3, <1>4, <1>5 DEF LifeNext

\* FilledIsSumOfFills: the filled quantity is what the fills kept add up to,
\* whichever calls lie between them and however many fills there are.
THEOREM FilledIsAccounted == LifeSpec => []FilledIsSumOfFills
<1>1. LifeInit => Accounted(order)
  BY SumEmpty, FS_EmptySet DEF LifeInit, NewOrder, Accounted
<1>2. LifeInv /\ Accounted(order) /\ [LifeNext]_order => Accounted(order)'
  <2>1. ASSUME LifeInv, Accounted(order), LifeNext PROVE Accounted(order')
    BY <2>1, LifeAccounts DEF LifeInv
  <2> QED
    BY <2>1 DEF Accounted
<1>3. Accounted(order) => FilledIsSumOfFills
  BY DEF Accounted, FilledIsSumOfFills, SumOver
<1> QED
  BY <1>1, <1>2, <1>3, LifeInductive, PTL DEF LifeSpec

-----------------------------------------------------------------------------
(* The inductive invariant.                                                *)

\* What the exchange can answer to each operation.
StatusesOf ==
    [SUBMIT    |-> {"ACCEPTED", "REJECTED", "UNKNOWN"},
     CANCEL    |-> {"CANCELLED", "PENDING", "REJECTED", "UNKNOWN",
                    "NOT_FOUND", "ALREADY_TERMINAL"},
     REPLACE   |-> {"REPLACED", "PENDING", "REJECTED", "UNKNOWN",
                    "NOT_FOUND", "ALREADY_TERMINAL"},
     RECONCILE |-> {"ACCEPTED", "PARTIALLY_FILLED", "FILLED", "UNKNOWN",
                    "CANCEL_PENDING", "REPLACE_PENDING", "CANCELLED",
                    "REPLACED", "REJECTED", "EXPIRED", "MISSING"}]

\* The answer a submitter works with is one it knows.
RepliesFit ==
    \A c \in Commands :
        /\ reply[c] \in StatusesOf[Op[c]] \cup {"none"}
        /\ wire[c] = "answered" => reply[c] # "none"
        /\ pc[c] \in {"saveSubmitted", "emitSubmitted"}
              => Op[c] = "SUBMIT" /\ reply[c] # "none"

\* Handlers run one at a time.
Exclusive == \A c, d \in Commands : Active(c) /\ Active(d) => c = d

\* Between a save and the announcement of what it saved, the handler and the
\* repository have the same order.
EmitPcs == {"emitPending", "emitSubmitted", "emitFinal"}
Fresh == \A c \in Commands : pc[c] \in EmitPcs => working[c] = repo

\* No handler at work takes a submitted order back to ROUTED, ...
WorkingAhead ==
    \A c \in Commands :
        Active(c) /\ working[c].state = "ROUTED"
           => repo.state = "ROUTED" /\ Op[c] # "SUBMIT"

\* ... and a submission on the wire, or about to be, was persisted.
SentAfterSave ==
    \A c \in Commands :
        /\ Op[c] = "SUBMIT"
        /\ wire[c] # "none" \/ pc[c] = "emitPending"
        => repo.state # "ROUTED"

\* The inductive invariant.
HInv == /\ TypeOK /\ RepliesFit /\ Exclusive /\ Fresh /\ WorkingAhead
        /\ SentAfterSave /\ WriteAhead

-----------------------------------------------------------------------------
(* The orders the handlers make.                                           *)

\* p is an order, and not one fresh from the router unless o was.
Keeps(o, p) == p \in LiveOrders /\ (p.state = "ROUTED" => o.state = "ROUTED")

LEMMA TransitionKeeps ==
    ASSUME NEW o \in LiveOrders, NEW s \in States \ {"ROUTED"}
    PROVE  Keeps(o, Transitioned(o, s))
  BY NextVersion DEF Keeps, Transitioned, LiveOrders

LEMMA FailureKeeps ==
    ASSUME NEW o \in LiveOrders
    PROVE  Keeps(o, FailureNoted(o))
  BY NextVersion DEF Keeps, FailureNoted, LiveOrders

LEMMA DoubtKeeps ==
    ASSUME NEW o \in LiveOrders, NEW s \in States \ {"ROUTED"}
    PROVE  Keeps(o, Transitioned(FailureNoted(o), s))
  BY FailureKeeps, TransitionKeeps DEF Keeps

LEMMA FailedKeeps ==
    ASSUME NEW o \in LiveOrders
    PROVE  Keeps(o, Failed(o, TRUE))
  BY FailureKeeps, DoubtKeeps DEF Failed, States

LEMMA MovedKeeps ==
    ASSUME NEW o \in LiveOrders, NEW p \in LiveOrders,
           NEW s \in States \ {"ROUTED"}
    PROVE  Keeps(o, Transitioned(p, s))
<1>1. Transitioned(p, s).state = s
  BY DEF Transitioned, LiveOrders
<1> QED
  BY <1>1, TransitionKeeps DEF Keeps

LEMMA AcceptedKeeps ==
    ASSUME NEW o \in LiveOrders
    PROVE  Keeps(o, Accepted(o, ExId))
<1> DEFINE copy == [o EXCEPT !.exId = ExId, !.version = @ + 1]
<1>1. copy \in LiveOrders
  BY NextVersion, HandlersAssumption DEF LiveOrders
<1>2. "ACCEPTED" \in States \ {"ROUTED"}
  BY DEF States
<1> QED
  BY <1>1, <1>2, MovedKeeps DEF Accepted

LEMMA FilledKeeps ==
    ASSUME NEW o \in LiveOrders, NEW f \in Fills
    PROVE  Keeps(o, Filled(o, f))
<1>1. FillQty[f] \in Nat
  BY OrderAssumption
<1>2. o.filled + FillQty[f] \in Nat /\ o.fills \cup {f} \in SUBSET Fills
  BY <1>1 DEF LiveOrders
<1>3. WithFill(o, f) \in LiveOrders
  BY <1>2, NextVersion DEF WithFill, LiveOrders
<1>4. StateAfterFill(o, f) \in States \ {"ROUTED"}
  BY DEF StateAfterFill, States
<1> QED
  BY <1>3, <1>4, MovedKeeps DEF Filled

LEMMA IfAllowedKeeps ==
    ASSUME NEW o \in LiveOrders, NEW s, s # "ROUTED"
    PROVE  Keeps(o, TransitionIfAllowed(o, s))
<1>1. Keeps(o, o)
  BY DEF Keeps
<1>2. ASSUME o.state # s, CanTransition(o, s)
      PROVE  s \in States \ {"ROUTED"}
  BY <1>2 DEF CanTransition, AllowedTransitions, LiveOrders, States,
              WorkingExits, Resolutions
<1>3. "UNKNOWN" \in States \ {"ROUTED"}
  BY DEF States
<1> QED
  BY <1>1, <1>2, <1>3, TransitionKeeps DEF TransitionIfAllowed

LEMMA ReconcileKeeps ==
    ASSUME NEW o \in LiveOrders, NEW s, s # "ROUTED"
    PROVE  Keeps(o, ReconcileState(o, s))
<1>1. Keeps(o, o)
  BY DEF Keeps
<1> QED
  BY <1>1, IfAllowedKeeps DEF ReconcileState

LEMMA SubmitOutcomeKeeps ==
    ASSUME NEW o \in LiveOrders, NEW s \in {"ACCEPTED", "REJECTED", "UNKNOWN"}
    PROVE  Keeps(o, SubmitOutcome(o, s))
<1>1. CASE s = "ACCEPTED"
  BY <1>1, AcceptedKeeps DEF SubmitOutcome
<1>2. CASE s = "REJECTED"
  BY <1>2, DoubtKeeps DEF SubmitOutcome, States
<1>3. CASE s = "UNKNOWN"
  BY <1>3, DoubtKeeps DEF SubmitOutcome, Doubted, States
<1> QED
  BY <1>1, <1>2, <1>3

LEMMA AmendOutcomeKeeps ==
    ASSUME NEW o \in LiveOrders, NEW s
    PROVE  Keeps(o, AmendOutcome(o, s))
<1>1. CASE s \in {"CANCELLED", "REPLACED"}
  BY <1>1, TransitionKeeps DEF AmendOutcome, States
<1>2. CASE s = "PENDING"
  BY <1>2 DEF AmendOutcome, Keeps
<1>3. CASE s \notin {"CANCELLED", "REPLACED", "PENDING"}
  BY <1>3, DoubtKeeps DEF AmendOutcome, Doubted, States
<1> QED
  BY <1>1, <1>2, <1>3

LEMMA RoutedIsOrder == RoutedOrder \in LiveOrders
<1> DEFINE fresh == NewOrder(Qty)
<1>1. Qty \in Nat \ {0} /\ 1 \in Nat \ {0} /\ 4 \in Nat \ {0}
  BY OrderAssumption
<1>2. fresh \in LiveOrders
  BY <1>1 DEF NewOrder, LiveOrders, States
<1> QED
  BY <1>1, <1>2 DEF RoutedOrder, LiveOrders, States

-----------------------------------------------------------------------------
(* What the parts of an action do to the invariant.                        *)

USE DEF Goto, Work, netVars

LEMMA WorkType ==
    ASSUME TypeOK, NEW c \in Commands, NEW o \in LiveOrders, NEW l \in Pcs,
           Work(c, o, l)
    PROVE  pc' \in [Commands -> Pcs] /\ working' \in [Commands -> LiveOrders]
  BY DEF TypeOK

\* A handler that is suspended elsewhere, or has ended, with an order that
\* keeps what it had.
LEMMA MoveKeeps ==
    ASSUME HInv, NEW c \in Commands, Active(c), NEW o, NEW l \in Pcs \ EmitPcs,
           Keeps(working[c], o), Work(c, o, l), UNCHANGED <<repo, ex>>
    PROVE  Exclusive' /\ Fresh' /\ WorkingAhead' /\ WriteAhead'
<1> USE DEF HInv, TypeOK
<1>1. \A d \in Commands : d # c => pc'[d] = pc[d] /\ working'[d] = working[d]
  OBVIOUS
<1>2. pc'[c] = l /\ working'[c] = o
  OBVIOUS
<1>3. Exclusive'
  BY <1>1 DEF Exclusive, Active
<1>4. Fresh'
  BY <1>1, <1>2 DEF Fresh
<1>5. WorkingAhead'
  BY <1>1, <1>2 DEF WorkingAhead, Active, Keeps
<1> QED
  BY <1>3, <1>4, <1>5 DEF WriteAhead

\* A handler that starts when none is at work.
LEMMA StartKeeps ==
    ASSUME HInv, NEW c \in Commands, \A d \in Commands : ~Active(d),
           NEW o \in LiveOrders, NEW l \in Pcs \ EmitPcs,
           o.state = "ROUTED" => repo.state = "ROUTED" /\ Op[c] # "SUBMIT",
           Work(c, o, l), UNCHANGED <<repo, ex>>
    PROVE  Exclusive' /\ Fresh' /\ WorkingAhead' /\ WriteAhead'
<1> USE DEF HInv, TypeOK
<1>1. \A d \in Commands : d # c => pc'[d] = pc[d] /\ working'[d] = working[d]
  OBVIOUS
<1>2. pc'[c] = l /\ working'[c] = o
  OBVIOUS
<1>3. Exclusive'
  BY <1>1 DEF Exclusive, Active
<1>4. Fresh'
  BY <1>1, <1>2 DEF Fresh
<1>5. WorkingAhead'
  BY <1>1, <1>2 DEF WorkingAhead, Active
<1> QED
  BY <1>3, <1>4, <1>5 DEF WriteAhead

\* The network is left alone.
LEMMA NetKept ==
    ASSUME HInv, NEW c \in Commands, NEW l,
           l \notin {"emitPending", "saveSubmitted", "emitSubmitted"},
           pc' = [pc EXCEPT ![c] = l], UNCHANGED <<repo, wire, reply>>
    PROVE  RepliesFit' /\ SentAfterSave'
<1>1. \A d \in Commands : pc'[d] = pc[d] \/ pc'[d] = l
  BY DEF HInv, TypeOK
<1> QED
  BY <1>1 DEF HInv, RepliesFit, SentAfterSave

\* A request is sent.
LEMMA SendKeeps ==
    ASSUME HInv, NEW c \in Commands, NEW l,
           l \notin {"emitPending", "saveSubmitted", "emitSubmitted"},
           pc' = [pc EXCEPT ![c] = l], UNCHANGED repo, Send(c),
           Op[c] = "SUBMIT" => repo.state # "ROUTED"
    PROVE  /\ RepliesFit' /\ SentAfterSave'
           /\ wire' \in [Commands -> {"none", "sent", "answered"}]
           /\ reply' \in [Commands -> Replies]
           /\ seen' \in [Commands -> SUBSET Fills]
<1> USE DEF HInv, TypeOK, Send
<1>1. \A d \in Commands : d # c => /\ pc'[d] = pc[d] /\ wire'[d] = wire[d]
                                   /\ reply'[d] = reply[d]
  OBVIOUS
<1>2. pc'[c] = l /\ wire'[c] = "sent" /\ reply'[c] = "none"
  OBVIOUS
<1>3. RepliesFit' /\ SentAfterSave'
  BY <1>1, <1>2 DEF RepliesFit, SentAfterSave
<1> QED
  BY <1>3 DEF Replies

\* A request is off the wire, or is left there.
LEMMA TakeKeeps ==
    ASSUME HInv, NEW c \in Commands, NEW l,
           l \notin {"emitPending", "emitSubmitted"},
           l = "saveSubmitted" => Op[c] = "SUBMIT" /\ reply[c] # "none",
           pc' = [pc EXCEPT ![c] = l], UNCHANGED <<repo, reply>>,
           wire' = wire \/ wire' = [wire EXCEPT ![c] = "none"]
    PROVE  RepliesFit' /\ SentAfterSave'
<1> USE DEF HInv, TypeOK
<1>1. \A d \in Commands : d # c => pc'[d] = pc[d] /\ wire'[d] = wire[d]
  OBVIOUS
<1>2. pc'[c] = l /\ wire'[c] \in {wire[c], "none"}
  OBVIOUS
<1> QED
  BY <1>1, <1>2 DEF RepliesFit, SentAfterSave

-----------------------------------------------------------------------------
(* The actions of the handlers.                                            *)

LEMMA InitHolds == Init => HInv
<1> SUFFICES ASSUME Init PROVE HInv
  OBVIOUS
<1>1. TypeOK
  BY RoutedIsOrder, OrderAssumption, HandlersAssumption
     DEF Init, TypeOK, Pcs, Ended, Replies, Phases
<1>2. RepliesFit
  BY DEF Init, RepliesFit
<1>3. Exclusive /\ Fresh /\ WorkingAhead /\ SentAfterSave /\ WriteAhead
  BY DEF Init, Exclusive, Fresh, WorkingAhead, SentAfterSave, WriteAhead,
         Active, Ended, EmitPcs
<1> QED
  BY <1>1, <1>2, <1>3 DEF HInv

\* Beginnings: the handler takes the order of the command or the repository.
LEMMA BeginSubmitKeeps ==
    ASSUME HInv, NEW c \in Commands, BeginSubmit(c)
    PROVE  HInv'
<1> DEFINE o == Transitioned(RoutedOrder, "SUBMITTING")
<1> USE DEF HInv
<1>1. o \in LiveOrders /\ o.state = "SUBMITTING"
  BY RoutedIsOrder, TransitionKeeps DEF Keeps, States, Transitioned, LiveOrders
<1>2. Work(c, o, "savePending") /\ UNCHANGED <<repo, ex, wire, reply, seen>>
  BY DEF BeginSubmit, Begin
<1>3. "savePending" \in Pcs \ EmitPcs
  BY DEF Pcs, Ended, EmitPcs
<1>4. Exclusive' /\ Fresh' /\ WorkingAhead' /\ WriteAhead'
  BY <1>1, <1>2, <1>3, StartKeeps DEF BeginSubmit, Begin
<1>5. RepliesFit' /\ SentAfterSave'
  BY <1>2, NetKept
<1>6. pc' \in [Commands -> Pcs] /\ working' \in [Commands -> LiveOrders]
  BY <1>1, <1>2, <1>3, WorkType
<1>7. TypeOK'
  BY <1>6, HandlersAssumption DEF TypeOK, BeginSubmit, Begin
<1> QED
  BY <1>4, <1>5, <1>7

\* The other operations begin with the order of the repository, or with a
\* successor of it that waits to be saved.
LEMMA BeginOtherKeeps ==
    ASSUME HInv, NEW c \in Commands, Op[c] # "SUBMIT",
           BeginCancel(c) \/ BeginReplace(c) \/ BeginReconcile(c)
    PROVE  HInv'
<1> USE DEF HInv
<1>1. /\ \A d \in Commands : ~Active(d)
      /\ UNCHANGED <<repo, event, ex, crashes>>
      /\ attempts' = [attempts EXCEPT ![c] = @ + 1]
  BY DEF BeginCancel, BeginReplace, BeginReconcile, Begin
<1>2. loaded' \in [Commands -> Nat]
  BY DEF BeginCancel, BeginReplace, BeginReconcile, TypeOK, LiveOrders
<1>3. PICK o \in LiveOrders, l \in {"done", "waiting", "savePending"} :
         /\ Work(c, o, l)
         /\ o.state = "ROUTED" => repo.state = "ROUTED"
         /\ (l = "waiting" /\ Send(c)) \/ UNCHANGED netVars
  <2>1. /\ Keeps(repo, repo)
        /\ Keeps(repo, Transitioned(repo, "CANCEL_PENDING"))
        /\ Keeps(repo, Transitioned(repo, "REPLACE_PENDING"))
    BY TransitionKeeps DEF Keeps, TypeOK, States
  <2>2. CASE BeginCancel(c)
    BY <2>1, <2>2 DEF BeginCancel, Keeps
  <2>3. CASE BeginReplace(c)
    BY <2>1, <2>3 DEF BeginReplace, Keeps
  <2>4. CASE BeginReconcile(c)
    BY <2>1, <2>4 DEF BeginReconcile, Keeps
  <2> QED
    BY <2>2, <2>3, <2>4
<1>4. l \in Pcs \ EmitPcs
  BY DEF Pcs, Ended, EmitPcs
<1>5. Exclusive' /\ Fresh' /\ WorkingAhead' /\ WriteAhead'
  BY <1>1, <1>3, <1>4, StartKeeps
<1>6. pc' \in [Commands -> Pcs] /\ working' \in [Commands -> LiveOrders]
  BY <1>3, <1>4, WorkType
<1>7. /\ RepliesFit' /\ SentAfterSave'
      /\ wire' \in [Commands -> {"none", "sent", "answered"}]
      /\ reply' \in [Commands -> Replies]
      /\ seen' \in [Commands -> SUBSET Fills]
  <2>1. CASE l = "waiting" /\ Send(c)
    BY <1>1, <1>3, <2>1, SendKeeps
  <2>2. CASE UNCHANGED netVars
    BY <1>1, <1>3, <2>2, NetKept DEF TypeOK
  <2> QED
    BY <1>3, <2>1, <2>2
<1>8. TypeOK'
  <2>1. attempts' \in [Commands -> Nat]
    BY <1>1 DEF TypeOK
  <2>2. /\ repo' \in LiveOrders /\ crashes' \in 0 .. MaxCrashes
        /\ event' \in [order : LiveOrders, phase : Phases]
    BY <1>1 DEF TypeOK
  <2>3. ex' = ex
    BY <1>1
  <2> QED
    BY <1>2, <1>6, <1>7, <2>1, <2>2, <2>3 DEF TypeOK
<1> QED
  BY <1>5, <1>7, <1>8

LEMMA BeginRefusedKeeps ==
    ASSUME HInv, NEW c \in Commands, BeginRefused(c)
    PROVE  HInv'
<1> USE DEF HInv
<1>1. /\ pc' = [pc EXCEPT ![c] = "failed"]
      /\ UNCHANGED <<repo, event, ex, crashes, working, loaded, netVars>>
      /\ attempts' = [attempts EXCEPT ![c] = @ + 1]
  BY DEF BeginRefused, Begin, Refuse
<1>2. TypeOK'
  BY <1>1 DEF TypeOK, Pcs, Ended
<1>3. \A d \in Commands : pc'[d] = pc[d] \/ pc'[d] = "failed"
  BY <1>1 DEF TypeOK
<1>4. Exclusive' /\ Fresh' /\ WorkingAhead' /\ WriteAhead'
  BY <1>1, <1>3 DEF Exclusive, Fresh, WorkingAhead, WriteAhead, Active, Ended,
                    EmitPcs
<1> QED
  BY <1>1, <1>2, <1>4, NetKept

\* A save stores what its handler computed, and no other handler is at work.
LEMMA SaveKeeps ==
    ASSUME HInv, NEW c \in Commands, Save(c) \/ SaveFails(c)
    PROVE  HInv'
<1> USE DEF HInv
<1>1. /\ pc[c] \in {"savePending", "saveSubmitted", "saveFinal"}
      /\ UNCHANGED <<working, loaded, netVars, event, ex, attempts, crashes>>
      /\ repo' = repo \/ repo' = working[c]
  BY DEF Save, SaveFails, AfterSave
<1>2. PICK l \in EmitPcs \cup {"failed"} :
         /\ pc' = [pc EXCEPT ![c] = l]
         /\ l # "failed" => repo' = working[c]
         /\ l = "emitSubmitted" => pc[c] = "saveSubmitted"
  BY DEF Save, SaveFails, AfterSave, EmitPcs
<1>3. /\ pc'[c] = l
      /\ \A d \in Commands : d # c => pc'[d] = pc[d]
  BY <1>2 DEF TypeOK
<1>4. Active(c) /\ \A d \in Commands : Active(d) => d = c
  BY <1>1 DEF Active, Ended, Exclusive
<1>5. /\ repo'.state = "ROUTED" => repo.state = "ROUTED"
      /\ Op[c] = "SUBMIT" /\ l # "failed" => repo'.state # "ROUTED"
  BY <1>1, <1>2, <1>4 DEF WorkingAhead
<1>6. TypeOK'
  BY <1>1, <1>2 DEF TypeOK, Pcs, Ended, EmitPcs
<1>7. Exclusive'
  BY <1>3, <1>4 DEF Exclusive, Active
<1>8. \A d \in Commands : d # c => pc'[d] \in Ended
  BY <1>3, <1>4 DEF Active
<1>9. Fresh'
  BY <1>1, <1>2, <1>3, <1>8 DEF Fresh, EmitPcs, Ended
<1>10. WorkingAhead'
  <2> SUFFICES ASSUME NEW d \in Commands, Active(d)', working[d].state = "ROUTED"
               PROVE  repo'.state = "ROUTED" /\ Op[d] # "SUBMIT"
    BY <1>1 DEF WorkingAhead
  <2>1. d = c /\ l # "failed"
    BY <1>3, <1>8 DEF Active, Ended
  <2> QED
    BY <1>2, <1>4, <2>1 DEF WorkingAhead
<1>11. SentAfterSave'
  <2> SUFFICES ASSUME NEW d \in Commands, Op[d] = "SUBMIT",
                      wire[d] # "none" \/ pc'[d] = "emitPending"
               PROVE  repo'.state # "ROUTED"
    BY <1>1 DEF SentAfterSave
  <2>1. CASE wire[d] # "none"
    BY <1>5, <2>1 DEF SentAfterSave
  <2>2. CASE pc'[d] = "emitPending"
    <3>1. d = c
      BY <1>8, <2>2 DEF Ended
    <3> QED
      BY <1>3, <1>5, <2>2, <3>1
  <2> QED
    BY <2>1, <2>2
<1>12. RepliesFit' /\ WriteAhead'
  <2>1. RepliesFit'
    BY <1>1, <1>2, <1>3 DEF RepliesFit, EmitPcs
  <2> QED
    BY <1>1, <1>5, <2>1 DEF WriteAhead
<1> QED
  BY <1>6, <1>7, <1>9, <1>10, <1>11, <1>12

\* A handler at work goes on: it computes its next order, perhaps announces
\* one, perhaps takes its request off the wire.
LEMMA GoesOn ==
    ASSUME HInv, NEW c \in Commands, Active(c), NEW o, NEW l \in Pcs \ EmitPcs,
           Keeps(working[c], o), Work(c, o, l),
           UNCHANGED <<repo, loaded, reply, seen, ex, attempts, crashes>>,
           event' \in [order : LiveOrders, phase : Phases],
           wire' = wire \/ wire' = [wire EXCEPT ![c] = "none"],
           l = "saveSubmitted" => Op[c] = "SUBMIT" /\ reply[c] # "none"
    PROVE  HInv'
<1>1. Exclusive' /\ Fresh' /\ WorkingAhead' /\ WriteAhead'
  BY MoveKeeps
<1>2. RepliesFit' /\ SentAfterSave'
  BY TakeKeeps DEF EmitPcs
<1>3. pc' \in [Commands -> Pcs] /\ working' \in [Commands -> LiveOrders]
  BY WorkType DEF HInv, Keeps
<1>4. wire' \in [Commands -> {"none", "sent", "answered"}]
  BY DEF HInv, TypeOK
<1>5. TypeOK'
  BY <1>3, <1>4 DEF HInv, TypeOK
<1> QED
  BY <1>1, <1>2, <1>5 DEF HInv

LEMMA WorkingIsOrder ==
    ASSUME HInv, NEW c \in Commands
    PROVE  /\ working[c] \in LiveOrders
           /\ Keeps(working[c], working[c])
           /\ reply[c] # "ROUTED"
<1>1. working[c] \in LiveOrders
  BY DEF HInv, TypeOK
<1>2. \A op \in Operations : "ROUTED" \notin StatusesOf[op]
  BY DEF Operations, StatusesOf
<1>3. reply[c] # "ROUTED"
  BY <1>2, HandlersAssumption DEF HInv, RepliesFit
<1> QED
  BY <1>1, <1>3 DEF Keeps

LEMMA PublishType ==
    ASSUME HInv, NEW c \in Commands, NEW p \in Phases, Publish(c, p)
    PROVE  event' \in [order : LiveOrders, phase : Phases]
  BY WorkingIsOrder DEF Publish

LEMMA EmitPendingKeeps ==
    ASSUME HInv, NEW c \in Commands, EmitPending(c)
    PROVE  HInv'
<1> USE DEF HInv
<1>1. /\ pc[c] = "emitPending" /\ Send(c)
      /\ pc' = [pc EXCEPT ![c] = "waiting"]
      /\ UNCHANGED <<repo, working, loaded, ex, attempts, crashes>>
  BY DEF EmitPending
<1>2. Work(c, working[c], "waiting") /\ Active(c)
  BY <1>1 DEF TypeOK, Active, Ended
<1>3. "waiting" \in Pcs \ EmitPcs /\ "PENDING" \in Phases
  BY DEF Pcs, Ended, EmitPcs, Phases
<1>4. Exclusive' /\ Fresh' /\ WorkingAhead' /\ WriteAhead'
  BY <1>1, <1>2, <1>3, MoveKeeps, WorkingIsOrder
<1>5. Op[c] = "SUBMIT" => repo.state # "ROUTED"
  BY <1>1 DEF SentAfterSave
<1>6. /\ RepliesFit' /\ SentAfterSave'
      /\ wire' \in [Commands -> {"none", "sent", "answered"}]
      /\ reply' \in [Commands -> Replies]
      /\ seen' \in [Commands -> SUBSET Fills]
  BY <1>1, <1>5, SendKeeps
<1>7. event' \in [order : LiveOrders, phase : Phases]
  BY <1>3, PublishType DEF EmitPending
<1>8. pc' \in [Commands -> Pcs]
  BY <1>1, <1>3 DEF TypeOK
<1>9. TypeOK'
  BY <1>1, <1>6, <1>7, <1>8 DEF TypeOK
<1> QED
  BY <1>4, <1>6, <1>9

LEMMA EmitSubmittedKeeps ==
    ASSUME HInv, NEW c \in Commands, EmitSubmitted(c)
    PROVE  HInv'
<1>1. /\ pc[c] = "emitSubmitted" /\ Active(c)
      /\ UNCHANGED <<repo, loaded, reply, seen, wire, ex, attempts, crashes>>
  BY DEF EmitSubmitted, Active, Ended
<1>2. event' \in [order : LiveOrders, phase : Phases]
  BY PublishType DEF EmitSubmitted, Phases
<1>3. reply[c] \in {"ACCEPTED", "REJECTED", "UNKNOWN"}
  BY <1>1 DEF HInv, RepliesFit, StatusesOf
<1>4. "saveFinal" \in Pcs \ EmitPcs /\ "failed" \in Pcs \ EmitPcs
  BY DEF Pcs, Ended, EmitPcs
<1>5. CASE Work(c, SubmitOutcome(working[c], reply[c]), "saveFinal")
  BY <1>1, <1>2, <1>3, <1>4, <1>5, SubmitOutcomeKeeps, WorkingIsOrder, GoesOn
<1>6. CASE Goto(c, "failed") /\ UNCHANGED working
  <2>1. Work(c, working[c], "failed")
    BY <1>6 DEF HInv, TypeOK
  <2> QED
    BY <1>1, <1>2, <1>4, <2>1, WorkingIsOrder, GoesOn
<1> QED
  BY <1>5, <1>6 DEF EmitSubmitted

LEMMA EmitFinalKeeps ==
    ASSUME HInv, NEW c \in Commands, EmitFinal(c)
    PROVE  HInv'
<1>1. /\ pc[c] = "emitFinal" /\ Active(c) /\ Goto(c, "done")
      /\ UNCHANGED <<repo, working, loaded, reply, seen, wire, ex, attempts,
                     crashes>>
  BY DEF EmitFinal, Active, Ended
<1>2. Work(c, working[c], "done")
  BY <1>1 DEF HInv, TypeOK
<1>3. event' \in [order : LiveOrders, phase : Phases]
  BY PublishType DEF EmitFinal, Phases
<1>4. "done" \in Pcs \ EmitPcs
  BY DEF Pcs, Ended, EmitPcs
<1> QED
  BY <1>1, <1>2, <1>3, <1>4, WorkingIsOrder, GoesOn

LEMMA EmitFailsKeeps ==
    ASSUME HInv, NEW c \in Commands, EmitFails(c)
    PROVE  HInv'
<1>1. /\ Active(c) /\ Goto(c, "failed")
      /\ UNCHANGED <<repo, working, loaded, reply, seen, wire, event, ex,
                     attempts, crashes>>
  BY DEF EmitFails, Active, Ended
<1>2. Work(c, working[c], "failed")
  BY <1>1 DEF HInv, TypeOK
<1>3. event' \in [order : LiveOrders, phase : Phases]
  BY <1>1 DEF HInv, TypeOK
<1>4. "failed" \in Pcs \ EmitPcs
  BY DEF Pcs, Ended, EmitPcs
<1> QED
  BY <1>1, <1>2, <1>3, <1>4, WorkingIsOrder, GoesOn

\* A round of the reconciler's loop from an order that keeps what it had.
LEMMA ProceedMoves ==
    ASSUME HInv, NEW c \in Commands, NEW o, Keeps(working[c], o),
           Proceed(c, o)
    PROVE  \E p, l : /\ Work(c, p, l) /\ Keeps(working[c], p)
                     /\ l \in {"emitFill", "failed", "saveFinal", "done"}
<1> DEFINE unseen == seen[c] \ o.fills
           result == ReconcileState(o, reply[c])
<1>0. o \in LiveOrders
  BY DEF Keeps
<1>1. ASSUME NEW fill \in unseen, CanFill(o, fill),
             Work(c, Filled(o, fill), "emitFill")
      PROVE  Keeps(working[c], Filled(o, fill))
  <2>1. fill \in Fills
    BY <1>1 DEF HInv, TypeOK
  <2> QED
    BY <1>0, <2>1, FilledKeeps DEF Keeps
<1>2. Keeps(working[c], result)
  BY <1>0, WorkingIsOrder, ReconcileKeeps DEF Keeps
<1>3. CASE \E fill \in unseen :
              IF CanFill(o, fill) THEN Work(c, Filled(o, fill), "emitFill")
                                  ELSE Work(c, o, "failed")
  BY <1>1, <1>3
<1>4. CASE Work(c, result, "saveFinal") \/ Work(c, result, "done")
  BY <1>2, <1>4
<1> QED
  BY <1>3, <1>4 DEF Proceed

LEMMA EmitFillKeeps ==
    ASSUME HInv, NEW c \in Commands, EmitFill(c)
    PROVE  HInv'
<1>1. /\ Active(c)
      /\ UNCHANGED <<repo, loaded, reply, seen, wire, ex, attempts, crashes>>
  BY DEF EmitFill, Active, Ended
<1>2. event' \in [order : LiveOrders, phase : Phases]
  BY PublishType DEF EmitFill, Phases
<1>3. PICK p, l : /\ Work(c, p, l) /\ Keeps(working[c], p)
                  /\ l \in {"emitFill", "failed", "saveFinal", "done"}
  BY WorkingIsOrder, ProceedMoves DEF EmitFill
<1>4. l \in Pcs \ EmitPcs /\ l # "saveSubmitted"
  BY <1>3 DEF Pcs, Ended, EmitPcs
<1> QED
  BY <1>1, <1>2, <1>3, <1>4, GoesOn

\* The answer of the exchange is taken.
LEMMA ReceiveKeeps ==
    ASSUME HInv, NEW c \in Commands,
           \/ ReceiveSubmit(c) \/ ReceiveAmend(c) \/ ReceiveSnapshot(c)
           \/ ReceiveMissing(c) \/ ReceiveInvalid(c)
    PROVE  HInv'
<1>1. /\ pc[c] = "waiting" /\ wire[c] = "answered"
      /\ wire' = [wire EXCEPT ![c] = "none"]
      /\ UNCHANGED <<repo, loaded, reply, seen, event, ex, attempts, crashes>>
  BY DEF ReceiveSubmit, ReceiveAmend, ReceiveSnapshot, ReceiveMissing,
         ReceiveInvalid, Answered
<1>2. Active(c) /\ reply[c] # "none"
  BY <1>1 DEF HInv, RepliesFit, Active, Ended
<1>3. event' \in [order : LiveOrders, phase : Phases]
  BY <1>1 DEF HInv, TypeOK
<1>4. PICK o, l :
         /\ Work(c, o, l) /\ Keeps(working[c], o)
         /\ l \in {"saveSubmitted", "saveFinal", "emitFill", "failed", "done"}
         /\ l = "saveSubmitted" => Op[c] = "SUBMIT"
  <2> HIDE DEF Work
  <2>1. CASE ReceiveSubmit(c)
    <3>1. Keeps(working[c], Transitioned(working[c], "SUBMITTED"))
      BY WorkingIsOrder, TransitionKeeps DEF States
    <3> QED
      BY <2>1, <3>1 DEF ReceiveSubmit
  <2>2. CASE ReceiveAmend(c)
    <3>1. Keeps(working[c], AmendOutcome(working[c], reply[c]))
      BY WorkingIsOrder, AmendOutcomeKeeps
    <3>2. \/ Work(c, AmendOutcome(working[c], reply[c]), "saveFinal")
          \/ Work(c, working[c], "failed")
      BY <2>2 DEF ReceiveAmend
    <3> QED
      BY <3>1, <3>2, WorkingIsOrder
  <2>3. CASE ReceiveSnapshot(c)
    <3>1. Keeps(working[c], Accepted(working[c], ExId))
      BY WorkingIsOrder, AcceptedKeeps
    <3>2. PICK p : Keeps(working[c], p) /\ Proceed(c, p)
      BY <2>3, <3>1, WorkingIsOrder DEF ReceiveSnapshot
    <3> QED
      BY <3>2, ProceedMoves
  <2>4. CASE ReceiveMissing(c)
    <3>1. Keeps(working[c], FailureNoted(working[c]))
      BY WorkingIsOrder, FailureKeeps
    <3>2. Keeps(working[c],
                TransitionIfAllowed(FailureNoted(working[c]), "UNKNOWN"))
      BY <3>1, IfAllowedKeeps DEF Keeps
    <3>3. Work(c, TransitionIfAllowed(FailureNoted(working[c]), "UNKNOWN"),
               "saveFinal")
      BY <2>4 DEF ReceiveMissing
    <3> QED
      BY <3>2, <3>3
  <2>5. CASE ReceiveInvalid(c)
    <3>1. Work(c, working[c], "failed")
      BY <2>5 DEF ReceiveInvalid
    <3> QED
      BY <3>1, WorkingIsOrder
  <2> QED
    BY <2>1, <2>2, <2>3, <2>4, <2>5
<1>5. l \in Pcs \ EmitPcs
  BY <1>4 DEF Pcs, Ended, EmitPcs
<1> QED
  BY <1>1, <1>2, <1>3, <1>4, <1>5, GoesOn

LEMMA TransportFailsKeeps ==
    ASSUME HInv, NEW c \in Commands, TransportFails(c)
    PROVE  HInv'
<1>1. /\ pc[c] = "waiting" /\ Active(c)
      /\ UNCHANGED <<repo, loaded, reply, seen, event, ex, attempts, crashes>>
  BY DEF TransportFails, Active, Ended
<1>2. wire' = wire \/ wire' = [wire EXCEPT ![c] = "none"]
  <2>1. wire \in [Commands -> {"none", "sent", "answered"}]
    BY DEF HInv, TypeOK
  <2>2. [wire EXCEPT ![c] = wire[c]] = wire
    BY <2>1
  <2>3. wire' \in {[wire EXCEPT ![c] = w] :
                     w \in {"none"} \cup ({wire[c]} \ {"answered"})}
    BY DEF TransportFails
  <2>4. PICK w \in {"none", wire[c]} : wire' = [wire EXCEPT ![c] = w]
    BY <2>3
  <2> QED
    BY <2>2, <2>4
<1>3. event' \in [order : LiveOrders, phase : Phases]
  BY <1>1 DEF HInv, TypeOK
<1>4. /\ Keeps(working[c], Failed(working[c], TRUE))
      /\ Keeps(working[c],
               TransitionIfAllowed(FailureNoted(working[c]), "UNKNOWN"))
  <2>1. Keeps(working[c], FailureNoted(working[c]))
    BY WorkingIsOrder, FailureKeeps
  <2> QED
    BY <2>1, WorkingIsOrder, FailedKeeps, IfAllowedKeeps DEF Keeps
<1>5. PICK o, l : /\ Work(c, o, l) /\ Keeps(working[c], o)
                  /\ l \in {"saveFinal", "failed"}
  BY <1>4, WorkingIsOrder DEF TransportFails
<1>6. l \in Pcs \ EmitPcs /\ l # "saveSubmitted"
  BY <1>5 DEF Pcs, Ended, EmitPcs
<1> QED
  BY <1>1, <1>2, <1>3, <1>5, <1>6, GoesOn

-----------------------------------------------------------------------------
(* The exchange, the end of the process, and all steps together.           *)

ExRecords == [status : {"none"} \cup LiveStatuses \cup DeadStatuses,
              log : Seq(Fills), filled : 0 .. Qty]

\* The exchange does as it likes with the order, once it has it.
LEMMA ExchangeAlone ==
    ASSUME HInv, ex' \in ExRecords,
           ex'.status # "none" => repo.state # "ROUTED",
           UNCHANGED <<repo, pc, working, loaded, netVars, event, attempts,
                       crashes>>
    PROVE  HInv'
<1>1. TypeOK'
  BY DEF HInv, TypeOK, ExRecords
<1>2. RepliesFit' /\ Exclusive' /\ Fresh' /\ WorkingAhead' /\ SentAfterSave'
  BY DEF HInv, RepliesFit, Exclusive, Fresh, WorkingAhead, SentAfterSave,
         Active
<1> QED
  BY <1>1, <1>2 DEF HInv, WriteAhead

\* ... and answers a request with one of the statuses it has for it.
LEMMA AnswerKeeps ==
    ASSUME HInv, NEW c \in Commands, NEW op \in Operations,
           NEW s \in StatusesOf[op], Answer(c, op, s),
           ex' \in ExRecords, seen' \in [Commands -> SUBSET Fills],
           ex'.status # "none" => repo.state # "ROUTED"
    PROVE  HInv'
<1>1. /\ Op[c] = op /\ wire[c] = "sent"
      /\ UNCHANGED <<repo, pc, working, loaded, event, attempts, crashes>>
      /\ reply' = [reply EXCEPT ![c] = s]
  BY DEF Answer
<1>2. PICK w \in {"answered", "none"} : wire' = [wire EXCEPT ![c] = w]
  BY DEF Answer
<1>3. s \in Replies /\ s # "none"
  BY DEF StatusesOf, Replies, States, Operations
<1>4. TypeOK'
  BY <1>1, <1>2, <1>3 DEF HInv, TypeOK, ExRecords
<1>5. /\ wire'[c] = w /\ reply'[c] = s
      /\ \A d \in Commands : d # c => wire'[d] = wire[d] /\ reply'[d] = reply[d]
  BY <1>1, <1>2 DEF HInv, TypeOK
<1>6. RepliesFit' /\ SentAfterSave'
  BY <1>1, <1>3, <1>5 DEF HInv, RepliesFit, SentAfterSave
<1>7. Exclusive' /\ Fresh' /\ WorkingAhead'
  BY <1>1 DEF HInv, Exclusive, Fresh, WorkingAhead, Active
<1> QED
  BY <1>1, <1>4, <1>6, <1>7 DEF HInv, WriteAhead

LEMMA StatusType ==
    ASSUME HInv, NEW s \in LiveStatuses \cup DeadStatuses, Becomes(s)
    PROVE  ex' \in ExRecords
  BY DEF HInv, TypeOK, ExRecords, Becomes

LEMMA ExSubmitKeeps ==
    ASSUME HInv, NEW c \in Commands, ExSubmit(c)
    PROVE  HInv'
<1>1. seen' \in [Commands -> SUBSET Fills]
  BY DEF ExSubmit, HInv, TypeOK
<1>2. ex' \in ExRecords
  <2>1. {"open", "rejected"} \subseteq LiveStatuses \cup DeadStatuses
    BY DEF LiveStatuses, DeadStatuses
  <2> QED
    BY <2>1, StatusType DEF ExSubmit, HInv, TypeOK, ExRecords
<1>3. PICK s \in StatusesOf["SUBMIT"] : Answer(c, "SUBMIT", s)
  BY DEF ExSubmit, StatusesOf
<1>4. repo.state # "ROUTED"
  BY <1>3 DEF Answer, HInv, SentAfterSave
<1> QED
  BY <1>1, <1>2, <1>3, <1>4, AnswerKeeps DEF Operations

LEMMA ExAmendKeeps ==
    ASSUME HInv, NEW c \in Commands, ExCancel(c) \/ ExReplace(c)
    PROVE  HInv'
<1>1. PICK op \in {"CANCEL", "REPLACE"} :
         \E s \in StatusesOf[op] : Answer(c, op, s)
  BY DEF ExCancel, ExReplace, ExAmend, StatusesOf
<1>2. seen' \in [Commands -> SUBSET Fills]
  BY DEF ExCancel, ExReplace, ExAmend, HInv, TypeOK
<1>3. \/ UNCHANGED ex
      \/ /\ ex.status \in LiveStatuses
         /\ \E t \in LiveStatuses \cup DeadStatuses : Becomes(t)
  BY DEF ExCancel, ExReplace, ExAmend, LiveStatuses, DeadStatuses
<1>4. ex' \in ExRecords
  BY <1>3, StatusType DEF HInv, TypeOK, ExRecords
<1>5. ex'.status # "none" => repo.state # "ROUTED"
  BY <1>3 DEF HInv, WriteAhead, LiveStatuses
<1> QED
  BY <1>1, <1>2, <1>4, <1>5, AnswerKeeps DEF Operations

LEMMA ExFetchKeeps ==
    ASSUME HInv, NEW c \in Commands, ExFetch(c)
    PROVE  HInv'
<1>1. PICK s \in StatusesOf["RECONCILE"] : Answer(c, "RECONCILE", s)
  BY DEF ExFetch, StatusesOf, SnapshotStates, HInv, TypeOK, LiveStatuses,
         DeadStatuses
<1>2. Executed \subseteq Fills
  BY DEF Executed, HInv, TypeOK
<1>3. seen' \in [Commands -> SUBSET Fills]
  BY <1>2 DEF ExFetch, HInv, TypeOK
<1>4. ex' = ex
  BY DEF ExFetch
<1> QED
  BY <1>1, <1>3, <1>4, AnswerKeeps
     DEF Operations, HInv, TypeOK, WriteAhead, ExRecords

LEMMA ExFillKeeps ==
    ASSUME HInv, NEW fill \in Fills, ExFill(fill)
    PROVE  HInv'
<1>1. FillQty[fill] \in Nat /\ ex.filled + FillQty[fill] \in 0 .. Qty
  BY OrderAssumption, HandlersAssumption DEF ExFill, HInv, TypeOK
<1>2. Append(ex.log, fill) \in Seq(Fills)
  BY DEF HInv, TypeOK
<1>3. ex' \in ExRecords
  BY <1>1, <1>2 DEF ExFill, ExRecords, LiveStatuses, DeadStatuses
<1>4. repo.state # "ROUTED"
  BY DEF ExFill, HInv, WriteAhead, LiveStatuses
<1> QED
  BY <1>3, <1>4, ExchangeAlone DEF ExFill

LEMMA ExCloseKeeps ==
    ASSUME HInv, ExClose
    PROVE  HInv'
<1>1. ex.status # "none"
  BY DEF ExClose, LiveStatuses
<1>2. ex' \in ExRecords
  BY StatusType DEF ExClose, LiveStatuses, DeadStatuses
<1> QED
  BY <1>1, <1>2, ExchangeAlone DEF ExClose, HInv, WriteAhead

LEMMA CrashKeeps ==
    ASSUME HInv, Crash
    PROVE  HInv'
<1>1. \A c \in Commands : /\ pc'[c] \in Ended
                           /\ wire'[c] \in {"none", wire[c]}
                           /\ wire'[c] # "answered"
  BY DEF Crash, Active, Ended
<1>2. TypeOK'
  <2>1. crashes' \in 0 .. MaxCrashes
    BY HandlersAssumption DEF Crash, HInv, TypeOK
  <2>2. pc' \in [Commands -> Pcs]
    BY DEF Crash, HInv, TypeOK, Pcs, Ended
  <2>3. wire' \in [Commands -> {"none", "sent", "answered"}]
    BY DEF Crash, HInv, TypeOK
  <2> QED
    BY <2>1, <2>2, <2>3 DEF Crash, HInv, TypeOK
<1>3. Exclusive' /\ Fresh' /\ WorkingAhead'
  BY <1>1 DEF Exclusive, Fresh, WorkingAhead, Active, Ended, EmitPcs
<1>4. RepliesFit' /\ SentAfterSave' /\ WriteAhead'
  BY <1>1 DEF Crash, HInv, RepliesFit, SentAfterSave, WriteAhead, Ended
<1> QED
  BY <1>2, <1>3, <1>4 DEF HInv

LEMMA HandlerKeeps ==
    ASSUME HInv, NEW c \in Commands, Handler(c)
    PROVE  HInv'
<1>1. CASE BeginSubmit(c)
  BY <1>1, BeginSubmitKeeps
<1>2. CASE BeginCancel(c) \/ BeginReplace(c) \/ BeginReconcile(c)
  BY <1>2, BeginOtherKeeps DEF BeginCancel, BeginReplace, BeginReconcile
<1>3. CASE BeginRefused(c)
  BY <1>3, BeginRefusedKeeps
<1>4. CASE Save(c) \/ SaveFails(c)
  BY <1>4, SaveKeeps
<1>5. CASE EmitPending(c) \/ EmitSubmitted(c)
  BY <1>5, EmitPendingKeeps, EmitSubmittedKeeps
<1>6. CASE EmitFill(c) \/ EmitFinal(c) \/ EmitFails(c)
  BY <1>6, EmitFillKeeps, EmitFinalKeeps, EmitFailsKeeps
<1>7. CASE \/ ReceiveSubmit(c) \/ ReceiveAmend(c) \/ ReceiveSnapshot(c)
           \/ ReceiveMissing(c) \/ ReceiveInvalid(c)
  BY <1>7, ReceiveKeeps
<1>8. CASE TransportFails(c)
  BY <1>8, TransportFailsKeeps
<1> QED
  BY <1>1, <1>2, <1>3, <1>4, <1>5, <1>6, <1>7, <1>8 DEF Handler

LEMMA StutterKeeps ==
    ASSUME HInv, UNCHANGED vars
    PROVE  HInv'
<1>1. ex' \in ExRecords
  BY DEF vars, HInv, TypeOK, ExRecords
<1> QED
  BY <1>1, ExchangeAlone DEF vars, HInv, WriteAhead

LEMMA NextKeeps == HInv /\ [Next]_vars => HInv'
<1> SUFFICES ASSUME HInv, [Next]_vars PROVE HInv'
  OBVIOUS
<1>1. ASSUME NEW c \in Commands, Handler(c) PROVE HInv'
  BY <1>1, HandlerKeeps
<1>2. CASE Exchange
  BY <1>2, ExSubmitKeeps, ExAmendKeeps, ExFetchKeeps, ExFillKeeps, ExCloseKeeps
     DEF Exchange
<1>3. CASE Crash
  BY <1>3, CrashKeeps
<1>4. CASE UNCHANGED vars
  BY <1>4, StutterKeeps
<1> QED
  BY <1>1, <1>2, <1>3, <1>4 DEF Next

LEMMA HInvHolds == Spec => []HInv
  BY InitHolds, NextKeeps, PTL DEF Spec

\* The repository, the handlers' orders, the network and the exchange keep
\* their types, whatever is answered to whom.
THEOREM TypeCorrect == Spec => []TypeOK
<1>1. HInv => TypeOK
  BY DEF HInv
<1> QED
  BY <1>1, HInvHolds, PTL

\* Nothing reaches the exchange before the repository knows that it may
\* (order-submitter.ts:283), for any number of submissions, retries, failing
\* saves and restarts.
THEOREM SubmissionsAreWrittenAhead == Spec => []WriteAhead
<1>1. HInv => WriteAhead
  BY DEF HInv
<1> QED
  BY <1>1, HInvHolds, PTL

LEMMA EventsFollow ==
    ASSUME HInv, [Next]_vars, event' # event, event'.phase # "FILL_RECONCILED"
    PROVE  event'.order = repo
<1>1. PICK c \in Commands : EmitPending(c) \/ EmitSubmitted(c) \/ EmitFinal(c)
  <2>1. ASSUME NEW c \in Commands, Handler(c)
        PROVE  EmitPending(c) \/ EmitSubmitted(c) \/ EmitFinal(c)
    <3>1. ~EmitFill(c)
      BY DEF EmitFill, Publish
    <3> QED
      BY <2>1, <3>1
         DEF Handler, BeginSubmit, BeginCancel, BeginReplace, BeginReconcile,
             BeginRefused, Begin, Save, SaveFails, EmitFails, ReceiveSubmit,
             ReceiveAmend, ReceiveSnapshot, ReceiveMissing, ReceiveInvalid,
             Answered, TransportFails
  <2>2. ~Exchange /\ ~Crash
    BY DEF Exchange, ExSubmit, ExCancel, ExReplace, ExAmend, ExFetch, ExFill,
           ExClose, Answer, Crash
  <2> QED
    BY <2>1, <2>2 DEF Next, vars
<1>2. event'.order = working[c] /\ pc[c] \in EmitPcs
  BY <1>1 DEF EmitPending, EmitSubmitted, EmitFinal, Publish, EmitPcs
<1> QED
  BY <1>2 DEF HInv, Fresh

\* Lifecycle events show what the repository holds when they are published
\* (order-reconciler.ts:450 and its like in the other handlers).
THEOREM AnnouncedIsPersisted == Spec => EventsFollowPersistence
<1>1. HInv /\ [Next]_vars =>
        [event' # event /\ event'.phase # "FILL_RECONCILED" =>
            event'.order = repo]_vars
  BY EventsFollow
<1> QED
  BY <1>1, HInvHolds, PTL DEF Spec, EventsFollowPersistence
-----------------------------------------------------------------------------
(* What the repository holds.  It never goes back, as long as the order is *)
(* submitted once: what a handler saves succeeds what is stored, whatever  *)
(* has failed or was restarted since the handler loaded it.                *)

\* One command submits the order, and only once: the answer to a second one may say
\* REJECTED of an order that is open.
OneSubmission ==
    /\ \A c, d \in Commands : Op[c] = "SUBMIT" /\ Op[d] = "SUBMIT" => c = d
    /\ \A c \in Commands : Op[c] = "SUBMIT" => MaxAttempts[c] <= 1

\* ... and no reconciliation names the order before the exchange has.
SubmittedOnce == OneSubmission /\ KnowsId = {}

-----------------------------------------------------------------------------
(* Orders that succeed one another.                                        *)

USE DEF Goto, Work, netVars

Over(o) == o.state \in TerminalStates \cup {"FILLED"}

\* p may be stored over o.
Succeeds(o, p) ==
    /\ p.version >= o.version
    /\ o.version = p.version => p = o
    /\ o.fills \subseteq p.fills
    /\ Over(o) => p.state = o.state

LEMMA SucceedsItself ==
    ASSUME NEW o \in LiveOrders
    PROVE  Succeeds(o, o)
  BY DEF Succeeds, LiveOrders

LEMMA SucceedsOn ==
    ASSUME NEW o \in LiveOrders, NEW p \in LiveOrders, NEW q \in LiveOrders,
           Succeeds(o, p), Succeeds(p, q)
    PROVE  Succeeds(o, q)
<1>1. o.version \in Nat /\ p.version \in Nat /\ q.version \in Nat
  BY DEF LiveOrders
<1>2. q.version >= o.version
  BY <1>1 DEF Succeeds
<1>3. ASSUME o.version = q.version PROVE q = o
  <2>1. o.version = p.version /\ p.version = q.version
    BY <1>1, <1>3 DEF Succeeds
  <2> QED
    BY <2>1 DEF Succeeds
<1> QED
  BY <1>2, <1>3 DEF Succeeds, Over

LEMMA TransitionSucceeds ==
    ASSUME NEW o \in LiveOrders, NEW s \in States, ~Over(o)
    PROVE  Succeeds(o, Transitioned(o, s)) /\ Transitioned(o, s) \in LiveOrders
<1>1. /\ Transitioned(o, s) \in LiveOrders
      /\ Transitioned(o, s).version = o.version + 1 /\ Transitioned(o, s).fills = o.fills
  BY NextVersion DEF Transitioned, LiveOrders
<1> QED
  BY <1>1 DEF Succeeds, LiveOrders

LEMMA FailureSucceeds ==
    ASSUME NEW o \in LiveOrders
    PROVE  /\ Succeeds(o, FailureNoted(o)) /\ FailureNoted(o) \in LiveOrders
           /\ FailureNoted(o).state = o.state
  BY NextVersion DEF Succeeds, FailureNoted, LiveOrders, Over

LEMMA DoubtSucceeds ==
    ASSUME NEW o \in LiveOrders, NEW s \in States, ~Over(o)
    PROVE  /\ Succeeds(o, Transitioned(FailureNoted(o), s))
           /\ Transitioned(FailureNoted(o), s) \in LiveOrders
<1>1. ~Over(FailureNoted(o))
  BY FailureSucceeds DEF Over
<1> QED
  BY <1>1, FailureSucceeds, TransitionSucceeds, SucceedsOn

LEMMA FailedSucceeds ==
    ASSUME NEW o \in LiveOrders, ~Over(o)
    PROVE  Succeeds(o, Failed(o, TRUE)) /\ Failed(o, TRUE) \in LiveOrders
  BY FailureSucceeds, DoubtSucceeds DEF Failed, States

LEMMA AcceptedSucceeds ==
    ASSUME NEW o \in LiveOrders, ~Over(o)
    PROVE  Succeeds(o, Accepted(o, ExId)) /\ Accepted(o, ExId) \in LiveOrders
<1> DEFINE copy == [o EXCEPT !.exId = ExId, !.version = @ + 1]
<1>1. /\ copy \in LiveOrders /\ copy.state = o.state /\ copy.fills = o.fills
      /\ copy.version = o.version + 1
  BY NextVersion, HandlersAssumption DEF LiveOrders
<1>2. ~Over(o) /\ ~Over(copy)
  BY <1>1 DEF Over
<1>3. Succeeds(o, copy)
  BY <1>1, <1>2 DEF Succeeds, LiveOrders
<1>4. "ACCEPTED" \in States
  BY DEF States
<1>5. Succeeds(copy, Transitioned(copy, "ACCEPTED")) /\ Transitioned(copy, "ACCEPTED") \in LiveOrders
  BY <1>1, <1>2, <1>4, TransitionSucceeds
<1> QED
  BY <1>1, <1>3, <1>5, SucceedsOn DEF Accepted

\* A filled order takes no further fill: its quantity is used up.
LEMMA FilledSucceeds ==
    ASSUME NEW o \in LiveOrders, NEW f \in Fills, CanFill(o, f)
    PROVE  Succeeds(o, Filled(o, f)) /\ Filled(o, f) \in LiveOrders
<1> DEFINE copy == WithFill(o, f)
<1>1. FillQty[f] \in Nat \ {0} /\ o.filled \in Nat /\ o.qty \in Nat
  BY OrderAssumption DEF LiveOrders
<1>2. ~Over(o)
  <2>1. ~IsTerminal(o) /\ o.filled + FillQty[f] <= o.qty
    BY DEF CanFill, FillFits
  <2>2. o.state # "FILLED"
    BY <1>1, <2>1 DEF CanFill, FillFits, ValidOrder, StateQuantityConsistent
  <2> QED
    BY <2>1, <2>2 DEF Over, IsTerminal
<1>3. o.filled + FillQty[f] \in Nat /\ o.fills \cup {f} \in SUBSET Fills
  BY <1>1 DEF LiveOrders
<1>4. /\ copy \in LiveOrders /\ copy.state = o.state /\ o.fills \subseteq copy.fills
      /\ copy.version = o.version + 1
  BY <1>3, NextVersion DEF WithFill, LiveOrders
<1>5. Succeeds(o, copy) /\ ~Over(copy)
  BY <1>2, <1>4 DEF Succeeds, Over, LiveOrders
<1>6. StateAfterFill(o, f) \in States
  BY DEF StateAfterFill, States
<1>7. /\ Succeeds(copy, Transitioned(copy, StateAfterFill(o, f)))
      /\ Transitioned(copy, StateAfterFill(o, f)) \in LiveOrders
  BY <1>4, <1>5, <1>6, TransitionSucceeds
<1> QED
  BY <1>4, <1>5, <1>7, SucceedsOn DEF Filled

\* What a snapshot never says, and where alone an order that is over could go.
Beyond == {"SETTLING", "SETTLED", "FAILED", "RECOVERING"}

LEMMA OverStays ==
    ASSUME NEW o \in LiveOrders, Over(o), NEW s, CanTransition(o, s)
    PROVE  s \in Beyond
  BY DEF CanTransition, AllowedTransitions, Over, TerminalStates, Beyond, LiveOrders, States

LEMMA IfAllowedSucceeds ==
    ASSUME NEW o \in LiveOrders, NEW s, s \notin Beyond
    PROVE  /\ Succeeds(o, TransitionIfAllowed(o, s))
           /\ TransitionIfAllowed(o, s) \in LiveOrders
<1>1. ASSUME NEW t, t \notin Beyond, o.state # t, CanTransition(o, t)
      PROVE  Succeeds(o, Transitioned(o, t)) /\ Transitioned(o, t) \in LiveOrders
  <2>1. ~Over(o)
    BY <1>1, OverStays
  <2>2. t \in States
    BY <1>1 DEF CanTransition, AllowedTransitions, LiveOrders, States, WorkingExits, Resolutions
  <2> QED
    BY <2>1, <2>2, TransitionSucceeds
<1>2. CASE o.state # s /\ CanTransition(o, s)
  BY <1>1, <1>2 DEF TransitionIfAllowed
<1>3. CASE ~(o.state # s /\ CanTransition(o, s)) /\ o.state # "UNKNOWN" /\ CanTransition(o, "UNKNOWN")
  <2>1. Succeeds(o, Transitioned(o, "UNKNOWN")) /\ Transitioned(o, "UNKNOWN") \in LiveOrders
    BY <1>1, <1>3 DEF Beyond
  <2> QED
    BY <1>3, <2>1, SucceedsItself DEF TransitionIfAllowed
<1>4. CASE ~(o.state # s /\ CanTransition(o, s)) /\ ~(o.state # "UNKNOWN" /\ CanTransition(o, "UNKNOWN"))
  BY <1>4, SucceedsItself DEF TransitionIfAllowed
<1> QED
  BY <1>2, <1>3, <1>4

LEMMA ReconcileSucceeds ==
    ASSUME NEW o \in LiveOrders, NEW s, s \notin Beyond
    PROVE  Succeeds(o, ReconcileState(o, s)) /\ ReconcileState(o, s) \in LiveOrders
<1>1. "UNKNOWN" \notin Beyond
  BY DEF Beyond
<1> QED
  BY <1>1, IfAllowedSucceeds, SucceedsItself DEF ReconcileState

LEMMA RepliesNotBeyond ==
    ASSUME HInv, NEW c \in Commands
    PROVE  reply[c] \notin Beyond
<1>1. Op[c] \in Operations /\ reply[c] \in StatusesOf[Op[c]] \cup {"none"}
  BY HandlersAssumption DEF HInv, RepliesFit
<1> QED
  BY <1>1 DEF Operations, StatusesOf, Beyond

-----------------------------------------------------------------------------
(* The invariant.                                                          *)

\* What a handler at work has, succeeds what is stored.
LeadsOn == \A c \in Commands : Active(c) => Succeeds(repo, working[c])

\* A submission, cancellation or replacement whose answer has not been applied
\* works on an order that is not over.
RequestPcs == {"savePending", "emitPending", "waiting", "saveSubmitted", "emitSubmitted"}
Unfinished ==
    \A c \in Commands :
        Op[c] # "RECONCILE" /\ pc[c] \in RequestPcs => ~Over(working[c])

\* Nothing is done about an order before it is submitted.
SubmittedFirst ==
    (\A c \in Commands : Op[c] = "SUBMIT" => attempts[c] = 0)
        => repo = RoutedOrder /\ \A c \in Commands : ~Active(c)

AInv == LeadsOn /\ Unfinished /\ SubmittedFirst

\* A handler moves on to an order that succeeds the one it had.
LEMMA MovesOn ==
    ASSUME HInv, AInv, NEW c \in Commands, Active(c), NEW o \in LiveOrders, NEW l \in Pcs,
           Succeeds(working[c], o), Work(c, o, l), UNCHANGED <<repo, attempts>>,
           Op[c] # "RECONCILE" /\ l \in RequestPcs => ~Over(o)
    PROVE  AInv'
<1> USE DEF HInv, TypeOK, AInv
<1>1. /\ pc'[c] = l /\ working'[c] = o
      /\ \A d \in Commands : d # c => pc'[d] = pc[d] /\ working'[d] = working[d]
  OBVIOUS
<1>2. LeadsOn'
  <2>1. Succeeds(repo, o)
    BY SucceedsOn DEF LeadsOn
  <2> QED
    BY <1>1, <2>1 DEF LeadsOn, Active
<1>3. Unfinished'
  BY <1>1 DEF Unfinished
<1>4. SubmittedFirst'
  BY DEF SubmittedFirst
<1> QED
  BY <1>2, <1>3, <1>4

\* A handler starts on an order that succeeds the repository's.
LEMMA StartsOn ==
    ASSUME HInv, AInv, NEW c \in Commands, NEW o \in LiveOrders, NEW l \in Pcs,
           \A d \in Commands : ~Active(d),
           Succeeds(repo, o), Work(c, o, l), UNCHANGED repo,
           attempts' = [attempts EXCEPT ![c] = @ + 1],
           Op[c] = "SUBMIT" \/ repo # RoutedOrder \/ l \in Ended,
           Op[c] # "RECONCILE" /\ l \in RequestPcs => ~Over(o)
    PROVE  AInv'
<1> USE DEF HInv, TypeOK, AInv
<1>1. /\ pc'[c] = l /\ working'[c] = o /\ attempts'[c] = attempts[c] + 1
      /\ \A d \in Commands : d # c => /\ pc'[d] = pc[d] /\ working'[d] = working[d]
                                      /\ attempts'[d] = attempts[d]
  OBVIOUS
<1>2. LeadsOn'
  BY <1>1 DEF LeadsOn, Active
<1>3. Unfinished'
  BY <1>1 DEF Unfinished
<1>4. SubmittedFirst'
  <2> SUFFICES ASSUME \A d \in Commands : Op[d] = "SUBMIT" => attempts'[d] = 0
               PROVE  repo = RoutedOrder /\ \A d \in Commands : ~Active(d)'
    BY DEF SubmittedFirst
  <2>1. Op[c] # "SUBMIT"
    BY <1>1
  <2>2. \A d \in Commands : Op[d] = "SUBMIT" => attempts[d] = 0
    BY <1>1, <2>1
  <2>3. repo = RoutedOrder
    BY <2>2 DEF SubmittedFirst
  <2>4. l \in Ended
    BY <2>1, <2>3
  <2> QED
    BY <1>1, <2>3, <2>4 DEF Active
<1> QED
  BY <1>2, <1>3, <1>4

-----------------------------------------------------------------------------
(* The actions.                                                            *)

LEMMA BeginSubmitOn ==
    ASSUME SubmittedOnce, HInv, AInv, NEW c \in Commands, BeginSubmit(c)
    PROVE  AInv'
<1> DEFINE o == Transitioned(RoutedOrder, "SUBMITTING")
<1>1. repo = RoutedOrder
  <2>1. Op[c] = "SUBMIT" /\ attempts[c] < MaxAttempts[c]
    BY DEF BeginSubmit, Begin
  <2>2. attempts[c] = 0
    BY <2>1, HandlersAssumption DEF SubmittedOnce, OneSubmission, HInv, TypeOK
  <2> QED
    BY <2>1, <2>2 DEF SubmittedOnce, OneSubmission, AInv, SubmittedFirst
<1>2. ~Over(RoutedOrder)
  BY RoutedIsOrder DEF RoutedOrder, NewOrder, Over, TerminalStates
<1>3. Succeeds(RoutedOrder, o) /\ o \in LiveOrders
  BY <1>2, RoutedIsOrder, TransitionSucceeds DEF States
<1>4. ~Over(o)
  BY RoutedIsOrder DEF Transitioned, Over, TerminalStates, LiveOrders
<1>5. /\ Work(c, o, "savePending") /\ UNCHANGED repo /\ Op[c] = "SUBMIT"
      /\ attempts' = [attempts EXCEPT ![c] = @ + 1] /\ \A d \in Commands : ~Active(d)
  BY DEF BeginSubmit, Begin
<1>6. "savePending" \in Pcs
  BY DEF Pcs
<1> QED
  BY <1>1, <1>3, <1>4, <1>5, <1>6, StartsOn

LEMMA BeginOtherOn ==
    ASSUME SubmittedOnce, HInv, AInv, NEW c \in Commands,
           BeginCancel(c) \/ BeginReplace(c) \/ BeginReconcile(c)
    PROVE  AInv'
<1>1. /\ \A d \in Commands : ~Active(d)
      /\ UNCHANGED repo /\ repo \in LiveOrders
      /\ attempts' = [attempts EXCEPT ![c] = @ + 1]
  BY DEF BeginCancel, BeginReplace, BeginReconcile, Begin, HInv, TypeOK
<1>2. Succeeds(repo, repo)
  BY <1>1, SucceedsItself
<1>3. {"done", "waiting", "savePending"} \subseteq Pcs /\ "done" \in Ended /\ "done" \notin RequestPcs
  BY DEF Pcs, Ended, RequestPcs
<1>4. RoutedOrder.state = "ROUTED" /\ RoutedOrder.exId = NoId
  BY RoutedIsOrder DEF RoutedOrder, NewOrder
<1>5. ASSUME NEW s \in States, s \notin TerminalStates \cup {"FILLED"}, ~Over(repo)
      PROVE  /\ Succeeds(repo, Transitioned(repo, s)) /\ Transitioned(repo, s) \in LiveOrders
             /\ ~Over(Transitioned(repo, s))
  BY <1>1, <1>5, TransitionSucceeds DEF Over, Transitioned, LiveOrders
<1>6. CASE BeginCancel(c)
  <2>1. CASE IsTerminal(repo) /\ Work(c, repo, "done")
    BY <1>1, <1>2, <1>3, <2>1, StartsOn
  <2>2. CASE repo.state = "CANCEL_PENDING" /\ Work(c, repo, "waiting")
    <3>1. ~Over(repo) /\ repo # RoutedOrder
      BY <1>4, <2>2 DEF Over, TerminalStates
    <3> QED
      BY <1>1, <1>2, <1>3, <2>2, <3>1, StartsOn
  <2>3. CASE repo.state \in CancellableStates /\ Work(c, Transitioned(repo, "CANCEL_PENDING"), "savePending")
    <3>1. ~Over(repo) /\ repo # RoutedOrder
      BY <1>4, <2>3 DEF Over, TerminalStates, CancellableStates
    <3>2. "CANCEL_PENDING" \in States /\ "CANCEL_PENDING" \notin TerminalStates \cup {"FILLED"}
      BY DEF States, TerminalStates
    <3> QED
      BY <1>1, <1>3, <1>5, <2>3, <3>1, <3>2, StartsOn
  <2> QED
    BY <1>6, <2>1, <2>2, <2>3 DEF BeginCancel
<1>7. CASE BeginReplace(c)
  <2>1. ~Over(repo) /\ repo # RoutedOrder
    BY <1>4, <1>7 DEF BeginReplace, Over, TerminalStates, ReplaceableStates
  <2>2. "REPLACE_PENDING" \in States /\ "REPLACE_PENDING" \notin TerminalStates \cup {"FILLED"}
    BY DEF States, TerminalStates
  <2>3. Work(c, Transitioned(repo, "REPLACE_PENDING"), "savePending")
    BY <1>7 DEF BeginReplace
  <2> QED
    BY <1>1, <1>3, <1>5, <2>1, <2>2, <2>3, StartsOn
<1>8. CASE BeginReconcile(c)
  <2>1. Op[c] = "RECONCILE"
    BY <1>8 DEF BeginReconcile
  <2>2. CASE IsTerminal(repo) /\ Work(c, repo, "done")
    BY <1>1, <1>2, <1>3, <2>2, StartsOn
  <2>3. CASE repo.exId # NoId /\ Work(c, repo, "waiting")
    <3>1. repo # RoutedOrder
      BY <1>4, <2>3
    <3> QED
      BY <1>1, <1>2, <1>3, <2>1, <2>3, <3>1, StartsOn
  <2> QED
    BY <1>8, <2>2, <2>3 DEF BeginReconcile, SubmittedOnce
<1> QED
  BY <1>6, <1>7, <1>8

LEMMA BeginRefusedOn ==
    ASSUME HInv, AInv, NEW c \in Commands, BeginRefused(c)
    PROVE  AInv'
<1> USE DEF HInv, TypeOK, AInv
<1>1. /\ pc' = [pc EXCEPT ![c] = "failed"] /\ UNCHANGED <<repo, working>>
      /\ attempts' = [attempts EXCEPT ![c] = @ + 1]
      /\ \A d \in Commands : ~Active(d)
  BY DEF BeginRefused, Begin, Refuse
<1>2. Op[c] # "SUBMIT"
  BY DEF BeginRefused
<1>3. \A d \in Commands : /\ pc'[d] = pc[d] \/ pc'[d] = "failed"
                          /\ Op[d] = "SUBMIT" => attempts'[d] = attempts[d]
  BY <1>1, <1>2
<1>4. \A d \in Commands : pc'[d] \in Ended
  BY <1>1, <1>3 DEF Active, Ended
<1>5. LeadsOn' /\ Unfinished'
  BY <1>1, <1>4 DEF LeadsOn, Unfinished, Active, RequestPcs, Ended
<1>6. SubmittedFirst'
  BY <1>1, <1>3, <1>4 DEF SubmittedFirst, Active
<1> QED
  BY <1>5, <1>6

\* A save of the only handler at work.
LEMMA SaveOn ==
    ASSUME HInv, AInv, NEW c \in Commands, Save(c) \/ SaveFails(c)
    PROVE  AInv'
<1> USE DEF HInv, TypeOK, AInv
<1>1. /\ pc[c] \in {"savePending", "saveSubmitted", "saveFinal"}
      /\ UNCHANGED <<working, attempts>>
      /\ repo' = repo \/ repo' = working[c]
  BY DEF Save, SaveFails, AfterSave
<1>2. PICK l \in {"emitPending", "emitSubmitted", "emitFinal", "failed"} :
         /\ pc' = [pc EXCEPT ![c] = l]
         /\ l # "failed" => repo' = working[c]
         /\ l \in RequestPcs => pc[c] \in RequestPcs
  BY DEF Save, SaveFails, AfterSave, RequestPcs
<1>3. pc'[c] = l /\ \A d \in Commands : d # c => pc'[d] = pc[d]
  BY <1>2
<1>4. Active(c) /\ \A d \in Commands : Active(d) => d = c
  BY <1>1 DEF Active, Ended, Exclusive
<1>5. LeadsOn'
  <2> SUFFICES ASSUME NEW d \in Commands, Active(d)'
               PROVE  Succeeds(repo', working[d])
    BY <1>1 DEF LeadsOn
  <2>1. d = c /\ l # "failed"
    BY <1>3, <1>4 DEF Active, Ended
  <2> QED
    BY <1>2, <2>1, SucceedsItself
<1>6. Unfinished'
  BY <1>1, <1>2, <1>3 DEF Unfinished
<1>7. SubmittedFirst'
  BY <1>1, <1>4 DEF SubmittedFirst
<1> QED
  BY <1>5, <1>6, <1>7

LEMMA ProceedSucceeds ==
    ASSUME HInv, NEW c \in Commands, NEW o \in LiveOrders, Succeeds(working[c], o),
           Proceed(c, o)
    PROVE  \E p \in LiveOrders, l \in {"emitFill", "failed", "saveFinal", "done"} :
              Work(c, p, l) /\ Succeeds(working[c], p)
<1> DEFINE unseen == seen[c] \ o.fills
           result == ReconcileState(o, reply[c])
<1>1. ASSUME NEW fill \in unseen, CanFill(o, fill)
      PROVE  Filled(o, fill) \in LiveOrders /\ Succeeds(working[c], Filled(o, fill))
  <2>1. fill \in Fills
    BY DEF HInv, TypeOK
  <2> QED
    BY <1>1, <2>1, FilledSucceeds, WorkingIsOrder, SucceedsOn
<1>2. result \in LiveOrders /\ Succeeds(working[c], result)
  BY RepliesNotBeyond, ReconcileSucceeds, WorkingIsOrder, SucceedsOn
<1>3. CASE \E fill \in unseen :
              IF CanFill(o, fill) THEN Work(c, Filled(o, fill), "emitFill")
                                  ELSE Work(c, o, "failed")
  BY <1>1, <1>3
<1>4. CASE Work(c, result, "saveFinal") \/ Work(c, result, "done")
  BY <1>2, <1>4
<1> QED
  BY <1>3, <1>4 DEF Proceed

\* Publications, after which the handler goes on with the same order, the
\* submitter and the reconciler excepted.
LEMMA EmitOn ==
    ASSUME HInv, AInv, NEW c \in Commands,
           \/ EmitPending(c) \/ EmitSubmitted(c) \/ EmitFill(c) \/ EmitFinal(c)
           \/ EmitFails(c)
    PROVE  AInv'
<1>1. Active(c) /\ UNCHANGED <<repo, attempts>> /\ working[c] \in LiveOrders
  BY DEF EmitPending, EmitSubmitted, EmitFill, EmitFinal, EmitFails, Active, Ended,
         HInv, TypeOK
<1>2. Succeeds(working[c], working[c])
  BY <1>1, SucceedsItself
<1>3. {"waiting", "saveFinal", "emitFill", "failed", "done"} \subseteq Pcs
  BY DEF Pcs, Ended
<1>4. \A l \in {"saveFinal", "emitFill", "failed", "done"} : l \notin RequestPcs
  BY DEF RequestPcs
<1>5. ASSUME NEW l, pc' = [pc EXCEPT ![c] = l], UNCHANGED working
      PROVE  Work(c, working[c], l)
  BY <1>5 DEF HInv, TypeOK
<1>6. CASE EmitPending(c)
  <2>1. Work(c, working[c], "waiting") /\ pc[c] = "emitPending"
    BY <1>5, <1>6 DEF EmitPending
  <2>2. Op[c] # "RECONCILE" => ~Over(working[c])
    BY <2>1 DEF AInv, Unfinished, RequestPcs
  <2> QED
    BY <1>1, <1>2, <1>3, <2>1, <2>2, MovesOn
<1>7. CASE EmitSubmitted(c)
  <2>1. CASE Goto(c, "failed") /\ UNCHANGED working
    <3>1. Work(c, working[c], "failed")
      BY <1>5, <2>1
    <3> QED
      BY <1>1, <1>2, <1>3, <1>4, <3>1, MovesOn
  <2>2. CASE Work(c, SubmitOutcome(working[c], reply[c]), "saveFinal")
    <3>1. pc[c] = "emitSubmitted" /\ Op[c] = "SUBMIT" /\ reply[c] \in {"ACCEPTED", "REJECTED", "UNKNOWN"}
      BY <1>7 DEF EmitSubmitted, HInv, RepliesFit, StatusesOf
    <3>2. ~Over(working[c])
      BY <3>1 DEF AInv, Unfinished, RequestPcs
    <3> DEFINE o == SubmitOutcome(working[c], reply[c])
    <3>3. Succeeds(working[c], o) /\ o \in LiveOrders
      <4>1. CASE reply[c] = "ACCEPTED"
        BY <1>1, <3>2, <4>1, AcceptedSucceeds DEF SubmitOutcome
      <4>2. CASE reply[c] = "REJECTED"
        BY <1>1, <3>2, <4>2, DoubtSucceeds DEF SubmitOutcome, States
      <4>3. CASE reply[c] = "UNKNOWN"
        BY <1>1, <3>2, <4>3, DoubtSucceeds DEF SubmitOutcome, Doubted, States
      <4> QED
        BY <3>1, <4>1, <4>2, <4>3
    <3> QED
      BY <1>1, <1>3, <1>4, <2>2, <3>3, MovesOn
  <2> QED
    BY <1>7, <2>1, <2>2 DEF EmitSubmitted
<1>8. CASE EmitFill(c)
  <2>1. PICK p \in LiveOrders, l \in {"emitFill", "failed", "saveFinal", "done"} :
           Work(c, p, l) /\ Succeeds(working[c], p)
    BY <1>1, <1>2, <1>8, ProceedSucceeds DEF EmitFill
  <2> QED
    BY <1>1, <1>3, <1>4, <2>1, MovesOn
<1>9. CASE EmitFinal(c) \/ EmitFails(c)
  <2>1. PICK l \in {"done", "failed"} : Work(c, working[c], l)
    BY <1>5, <1>9 DEF EmitFinal, EmitFails
  <2> QED
    BY <1>1, <1>2, <1>3, <1>4, <2>1, MovesOn
<1> QED
  BY <1>6, <1>7, <1>8, <1>9

\* Answers, and requests of which the handler hears no more.
LEMMA ReceiveOn ==
    ASSUME HInv, AInv, NEW c \in Commands,
           \/ ReceiveSubmit(c) \/ ReceiveAmend(c) \/ ReceiveSnapshot(c)
           \/ ReceiveMissing(c) \/ ReceiveInvalid(c) \/ TransportFails(c)
    PROVE  AInv'
<1>1. /\ pc[c] = "waiting" /\ Active(c) /\ working[c] \in LiveOrders
      /\ UNCHANGED <<repo, attempts>>
  BY DEF ReceiveSubmit, ReceiveAmend, ReceiveSnapshot, ReceiveMissing,
         ReceiveInvalid, Answered, TransportFails, Active, Ended, HInv, TypeOK
<1>2. Succeeds(working[c], working[c])
  BY <1>1, SucceedsItself
<1>3. {"saveSubmitted", "saveFinal", "emitFill", "failed", "done"} \subseteq Pcs
  BY DEF Pcs, Ended
<1>4. \A l \in {"saveFinal", "emitFill", "failed", "done"} : l \notin RequestPcs
  BY DEF RequestPcs
<1>5. Op[c] # "RECONCILE" => ~Over(working[c])
  BY <1>1 DEF AInv, Unfinished, RequestPcs
<1>6. /\ Succeeds(working[c], TransitionIfAllowed(FailureNoted(working[c]), "UNKNOWN"))
      /\ TransitionIfAllowed(FailureNoted(working[c]), "UNKNOWN") \in LiveOrders
  <2>1. "UNKNOWN" \notin Beyond
    BY DEF Beyond
  <2> QED
    BY <1>1, <2>1, FailureSucceeds, IfAllowedSucceeds, SucceedsOn
<1> DEFINE Ends(o, l) == /\ o \in LiveOrders /\ Succeeds(working[c], o) /\ Work(c, o, l)
                         /\ l \in {"saveFinal", "emitFill", "failed", "done"}
<1>7. ASSUME NEW o, NEW l, Ends(o, l) PROVE AInv'
  BY <1>1, <1>3, <1>4, <1>7, MovesOn
<1>8. CASE ReceiveSubmit(c)
  <2>1. Op[c] = "SUBMIT" /\ Work(c, Transitioned(working[c], "SUBMITTED"), "saveSubmitted")
    BY <1>8 DEF ReceiveSubmit
  <2>2. /\ Succeeds(working[c], Transitioned(working[c], "SUBMITTED"))
        /\ Transitioned(working[c], "SUBMITTED") \in LiveOrders
    BY <1>1, <1>5, <2>1, TransitionSucceeds DEF States
  <2>3. ~Over(Transitioned(working[c], "SUBMITTED"))
    BY <1>1 DEF Over, Transitioned, LiveOrders, TerminalStates
  <2> QED
    BY <1>1, <1>3, <2>1, <2>2, <2>3, MovesOn
<1>9. CASE ReceiveAmend(c)
  <2> DEFINE o == AmendOutcome(working[c], reply[c])
  <2>1. ~Over(working[c])
    BY <1>5, <1>9 DEF ReceiveAmend
  <2>2. Succeeds(working[c], o) /\ o \in LiveOrders
    <3>1. CASE reply[c] \in {"CANCELLED", "REPLACED"}
      BY <1>1, <2>1, <3>1, TransitionSucceeds DEF AmendOutcome, States
    <3>2. CASE reply[c] = "PENDING"
      BY <1>1, <1>2, <3>2 DEF AmendOutcome
    <3>3. CASE reply[c] \notin {"CANCELLED", "REPLACED", "PENDING"}
      BY <1>1, <2>1, <3>3, DoubtSucceeds DEF AmendOutcome, Doubted, States
    <3> QED
      BY <3>1, <3>2, <3>3
  <2>3. Ends(o, "saveFinal") \/ Ends(working[c], "failed")
    BY <1>1, <1>2, <1>9, <2>2 DEF ReceiveAmend
  <2> QED
    BY <1>7, <2>3
<1>10. CASE ReceiveSnapshot(c)
  <2>1. PICK p \in LiveOrders : Succeeds(working[c], p) /\ Proceed(c, p)
    <3>1. working[c].state \in AcceptableStates => ~Over(working[c])
      BY DEF AcceptableStates, Over, TerminalStates
    <3> QED
      BY <1>1, <1>2, <1>10, <3>1, AcceptedSucceeds DEF ReceiveSnapshot, ShouldApplyAcceptance
  <2>2. PICK q \in LiveOrders, l \in {"emitFill", "failed", "saveFinal", "done"} :
           Work(c, q, l) /\ Succeeds(working[c], q)
    BY <2>1, ProceedSucceeds
  <2> QED
    BY <1>7, <2>2
<1>11. CASE ReceiveMissing(c) \/ ReceiveInvalid(c)
  <2>1. \/ Ends(TransitionIfAllowed(FailureNoted(working[c]), "UNKNOWN"), "saveFinal")
        \/ Ends(working[c], "failed")
    BY <1>1, <1>2, <1>6, <1>11 DEF ReceiveMissing, ReceiveInvalid
  <2> QED
    BY <1>7, <2>1
<1>12. CASE TransportFails(c)
  <2>1. Op[c] # "RECONCILE" => /\ Succeeds(working[c], Failed(working[c], TRUE))
                               /\ Failed(working[c], TRUE) \in LiveOrders
    BY <1>1, <1>5, FailedSucceeds
  <2>2. \/ Ends(TransitionIfAllowed(FailureNoted(working[c]), "UNKNOWN"), "saveFinal")
        \/ Ends(Failed(working[c], TRUE), "saveFinal")
        \/ Ends(working[c], "failed")
    BY <1>1, <1>2, <1>6, <1>12, <2>1 DEF TransportFails
  <2> QED
    BY <1>7, <2>2
<1> QED
  BY <1>8, <1>9, <1>10, <1>11, <1>12

LEMMA OthersOn ==
    ASSUME HInv, AInv, Exchange \/ Crash \/ UNCHANGED vars
    PROVE  AInv'
<1>1. UNCHANGED <<repo, working, attempts>>
  BY DEF Exchange, ExSubmit, ExCancel, ExReplace, ExAmend, ExFetch, ExFill, ExClose,
         Answer, Crash, vars
<1>2. \A c \in Commands : pc'[c] = pc[c] \/ pc'[c] \in Ended
  <2>1. CASE Crash
    BY <2>1 DEF Crash, Active, Ended
  <2>2. CASE Exchange \/ UNCHANGED vars
    BY <2>2 DEF Exchange, ExSubmit, ExCancel, ExReplace, ExAmend, ExFetch, ExFill, ExClose,
                Answer, vars
  <2> QED
    BY <2>1, <2>2
<1> QED
  BY <1>1, <1>2 DEF AInv, LeadsOn, Unfinished, SubmittedFirst, Active, RequestPcs, Ended

LEMMA AdvanceNext ==
    ASSUME SubmittedOnce
    PROVE  HInv /\ AInv /\ [Next]_vars => (HInv /\ AInv)'
<1> SUFFICES ASSUME HInv, AInv, [Next]_vars PROVE AInv'
  BY NextKeeps
<1>1. ASSUME NEW c \in Commands, Handler(c) PROVE AInv'
  BY <1>1, BeginSubmitOn, BeginOtherOn, BeginRefusedOn, SaveOn, EmitOn, ReceiveOn DEF Handler
<1>2. CASE Exchange \/ Crash \/ UNCHANGED vars
  BY <1>2, OthersOn
<1> QED
  BY <1>1, <1>2 DEF Next

LEMMA AdvanceInit == Init => AInv
<1> SUFFICES ASSUME Init PROVE AInv
  OBVIOUS
<1>1. \A c \in Commands : ~Active(c) /\ pc[c] \notin RequestPcs
  BY DEF Init, Active, Ended, RequestPcs
<1>2. repo = RoutedOrder
  BY DEF Init
<1> QED
  BY <1>1, <1>2 DEF AInv, LeadsOn, Unfinished, SubmittedFirst

\* The only steps that change the repository are saves.
LEMMA StepAdvances ==
    ASSUME HInv, AInv, [Next]_vars
    PROVE  Succeeds(repo, repo')
<1>1. repo \in LiveOrders
  BY DEF HInv, TypeOK
<1>2. UNCHANGED repo => Succeeds(repo, repo')
  BY <1>1, SucceedsItself
<1>3. ASSUME NEW c \in Commands, Save(c) \/ SaveFails(c)
      PROVE  Succeeds(repo, repo')
  <2>1. Active(c) /\ (repo' = repo \/ repo' = working[c])
    BY <1>3 DEF Save, SaveFails, AfterSave, Active, Ended
  <2> QED
    BY <1>1, <2>1, SucceedsItself DEF AInv, LeadsOn
<1>4. ASSUME NEW c \in Commands, Handler(c), ~Save(c), ~SaveFails(c)
      PROVE  UNCHANGED repo
  BY <1>4 DEF Handler, BeginSubmit, BeginCancel, BeginReplace, BeginReconcile, BeginRefused,
              Begin, EmitPending, EmitSubmitted, EmitFill, EmitFinal, EmitFails,
              ReceiveSubmit, ReceiveAmend, ReceiveSnapshot, ReceiveMissing, ReceiveInvalid,
              Answered, TransportFails
<1>5. Exchange \/ Crash \/ UNCHANGED vars => UNCHANGED repo
  BY DEF Exchange, ExSubmit, ExCancel, ExReplace, ExAmend, ExFetch, ExFill, ExClose,
         Answer, Crash, vars
<1> QED
  BY <1>2, <1>3, <1>4, <1>5 DEF Next

\* For an order submitted once, no handler stores an order over a later one: the
\* version grows, fills stay, and what is filled or final keeps its state, for any
\* number of cancellations, replacements, reconciliations, lost answers, failing
\* saves and restarts (order-reconciler.ts:717).
THEOREM RepositoryNeverGoesBack ==
    ASSUME SubmittedOnce
    PROVE  Spec => RepositoryAdvances
<1>1. Init => HInv /\ AInv
  BY InitHolds, AdvanceInit
<1>2. HInv /\ AInv /\ [Next]_vars => (HInv /\ AInv)'
  BY AdvanceNext
<1>3. HInv /\ AInv /\ [Next]_vars =>
         [/\ repo'.version >= repo.version
          /\ repo.version = repo'.version => repo' = repo
          /\ repo.fills \subseteq repo'.fills
          /\ repo.state \in TerminalStates \cup {"FILLED"} =>
                repo'.state = repo.state]_vars
  BY StepAdvances DEF Succeeds, Over
<1> QED
  BY <1>1, <1>2, <1>3, PTL DEF Spec, RepositoryAdvances
-----------------------------------------------------------------------------
(* Orders that validation accepts, in the states the handlers make.        *)

Handled == States \ {"NEW", "VALIDATED", "ROUTING", "SETTLING", "SETTLED"}
Fit(o) == o \in LiveOrders /\ ValidOrder(o) /\ o.state \in Handled

LEMMA FitMoved ==
    ASSUME NEW o \in LiveOrders, ValidOrder(o), NEW s \in Handled \ {"PARTIALLY_FILLED", "FILLED"}
    PROVE  Fit(Transitioned(o, s))
<1>1. /\ Transitioned(o, s) \in LiveOrders /\ Transitioned(o, s).state = s
      /\ Transitioned(o, s).filled = o.filled /\ Transitioned(o, s).qty = o.qty
  BY NextVersion DEF Transitioned, LiveOrders, Handled
<1> QED
  BY <1>1 DEF Fit, ValidOrder, StateQuantityConsistent, Handled

LEMMA FitAllowed ==
    ASSUME NEW o \in LiveOrders, o.state \in Handled, NEW s, s \notin Beyond, CanTransition(o, s)
    PROVE  Fit(Transitioned(o, s))
<1>1. s \in Handled
  BY DEF CanTransition, AllowedTransitions, Handled, States, Beyond, WorkingExits, Resolutions
<1>2. /\ Transitioned(o, s) \in LiveOrders /\ Transitioned(o, s).state = s
      /\ Transitioned(o, s).filled = o.filled /\ Transitioned(o, s).qty = o.qty
  BY <1>1, NextVersion DEF Transitioned, LiveOrders, Handled
<1> QED
  BY <1>1, <1>2 DEF Fit, ValidOrder, CanTransition

LEMMA FitNoted ==
    ASSUME NEW o, Fit(o)
    PROVE  Fit(FailureNoted(o))
<1>1. /\ FailureNoted(o) \in LiveOrders /\ FailureNoted(o).state = o.state
      /\ FailureNoted(o).filled = o.filled /\ FailureNoted(o).qty = o.qty
  BY NextVersion DEF FailureNoted, LiveOrders, Fit
<1> QED
  BY <1>1 DEF Fit, ValidOrder

LEMMA FitAccepted ==
    ASSUME NEW o, Fit(o)
    PROVE  Fit(Accepted(o, ExId))
<1> DEFINE copy == [o EXCEPT !.exId = ExId, !.version = @ + 1]
<1>1. /\ copy \in LiveOrders /\ copy.state = o.state
      /\ copy.filled = o.filled /\ copy.qty = o.qty
  BY NextVersion, HandlersAssumption DEF LiveOrders, Fit
<1>2. ValidOrder(copy)
  BY <1>1 DEF Fit, ValidOrder
<1>3. "ACCEPTED" \in Handled \ {"PARTIALLY_FILLED", "FILLED"}
  BY DEF Handled, States
<1>4. Fit(Transitioned(copy, "ACCEPTED"))
  BY <1>1, <1>2, <1>3, FitMoved
<1> QED
  BY <1>4 DEF Accepted

LEMMA FitFilled ==
    ASSUME NEW o, Fit(o), NEW f \in Fills, CanFill(o, f)
    PROVE  Fit(Filled(o, f))
<1> DEFINE copy == WithFill(o, f)
<1>1. FillQty[f] \in Nat /\ o.filled \in Nat
  BY OrderAssumption DEF LiveOrders, Fit
<1>2. o.filled + FillQty[f] \in Nat /\ o.fills \cup {f} \in SUBSET Fills
  BY <1>1 DEF LiveOrders, Fit
<1>3. copy \in LiveOrders /\ copy.state = o.state
  BY <1>2, NextVersion DEF WithFill, LiveOrders, Fit
<1>4. StateAfterFill(o, f) \notin Beyond
  BY DEF StateAfterFill, Beyond
<1>5. CanTransition(copy, StateAfterFill(o, f))
  BY DEF CanFill
<1>6. Fit(Transitioned(copy, StateAfterFill(o, f)))
  BY <1>3, <1>4, <1>5, FitAllowed DEF Fit
<1> QED
  BY <1>6 DEF Filled

LEMMA FitIfAllowed ==
    ASSUME NEW o, Fit(o), NEW s, s \notin Beyond
    PROVE  Fit(TransitionIfAllowed(o, s))
<1>1. "UNKNOWN" \notin Beyond
  BY DEF Beyond
<1> QED
  BY <1>1, FitAllowed DEF TransitionIfAllowed, Fit

LEMMA FitReconciled ==
    ASSUME NEW o, Fit(o), NEW s, s \notin Beyond
    PROVE  Fit(ReconcileState(o, s))
<1>1. "UNKNOWN" \notin Beyond
  BY DEF Beyond
<1> QED
  BY <1>1, FitIfAllowed DEF ReconcileState

LEMMA FitDoubted ==
    ASSUME NEW o, Fit(o), NEW s \in Handled \ {"PARTIALLY_FILLED", "FILLED"}
    PROVE  Fit(Transitioned(FailureNoted(o), s)) /\ Fit(Transitioned(o, s))
<1>1. Fit(FailureNoted(o))
  BY FitNoted
<1> QED
  BY <1>1, FitMoved DEF Fit

LEMMA FitRouted == Fit(RoutedOrder)
<1>1. RoutedOrder.state = "ROUTED" /\ RoutedOrder.filled = 0 /\ RoutedOrder.qty = Qty
  BY RoutedIsOrder DEF RoutedOrder, NewOrder
<1> QED
  BY <1>1, RoutedIsOrder, OrderAssumption
     DEF Fit, ValidOrder, StateQuantityConsistent, Handled, States

\* Every order the program holds is one of these.
AllFit == Fit(repo) /\ \A c \in Commands : Fit(working[c])

LEMMA WorkFits ==
    ASSUME HInv, AllFit, NEW c \in Commands, NEW o, NEW l, Fit(o), Work(c, o, l), UNCHANGED repo
    PROVE  AllFit'
<1>1. \A d \in Commands : working'[d] = working[d] \/ working'[d] = o
  BY DEF HInv, TypeOK
<1> QED
  BY <1>1 DEF AllFit

LEMMA ProceedFits ==
    ASSUME HInv, AllFit, NEW c \in Commands, NEW o, Fit(o), Proceed(c, o), UNCHANGED repo
    PROVE  AllFit'
<1> HIDE DEF Work
<1>1. ASSUME NEW fill \in seen[c] \ o.fills, CanFill(o, fill)
      PROVE  Fit(Filled(o, fill))
  <2>1. fill \in Fills
    BY DEF HInv, TypeOK
  <2> QED
    BY <1>1, <2>1, FitFilled
<1>2. Fit(ReconcileState(o, reply[c]))
  BY RepliesNotBeyond, FitReconciled
<1>3. PICK p, l : Work(c, p, l) /\ Fit(p)
  BY <1>1, <1>2 DEF Proceed
<1> QED
  BY <1>3, WorkFits

LEMMA HandlerFits ==
    ASSUME HInv, AllFit, NEW c \in Commands, Handler(c)
    PROVE  AllFit'
<1> HIDE DEF Work
<1>1. Fit(repo) /\ Fit(working[c])
  BY DEF AllFit
<1>2. {"SUBMITTING", "SUBMITTED", "CANCEL_PENDING", "REPLACE_PENDING", "CANCELLED", "REPLACED",
       "REJECTED", "UNKNOWN", "FAILED"} \subseteq Handled \ {"PARTIALLY_FILLED", "FILLED"}
  BY DEF Handled, States
<1>3. Fit(TransitionIfAllowed(FailureNoted(working[c]), "UNKNOWN"))
  BY <1>1, FitNoted, FitIfAllowed DEF Beyond
<1>4. CASE BeginSubmit(c)
  <2>1. Fit(Transitioned(RoutedOrder, "SUBMITTING"))
    BY <1>2, FitRouted, FitDoubted
  <2> QED
    BY <1>4, <2>1, WorkFits DEF BeginSubmit, Begin
<1>5. CASE BeginCancel(c) \/ BeginReplace(c) \/ BeginReconcile(c)
  <2>1. Fit(Transitioned(repo, "CANCEL_PENDING")) /\ Fit(Transitioned(repo, "REPLACE_PENDING"))
    BY <1>1, <1>2, FitDoubted
  <2>2. PICK o, l : Work(c, o, l) /\ Fit(o)
    BY <1>1, <1>5, <2>1 DEF BeginCancel, BeginReplace, BeginReconcile
  <2> QED
    BY <1>5, <2>2, WorkFits DEF BeginCancel, BeginReplace, BeginReconcile, Begin
<1>6. CASE \/ BeginRefused(c) \/ Save(c) \/ SaveFails(c) \/ EmitPending(c) \/ EmitFinal(c)
           \/ EmitFails(c)
  <2>1. UNCHANGED working /\ (repo' = repo \/ repo' = working[c])
    BY <1>6 DEF BeginRefused, Begin, Refuse, Save, SaveFails, EmitPending, EmitFinal, EmitFails
  <2> QED
    BY <2>1 DEF AllFit
<1>7. CASE EmitSubmitted(c)
  <2>1. pc[c] = "emitSubmitted"
    BY <1>7 DEF EmitSubmitted
  <2>2. reply[c] \in {"ACCEPTED", "REJECTED", "UNKNOWN"}
    BY <2>1 DEF HInv, RepliesFit, StatusesOf
  <2>3. Fit(SubmitOutcome(working[c], reply[c]))
    BY <1>1, <1>2, <2>2, FitAccepted, FitDoubted DEF SubmitOutcome, Doubted
  <2>4. CASE UNCHANGED <<working, repo>>
    BY <2>4 DEF AllFit
  <2> QED
    BY <1>7, <2>3, <2>4, WorkFits DEF EmitSubmitted
<1>8. CASE EmitFill(c)
  BY <1>1, <1>8, ProceedFits DEF EmitFill
<1>9. CASE ReceiveSubmit(c) \/ ReceiveMissing(c) \/ ReceiveInvalid(c)
  <2>1. Fit(Transitioned(working[c], "SUBMITTED"))
    BY <1>1, <1>2, FitDoubted
  <2> QED
    BY <1>1, <1>3, <1>9, <2>1, WorkFits DEF ReceiveSubmit, ReceiveMissing, ReceiveInvalid, Answered
<1>10. CASE ReceiveAmend(c)
  <2>1. Fit(AmendOutcome(working[c], reply[c]))
    <3>1. CASE reply[c] \in {"CANCELLED", "REPLACED"}
      BY <1>1, <1>2, <3>1, FitDoubted DEF AmendOutcome
    <3>2. CASE reply[c] = "PENDING"
      BY <1>1, <3>2 DEF AmendOutcome
    <3>3. CASE reply[c] \notin {"CANCELLED", "REPLACED", "PENDING"}
      BY <1>1, <1>2, <3>3, FitDoubted DEF AmendOutcome, Doubted
    <3> QED
      BY <3>1, <3>2, <3>3
  <2> QED
    BY <1>1, <1>10, <2>1, WorkFits DEF ReceiveAmend, Answered
<1>11. CASE ReceiveSnapshot(c)
  <2>1. PICK o : Fit(o) /\ Proceed(c, o)
    BY <1>1, <1>11, FitAccepted DEF ReceiveSnapshot
  <2> QED
    BY <1>11, <2>1, ProceedFits DEF ReceiveSnapshot, Answered
<1>12. CASE TransportFails(c)
  <2>1. Fit(Failed(working[c], TRUE))
    BY <1>1, <1>2, FitNoted, FitDoubted DEF Failed
  <2> QED
    BY <1>1, <1>3, <1>12, <2>1, WorkFits DEF TransportFails
<1> QED
  BY <1>4, <1>5, <1>6, <1>7, <1>8, <1>9, <1>10, <1>11, <1>12 DEF Handler

LEMMA FitNext == HInv /\ AllFit /\ [Next]_vars => (HInv /\ AllFit)'
<1> SUFFICES ASSUME HInv, AllFit, [Next]_vars PROVE AllFit'
  BY NextKeeps
<1>1. ASSUME NEW c \in Commands, Handler(c) PROVE AllFit'
  BY <1>1, HandlerFits
<1>2. CASE Exchange \/ Crash \/ UNCHANGED vars
  <2>1. UNCHANGED <<repo, working>>
    BY <1>2 DEF Exchange, ExSubmit, ExCancel, ExReplace, ExAmend, ExFetch, ExFill, ExClose,
                Answer, Crash, vars
  <2> QED
    BY <2>1 DEF AllFit
<1> QED
  BY <1>1, <1>2 DEF Next

-----------------------------------------------------------------------------
(* A snapshot that gets through settles the order: what the reconciler has *)
(* when it reads a snapshot is what the repository has, and no snapshot of *)
(* an order that was rejected has fills.                                   *)

Endings == {"CANCELLED", "REJECTED", "EXPIRED"}

SnapshotOf(c) ==
    /\ pc[c] = "emitFill" => /\ Op[c] = "RECONCILE" /\ wire[c] = "none" /\ reply[c] # "REJECTED"
                             /\ working[c].state \in {"PARTIALLY_FILLED", "FILLED"}
    /\ Op[c] = "RECONCILE" =>
          /\ pc[c] \notin {"savePending", "emitPending"}
          /\ pc[c] = "waiting" => working[c] = repo /\ ~IsTerminal(repo)
          /\ reply[c] \in Endings => ex.status # "none"
          /\ reply[c] = "REJECTED" => seen[c] = {}

SettleInv ==
    /\ ex.status \in {"none", "rejected"} => ex.log = <<>>
    /\ \A c \in Commands : SnapshotOf(c)

\* A handler leaves the others alone: it is the only one that can save.
LEMMA HandlerAlone ==
    ASSUME HInv, NEW c \in Commands, Handler(c)
    PROVE  /\ UNCHANGED ex
           /\ \A d \in Commands \ {c} :
                 /\ pc'[d] = pc[d] /\ working'[d] = working[d] /\ wire'[d] = wire[d]
                 /\ reply'[d] = reply[d] /\ seen'[d] = seen[d]
                 /\ Active(d) => repo' = repo
<1> USE DEF HInv, TypeOK
<1>1. CASE BeginSubmit(c) \/ BeginCancel(c) \/ BeginReplace(c) \/ BeginReconcile(c) \/ BeginRefused(c)
  BY <1>1 DEF BeginSubmit, BeginCancel, BeginReplace, BeginReconcile, BeginRefused, Begin, Send, Refuse
<1>2. CASE Save(c) \/ SaveFails(c)
  <2>1. Active(c)
    BY <1>2 DEF Save, SaveFails, AfterSave, Active, Ended
  <2> QED
    BY <1>2, <2>1 DEF Save, SaveFails, Exclusive
<1>3. CASE EmitPending(c) \/ EmitSubmitted(c) \/ EmitFinal(c) \/ EmitFails(c)
  BY <1>3 DEF EmitPending, EmitSubmitted, EmitFinal, EmitFails, Send
<1>4. CASE EmitFill(c)
  BY <1>4 DEF EmitFill, Proceed
<1>5. CASE ReceiveSubmit(c) \/ ReceiveAmend(c) \/ ReceiveMissing(c) \/ ReceiveInvalid(c)
  BY <1>5 DEF ReceiveSubmit, ReceiveAmend, ReceiveMissing, ReceiveInvalid, Answered
<1>6. CASE ReceiveSnapshot(c)
  BY <1>6 DEF ReceiveSnapshot, Answered, Proceed
<1>7. CASE TransportFails(c)
  BY <1>7 DEF TransportFails
<1> QED
  BY <1>1, <1>2, <1>3, <1>4, <1>5, <1>6, <1>7 DEF Handler

\* A step of the loop over the fills.
LEMMA ProceedEnds ==
    ASSUME HInv, NEW c \in Commands, NEW o, Fit(o), Proceed(c, o)
    PROVE  /\ pc'[c] \in {"emitFill", "failed", "saveFinal", "done"}
           /\ pc'[c] = "emitFill" =>
                 seen[c] # {} /\ working'[c].state \in {"PARTIALLY_FILLED", "FILLED"}
           /\ pc'[c] \in {"saveFinal", "done"} => working'[c] = ReconcileState(o, reply[c])
<1> USE DEF HInv, TypeOK
<1>1. CASE \E fill \in seen[c] \ o.fills :
              IF CanFill(o, fill) THEN Work(c, Filled(o, fill), "emitFill") ELSE Work(c, o, "failed")
  <2>1. PICK fill \in seen[c] \ o.fills :
              IF CanFill(o, fill) THEN Work(c, Filled(o, fill), "emitFill") ELSE Work(c, o, "failed")
    BY <1>1
  <2>2. Filled(o, fill).state \in {"PARTIALLY_FILLED", "FILLED"}
    BY DEF Filled, Transitioned, WithFill, StateAfterFill, Fit, LiveOrders
  <2> QED
    BY <2>1, <2>2
<1>2. CASE Work(c, ReconcileState(o, reply[c]), "saveFinal") \/ Work(c, ReconcileState(o, reply[c]), "done")
  BY <1>2
<1> QED
  BY <1>1, <1>2 DEF Proceed

LEMMA HandlerSettles ==
    ASSUME HInv, AllFit, SettleInv, NEW c \in Commands, Handler(c)
    PROVE  SettleInv'
<1>1. \A d \in Commands \ {c} : SnapshotOf(d)'
  BY HandlerAlone DEF SettleInv, SnapshotOf, Active, Ended
<1>2. SnapshotOf(c)'
  <2> USE DEF HInv, TypeOK, SnapshotOf
  <2>0. SnapshotOf(c)
    BY DEF SettleInv
  <2>1. CASE BeginSubmit(c) \/ BeginCancel(c) \/ BeginReplace(c)
    BY <2>0, <2>1 DEF BeginSubmit, BeginCancel, BeginReplace, Begin, Send
  <2>2. CASE BeginReconcile(c)
    <3>1. UNCHANGED <<repo, ex>>
      BY <2>2 DEF BeginReconcile, Begin
    <3>2. CASE pc'[c] = "done" /\ UNCHANGED netVars
      BY <2>0, <3>1, <3>2
    <3>3. CASE pc'[c] = "waiting" /\ working'[c] = repo /\ ~IsTerminal(repo) /\ reply'[c] = "none"
      BY <3>1, <3>3 DEF Endings, IsTerminal
    <3> QED
      BY <2>2, <3>2, <3>3 DEF BeginReconcile, Send
  <2>3. CASE BeginRefused(c)
    BY <2>0, <2>3 DEF BeginRefused, Begin, Refuse
  <2>4. CASE Save(c) \/ SaveFails(c)
    BY <2>0, <2>4 DEF Save, SaveFails, AfterSave
  <2>5. CASE EmitPending(c)
    BY <2>0, <2>5 DEF EmitPending, Send
  <2>6. CASE EmitSubmitted(c) \/ EmitFinal(c) \/ EmitFails(c)
    BY <2>0, <2>6 DEF EmitSubmitted, EmitFinal, EmitFails
  <2>7. CASE EmitFill(c)
    <3>1. pc'[c] \in {"emitFill", "failed", "saveFinal", "done"}
          /\ (pc'[c] = "emitFill" => working'[c].state \in {"PARTIALLY_FILLED", "FILLED"})
      BY <2>7, ProceedEnds DEF EmitFill, AllFit
    <3> QED
      BY <2>0, <2>7, <3>1 DEF EmitFill
  <2>8. CASE ReceiveSubmit(c) \/ ReceiveAmend(c) \/ ReceiveMissing(c) \/ ReceiveInvalid(c)
    BY <2>0, <2>8 DEF ReceiveSubmit, ReceiveAmend, ReceiveMissing, ReceiveInvalid, Answered
  <2>9. CASE ReceiveSnapshot(c)
    <3>1. PICK o : Fit(o) /\ Proceed(c, o)
      <4>1. Fit(working[c]) /\ ExId \in ExIds
        BY HandlersAssumption DEF AllFit
      <4>2. ShouldApplyAcceptance(working[c], reply[c]) => Fit(Accepted(working[c], ExId))
        BY <4>1, FitAccepted DEF ShouldApplyAcceptance, AcceptableStates
      <4> QED
        BY <2>9, <4>1, <4>2 DEF ReceiveSnapshot
    <3>2. /\ pc'[c] \in {"emitFill", "failed", "saveFinal", "done"}
          /\ pc'[c] = "emitFill" => seen[c] # {} /\ working'[c].state \in {"PARTIALLY_FILLED", "FILLED"}
      BY <3>1, ProceedEnds
    <3>3. Op[c] = "RECONCILE" /\ wire'[c] = "none" /\ UNCHANGED <<repo, ex, reply, seen>>
      BY <2>9 DEF ReceiveSnapshot, Answered
    <3> QED
      BY <2>0, <3>2, <3>3
  <2>10. CASE TransportFails(c)
    BY <2>0, <2>10 DEF TransportFails
  <2> QED
    BY <2>1, <2>2, <2>3, <2>4, <2>5, <2>6, <2>7, <2>8, <2>9, <2>10 DEF Handler
<1> QED
  BY <1>1, <1>2, HandlerAlone DEF SettleInv

\* The exchange and the restart leave the handlers' orders alone.
LEMMA ExchangeSettles ==
    ASSUME HInv, SettleInv, Exchange
    PROVE  SettleInv'
<1> USE DEF HInv, TypeOK
<1>0. UNCHANGED <<repo, pc, working>>
  BY DEF Exchange, ExSubmit, ExCancel, ExReplace, ExAmend, ExFetch, ExFill, ExClose, Answer
<1>1. ASSUME NEW c \in Commands, ExSubmit(c) PROVE SettleInv'
  <2>1. ex'.status \in {"none", "rejected"} => ex'.log = <<>>
    BY <1>1 DEF ExSubmit, Becomes, SettleInv
  <2>2. ex.status # "none" => ex'.status # "none"
    BY <1>1 DEF ExSubmit
  <2>3. PICK s : Answer(c, "SUBMIT", s)
    BY <1>1 DEF ExSubmit
  <2>4. UNCHANGED seen /\ Op[c] = "SUBMIT" /\ pc[c] # "emitFill"
    BY <1>1, <2>3 DEF ExSubmit, Answer, SettleInv, SnapshotOf
  <2>5. \A d \in Commands \ {c} : wire'[d] = wire[d] /\ reply'[d] = reply[d]
    BY <2>3 DEF Answer
  <2> QED
    BY <1>0, <2>1, <2>2, <2>4, <2>5 DEF SettleInv, SnapshotOf
<1>2. ASSUME NEW c \in Commands, ExCancel(c) \/ ExReplace(c) PROVE SettleInv'
  <2>1. PICK op, s : op \in {"CANCEL", "REPLACE"} /\ Answer(c, op, s)
    BY <1>2 DEF ExCancel, ExReplace, ExAmend
  <2>2. UNCHANGED ex \/ \E t \in {"cancelling", "cancelled", "replacing", "replaced"} : Becomes(t)
    BY <1>2 DEF ExCancel, ExReplace, ExAmend
  <2>3. /\ ex'.status \in {"none", "rejected"} => ex'.log = <<>>
        /\ ex.status # "none" => ex'.status # "none"
    BY <2>2 DEF Becomes, SettleInv
  <2>4. UNCHANGED seen /\ Op[c] # "RECONCILE" /\ pc[c] # "emitFill"
    BY <1>2, <2>1 DEF ExCancel, ExReplace, ExAmend, Answer, SettleInv, SnapshotOf
  <2>5. \A d \in Commands \ {c} : wire'[d] = wire[d] /\ reply'[d] = reply[d]
    BY <2>1 DEF Answer
  <2> QED
    BY <1>0, <2>3, <2>4, <2>5 DEF SettleInv, SnapshotOf
<1>3. ASSUME NEW c \in Commands, ExFetch(c) PROVE SettleInv'
  <2>1. UNCHANGED ex
    BY <1>3 DEF ExFetch
  <2>2. PICK s : /\ Answer(c, "RECONCILE", s)
                 /\ \/ s = "MISSING" /\ UNCHANGED seen
                    \/ /\ ex.status # "none" /\ s \in SnapshotStates[ex.status]
                       /\ \E listed \in SUBSET Executed : seen' = [seen EXCEPT ![c] = listed]
    BY <1>3, Zenon DEF ExFetch
  <2>3. \A d \in Commands \ {c} : wire'[d] = wire[d] /\ reply'[d] = reply[d] /\ seen'[d] = seen[d]
    BY <2>2 DEF Answer
  <2>4. Op[c] = "RECONCILE" /\ reply'[c] = s /\ wire[c] = "sent"
    BY <2>2 DEF Answer
  <2>5. s \in Endings => ex.status # "none"
    BY <2>2 DEF Endings
  <2>6. s = "REJECTED" => seen'[c] = {}
    <3> SUFFICES ASSUME s = "REJECTED" PROVE seen'[c] = {}
      OBVIOUS
    <3>1. ex.status \in LiveStatuses \cup DeadStatuses /\ "REJECTED" \in SnapshotStates[ex.status]
      BY <2>2
    <3>2. ex.status = "rejected"
      <4>1. ex.status \notin LiveStatuses
        <5>1. ex.status # "open"
          <6>1. SnapshotStates["open"] \subseteq {"ACCEPTED", "UNKNOWN", "PARTIALLY_FILLED"}
            BY DEF SnapshotStates
          <6>2. "REJECTED" \notin SnapshotStates["open"]
            BY <6>1
          <6> QED
            BY <3>1, <6>2
        <5>2. ex.status # "cancelling"
          BY <3>1 DEF SnapshotStates
        <5>3. ex.status # "replacing"
          BY <3>1 DEF SnapshotStates
        <5> QED
          BY <5>1, <5>2, <5>3 DEF LiveStatuses
      <4>2. ex.status \in {"filled", "cancelled", "replaced", "rejected", "expired"}
        BY <3>1, <4>1 DEF DeadStatuses
      <4>3. ex.status # "filled" /\ ex.status # "cancelled"
        BY <3>1 DEF SnapshotStates
      <4>4. ex.status # "replaced" /\ ex.status # "expired"
        BY <3>1 DEF SnapshotStates
      <4> QED
        BY <4>2, <4>3, <4>4
    <3>3. Executed = {}
      BY <3>2 DEF Executed, SettleInv
    <3> QED
      BY <2>2, <3>3
  <2>7. pc[c] # "emitFill"
    BY <2>4 DEF SettleInv, SnapshotOf
  <2>8. SnapshotOf(c)'
    BY <1>0, <2>1, <2>4, <2>5, <2>6, <2>7 DEF SettleInv, SnapshotOf
  <2> QED
    BY <1>0, <2>1, <2>3, <2>8 DEF SettleInv, SnapshotOf
<1>4. ASSUME NEW fill \in Fills, ExFill(fill) PROVE SettleInv'
  <2>1. ex'.status \notin {"none", "rejected"} /\ UNCHANGED netVars
    BY <1>4 DEF ExFill, LiveStatuses
  <2> QED
    BY <1>0, <2>1 DEF SettleInv, SnapshotOf
<1>5. CASE ExClose
  <2>1. ex'.status \notin {"none", "rejected"} /\ UNCHANGED netVars
    BY <1>5 DEF ExClose, Becomes
  <2> QED
    BY <1>0, <2>1 DEF SettleInv, SnapshotOf
<1> QED
  BY <1>1, <1>2, <1>3, <1>4, <1>5 DEF Exchange

LEMMA SettleNext == HInv /\ AllFit /\ SettleInv /\ [Next]_vars => (HInv /\ AllFit /\ SettleInv)'
<1> SUFFICES ASSUME HInv, AllFit, SettleInv, [Next]_vars PROVE SettleInv'
  BY FitNext
<1>1. CASE Crash
  <2>1. /\ UNCHANGED <<repo, working, reply, seen, ex>>
        /\ \A c \in Commands : pc'[c] \notin {"emitFill", "savePending", "emitPending", "waiting"}
    BY <1>1 DEF Crash, Active, Ended
  <2> QED
    BY <2>1 DEF SettleInv, SnapshotOf
<1>2. CASE UNCHANGED vars
  BY <1>2 DEF vars, SettleInv, SnapshotOf
<1> QED
  BY <1>1, <1>2, HandlerSettles, ExchangeSettles DEF Next

\* An order that is not final goes to the end a snapshot shows, or to UNKNOWN if
\* it was not there yet.
LEMMA SnapshotSettles ==
    ASSUME NEW o, Fit(o), o.state # "ROUTED", ~IsTerminal(o), NEW s \in Endings
    PROVE  \/ ReconcileState(o, s).state \in {s, "FILLED"}
           \/ ReconcileState(o, s).state = "UNKNOWN" /\ o.state # "UNKNOWN"
<1>1. CASE o.state = "FILLED"
  BY <1>1 DEF ReconcileState
<1>2. CASE o.state # "FILLED"
  <2>1. o.state \in {"SUBMITTING", "SUBMITTED", "ACCEPTED", "PARTIALLY_FILLED", "CANCEL_PENDING",
                     "REPLACE_PENDING", "RECOVERING", "UNKNOWN"}
    BY <1>2 DEF Fit, Handled, States, IsTerminal, TerminalStates
  <2>2. o.state # s
    BY <2>1 DEF Endings
  <2>3. o.state = "UNKNOWN" => s \in AllowedTransitions[o.state]
    BY DEF AllowedTransitions, Resolutions, Endings
  <2>4. o.state # "UNKNOWN" => "UNKNOWN" \in AllowedTransitions[o.state]
    BY <2>1 DEF AllowedTransitions, WorkingExits, Resolutions
  <2>5. \A t \in {s, "UNKNOWN"} : t # o.state /\ t \in AllowedTransitions[o.state] => CanTransition(o, t)
    BY DEF CanTransition, Fit, StateQuantityConsistent, ValidOrder, Endings
  <2>6. \/ ReconcileState(o, s) = Transitioned(o, s)
        \/ ReconcileState(o, s) = Transitioned(o, "UNKNOWN") /\ o.state # "UNKNOWN"
    BY <1>2, <2>1, <2>2, <2>3, <2>4, <2>5 DEF ReconcileState, TransitionIfAllowed, Endings
  <2>7. Transitioned(o, s).state = s /\ Transitioned(o, "UNKNOWN").state = "UNKNOWN"
    BY DEF Transitioned, Fit, LiveOrders
  <2> QED
    BY <2>6, <2>7
<1> QED
  BY <1>1, <1>2

\* ... and an order with fills goes there at once, if the end is not a rejection.
LEMMA FilledSettles ==
    ASSUME NEW o, Fit(o), o.state \in {"PARTIALLY_FILLED", "FILLED"}, NEW s \in Endings \ {"REJECTED"}
    PROVE  ReconcileState(o, s).state \in {s, "FILLED"}
<1>1. CASE o.state = "FILLED"
  BY <1>1 DEF ReconcileState
<1>2. CASE o.state = "PARTIALLY_FILLED"
  <2>1. CanTransition(o, s)
    BY <1>2 DEF CanTransition, AllowedTransitions, WorkingExits, Fit, StateQuantityConsistent, ValidOrder, Endings
  <2>2. ReconcileState(o, s) = Transitioned(o, s)
    BY <1>2, <2>1 DEF ReconcileState, TransitionIfAllowed, Endings
  <2> QED
    BY <2>2 DEF Transitioned, Fit, LiveOrders
<1> QED
  BY <1>1, <1>2

LEMMA GettingThroughSettles ==
    ASSUME HInv, AllFit, SettleInv, NEW c \in Commands, GetsThrough(c), reply[c] \in Endings
    PROVE  Settles(c)'
<1>1. UNCHANGED <<repo, reply>>
  BY DEF GetsThrough, ReceiveSnapshot, Answered, EmitFill
<1>2. Fit(working[c]) /\ SnapshotOf(c)
  BY DEF AllFit, SettleInv
<1>3. CASE ReceiveSnapshot(c)
  <2>1. Proceed(c, working[c])
    BY <1>3 DEF ReceiveSnapshot, ShouldApplyAcceptance, Endings
  <2>2. working'[c] = ReconcileState(working[c], reply[c])
    BY <1>2, <2>1, ProceedEnds DEF GetsThrough
  <2>3. working[c] = repo /\ ~IsTerminal(repo) /\ ex.status # "none"
    BY <1>2, <1>3 DEF SnapshotOf, ReceiveSnapshot, Answered
  <2>4. repo.state # "ROUTED"
    BY <2>3 DEF HInv, WriteAhead
  <2>5. \/ ReconcileState(repo, reply[c]).state \in {reply[c], "FILLED"}
        \/ ReconcileState(repo, reply[c]).state = "UNKNOWN" /\ repo.state # "UNKNOWN"
    BY <1>2, <2>3, <2>4, SnapshotSettles
  <2> QED
    BY <1>1, <2>2, <2>3, <2>5 DEF Settles
<1>4. CASE EmitFill(c)
  <2>1. Proceed(c, working[c]) /\ pc[c] = "emitFill"
    BY <1>4 DEF EmitFill
  <2>2. working'[c] = ReconcileState(working[c], reply[c])
    BY <1>2, <2>1, ProceedEnds DEF GetsThrough
  <2>3. ReconcileState(working[c], reply[c]).state \in {reply[c], "FILLED"}
    BY <1>2, <2>1, FilledSettles DEF SnapshotOf
  <2> QED
    BY <1>1, <2>2, <2>3 DEF Settles
<1> QED
  BY <1>3, <1>4 DEF GetsThrough

\* A reconciliation that gets through with the snapshot of an order that was
\* cancelled, rejected or has expired takes it to that end from UNKNOWN, and to
\* that end or to UNKNOWN from any other state that retries, refusals, lost
\* answers and restarts can leave it in (order-reconciler.ts:790).
THEOREM SnapshotsSettle == Spec => ReconciliationSettles
<1>1. Init => HInv /\ AllFit /\ SettleInv
  <2>1. Init => SettleInv
    BY DEF Init, SettleInv, SnapshotOf, Endings
  <2> QED
    BY <2>1, InitHolds, FitRouted DEF Init, AllFit
<1>2. HInv /\ AllFit /\ SettleInv /\ [Next]_vars =>
        [\A c \in Commands :
            GetsThrough(c) /\ reply[c] \in {"CANCELLED", "REJECTED", "EXPIRED"} => Settles(c)']_vars
  BY GettingThroughSettles DEF Endings
<1> QED
  BY <1>1, <1>2, SettleNext, PTL DEF Spec, ReconciliationSettles

-----------------------------------------------------------------------------
(* What is final is the truth.  Orders claim no execution the exchange has *)
(* not reported, and no end of the order that it has not come to.          *)

\* The ends that are not reached by filling the order.
Closings == {"CANCELLED", "REPLACED", "EXPIRED"} \cup (IF OneSubmission THEN {"REJECTED"} ELSE {})

\* What order o claims is so at the exchange, when that is x.
ExecutedAt(x) == {x.log[i] : i \in 1 .. Len(x.log)}
Truthful(o, x) ==
    /\ o.qty = Qty /\ o.fills \subseteq ExecutedAt(x) /\ o.filled = SumOver(FillQty, o.fills)
    /\ o.state \in Closings => x.status \in DeadStatuses
AllTruthful == Truthful(repo, ex) /\ \A c \in Commands : Truthful(working[c], ex)

\* The answers are, whenever they are read.
RepliesTrue ==
    \A c \in Commands :
        /\ seen[c] \subseteq ExecutedAt(ex)
        /\ reply[c] \in Closings /\ ~(reply[c] = "REJECTED" /\ Op[c] \in {"CANCEL", "REPLACE"})
              => ex.status \in DeadStatuses
Ledger == /\ ex.filled = SumOver(FillQty, ExecutedAt(ex))
          /\ ex.filled = Qty => ex.status \in DeadStatuses

\* The one submission arrives when the exchange does not have the order.
OnceSubmitted ==
    OneSubmission => \A c \in Commands : Op[c] = "SUBMIT" =>
        /\ wire[c] # "none" \/ pc[c] # "idle" \/ ex.status # "none" => attempts[c] # 0
        /\ pc[c] \in {"savePending", "emitPending"} => wire[c] = "none" /\ ex.status = "none"
        /\ wire[c] = "sent" => ex.status = "none"

\* Fills come from snapshots.
FillsReconciled == \A c \in Commands : pc[c] = "emitFill" => Op[c] = "RECONCILE"

TInv == AllTruthful /\ RepliesTrue /\ Ledger /\ OnceSubmitted /\ FillsReconciled

-----------------------------------------------------------------------------
(* The orders the handlers make.                                           *)

LEMMA LogIsFinite ==
    ASSUME NEW x, x.log \in Seq(Fills)
    PROVE  IsFiniteSet(ExecutedAt(x)) /\ ExecutedAt(x) \subseteq Fills
<1>1. Len(x.log) \in Nat /\ \A i \in 1 .. Len(x.log) : x.log[i] \in Fills
  BY LenProperties
<1> DEFINE f == [i \in 1 .. Len(x.log) |-> x.log[i]]
<1>2. IsFiniteSet(1 .. Len(x.log))
  BY <1>1, FS_Interval
<1>3. f \in Surjection(1 .. Len(x.log), ExecutedAt(x))
  BY DEF Surjection, ExecutedAt
<1>4. IsFiniteSet(ExecutedAt(x))
  BY <1>2, <1>3, FS_Surjection
<1> QED
  BY <1>1, <1>4 DEF ExecutedAt

LEMMA TruthfulMoved ==
    ASSUME NEW o \in LiveOrders, NEW x, Truthful(o, x), NEW s,
           s \in Closings => x.status \in DeadStatuses
    PROVE  Truthful(Transitioned(o, s), x)
<1>1. /\ Transitioned(o, s).state = s /\ Transitioned(o, s).qty = o.qty
      /\ Transitioned(o, s).fills = o.fills /\ Transitioned(o, s).filled = o.filled
  BY DEF Transitioned, LiveOrders
<1> QED
  BY <1>1 DEF Truthful

LEMMA TruthfulNoted ==
    ASSUME NEW o \in LiveOrders, NEW x, Truthful(o, x)
    PROVE  Truthful(FailureNoted(o), x) /\ FailureNoted(o) \in LiveOrders
<1>1. /\ FailureNoted(o).state = o.state /\ FailureNoted(o).qty = o.qty
      /\ FailureNoted(o).fills = o.fills /\ FailureNoted(o).filled = o.filled
  BY DEF FailureNoted, LiveOrders
<1> QED
  BY <1>1, FailureKeeps DEF Truthful, Keeps

LEMMA TruthfulAccepted ==
    ASSUME NEW o \in LiveOrders, NEW x, Truthful(o, x)
    PROVE  Truthful(Accepted(o, ExId), x)
<1> DEFINE copy == [o EXCEPT !.exId = ExId, !.version = @ + 1]
<1>1. /\ copy \in LiveOrders /\ copy.state = o.state /\ copy.qty = o.qty
      /\ copy.fills = o.fills /\ copy.filled = o.filled
  BY NextVersion, HandlersAssumption DEF LiveOrders
<1>2. Truthful(copy, x)
  BY <1>1 DEF Truthful
<1>3. "ACCEPTED" \notin Closings
  BY DEF Closings
<1>4. Truthful(Transitioned(copy, "ACCEPTED"), x)
  BY <1>1, <1>2, <1>3, TruthfulMoved
<1> QED
  BY <1>4 DEF Accepted

LEMMA TruthfulFilled ==
    ASSUME NEW o \in LiveOrders, NEW x, Truthful(o, x), x.log \in Seq(Fills),
           NEW f \in ExecutedAt(x), CanFill(o, f)
    PROVE  Truthful(Filled(o, f), x)
<1> DEFINE copy == WithFill(o, f)
<1>1. f \in Fills /\ \A g \in Fills : FillQty[g] \in Nat
  BY LogIsFinite, OrderAssumption
<1>2. o.filled + FillQty[f] \in Nat /\ o.fills \cup {f} \in SUBSET Fills
  BY <1>1 DEF LiveOrders
<1>3. /\ copy \in LiveOrders /\ copy.state = o.state /\ copy.qty = o.qty
      /\ copy.fills = o.fills \cup {f} /\ copy.filled = o.filled + FillQty[f]
  BY <1>2, NextVersion DEF WithFill, LiveOrders
<1>4. SumOver(FillQty, o.fills \cup {f}) = FillQty[f] + SumOver(FillQty, o.fills)
  <2>1. f \notin o.fills
    BY DEF CanFill, FillFits
  <2>2. IsFiniteSet(o.fills) /\ \A g \in o.fills \cup {f} : FillQty[g] \in Nat
    BY <1>1, <1>2, LogIsFinite, FS_Subset DEF Truthful
  <2> QED
    BY <2>1, <2>2, SumAdd
<1>5. o.filled = SumOver(FillQty, o.fills) /\ o.filled \in Nat /\ FillQty[f] \in Nat
  BY <1>1 DEF Truthful, LiveOrders
<1>6. Truthful(copy, x)
  BY <1>3, <1>4, <1>5 DEF Truthful
<1>7. StateAfterFill(o, f) \notin Closings
  BY DEF StateAfterFill, Closings
<1>8. Truthful(Transitioned(copy, StateAfterFill(o, f)), x)
  BY <1>3, <1>6, <1>7, TruthfulMoved
<1> QED
  BY <1>8 DEF Filled

LEMMA TruthfulIfAllowed ==
    ASSUME NEW o \in LiveOrders, NEW x, Truthful(o, x), NEW s,
           s \in Closings => x.status \in DeadStatuses
    PROVE  Truthful(TransitionIfAllowed(o, s), x)
<1>1. "UNKNOWN" \notin Closings
  BY DEF Closings
<1> QED
  BY <1>1, TruthfulMoved DEF TransitionIfAllowed

LEMMA TruthfulReconciled ==
    ASSUME NEW o \in LiveOrders, NEW x, Truthful(o, x), NEW s,
           s \in Closings => x.status \in DeadStatuses
    PROVE  Truthful(ReconcileState(o, s), x)
<1>1. "UNKNOWN" \notin Closings
  BY DEF Closings
<1> QED
  BY <1>1, TruthfulIfAllowed DEF ReconcileState

LEMMA TruthfulRouted == ASSUME NEW x PROVE Truthful(RoutedOrder, x)
<1>1. /\ RoutedOrder.state = "ROUTED" /\ RoutedOrder.qty = Qty
      /\ RoutedOrder.fills = {} /\ RoutedOrder.filled = 0
  BY DEF RoutedOrder, NewOrder
<1>2. "ROUTED" \notin Closings
  BY DEF Closings
<1> QED
  BY <1>1, <1>2, SumEmpty DEF Truthful

-----------------------------------------------------------------------------
(* The steps of the handlers.                                              *)

LEMMA WorkTruthful ==
    ASSUME HInv, AllTruthful, NEW c \in Commands, NEW o, NEW l, Truthful(o, ex), Work(c, o, l),
           UNCHANGED <<repo, ex>>
    PROVE  AllTruthful'
<1>1. \A d \in Commands : working'[d] = working[d] \/ working'[d] = o
  BY DEF HInv, TypeOK
<1> QED
  BY <1>1 DEF AllTruthful

LEMMA ProceedTruthful ==
    ASSUME HInv, AllTruthful, RepliesTrue, NEW c \in Commands, Op[c] = "RECONCILE", NEW o \in LiveOrders,
           Truthful(o, ex), Proceed(c, o), UNCHANGED <<repo, ex>>
    PROVE  AllTruthful'
<1> HIDE DEF Work
<1>1. ASSUME NEW fill \in seen[c] \ o.fills, CanFill(o, fill)
      PROVE  Truthful(Filled(o, fill), ex)
  <2>1. fill \in ExecutedAt(ex) /\ ex.log \in Seq(Fills)
    BY DEF RepliesTrue, HInv, TypeOK
  <2> QED
    BY <1>1, <2>1, TruthfulFilled
<1>2. Truthful(ReconcileState(o, reply[c]), ex)
  BY TruthfulReconciled DEF RepliesTrue
<1>3. PICK p, l : Work(c, p, l) /\ Truthful(p, ex)
  BY <1>1, <1>2 DEF Proceed
<1> QED
  BY <1>3, WorkTruthful

LEMMA HandlerTruthful ==
    ASSUME HInv, AllTruthful, RepliesTrue, FillsReconciled, NEW c \in Commands, Handler(c)
    PROVE  AllTruthful' /\ UNCHANGED ex
<1> HIDE DEF Work
<1>u. ex' = ex
  BY DEF Handler, BeginSubmit, BeginCancel, BeginReplace, BeginReconcile, BeginRefused, Begin, Save, SaveFails,
         EmitPending, EmitSubmitted, EmitFill, EmitFinal, EmitFails, ReceiveSubmit, ReceiveAmend,
         ReceiveSnapshot, ReceiveMissing, ReceiveInvalid, Answered, TransportFails
<1>1. Truthful(repo, ex) /\ Truthful(working[c], ex) /\ repo \in LiveOrders /\ working[c] \in LiveOrders
  BY DEF AllTruthful, HInv, TypeOK
<1>2. \A s \in {"SUBMITTING", "SUBMITTED", "CANCEL_PENDING", "REPLACE_PENDING", "UNKNOWN", "FAILED"} : s \notin Closings
  BY DEF Closings
<1>3. Truthful(TransitionIfAllowed(FailureNoted(working[c]), "UNKNOWN"), ex)
  BY <1>1, <1>2, TruthfulNoted, TruthfulIfAllowed
<1>4. CASE BeginSubmit(c)
  <2>1. Truthful(Transitioned(RoutedOrder, "SUBMITTING"), ex)
    BY <1>2, RoutedIsOrder, TruthfulRouted, TruthfulMoved
  <2> QED
    BY <1>4, <2>1, <1>u, WorkTruthful DEF BeginSubmit, Begin
<1>5. CASE BeginCancel(c) \/ BeginReplace(c) \/ BeginReconcile(c)
  <2>1. Truthful(Transitioned(repo, "CANCEL_PENDING"), ex) /\ Truthful(Transitioned(repo, "REPLACE_PENDING"), ex)
    BY <1>1, <1>2, TruthfulMoved
  <2>2. PICK o, l : Work(c, o, l) /\ Truthful(o, ex)
    BY <1>1, <1>5, <2>1 DEF BeginCancel, BeginReplace, BeginReconcile
  <2> QED
    BY <1>5, <1>u, <2>2, WorkTruthful DEF BeginCancel, BeginReplace, BeginReconcile, Begin
<1>6. CASE \/ BeginRefused(c) \/ Save(c) \/ SaveFails(c) \/ EmitPending(c) \/ EmitFinal(c)
           \/ EmitFails(c)
  <2>1. UNCHANGED working /\ (repo' = repo \/ repo' = working[c])
    BY <1>6 DEF BeginRefused, Begin, Refuse, Save, SaveFails, EmitPending, EmitFinal, EmitFails
  <2> QED
    BY <1>u, <2>1 DEF AllTruthful
<1>7. CASE EmitSubmitted(c)
  <2>1. pc[c] = "emitSubmitted"
    BY <1>7 DEF EmitSubmitted
  <2>2. reply[c] \in {"ACCEPTED", "REJECTED", "UNKNOWN"} /\ Op[c] = "SUBMIT"
    BY <2>1 DEF HInv, RepliesFit, StatusesOf
  <2>3. reply[c] = "REJECTED" => ("REJECTED" \in Closings => ex.status \in DeadStatuses)
    BY <2>2 DEF RepliesTrue
  <2>4. Truthful(SubmitOutcome(working[c], reply[c]), ex)
    BY <1>1, <1>2, <2>2, <2>3, TruthfulAccepted, TruthfulNoted, TruthfulMoved DEF SubmitOutcome, Doubted
  <2>5. CASE UNCHANGED <<working, repo>>
    BY <1>u, <2>5 DEF AllTruthful
  <2> QED
    BY <1>7, <1>u, <2>4, <2>5, WorkTruthful DEF EmitSubmitted
<1>8. CASE EmitFill(c)
  <2>1. Op[c] = "RECONCILE"
    BY <1>8 DEF EmitFill, FillsReconciled
  <2> QED
    BY <1>1, <1>8, <1>u, <2>1, ProceedTruthful DEF EmitFill
<1>9. CASE ReceiveSubmit(c) \/ ReceiveMissing(c) \/ ReceiveInvalid(c)
  <2>1. Truthful(Transitioned(working[c], "SUBMITTED"), ex)
    BY <1>1, <1>2, TruthfulMoved
  <2> QED
    BY <1>1, <1>3, <1>9, <1>u, <2>1, WorkTruthful DEF ReceiveSubmit, ReceiveMissing, ReceiveInvalid, Answered
<1>10. CASE ReceiveAmend(c)
  <2>1. Truthful(AmendOutcome(working[c], reply[c]), ex)
    <3>1. CASE reply[c] \in {"CANCELLED", "REPLACED"}
      <4>1. ex.status \in DeadStatuses
        BY <3>1 DEF RepliesTrue, Closings
      <4> QED
        BY <1>1, <3>1, <4>1, TruthfulMoved DEF AmendOutcome
    <3>2. CASE reply[c] = "PENDING"
      BY <1>1, <3>2 DEF AmendOutcome
    <3>3. CASE reply[c] \notin {"CANCELLED", "REPLACED", "PENDING"}
      BY <1>1, <1>2, <3>3, TruthfulNoted, TruthfulMoved DEF AmendOutcome, Doubted
    <3> QED
      BY <3>1, <3>2, <3>3
  <2> QED
    BY <1>1, <1>10, <1>u, <2>1, WorkTruthful DEF ReceiveAmend, Answered
<1>11. CASE ReceiveSnapshot(c)
  <2>1. PICK o \in LiveOrders : Truthful(o, ex) /\ Proceed(c, o)
    BY <1>1, <1>11, TruthfulAccepted, AcceptedKeeps DEF ReceiveSnapshot, Keeps
  <2> QED
    BY <1>11, <1>u, <2>1, ProceedTruthful DEF ReceiveSnapshot, Answered
<1>12. CASE TransportFails(c)
  <2>1. Truthful(Failed(working[c], TRUE), ex)
    BY <1>1, <1>2, TruthfulNoted, TruthfulMoved DEF Failed
  <2> QED
    BY <1>1, <1>3, <1>12, <1>u, <2>1, WorkTruthful DEF TransportFails
<1> QED
  BY <1>u, <1>4, <1>5, <1>6, <1>7, <1>8, <1>9, <1>10, <1>11, <1>12 DEF Handler

\* A handler learns nothing from the exchange but by its reply, and asks anew.
LEMMA HandlerReplies ==
    ASSUME HInv, RepliesTrue, Ledger, FillsReconciled, NEW c \in Commands, Handler(c), UNCHANGED ex
    PROVE  RepliesTrue' /\ Ledger' /\ FillsReconciled'
<1>1. Ledger'
  BY DEF Ledger
<1>2. \/ UNCHANGED <<reply, seen>>
      \/ Send(c)
  BY DEF Handler, BeginSubmit, BeginCancel, BeginReplace, BeginReconcile, BeginRefused, Refuse, Save,
         SaveFails, EmitPending, EmitSubmitted, EmitFill, EmitFinal, EmitFails, ReceiveSubmit,
         ReceiveAmend, ReceiveSnapshot, ReceiveMissing, ReceiveInvalid, Answered, TransportFails
<1>3. RepliesTrue'
  <2>1. CASE UNCHANGED <<reply, seen>>
    BY <2>1 DEF RepliesTrue
  <2>2. CASE Send(c)
    <3>1. /\ reply'[c] = "none" /\ seen'[c] = {}
          /\ \A d \in Commands \ {c} : reply'[d] = reply[d] /\ seen'[d] = seen[d]
      BY <2>2 DEF Send, HInv, TypeOK
    <3>2. "none" \notin Closings /\ {} \subseteq ExecutedAt(ex)
      BY DEF Closings
    <3> QED
      BY <3>1, <3>2 DEF RepliesTrue
  <2> QED
    BY <1>2, <2>1, <2>2
<1>4. pc'[c] = "emitFill" => Op[c] = "RECONCILE"
  <2>1. CASE EmitFill(c) \/ ReceiveSnapshot(c)
    BY <2>1 DEF FillsReconciled, EmitFill, ReceiveSnapshot
  <2>2. CASE BeginSubmit(c) \/ BeginCancel(c) \/ BeginReplace(c) \/ BeginReconcile(c) \/ BeginRefused(c)
    BY <2>2 DEF BeginSubmit, BeginCancel, BeginReplace, BeginReconcile, BeginRefused, Refuse, HInv, TypeOK
  <2>3. CASE \/ Save(c) \/ SaveFails(c) \/ EmitPending(c) \/ EmitSubmitted(c) \/ EmitFinal(c) \/ EmitFails(c)
    BY <2>3 DEF Save, SaveFails, EmitPending, EmitSubmitted, EmitFinal, EmitFails, AfterSave, HInv, TypeOK
  <2>4. CASE \/ ReceiveSubmit(c) \/ ReceiveAmend(c) \/ ReceiveMissing(c) \/ ReceiveInvalid(c)
             \/ TransportFails(c)
    BY <2>4 DEF ReceiveSubmit, ReceiveAmend, ReceiveMissing, ReceiveInvalid, TransportFails, HInv, TypeOK
  <2> QED
    BY <2>1, <2>2, <2>3, <2>4 DEF Handler
<1>5. \A d \in Commands \ {c} : pc'[d] = pc[d]
  BY DEF Handler, BeginSubmit, BeginCancel, BeginReplace, BeginReconcile, BeginRefused, Refuse, Save,
         SaveFails, EmitPending, EmitSubmitted, EmitFill, EmitFinal, EmitFails, ReceiveSubmit,
         ReceiveAmend, ReceiveSnapshot, ReceiveMissing, ReceiveInvalid, Answered, TransportFails,
         Proceed, HInv, TypeOK
<1>6. FillsReconciled'
  BY <1>4, <1>5 DEF FillsReconciled
<1> QED
  BY <1>1, <1>3, <1>6

\* A command that submits the order is begun once, and calls the exchange once.
LEMMA HandlerOnce ==
    ASSUME HInv, OnceSubmitted, NEW c \in Commands, Handler(c), UNCHANGED ex
    PROVE  OnceSubmitted'
<1> SUFFICES ASSUME OneSubmission, NEW d \in Commands, Op[d] = "SUBMIT"
             PROVE  /\ wire'[d] # "none" \/ pc'[d] # "idle" \/ ex.status # "none" => attempts'[d] # 0
                    /\ pc'[d] \in {"savePending", "emitPending"} => wire'[d] = "none" /\ ex.status = "none"
                    /\ wire'[d] = "sent" => ex.status = "none"
  BY DEF OnceSubmitted
<1>1. /\ wire[d] # "none" \/ pc[d] # "idle" \/ ex.status # "none" => attempts[d] # 0
      /\ pc[d] \in {"savePending", "emitPending"} => wire[d] = "none" /\ ex.status = "none"
      /\ wire[d] = "sent" => ex.status = "none"
  BY DEF OnceSubmitted
<1>2. CASE d # c
  <2>1. pc'[d] = pc[d] /\ wire'[d] = wire[d] /\ attempts'[d] = attempts[d]
    BY <1>2 DEF Handler, BeginSubmit, BeginCancel, BeginReplace, BeginReconcile, BeginRefused, Refuse,
         Begin, Send, Save,
         SaveFails, EmitPending, EmitSubmitted, EmitFill, EmitFinal, EmitFails, ReceiveSubmit,
         ReceiveAmend, ReceiveSnapshot, ReceiveMissing, ReceiveInvalid, Answered, TransportFails,
         Proceed, HInv, TypeOK
  <2> QED
    BY <1>1, <2>1
<1>3. CASE d = c /\ BeginSubmit(c)
  <2>1. attempts[c] \in Nat /\ MaxAttempts[c] \in Nat /\ MaxAttempts[c] <= 1 /\ attempts[c] < MaxAttempts[c]
    BY <1>3, HandlersAssumption DEF HInv, TypeOK, OneSubmission, BeginSubmit, Begin
  <2>2. attempts[c] = 0 /\ attempts'[c] = attempts[c] + 1 /\ wire'[c] = wire[c]
    BY <1>3, <2>1 DEF BeginSubmit, Begin, HInv, TypeOK
  <2> QED
    BY <1>1, <1>3, <2>2
<1>4. CASE d = c /\ ~BeginSubmit(c)
  <2>1. \/ Save(c) \/ SaveFails(c) \/ EmitPending(c) \/ EmitSubmitted(c) \/ EmitFill(c) \/ EmitFinal(c)
        \/ EmitFails(c) \/ ReceiveSubmit(c) \/ ReceiveInvalid(c) \/ TransportFails(c)
    BY <1>4 DEF Handler, BeginCancel, BeginReplace, BeginReconcile, BeginRefused, ReceiveAmend,
                ReceiveSnapshot, ReceiveMissing
  <2>2. pc[d] # "idle" /\ attempts' = attempts
    BY <1>4, <2>1 DEF Save, SaveFails, EmitPending, EmitSubmitted, EmitFill, EmitFinal,
                EmitFails, ReceiveSubmit, ReceiveInvalid, Answered, TransportFails, AfterSave
  <2>3. CASE Save(c)
    BY <1>1, <1>4, <2>2, <2>3 DEF Save, AfterSave, HInv, TypeOK
  <2>4. CASE EmitPending(c)
    BY <1>1, <1>4, <2>2, <2>4 DEF EmitPending, Send, HInv, TypeOK
  <2>5. CASE ~Save(c) /\ ~EmitPending(c)
    <3>1. pc'[d] \notin {"savePending", "emitPending"}
      BY <1>4, <2>1, <2>5 DEF SaveFails, EmitSubmitted, EmitFill, Proceed, EmitFinal, EmitFails, ReceiveSubmit,
                ReceiveInvalid, TransportFails, HInv, TypeOK
    <3>2. wire'[d] = wire[d] \/ wire'[d] = "none"
      BY <1>4, <2>1, <2>5 DEF SaveFails, EmitSubmitted, EmitFill, EmitFinal, EmitFails, ReceiveSubmit,
                ReceiveInvalid, Answered, TransportFails, HInv, TypeOK
    <3> QED
      BY <1>1, <2>2, <3>1, <3>2
  <2> QED
    BY <2>3, <2>4, <2>5
<1> QED
  BY <1>2, <1>3, <1>4

LEMMA HandlerTrue ==
    ASSUME HInv, TInv, NEW c \in Commands, Handler(c)
    PROVE  TInv'
<1>1. AllTruthful' /\ UNCHANGED ex
  BY HandlerTruthful DEF TInv
<1> QED
  BY <1>1, HandlerReplies, HandlerOnce DEF TInv

-----------------------------------------------------------------------------
(* The steps of the exchange, and the end of the process.                  *)

\* What the exchange adds to its record takes nothing back.
LEMMA TruthStays ==
    ASSUME AllTruthful, UNCHANGED <<repo, working>>, ExecutedAt(ex) \subseteq ExecutedAt(ex'),
           ex.status \in DeadStatuses => ex'.status \in DeadStatuses
    PROVE  AllTruthful'
<1>1. \A o : Truthful(o, ex) => Truthful(o, ex')
  BY DEF Truthful
<1> QED
  BY <1>1 DEF AllTruthful

LEMMA AnswerTrue ==
    ASSUME HInv, TInv, NEW c \in Commands, NEW op \in Operations, NEW s, Answer(c, op, s),
           ex'.log = ex.log, ex'.filled = ex.filled,
           ex.status \in DeadStatuses => ex'.status \in DeadStatuses,
           ex.status = "none" /\ ex'.status # "none" => op = "SUBMIT",
           s \in Closings /\ ~(s = "REJECTED" /\ op \in {"CANCEL", "REPLACE"}) => ex'.status \in DeadStatuses,
           seen'[c] \subseteq ExecutedAt(ex), \A d \in Commands \ {c} : seen'[d] = seen[d]
    PROVE  TInv'
<1>1. /\ Op[c] = op /\ wire[c] = "sent"
      /\ UNCHANGED <<repo, pc, working, loaded, event, attempts, crashes>>
      /\ reply' = [reply EXCEPT ![c] = s]
  BY DEF Answer
<1>2. PICK w \in {"answered", "none"} : wire' = [wire EXCEPT ![c] = w]
  BY DEF Answer
<1>3. /\ wire'[c] = w /\ reply'[c] = s
      /\ \A d \in Commands : d # c => wire'[d] = wire[d] /\ reply'[d] = reply[d]
  BY <1>1, <1>2 DEF HInv, TypeOK
<1>4. ExecutedAt(ex') = ExecutedAt(ex)
  BY DEF ExecutedAt
<1>5. AllTruthful' /\ Ledger' /\ FillsReconciled'
  BY <1>1, <1>4, TruthStays DEF TInv, Ledger, FillsReconciled
<1>6. RepliesTrue'
  BY <1>1, <1>3, <1>4 DEF TInv, RepliesTrue
<1>7. OnceSubmitted'
  <2> SUFFICES ASSUME OneSubmission, NEW d \in Commands, Op[d] = "SUBMIT"
               PROVE  /\ wire'[d] # "none" \/ pc[d] # "idle" \/ ex'.status # "none" => attempts[d] # 0
                      /\ pc[d] \in {"savePending", "emitPending"} => wire'[d] = "none" /\ ex'.status = "none"
                      /\ wire'[d] = "sent" => ex'.status = "none"
    BY <1>1 DEF OnceSubmitted
  <2>1. /\ wire[d] # "none" \/ pc[d] # "idle" \/ ex.status # "none" => attempts[d] # 0
        /\ pc[d] \in {"savePending", "emitPending"} => wire[d] = "none" /\ ex.status = "none"
        /\ wire[d] = "sent" => ex.status = "none"
    BY DEF TInv, OnceSubmitted
  <2>2. op = "SUBMIT" => d = c
    BY <1>1 DEF OneSubmission
  <2> QED
    BY <1>1, <1>3, <2>1, <2>2
<1> QED
  BY <1>5, <1>6, <1>7 DEF TInv

LEMMA ExSubmitTrue ==
    ASSUME HInv, TInv, NEW c \in Commands, ExSubmit(c)
    PROVE  TInv'
<1>1. UNCHANGED seen /\ seen[c] \subseteq ExecutedAt(ex)
  BY DEF ExSubmit, TInv, RepliesTrue
<1>2. ex'.log = ex.log /\ ex'.filled = ex.filled
  BY DEF ExSubmit, Becomes, HInv, TypeOK
<1>3. ex.status \in DeadStatuses => ex'.status \in DeadStatuses
  BY DEF ExSubmit, DeadStatuses
<1>4. PICK s \in {"ACCEPTED", "REJECTED", "UNKNOWN"} :
         /\ Answer(c, "SUBMIT", s)
         /\ ex.status = "none" /\ s = "REJECTED" => Becomes("rejected")
  BY DEF ExSubmit
<1>5. Op[c] = "SUBMIT" /\ wire[c] = "sent"
  BY <1>4 DEF Answer
<1>6. s \in Closings => ex'.status \in DeadStatuses
  <2>1. s \in Closings => OneSubmission /\ s = "REJECTED"
    BY DEF Closings
  <2>2. OneSubmission => ex.status = "none"
    BY <1>5 DEF TInv, OnceSubmitted
  <2>3. Becomes("rejected") => ex'.status \in DeadStatuses
    BY DEF Becomes, DeadStatuses, HInv, TypeOK
  <2> QED
    BY <1>4, <2>1, <2>2, <2>3
<1> QED
  BY <1>1, <1>2, <1>3, <1>4, <1>6, AnswerTrue DEF Operations

LEMMA ExAmendTrue ==
    ASSUME HInv, TInv, NEW c \in Commands, NEW op \in {"CANCEL", "REPLACE"},
           NEW later \in LiveStatuses, NEW done \in DeadStatuses, NEW granted,
           ExAmend(c, op, later, done, granted)
    PROVE  TInv'
<1>1. UNCHANGED seen /\ seen[c] \subseteq ExecutedAt(ex)
  BY DEF ExAmend, TInv, RepliesTrue
<1>2. ex'.log = ex.log /\ ex'.filled = ex.filled
  BY DEF ExAmend, Becomes, HInv, TypeOK
<1>3. ex.status \in DeadStatuses \cup {"none"} => UNCHANGED ex
  BY DEF ExAmend, DeadStatuses, LiveStatuses
<1>4. PICK s : /\ Answer(c, op, s)
               /\ s \in {"PENDING", "UNKNOWN", "REJECTED", "NOT_FOUND", "ALREADY_TERMINAL"} \/ Becomes(done)
  BY DEF ExAmend
<1>5. s \in Closings /\ s # "REJECTED" => ex'.status \in DeadStatuses
  <2>1. Becomes(done) => ex'.status = done
    BY DEF Becomes, HInv, TypeOK
  <2> QED
    BY <1>4, <2>1 DEF Closings
<1> QED
  BY <1>1, <1>2, <1>3, <1>4, <1>5, AnswerTrue DEF Operations

LEMMA ExFetchTrue ==
    ASSUME HInv, TInv, NEW c \in Commands, ExFetch(c)
    PROVE  TInv'
<1>1. UNCHANGED ex
  BY DEF ExFetch
<1>2. seen'[c] \subseteq ExecutedAt(ex) /\ \A d \in Commands \ {c} : seen'[d] = seen[d]
  <2>1. seen[c] \subseteq ExecutedAt(ex) /\ Executed = ExecutedAt(ex)
    BY DEF TInv, RepliesTrue, Executed, ExecutedAt
  <2>2. UNCHANGED seen \/ \E listed \in SUBSET Executed : seen' = [seen EXCEPT ![c] = listed]
    BY DEF ExFetch
  <2> QED
    BY <2>1, <2>2 DEF HInv, TypeOK
<1>3. \E s : /\ Answer(c, "RECONCILE", s)
             /\ s = "MISSING" \/ (ex.status # "none" /\ s \in SnapshotStates[ex.status])
  BY Zenon DEF ExFetch
<1> PICK s : /\ Answer(c, "RECONCILE", s)
             /\ s = "MISSING" \/ (ex.status # "none" /\ s \in SnapshotStates[ex.status])
  BY <1>3
<1>4. s \in Closings => ex.status \in DeadStatuses
  <2>1. ex.status \in {"none"} \cup LiveStatuses \cup DeadStatuses
    BY DEF HInv, TypeOK
  <2>2. CASE ex.status \in LiveStatuses
    BY <1>3, <2>2 DEF SnapshotStates, LiveStatuses, Closings
  <2>3. CASE ex.status \notin LiveStatuses
    BY <1>3, <2>1, <2>3 DEF Closings
  <2> QED
    BY <2>2, <2>3
<1> QED
  BY <1>1, <1>2, <1>3, <1>4, AnswerTrue DEF Operations

\* The exchange on its own leaves the network and the handlers alone.
LEMMA AloneTrue ==
    ASSUME HInv, TInv, UNCHANGED <<repo, pc, working, loaded, netVars, event, attempts, crashes>>,
           ExecutedAt(ex) \subseteq ExecutedAt(ex'), ex.status \in DeadStatuses => ex'.status \in DeadStatuses,
           ex'.status # "none" => ex.status # "none", Ledger'
    PROVE  TInv'
<1>1. AllTruthful' /\ FillsReconciled'
  BY TruthStays DEF TInv, FillsReconciled
<1>2. RepliesTrue' /\ OnceSubmitted'
  BY DEF TInv, RepliesTrue, OnceSubmitted
<1> QED
  BY <1>1, <1>2 DEF TInv

LEMMA ExFillTrue ==
    ASSUME HInv, TInv, NEW fill \in Fills, ExFill(fill)
    PROVE  TInv'
<1>1. ex.log \in Seq(Fills) /\ ex.filled \in Nat /\ Qty \in Nat
  BY OrderAssumption DEF HInv, TypeOK
<1>2. ex'.log = Append(ex.log, fill) /\ ex'.filled = ex.filled + FillQty[fill]
  BY DEF ExFill
<1>3. /\ Len(ex.log) \in Nat /\ Len(ex'.log) = Len(ex.log) + 1
      /\ \A i \in 1 .. Len(ex.log) : ex'.log[i] = ex.log[i]
      /\ ex'.log[Len(ex.log) + 1] = fill
  BY <1>1, <1>2
<1>4. ExecutedAt(ex') = ExecutedAt(ex) \cup {fill}
  <2>1. \A i \in 1 .. Len(ex'.log) : i \in 1 .. Len(ex.log) \/ i = Len(ex.log) + 1
    BY <1>3
  <2>2. 1 .. Len(ex.log) \subseteq 1 .. Len(ex'.log) /\ Len(ex.log) + 1 \in 1 .. Len(ex'.log)
    BY <1>3
  <2> QED
    BY <1>3, <2>1, <2>2 DEF ExecutedAt
<1>5. fill \notin ExecutedAt(ex)
  BY DEF ExFill, Executed, ExecutedAt
<1>6. IsFiniteSet(ExecutedAt(ex)) /\ \A f \in ExecutedAt(ex) \cup {fill} : FillQty[f] \in Nat
  BY <1>1, LogIsFinite, OrderAssumption
<1>7. ex'.filled = SumOver(FillQty, ExecutedAt(ex'))
  <2>1. SumOver(FillQty, ExecutedAt(ex) \cup {fill}) = FillQty[fill] + SumOver(FillQty, ExecutedAt(ex))
    BY <1>5, <1>6, SumAdd
  <2>2. ex.filled = SumOver(FillQty, ExecutedAt(ex)) /\ FillQty[fill] \in Nat
    BY <1>6 DEF TInv, Ledger
  <2> QED
    BY <1>1, <1>2, <1>4, <2>1, <2>2
<1>8. ex'.filled = Qty => ex'.status = "filled"
  BY DEF ExFill
<1>9. ex.status \in LiveStatuses /\ (ex'.status = "filled" \/ ex'.status = ex.status)
  BY DEF ExFill
<1>10. Ledger'
  BY <1>7, <1>8 DEF Ledger, DeadStatuses
<1> QED
  BY <1>4, <1>9, <1>10, AloneTrue DEF ExFill, LiveStatuses, DeadStatuses

LEMMA ExCloseTrue ==
    ASSUME HInv, TInv, ExClose
    PROVE  TInv'
<1>1. ex.status \in LiveStatuses
  BY DEF ExClose, LiveStatuses
<1>2. PICK s \in DeadStatuses : Becomes(s)
  BY DEF ExClose, DeadStatuses
<1>3. ex'.status = s /\ ex'.log = ex.log /\ ex'.filled = ex.filled
  BY <1>2 DEF Becomes, HInv, TypeOK
<1>4. ExecutedAt(ex') = ExecutedAt(ex)
  BY <1>3 DEF ExecutedAt
<1>5. Ledger'
  BY <1>3, <1>4 DEF TInv, Ledger
<1> QED
  BY <1>1, <1>3, <1>4, <1>5, AloneTrue DEF ExClose, LiveStatuses, DeadStatuses

\* A restart leaves the requests under way, and nobody to announce or send one.
LEMMA CrashTrue ==
    ASSUME HInv, TInv, Crash
    PROVE  TInv'
<1>1. UNCHANGED <<repo, working, reply, seen, ex, attempts>>
  BY DEF Crash
<1>2. ASSUME NEW c \in Commands
      PROVE  /\ pc'[c] \notin {"savePending", "emitPending", "emitFill"}
             /\ pc'[c] # "idle" => pc[c] # "idle"
             /\ wire'[c] # "none" => wire[c] # "none"
             /\ wire'[c] = "sent" => wire[c] = "sent"
  BY DEF Crash, Active, Ended
<1>3. AllTruthful' /\ Ledger' /\ RepliesTrue'
  BY <1>1 DEF TInv, AllTruthful, Ledger, RepliesTrue
<1>4. FillsReconciled'
  BY <1>2 DEF FillsReconciled
<1>5. OnceSubmitted'
  <2> SUFFICES ASSUME OneSubmission, NEW c \in Commands, Op[c] = "SUBMIT"
               PROVE  /\ wire'[c] # "none" \/ pc'[c] # "idle" \/ ex'.status # "none" => attempts'[c] # 0
                      /\ pc'[c] \notin {"savePending", "emitPending"}
                      /\ wire'[c] = "sent" => ex'.status = "none"
    BY DEF OnceSubmitted
  <2>1. /\ wire[c] # "none" \/ pc[c] # "idle" \/ ex.status # "none" => attempts[c] # 0
        /\ wire[c] = "sent" => ex.status = "none"
    BY DEF TInv, OnceSubmitted
  <2> QED
    BY <1>1, <1>2, <2>1
<1> QED
  BY <1>3, <1>4, <1>5 DEF TInv

LEMMA TrueNext == HInv /\ TInv /\ [Next]_vars => (HInv /\ TInv)'
<1> SUFFICES ASSUME HInv, TInv, [Next]_vars PROVE TInv'
  BY NextKeeps
<1>1. ASSUME NEW c \in Commands, Handler(c) PROVE TInv'
  BY <1>1, HandlerTrue
<1>2. CASE Exchange
  <2>1. ASSUME NEW c \in Commands, ExCancel(c) PROVE TInv'
    BY <2>1, ExAmendTrue DEF ExCancel, LiveStatuses, DeadStatuses
  <2>2. ASSUME NEW c \in Commands, ExReplace(c) PROVE TInv'
    BY <2>2, ExAmendTrue DEF ExReplace, LiveStatuses, DeadStatuses
  <2> QED
    BY <1>2, <2>1, <2>2, ExSubmitTrue, ExFetchTrue, ExFillTrue, ExCloseTrue DEF Exchange
<1>3. CASE Crash
  BY <1>3, CrashTrue
<1>4. CASE UNCHANGED vars
  <2>1. Ledger'
    BY <1>4 DEF TInv, Ledger, vars
  <2> QED
    BY <1>4, <2>1, AloneTrue DEF vars
<1> QED
  BY <1>1, <1>2, <1>3, <1>4 DEF Next

LEMMA TrueInit == Init => TInv
<1> SUFFICES ASSUME Init PROVE TInv
  OBVIOUS
<1>1. ExecutedAt(ex) = {} /\ ex.filled = 0 /\ ex.status = "none"
  BY DEF Init, ExecutedAt
<1>2. AllTruthful
  BY TruthfulRouted DEF Init, AllTruthful
<1>3. Ledger
  BY <1>1, SumEmpty, OrderAssumption DEF Ledger
<1>4. "none" \notin Closings
  BY DEF Closings
<1>5. RepliesTrue /\ OnceSubmitted /\ FillsReconciled
  BY <1>1, <1>4 DEF Init, RepliesTrue, OnceSubmitted, FillsReconciled
<1> QED
  BY <1>2, <1>3, <1>5 DEF TInv

-----------------------------------------------------------------------------
(* An order that is filled has all its quantity, so the exchange has.      *)

LEMMA FilledIsDead ==
    ASSUME HInv, AllFit, TInv, repo.state = "FILLED"
    PROVE  ex.status \in DeadStatuses
<1>1. repo.filled = Qty /\ repo.filled = SumOver(FillQty, repo.fills) /\ repo.fills \in SUBSET ExecutedAt(ex)
  BY DEF AllFit, Fit, ValidOrder, StateQuantityConsistent, TInv, AllTruthful, Truthful
<1>2. IsFiniteSet(ExecutedAt(ex)) /\ \A f \in ExecutedAt(ex) : FillQty[f] \in Nat
  BY LogIsFinite, OrderAssumption DEF HInv, TypeOK
<1>3. SumOver(FillQty, repo.fills) <= SumOver(FillQty, ExecutedAt(ex))
  BY <1>1, <1>2, SumOfPart
<1>4. ex.filled = SumOver(FillQty, ExecutedAt(ex)) /\ ex.filled \in 0 .. Qty /\ Qty \in Nat
  BY OrderAssumption DEF TInv, Ledger, HInv, TypeOK
<1>5. ex.filled = Qty
  BY <1>1, <1>3, <1>4
<1> QED
  BY <1>5 DEF TInv, Ledger

\* What FinalMeansDead says without REJECTED.
EndedIsDead == repo.state \in {"FILLED", "CANCELLED", "REPLACED", "EXPIRED"} => ex.status \in DeadStatuses

\* A final state is the truth, whatever handlers and exchange do with lost answers,
\* fills that arrive late, failing saves and restarts: what the repository has as
\* filled, cancelled, replaced or expired the exchange will not execute any more
\* (order-reconciler.ts:717) ...
THEOREM EndsAreTrue == Spec => []EndedIsDead
<1>1. Init => HInv /\ AllFit /\ TInv
  BY InitHolds, TrueInit, FitRouted DEF Init, AllFit
<1>2. HInv /\ AllFit /\ TInv => EndedIsDead
  BY FilledIsDead DEF EndedIsDead, TInv, AllTruthful, Truthful, Closings
<1> QED
  BY <1>1, <1>2, FitNext, TrueNext, PTL DEF Spec

\* ... and what it has as rejected, if the order is submitted once: an exchange may
\* answer a second submission of an open order with REJECTED.
THEOREM FinalStatesAreDead ==
    ASSUME OneSubmission
    PROVE  Spec => []FinalMeansDead
<1>1. Init => HInv /\ AllFit /\ TInv
  BY InitHolds, TrueInit, FitRouted DEF Init, AllFit
<1>2. HInv /\ AllFit /\ TInv => FinalMeansDead
  BY FilledIsDead DEF FinalMeansDead, TInv, AllTruthful, Truthful, Closings
<1> QED
  BY <1>1, <1>2, FitNext, TrueNext, PTL DEF Spec
=============================================================================
