--------------------- MODULE AlgorithmicExecution_proofs ---------------------
(***************************************************************************)
(* Proofs about the algorithmic execution engine, for every number of      *)
(* callers, slices, orders and fills, every quantity and every overlap of  *)
(* calls: what the version check of the repository does refuse, that       *)
(* nothing but an overwriting save takes history back, and that the books  *)
(* of whatever is stored agree.                                            *)
(*                                                                         *)
(* Two inductive invariants: HistoryInv relates what a call has read to    *)
(* what is stored; BooksInv says that both are Sound, a property of one    *)
(* execution that every operation keeps.                                   *)
(***************************************************************************)
EXTENDS AlgorithmicExecution, CollectionLemmas, TLAPS

-----------------------------------------------------------------------------
(* What an operation makes of the execution it has read.                   *)

HasFields(x) ==
    /\ x = [f \in DOMAIN x |-> x[f]]
    /\ DOMAIN x = {"version", "status", "slices", "orders", "later", "fills", "remaining", "crowded"}

\* The part of the type that the arguments below need.
IsExecution(x) ==
    /\ HasFields(x)
    /\ x.version \in Nat
    /\ x.status \in Statuses
    /\ x.fills \in Seq(Fills)

\* y may follow x in the history of an execution.
Follows(x, y) ==
    /\ IsExecution(y)
    /\ y.version >= x.version
    /\ Final(x.status) => y.status = x.status
    /\ IsPrefix(x.fills, y.fills)

\* y differs from x in its books, not in its status or fills, and is n versions on.
Amends(x, y, n) ==
    /\ IsExecution(y)
    /\ y.version = x.version + n
    /\ y.status = x.status /\ y.fills = x.fills

LEMMA AmendmentFollows ==
    ASSUME NEW x, NEW y, NEW n \in Nat, IsExecution(x), Amends(x, y, n) PROVE Follows(x, y)
  BY DEF IsExecution, Follows, Amends, IsPrefix

LEMMA FollowsSelf ==
    ASSUME NEW x, IsExecution(x) PROVE Follows(x, x)
  BY DEF IsExecution, Follows, IsPrefix

LEMMA ProgressAmends ==
    ASSUME NEW x, IsExecution(x) PROVE Amends(x, WithProgress(x), 0)
  BY DEF IsExecution, HasFields, WithProgress, Amends

LEMMA SliceUpdateAmends ==
    ASSUME NEW x, IsExecution(x), NEW s PROVE Amends(x, SliceUpdated(x, s), 1)
<1> DEFINE w == SliceUpdated(x, s)
<1>1. HasFields(w)
  BY DEF IsExecution, HasFields, SliceUpdated
<1>2. w.version = x.version + 1 /\ w.status = x.status /\ w.fills = x.fills
  BY DEF IsExecution, HasFields, SliceUpdated
<1> QED
  BY <1>1, <1>2 DEF IsExecution, Amends

LEMMA FollowsTransitive ==
    ASSUME NEW x, NEW y, NEW z, IsExecution(x), Follows(x, y), Follows(y, z) PROVE Follows(x, z)
<1>1. IsPrefix(x.fills, z.fills)
  BY DEF IsExecution, Follows, IsPrefix
<1> QED
  BY <1>1 DEF IsExecution, Follows

LEMMA TransitionFollows ==
    ASSUME NEW x, IsExecution(x), NEW s \in Statuses, NEW y \in Transitions(x, s)
    PROVE  Follows(x, y) /\ y.version = x.version + 1
<1>1. y = [x EXCEPT !.status = s, !.version = @ + 1] /\ (s = x.status \/ s \in ExecutionTransitions[x.status])
  BY DEF Transitions
<1>2. Final(x.status) => ExecutionTransitions[x.status] = {}
  BY DEF IsExecution, Final, ExecutionTransitions, Statuses
<1>3. IsExecution(y) /\ y.version = x.version + 1 /\ y.status = s /\ y.fills = x.fills
  <2>1. HasFields(y)
    BY <1>1 DEF IsExecution, HasFields
  <2>2. y.version = x.version + 1 /\ y.status = s /\ y.fills = x.fills
    BY <1>1 DEF IsExecution, HasFields
  <2> QED
    BY <2>1, <2>2 DEF IsExecution
<1>4. Final(x.status) => y.status = x.status
  BY <1>1, <1>2, <1>3
<1> QED
  BY <1>3, <1>4 DEF IsExecution, Follows, IsPrefix

LEMMA CompletionFollows ==
    ASSUME NEW x, IsExecution(x), NEW y \in Completed(x) PROVE Follows(x, y)
<1>1. CASE y = x
  <2>1. Amends(x, x, 0)
    BY DEF Amends, IsExecution
  <2> QED
    BY <1>1, <2>1, AmendmentFollows
<1>2. CASE y \in Transitions(x, "COMPLETED")
  BY <1>2, TransitionFollows DEF Statuses
<1> QED
  BY <1>1, <1>2 DEF Completed

-----------------------------------------------------------------------------
(* The operations one by one.                                              *)

LEMMA ChangeFollows ==
    ASSUME NEW x, IsExecution(x), NEW s \in Statuses, NEW y \in Changed(x, s)
    PROVE  Follows(x, y) /\ y.version = x.version + 1
<1>1. PICK z \in Transitions(x, s) : y = WithProgress(z)
  BY DEF Changed
<1>2. Follows(x, z) /\ z.version = x.version + 1 /\ IsExecution(z)
  BY TransitionFollows DEF Follows
<1>3. Amends(z, y, 0)
  BY <1>1, <1>2, ProgressAmends
<1>4. Follows(z, y)
  BY <1>2, <1>3, AmendmentFollows
<1> QED
  BY <1>2, <1>3, <1>4, FollowsTransitive DEF Amends, IsExecution

LEMMA CancelFollows ==
    ASSUME NEW x, IsExecution(x), NEW y \in Cancelled(x) PROVE Follows(x, y)
<1> DEFINE w == [x EXCEPT !.orders = [k \in Orders |-> Ended(@[k])],
                          !.later = [i \in DOMAIN @ |-> [id |-> @[i].id, order |-> Ended(@[i].order)]],
                          !.version = @ + 1]
<1>1. PICK z \in Transitions(w, "CANCELLED") : y = WithProgress(z)
  BY DEF Cancelled
<1>2. Amends(x, w, 1)
  <2>1. HasFields(w)
    BY DEF IsExecution, HasFields
  <2>2. w.version = x.version + 1 /\ w.status = x.status /\ w.fills = x.fills
    BY DEF IsExecution, HasFields
  <2> QED
    BY <2>1, <2>2 DEF IsExecution, Amends
<1> HIDE DEF w
<1>3. Follows(w, z)
  BY <1>2, TransitionFollows DEF Amends, Statuses
<1>4. Amends(z, y, 0)
  BY <1>1, <1>3, ProgressAmends DEF Follows
<1>5. Follows(x, w) /\ Follows(z, y)
  BY <1>2, <1>3, <1>4, AmendmentFollows DEF Follows
<1>6. Follows(x, z)
  BY <1>3, <1>5, FollowsTransitive
<1> QED
  BY <1>5, <1>6, FollowsTransitive

\* An operation that amends the books, brings the progress up to date and
\* perhaps completes the execution.
LEMMA CompletingFollows ==
    ASSUME NEW x, IsExecution(x), NEW w, NEW n \in Nat, Amends(x, w, n), NEW y \in Completed(WithProgress(w))
    PROVE  Follows(x, y)
<1>1. Amends(w, WithProgress(w), 0)
  BY ProgressAmends DEF Amends
<1>2. Amends(x, WithProgress(w), n)
  BY <1>1 DEF Amends, IsExecution
<1>3. Follows(x, WithProgress(w)) /\ IsExecution(WithProgress(w))
  BY <1>2, AmendmentFollows DEF Amends
<1>4. Follows(WithProgress(w), y)
  BY <1>3, CompletionFollows
<1> QED
  BY <1>3, <1>4, FollowsTransitive

\* The same, without completion.
LEMMA AmendingFollows ==
    ASSUME NEW x, IsExecution(x), NEW w, NEW n \in Nat, Amends(x, w, n)
    PROVE  Follows(x, WithProgress(w)) /\ WithProgress(w).version = x.version + n
<1>1. Amends(w, WithProgress(w), 0)
  BY ProgressAmends DEF Amends
<1>2. Amends(x, WithProgress(w), n)
  BY <1>1 DEF Amends, IsExecution
<1> QED
  BY <1>2, AmendmentFollows DEF Amends

LEMMA ActivationFollows ==
    ASSUME NEW x, IsExecution(x), NEW s, NEW y \in Activated(x, s)
    PROVE  Follows(x, y) /\ y.version = x.version + 1
<1> DEFINE w == [x EXCEPT !.slices[s].status = "READY", !.version = @ + 1]
<1>1. y = WithProgress(w)
  BY DEF Activated
<1>2. Amends(x, w, 1)
  <2>1. HasFields(w)
    BY DEF IsExecution, HasFields
  <2>2. w.version = x.version + 1 /\ w.status = x.status /\ w.fills = x.fills
    BY DEF IsExecution, HasFields
  <2> QED
    BY <2>1, <2>2 DEF IsExecution, Amends
<1> QED
  BY <1>1, <1>2, AmendingFollows

LEMMA SliceCompletionFollows ==
    ASSUME NEW x, IsExecution(x), NEW s, NEW y \in SliceCompleted(x, s)
    PROVE  Follows(x, y)
<1> DEFINE w == [x EXCEPT !.slices[s] = [@ EXCEPT !.status = "FILLED", !.filled = Target[s], !.remaining = 0],
                          !.version = @ + 1]
<1>1. y \in Completed(WithProgress(w))
  BY DEF SliceCompleted
<1>2. Amends(x, w, 1)
  <2>1. HasFields(w)
    BY DEF IsExecution, HasFields
  <2>2. w.version = x.version + 1 /\ w.status = x.status /\ w.fills = x.fills
    BY DEF IsExecution, HasFields
  <2> QED
    BY <2>1, <2>2 DEF IsExecution, Amends
<1> QED
  BY <1>1, <1>2, CompletingFollows

LEMMA SliceFailureFollows ==
    ASSUME NEW x, IsExecution(x), NEW s, NEW y \in SliceFailed(x, s)
    PROVE  Follows(x, y) /\ y.version = x.version + 1
<1> DEFINE w == [x EXCEPT !.slices[s].status = "FAILED", !.version = @ + 1]
<1>1. y = WithProgress(w)
  BY DEF SliceFailed
<1>2. Amends(x, w, 1)
  <2>1. HasFields(w)
    BY DEF IsExecution, HasFields
  <2>2. w.version = x.version + 1 /\ w.status = x.status /\ w.fills = x.fills
    BY DEF IsExecution, HasFields
  <2> QED
    BY <2>1, <2>2 DEF IsExecution, Amends
<1> QED
  BY <1>1, <1>2, AmendingFollows

\* Only the lists of orders and the crowded slices differ.
LEMMA JoiningAmends ==
    ASSUME NEW x, IsExecution(x), NEW k, NEW o PROVE Amends(x, Joined(x, k, o), 0)
<1> DEFINE crowd == IF \E j \in OrdersOf(x, o.slice) : Active(x.orders[j]) THEN x.crowded \cup {o.slice} ELSE x.crowded
           added == Append(x.later, [id |-> k, order |-> o])
           v == [x EXCEPT !.orders[k] = o, !.crowded = crowd]
           w == [x EXCEPT !.later = added]
<1>1. Joined(x, k, o) = v \/ Joined(x, k, o) = w
  BY DEF Joined
<1> HIDE DEF crowd, added
<1>2. HasFields(v) /\ v.version = x.version /\ v.status = x.status /\ v.fills = x.fills
  BY DEF IsExecution, HasFields
<1>3. HasFields(w) /\ w.version = x.version /\ w.status = x.status /\ w.fills = x.fills
  BY DEF IsExecution, HasFields
<1> HIDE DEF v, w
<1> QED
  BY <1>1, <1>2, <1>3 DEF IsExecution, Amends

LEMMA CreationFollows ==
    ASSUME NEW x, IsExecution(x), NEW s, NEW k, NEW q, NEW y \in OrderCreated(x, s, k, q)
    PROVE  Follows(x, y) /\ y.version = x.version + 1
<1> DEFINE v == Joined(x, k, NewOrder(s, q))
           w == [v EXCEPT !.slices[s].status = "SUBMITTING", !.version = @ + 1]
<1>1. y = WithProgress(w)
  BY DEF OrderCreated
<1>2. Amends(x, v, 0)
  BY JoiningAmends
<1> HIDE DEF v
<1>3. Amends(x, w, 1)
  <2>1. HasFields(w)
    BY <1>2 DEF Amends, IsExecution, HasFields
  <2>2. w.version = v.version + 1 /\ w.status = v.status /\ w.fills = v.fills
    BY <1>2 DEF Amends, IsExecution, HasFields
  <2> QED
    BY <1>2, <2>1, <2>2 DEF IsExecution, Amends
<1> HIDE DEF w
<1> QED
  BY <1>1, <1>3, AmendingFollows

LEMMA ReplacementAmends ==
    ASSUME NEW x, IsExecution(x), NEW k, NEW o PROVE Amends(x, [Replaced(x, k, o) EXCEPT !.version = @ + 1], 1)
<1> DEFINE later == [i \in DOMAIN x.later |-> IF x.later[i].id = k THEN [id |-> k, order |-> o] ELSE x.later[i]]
           w == [x EXCEPT !.orders[k] = o, !.later = later, !.version = @ + 1]
<1>1. [Replaced(x, k, o) EXCEPT !.version = @ + 1] = w
  BY DEF Replaced
<1> HIDE DEF later
<1>2. HasFields(w) /\ w.version = x.version + 1 /\ w.status = x.status /\ w.fills = x.fills
  BY DEF IsExecution, HasFields
<1> HIDE DEF w
<1>3. Amends(x, w, 1)
  BY <1>2 DEF IsExecution, Amends
<1> QED
  BY <1>1, <1>3

LEMMA MoveFollows ==
    ASSUME NEW x, IsExecution(x), NEW k, NEW s, NEW y \in OrderMoved(x, k, s)
    PROVE  Follows(x, y)
<1> DEFINE w == [Replaced(x, k, [x.orders[k] EXCEPT !.status = s]) EXCEPT !.version = @ + 1]
<1>1. y = WithProgress(SliceUpdated(w, x.orders[k].slice))
  BY DEF OrderMoved
<1>2. Amends(x, w, 1)
  BY ReplacementAmends
<1> HIDE DEF w
<1>3. Amends(w, SliceUpdated(w, x.orders[k].slice), 1)
  BY <1>2, SliceUpdateAmends DEF Amends
<1>4. Amends(x, SliceUpdated(w, x.orders[k].slice), 2)
  BY <1>2, <1>3 DEF Amends, IsExecution
<1> QED
  BY <1>1, <1>4, AmendingFollows

LEMMA SubmissionFollows ==
    ASSUME NEW x, IsExecution(x), NEW k, NEW y \in OrderSubmitted(x, k)
    PROVE  Follows(x, y)
<1> DEFINE o == x.orders[k]
           status == IF o.filled = o.quantity THEN "FILLED" ELSE IF o.filled > 0 THEN "PARTIALLY_FILLED" ELSE "OPEN"
           v == SliceUpdated(x, o.slice)
           p == [o EXCEPT !.status = status, !.submitted = o.quantity]
           w == [Replaced(v, k, p) EXCEPT !.version = @ + 1]
<1>1. y = WithProgress(w)
  BY DEF OrderSubmitted
<1>2. Amends(x, v, 1)
  BY SliceUpdateAmends
<1> HIDE DEF v, o, p
<1>3. Amends(v, w, 1)
  BY <1>2, ReplacementAmends DEF Amends
<1> HIDE DEF w
<1>4. Amends(x, w, 2)
  BY <1>2, <1>3 DEF IsExecution, Amends
<1> QED
  BY <1>1, <1>4, AmendingFollows

LEMMA FillEnters ==
    ASSUME NEW x, IsExecution(x), NEW f \in Fills, NEW k, NEW p, NEW w,
           w = [Replaced(x, k, p) EXCEPT !.fills = Append(@, f), !.version = @ + 1]
    PROVE  /\ IsExecution(w)
           /\ Follows(x, w)
<1> DEFINE later == [i \in DOMAIN x.later |-> IF x.later[i].id = k THEN [id |-> k, order |-> p] ELSE x.later[i]]
           fills == Append(x.fills, f)
<1>1. w = [x EXCEPT !.orders[k] = p, !.later = later, !.fills = fills, !.version = @ + 1]
  BY DEF Replaced, IsExecution, HasFields
<1> HIDE DEF later, fills
<1>2. HasFields(w) /\ w.version = x.version + 1 /\ w.status = x.status /\ w.fills = fills
  BY <1>1 DEF IsExecution, HasFields
<1>3. fills \in Seq(Fills) /\ IsPrefix(x.fills, fills)
  BY DEF IsExecution, IsPrefix, fills
<1>4. x.version \in Nat /\ x.status \in Statuses /\ w.version \in Nat /\ w.version >= x.version
  BY <1>2 DEF IsExecution
<1>5. IsExecution(w)
  BY <1>2, <1>3, <1>4, Zenon DEF IsExecution
<1> QED
  BY <1>2, <1>3, <1>4, <1>5, Zenon DEF Follows

LEMMA FillFollows ==
    ASSUME NEW x, IsExecution(x), NEW f \in Fills, NEW y \in FillApplied(x, f)
    PROVE  Follows(x, y)
<1> DEFINE k == FillOf[f]
           o == x.orders[k]
           filled == o.filled + FillQty[f]
           status == IF filled = o.quantity THEN "FILLED" ELSE "PARTIALLY_FILLED"
           p == [o EXCEPT !.status = status, !.filled = filled, !.fills = Append(@, f),
                          !.submitted = IF filled > @ THEN filled ELSE @]
           w == [Replaced(x, k, p) EXCEPT !.fills = Append(@, f), !.version = @ + 1]
           v == SliceUpdated(w, o.slice)
<1>1. y \in Completed(WithProgress(v))
  BY DEF FillApplied
<1> HIDE DEF p, o, k
<1>2. IsExecution(w) /\ Follows(x, w)
  BY FillEnters
<1> HIDE DEF w
<1>3. Amends(w, v, 1)
  BY <1>2, SliceUpdateAmends
<1> HIDE DEF v
<1>4. Follows(w, y)
  BY <1>1, <1>2, <1>3, CompletingFollows
<1> QED
  BY <1>2, <1>4, FollowsTransitive

LEMMA OutcomeFollows ==
    ASSUME NEW x, IsExecution(x), NEW r \in Requests, r.op # "create", NEW y \in Outcomes(x, r)
    PROVE  /\ Follows(x, y)
           /\ r.op \in SingleSteps => y.version = x.version + 1
<1>1. CASE r.op \in {"start", "resume", "pause", "fail"}
  BY <1>1, ChangeFollows DEF Outcomes, Statuses
<1>2. CASE r.op = "cancel"
  BY <1>2, CancelFollows DEF Outcomes, SingleSteps
<1>3. CASE r.op = "refresh"
  <2>1. Amends(x, x, 0)
    BY DEF Amends, IsExecution
  <2> QED
    BY <1>3, <2>1, CompletingFollows DEF Outcomes, SingleSteps
<1>4. CASE r.op = "activateSlice"
  BY <1>4, ActivationFollows DEF Outcomes
<1>5. CASE r.op = "completeSlice"
  BY <1>5, SliceCompletionFollows DEF Outcomes, SingleSteps
<1>6. CASE r.op = "failSlice"
  BY <1>6, SliceFailureFollows DEF Outcomes
<1>7. CASE r.op = "createChildOrder"
  BY <1>7, CreationFollows DEF Outcomes
<1>8. CASE r.op \in {"markSubmitting", "rejectChildOrder", "failChildOrder"}
  BY <1>8, MoveFollows DEF Outcomes, SingleSteps
<1>9. CASE r.op = "markSubmitted"
  BY <1>9, SubmissionFollows DEF Outcomes, SingleSteps
<1>10. CASE r.op = "cancelChildOrder"
  BY <1>10, MoveFollows DEF Outcomes, OrderCancelled, SingleSteps
<1>11. CASE r.op = "applyFill"
  <2>1. r.fill \in Fills
    BY <1>11 DEF Requests
  <2> QED
    BY <1>11, <2>1, FillFollows DEF Outcomes, SingleSteps
<1> QED
  BY <1>1, <1>2, <1>3, <1>4, <1>5, <1>6, <1>7, <1>8, <1>9, <1>10, <1>11 DEF Requests

-----------------------------------------------------------------------------
(* The inductive invariant.                                                *)

\* What a call under way has read is what is stored, or an earlier version.
ReadEarlier(c) ==
    /\ stored # None
    /\ IsExecution(call[c].read)
    /\ call[c].request.op # "create"
    /\ call[c].read.version < stored.version \/ call[c].read = stored

HistoryInv ==
    /\ stored # None => IsExecution(stored)
    /\ call = [c \in Callers |-> call[c]]
    /\ \A c \in Callers : call[c] # NoCall =>
          /\ call[c].request \in Requests
          /\ call[c].read # None => ReadEarlier(c)

LEMMA FreshIsExecution == IsExecution(Fresh) /\ Fresh.version = 0
<1>1. HasFields(Fresh)
  BY DEF HasFields, Fresh
<1>2. Fresh.version = 0 /\ Fresh.status = "CREATED" /\ Fresh.fills = <<>>
  BY DEF Fresh
<1> QED
  BY <1>1, <1>2 DEF IsExecution, Statuses

LEMMA ExecutionsExist == ASSUME NEW x, IsExecution(x) PROVE x # None
<1>1. None.status \notin Statuses
  BY DEF None, Statuses
<1> QED
  BY <1>1 DEF IsExecution

\* What is saved is newer than what was stored, or the same.
LEMMA SavedIsLater ==
    ASSUME HistoryInv, NEW c \in Callers, NEW x, IsExecution(x), Saves(c, x)
    PROVE  /\ IsExecution(stored') /\ stored' # None
           /\ stored # None => stored' = stored \/ stored.version < stored'.version
<1>1. stored' = IF Accepts(x) THEN x ELSE stored
  BY DEF Saves
<1>2. ~Accepts(x) => stored # None
  BY DEF Accepts
<1>3. IsExecution(stored') /\ (stored # None => stored' = stored \/ stored.version < stored'.version)
  BY <1>1, <1>2 DEF HistoryInv, Accepts
<1> QED
  BY <1>3, ExecutionsExist

LEMMA SaveKeepsInv ==
    ASSUME HistoryInv, NEW c \in Callers, NEW x, IsExecution(x), Saves(c, x)
    PROVE  HistoryInv'
<1>1. call' = [call EXCEPT ![c] = NoCall]
  BY DEF Saves
<1>2. ASSUME NEW d \in Callers, call'[d] # NoCall
      PROVE  /\ call'[d].request \in Requests
             /\ call'[d].read # None => ReadEarlier(d)'
  <2>1. d # c /\ call'[d] = call[d]
    BY <1>1, <1>2 DEF HistoryInv
  <2>2. call[d].request \in Requests /\ (call[d].read # None => ReadEarlier(d))
    BY <1>2, <2>1 DEF HistoryInv
  <2>3. ASSUME call[d].read # None PROVE ReadEarlier(d)'
    <3>1. ReadEarlier(d)
      BY <2>2, <2>3
    <3>2. /\ IsExecution(stored) /\ IsExecution(stored') /\ stored' # None
          /\ (stored' = stored \/ stored.version < stored'.version)
      BY <3>1, SavedIsLater DEF HistoryInv, ReadEarlier
    <3> QED
      BY <2>1, <3>1, <3>2 DEF ReadEarlier, IsExecution
  <2> QED
    BY <2>1, <2>2, <2>3
<1>3. IsExecution(stored')
  BY SavedIsLater
<1>4. call' = [d \in Callers |-> call'[d]]
  BY <1>1 DEF HistoryInv
<1> QED
  BY <1>2, <1>3, <1>4 DEF HistoryInv
LEMMA InvInit == Init => HistoryInv
  BY DEF Init, HistoryInv

LEMMA InvNext == HistoryInv /\ [Next]_vars => HistoryInv'
<1> SUFFICES ASSUME HistoryInv, [Next]_vars PROVE HistoryInv'
  OBVIOUS
<1>1. ASSUME NEW c \in Callers, NEW r \in Requests, Read(c, r) PROVE HistoryInv'
  <2>1. stored' = stored /\ call' = [call EXCEPT ![c] = [request |-> r, read |-> stored]]
    BY <1>1 DEF Read
  <2>2. stored # None => r.op # "create"
    BY <1>1 DEF Read
  <2>3. ASSUME NEW d \in Callers, call'[d] # NoCall
        PROVE  /\ call'[d].request \in Requests
               /\ call'[d].read # None => ReadEarlier(d)'
    <3>1. CASE d = c
      BY <2>1, <2>2, <3>1 DEF HistoryInv, ReadEarlier
    <3>2. CASE d # c
      BY <2>1, <2>3, <3>2 DEF HistoryInv, ReadEarlier
    <3> QED
      BY <3>1, <3>2
  <2>4. call' = [d \in Callers |-> call'[d]]
    BY <2>1 DEF HistoryInv
  <2> QED
    BY <2>1, <2>3, <2>4 DEF HistoryInv
<1>2. ASSUME NEW c \in Callers, Create(c) PROVE HistoryInv'
  BY <1>2, FreshIsExecution, SaveKeepsInv DEF Create
<1>3. ASSUME NEW c \in Callers, Update(c) PROVE HistoryInv'
  <2>1. PICK x \in Outcomes(call[c].read, call[c].request) : Saves(c, x)
    BY <1>3 DEF Update
  <2>2. call[c].request \in Requests /\ ReadEarlier(c)
    BY <1>3 DEF Update, HistoryInv
  <2>3. IsExecution(x)
    BY <2>2, OutcomeFollows DEF ReadEarlier, Follows
  <2> QED
    BY <2>1, <2>3, SaveKeepsInv
<1>4. ASSUME NEW c \in Callers, Throw(c) PROVE HistoryInv'
  <2>1. stored' = stored /\ call' = [call EXCEPT ![c] = NoCall]
    BY <1>4 DEF Throw
  <2> QED
    BY <2>1 DEF HistoryInv, ReadEarlier
<1>5. CASE UNCHANGED vars
  BY <1>5 DEF vars, HistoryInv, ReadEarlier
<1> QED
  BY <1>1, <1>2, <1>3, <1>4, <1>5 DEF Next

LEMMA Inductive == Spec => []HistoryInv
  BY InvInit, InvNext, PTL DEF Spec

-----------------------------------------------------------------------------
(* The theorems.                                                           *)

\* A step that changes what is stored is the save of one caller.
LEMMA ChangesAreSaves ==
    ASSUME HistoryInv, Next, stored' # stored
    PROVE  \E c \in Callers :
              /\ call[c] # NoCall /\ call' = [call EXCEPT ![c] = NoCall]
              /\ overwritten' = (overwritten \/ call[c].read # stored)
              /\ \/ stored = None /\ call[c].read = None
                 \/ /\ ReadEarlier(c) /\ call[c].request \in Requests
                    /\ stored' \in Outcomes(call[c].read, call[c].request)
                    /\ stored.version < stored'.version
<1>1. ASSUME NEW c \in Callers, Create(c)
      PROVE  /\ call[c] # NoCall /\ call' = [call EXCEPT ![c] = NoCall]
             /\ overwritten' = (overwritten \/ call[c].read # stored)
             /\ stored = None /\ call[c].read = None
  <2>1. stored = None
    BY <1>1, FreshIsExecution DEF Create, Saves, Accepts, HistoryInv, IsExecution
  <2> QED
    BY <1>1, <2>1 DEF Create, Saves
<1>2. ASSUME NEW c \in Callers, Update(c)
      PROVE  /\ call[c] # NoCall /\ call' = [call EXCEPT ![c] = NoCall]
             /\ overwritten' = (overwritten \/ call[c].read # stored)
             /\ ReadEarlier(c) /\ call[c].request \in Requests
             /\ stored' \in Outcomes(call[c].read, call[c].request)
             /\ stored.version < stored'.version
  <2>1. PICK x \in Outcomes(call[c].read, call[c].request) : Saves(c, x)
    BY <1>2 DEF Update
  <2>2. call[c] # NoCall /\ ReadEarlier(c) /\ call[c].request \in Requests
    BY <1>2 DEF Update, HistoryInv
  <2>3. stored' = x /\ stored # None /\ stored.version < x.version
    BY <2>1, <2>2 DEF Saves, Accepts, ReadEarlier
  <2> QED
    BY <2>1, <2>2, <2>3 DEF Saves
<1> QED
  BY <1>1, <1>2 DEF Next, Read, Throw

\* StaleRequestsRefused: an operation that adds one to the version is never saved
\* over an execution its caller has not read, for any number of overlapping calls.
THEOREM StaleOnesAreRefused == Spec => StaleRequestsRefused
<1> DEFINE Refused == \A c \in Callers :
              call[c] # NoCall /\ call'[c] = NoCall /\ stored' # stored /\ call[c].request.op \in SingleSteps =>
                  call[c].read = stored
<1>1. HistoryInv /\ [Next]_vars => Refused
  <2> SUFFICES ASSUME HistoryInv, [Next]_vars, stored' # stored,
                      NEW c \in Callers, call[c] # NoCall, call'[c] = NoCall, call[c].request.op \in SingleSteps
               PROVE  call[c].read = stored
    OBVIOUS
  <2>1. PICK d \in Callers :
              /\ call[d] # NoCall /\ call' = [call EXCEPT ![d] = NoCall]
              /\ \/ stored = None /\ call[d].read = None
                 \/ /\ ReadEarlier(d) /\ call[d].request \in Requests
                    /\ stored' \in Outcomes(call[d].read, call[d].request)
                    /\ stored.version < stored'.version
    BY ChangesAreSaves DEF vars
  <2>2. c = d
    BY <2>1 DEF HistoryInv
  <2>3. CASE /\ ReadEarlier(c) /\ call[c].request \in Requests
             /\ stored' \in Outcomes(call[c].read, call[c].request)
             /\ stored.version < stored'.version
    <3>1. stored'.version = call[c].read.version + 1
      BY <2>3, OutcomeFollows DEF ReadEarlier
    <3> QED
      BY <2>3, <3>1 DEF ReadEarlier, HistoryInv, IsExecution
  <2> QED
    BY <2>1, <2>2, <2>3
<1> QED
  BY <1>1, Inductive, PTL DEF Spec, StaleRequestsRefused

\* HistoryStands: as long as no save has overwritten what its caller had not
\* read, final statuses stay and recorded fills stay recorded, in their order.
THEOREM RecordedHistoryStands == Spec => HistoryStands
<1> DEFINE Stands == stored # None /\ ~overwritten' =>
              /\ Final(stored.status) => stored'.status = stored.status
              /\ IsPrefix(stored.fills, stored'.fills)
<1>1. HistoryInv /\ [Next]_vars => Stands
  <2> SUFFICES ASSUME HistoryInv, [Next]_vars, stored # None, ~overwritten'
               PROVE  Follows(stored, stored')
    BY DEF Follows
  <2>1. CASE stored' = stored
    BY <2>1, FollowsSelf DEF HistoryInv
  <2>2. CASE stored' # stored
    <3>1. PICK d \in Callers :
              /\ call[d] # NoCall /\ overwritten' = (overwritten \/ call[d].read # stored)
              /\ \/ stored = None /\ call[d].read = None
                 \/ /\ ReadEarlier(d) /\ call[d].request \in Requests
                    /\ stored' \in Outcomes(call[d].read, call[d].request)
                    /\ stored.version < stored'.version
      BY <2>2, ChangesAreSaves DEF vars
    <3>2. call[d].read = stored
      BY <3>1
    <3> QED
      BY <3>1, <3>2, OutcomeFollows DEF ReadEarlier
  <2> QED
    BY <2>1, <2>2
<1> QED
  BY <1>1, Inductive, PTL DEF Spec, HistoryStands

-----------------------------------------------------------------------------
(* The books of an execution.                                              *)

FilledOf(x) == [k \in Orders |-> x.orders[k].filled]
SliceFilled(x, s) == SumOver(FilledOf(x), OrdersOf(x, s))
FillsOf(x, k) == {f \in ToSet(x.fills) : FillOf[f] = k}

\* No fill is entered twice, and the fills of the execution are those of its orders.
FillsEntered(x) ==
    /\ IsFiniteSet(ToSet(x.fills)) /\ Cardinality(ToSet(x.fills)) = Len(x.fills)
    /\ FilledBy(x.fills) = SumOver(FilledOf(x), Orders)
    /\ \A k \in Orders : x.orders[k].filled = SumOver(FillQty, FillsOf(x, k))

\* An order that is active has more to fill; one that does not exist, nothing.
OrdersOpen(x) == \A k \in Orders :
    /\ Active(x.orders[k]) => x.orders[k].filled < x.orders[k].quantity
    /\ x.orders[k].status = "NONE" => x.orders[k].filled = 0

\* A slice that is not crowded has one active order at most, and room for what
\* that order has still to fill.
NotCrowded(x, s) ==
    /\ SliceFilled(x, s) <= Target[s]
    /\ \A k \in OrdersOf(x, s) : Active(x.orders[k]) =>
          /\ SliceFilled(x, s) + x.orders[k].quantity <= Target[s] + x.orders[k].filled
          /\ \A j \in OrdersOf(x, s) : Active(x.orders[j]) => j = k

Ledger(x) ==
    /\ FillsEntered(x)
    /\ OrdersOpen(x)
    /\ \A s \in Slices \ x.crowded : NotCrowded(x, s)

\* What a slice says remains of it is not more than its orders have left.
Room(x, s) == s \notin x.crowded => x.slices[s].remaining + SliceFilled(x, s) <= Target[s]

Done(x) == x.status = "COMPLETED" /\ x.crowded = {} => \A k \in Orders : ~Active(x.orders[k])

\* What every stored execution satisfies, and what operations may rely on.
Sound(x) ==
    /\ x \in Executions
    /\ Ledger(x)
    /\ \A s \in Slices : Room(x, s)
    /\ Done(x)
    /\ x.remaining = Remaining(x)

BooksInv ==
    /\ stored # None => Sound(stored)
    /\ \A c \in Callers : call[c] # NoCall /\ call[c].read # None => Sound(call[c].read)

\* Everything but the progress is as it should be.
Kept(x) == x \in Executions /\ Ledger(x) /\ (\A s \in Slices : Room(x, s)) /\ Done(x)

LEMMA MinOfTwo ==
    ASSUME NEW a \in Nat, NEW b \in Nat PROVE Min({a, b}) = IF a <= b THEN a ELSE b
<1> DEFINE m == IF a <= b THEN a ELSE b
<1>1. m \in {a, b} /\ \A z \in {a, b} : m <= z
  OBVIOUS
<1>2. \A y \in {a, b} : (\A z \in {a, b} : y <= z) => y = m
  OBVIOUS
<1> HIDE DEF m
<1>3. Min({a, b}) = m
  BY <1>1, <1>2 DEF Min
<1> QED
  BY <1>3 DEF m

LEMMA TotalIsNat == Total \in Nat /\ Total = SumOver(Target, Slices)
<1>1. Total = SumOver(Target, Slices)
  BY DEF Total, Sum, SumOver
<1> QED
  BY <1>1, AlgorithmAssumption, SumNat

LEMMA FilledByFills ==
    ASSUME NEW fills \in Seq(Fills)
    PROVE  /\ FilledBy(fills) \in Nat
           /\ \A f \in Fills : FilledBy(Append(fills, f)) = FilledBy(fills) + FillQty[f]
<1> DEFINE D == DOMAIN fills
           q == [i \in D |-> FillQty[fills[i]]]
<1>1. IsFiniteSet(D) /\ D = 1..Len(fills) /\ Len(fills) \in Nat
  BY FS_Interval
<1>2. \A i \in D : q[i] \in Nat
  BY AlgorithmAssumption
<1>3. FilledBy(fills) = SumOver(q, D)
  BY DEF FilledBy, Sum, SumOver
<1>4. SumOver(q, D) \in Nat
  <2> HIDE DEF q, D
  <2> QED
    BY <1>1, <1>2, SumNat
<1>5. ASSUME NEW f \in Fills PROVE FilledBy(Append(fills, f)) = FilledBy(fills) + FillQty[f]
  <2> DEFINE g == Append(fills, f)
             n == Len(fills) + 1
             p == [i \in DOMAIN g |-> FillQty[g[i]]]
  <2>1. DOMAIN g = D \cup {n} /\ n \notin D /\ g[n] = f /\ \A i \in D : g[i] = fills[i]
    BY <1>1
  <2>2. FilledBy(g) = SumOver(p, DOMAIN g)
    BY DEF FilledBy, Sum, SumOver
  <2>3. FillQty[f] \in Nat
    BY AlgorithmAssumption
  <2>4. p[n] = FillQty[f] /\ \A i \in D : p[i] = q[i]
    BY <2>1
  <2> HIDE DEF p, q, g, D, n
  <2>5. SumOver(p, D \cup {n}) = p[n] + SumOver(p, D)
    BY <1>1, <1>2, <2>1, <2>3, <2>4, SumAdd
  <2>6. SumOver(p, D) = SumOver(q, D)
    BY <1>1, <2>4, SumSame
  <2>7. FilledBy(g) = FilledBy(fills) + FillQty[f]
    BY <1>3, <1>4, <2>1, <2>2, <2>3, <2>4, <2>5, <2>6
  <2> QED
    BY <2>7 DEF g
<1> QED
  BY <1>3, <1>4, <1>5

\* Of an execution of the right type, the sums are numbers.
LEMMA SumsAreNat ==
    ASSUME NEW x \in Executions
    PROVE  /\ \A k \in Orders : x.orders[k] \in OrderRecords /\ FilledOf(x)[k] = x.orders[k].filled
                                /\ x.orders[k].filled \in Nat /\ x.orders[k].quantity \in Nat
           /\ \A s \in Slices : x.slices[s] \in SliceRecords
           /\ \A s \in Slices : OrdersOf(x, s) \subseteq Orders /\ IsFiniteSet(OrdersOf(x, s))
           /\ \A s \in Slices : SliceFilled(x, s) \in Nat
           /\ SumOver(FilledOf(x), Orders) \in Nat
           /\ FilledBy(x.fills) \in Nat /\ Remaining(x) \in Nat
<1>1. /\ \A k \in Orders : x.orders[k] \in OrderRecords /\ x.orders[k].filled \in Nat /\ x.orders[k].quantity \in Nat
      /\ \A s \in Slices : x.slices[s] \in SliceRecords
  BY DEF Executions, OrderRecords
<1>2. \A k \in Orders : FilledOf(x)[k] = x.orders[k].filled
  BY DEF FilledOf
<1>3. \A s \in Slices : OrdersOf(x, s) \subseteq Orders /\ IsFiniteSet(OrdersOf(x, s))
  BY AlgorithmAssumption, FS_Subset DEF OrdersOf
<1>4. \A s \in Slices : SliceFilled(x, s) \in Nat
  BY <1>1, <1>2, <1>3, SumNat DEF SliceFilled
<1>5. SumOver(FilledOf(x), Orders) \in Nat
  BY <1>1, <1>2, AlgorithmAssumption, SumNat
<1>6. FilledBy(x.fills) \in Nat
  BY FilledByFills DEF Executions
<1>7. Remaining(x) \in Nat
  BY <1>6, MinOfTwo, TotalIsNat DEF Remaining
<1> QED
  BY <1>1, <1>2, <1>3, <1>4, <1>5, <1>6, <1>7

\* What an operation that fills nothing makes of an order.
OrderStays(o, p) ==
    /\ p.slice = o.slice /\ p.quantity = o.quantity /\ p.filled = o.filled
    /\ p.status = "NONE" <=> o.status = "NONE"
    /\ Active(p) => Active(o)

OrdersStay(x, y) ==
    /\ y.fills = x.fills /\ y.crowded = x.crowded
    /\ \A k \in Orders : OrderStays(x.orders[k], y.orders[k])

LEMMA StayingKeeps ==
    ASSUME NEW x, NEW y, OrdersStay(x, y)
    PROVE  /\ FilledOf(y) = FilledOf(x)
           /\ \A s \in Slices : OrdersOf(y, s) = OrdersOf(x, s) /\ SliceFilled(y, s) = SliceFilled(x, s)
           /\ Remaining(y) = Remaining(x)
           /\ Ledger(x) => Ledger(y)
<1>1. FilledOf(y) = FilledOf(x)
  BY DEF OrdersStay, OrderStays, FilledOf
<1>2. \A s \in Slices : OrdersOf(y, s) = OrdersOf(x, s)
  BY DEF OrdersStay, OrderStays, OrdersOf
<1>3. \A s \in Slices : SliceFilled(y, s) = SliceFilled(x, s)
  BY <1>1, <1>2 DEF SliceFilled
<1>4. Remaining(y) = Remaining(x)
  BY DEF OrdersStay, Remaining
<1>5. ASSUME Ledger(x) PROVE Ledger(y)
  <2>1. FillsEntered(y)
    BY <1>1, <1>5 DEF OrdersStay, OrderStays, Ledger, FillsEntered, FillsOf
  <2>2. OrdersOpen(y)
    BY <1>5 DEF OrdersStay, OrderStays, Ledger, OrdersOpen
  <2>3. ASSUME NEW s \in Slices \ y.crowded PROVE NotCrowded(y, s)
    <3>1. NotCrowded(x, s) /\ OrdersOf(x, s) \subseteq Orders
      BY <1>5 DEF Ledger, OrdersStay, OrdersOf
    <3>2. \A k \in OrdersOf(x, s) : OrderStays(x.orders[k], y.orders[k])
      BY <3>1 DEF OrdersStay
    <3> QED
      BY <1>2, <1>3, <3>1, <3>2 DEF NotCrowded, OrderStays
  <2> QED
    BY <2>1, <2>2, <2>3 DEF Ledger
<1> QED
  BY <1>1, <1>2, <1>3, <1>4, <1>5

\* An operation that fills nothing, takes no room and completes nothing.
LEMMA AmendingKeeps ==
    ASSUME NEW x, Kept(x), NEW y \in Executions, OrdersStay(x, y),
           \A s \in Slices : y.slices[s].remaining <= x.slices[s].remaining,
           y.status = x.status \/ y.status # "COMPLETED"
    PROVE  Kept(y)
<1>1. Ledger(y)
  BY StayingKeeps DEF Kept
<1>2. ASSUME NEW s \in Slices PROVE Room(y, s)
  <2>1. SliceFilled(y, s) = SliceFilled(x, s) /\ SliceFilled(x, s) \in Nat
    BY StayingKeeps, SumsAreNat DEF Kept
  <2>2. x.slices[s].remaining \in Nat /\ y.slices[s].remaining \in Nat /\ Target[s] \in Nat
    BY SumsAreNat, AlgorithmAssumption DEF SliceRecords, Kept
  <2>3. Room(x, s) /\ y.crowded = x.crowded /\ y.slices[s].remaining <= x.slices[s].remaining
    BY DEF Kept, OrdersStay
  <2> QED
    BY <2>1, <2>2, <2>3 DEF Room
<1>3. Done(y)
  BY DEF Kept, Done, OrdersStay, OrderStays
<1> QED
  BY <1>1, <1>2, <1>3 DEF Kept

LEMMA ProgressIsSound ==
    ASSUME NEW x, Kept(x) PROVE Sound(WithProgress(x))
<1> DEFINE y == WithProgress(x)
<1>1. x \in Executions /\ Remaining(x) \in Nat
  BY SumsAreNat DEF Kept
<1>2. /\ y \in Executions /\ y.orders = x.orders /\ y.slices = x.slices /\ y.fills = x.fills
      /\ y.crowded = x.crowded /\ y.status = x.status /\ y.remaining = Remaining(x)
  BY <1>1 DEF WithProgress, Executions
<1>3. \A s \in Slices : y.slices[s].remaining <= x.slices[s].remaining
  BY <1>1, <1>2, SumsAreNat DEF SliceRecords
<1> HIDE DEF y
<1>4. OrdersStay(x, y)
  BY <1>2 DEF OrdersStay, OrderStays
<1>5. Kept(y)
  BY <1>2, <1>3, <1>4, AmendingKeeps
<1>6. y.remaining = Remaining(y)
  BY <1>2, <1>4, StayingKeeps
<1> QED
  BY <1>5, <1>6 DEF Kept, Sound, y

\* With no crowded slice, what has been filled of all orders is the whole target
\* only when every active order has been filled, and then it is not active.
LEMMA NothingLeftNoneActive ==
    ASSUME NEW x, Sound(x), x.remaining = 0, x.crowded = {}, NEW k \in Orders PROVE ~Active(x.orders[k])
<1> DEFINE A == {j \in Orders : x.orders[j].status # "NONE"}
           grp == [j \in Orders |-> x.orders[j].slice]
           sums == GroupSums(FilledOf(x), A, grp, Slices)
<1>1. x \in Executions /\ Ledger(x)
  BY DEF Sound
<1>2. Total <= SumOver(FilledOf(x), Orders)
  <2>1. FilledBy(x.fills) = SumOver(FilledOf(x), Orders) /\ FilledBy(x.fills) \in Nat
    BY <1>1, SumsAreNat DEF Ledger, FillsEntered
  <2>2. Total - Min({Total, FilledBy(x.fills)}) = 0
    BY DEF Sound, Remaining
  <2> QED
    BY <2>1, <2>2, TotalIsNat, MinOfTwo
<1>3. SumOver(FilledOf(x), Orders) = SumOver(FilledOf(x), A)
  <2>1. A \subseteq Orders /\ \A j \in Orders \ A : FilledOf(x)[j] = 0
    BY <1>1, SumsAreNat DEF Ledger, OrdersOpen
  <2>2. \A j \in Orders : FilledOf(x)[j] \in Nat
    BY <1>1, SumsAreNat
  <2> HIDE DEF A
  <2> QED
    BY <2>1, <2>2, SumSkips, AlgorithmAssumption
<1>4. SumOver(FilledOf(x), A) = SumOver(sums, Slices)
  <2>1. IsFiniteSet(A) /\ IsFiniteSet(Slices)
    BY AlgorithmAssumption, FS_Subset
  <2>2. \A j \in A : FilledOf(x)[j] \in Nat /\ grp[j] \in Slices
    BY <1>1, SumsAreNat DEF OrderRecords
  <2> HIDE DEF A, grp
  <2> QED
    BY <2>1, <2>2, SumGroups
<1>5. \A s \in Slices : sums[s] = SliceFilled(x, s)
  <2>1. \A s \in Slices : Group(A, grp, s) = OrdersOf(x, s)
    BY DEF Group, OrdersOf
  <2> HIDE DEF A, grp
  <2> QED
    BY <2>1 DEF GroupSums, SliceFilled
<1>6. \A s \in Slices : sums[s] \in Nat /\ Target[s] \in Nat /\ sums[s] <= Target[s]
  <2>1. \A s \in Slices : SliceFilled(x, s) \in Nat /\ SliceFilled(x, s) <= Target[s]
    BY <1>1, SumsAreNat DEF Ledger, NotCrowded
  <2> HIDE DEF sums
  <2> QED
    BY <1>5, <2>1, AlgorithmAssumption
<1>7. ASSUME NEW s \in Slices PROVE SliceFilled(x, s) = Target[s]
  <2>1. SumOver(Target, Slices) <= SumOver(sums, Slices)
    BY <1>2, <1>3, <1>4, TotalIsNat
  <2> HIDE DEF sums
  <2> QED
    BY <1>5, <1>6, <2>1, SumTight, AlgorithmAssumption
<1>8. ASSUME Active(x.orders[k]) PROVE FALSE
  <2> DEFINE s == x.orders[k].slice
  <2>1. s \in Slices /\ k \in OrdersOf(x, s)
    BY <1>1, <1>8, SumsAreNat DEF OrderRecords, OrdersOf, Active
  <2>2. NotCrowded(x, s) /\ x.orders[k].filled < x.orders[k].quantity
    BY <1>1, <1>8, <2>1 DEF Ledger, OrdersOpen
  <2> HIDE DEF s
  <2>3. SliceFilled(x, s) + x.orders[k].quantity <= Target[s] + x.orders[k].filled
    BY <1>8, <2>1, <2>2 DEF NotCrowded
  <2> QED
    BY <1>1, <1>7, <2>1, <2>2, <2>3, SumsAreNat, AlgorithmAssumption
<1> QED
  BY <1>8

LEMMA CompletionIsSound ==
    ASSUME NEW x, Sound(x), NEW y \in Completed(x) PROVE Sound(y)
<1>1. CASE y = x
  BY <1>1
<1>2. CASE y \in Transitions(x, "COMPLETED") /\ ~(x.remaining > 0)
  <2>1. y = [x EXCEPT !.status = "COMPLETED", !.version = @ + 1]
    BY <1>2 DEF Transitions
  <2>2. x \in Executions /\ x.remaining = 0
    BY <1>2 DEF Sound, Executions
  <2>3. /\ y \in Executions /\ y.orders = x.orders /\ y.slices = x.slices /\ y.fills = x.fills
        /\ y.crowded = x.crowded /\ y.remaining = x.remaining
    <3>1. "COMPLETED" \in Statuses /\ x.version + 1 \in Nat
      BY <2>2 DEF Statuses, Executions
    <3> QED
      BY <2>1, <2>2, <3>1 DEF Executions
  <2>4. OrdersStay(x, y)
    BY <2>3 DEF OrdersStay, OrderStays
  <2>5. Ledger(y) /\ y.remaining = Remaining(y)
    BY <2>3, <2>4, StayingKeeps DEF Sound
  <2>6. \A s \in Slices : Room(y, s)
    BY <2>3, <2>4, StayingKeeps DEF Sound, Room
  <2>7. Done(y)
    BY <2>2, <2>3, NothingLeftNoneActive DEF Done
  <2> QED
    BY <2>3, <2>5, <2>6, <2>7 DEF Sound
<1> QED
  BY <1>1, <1>2 DEF Completed

LEMMA SliceSet ==
    ASSUME NEW x \in Executions, NEW s \in Slices, NEW r \in SliceRecords
    PROVE  LET w == [x EXCEPT !.slices[s] = r, !.version = @ + 1]
           IN  /\ w \in Executions /\ OrdersStay(x, w) /\ w.orders = x.orders /\ w.status = x.status
               /\ w.slices[s] = r /\ \A t \in Slices \ {s} : w.slices[t] = x.slices[t]
<1> DEFINE w == [x EXCEPT !.slices[s] = r, !.version = @ + 1]
<1>1. x.version + 1 \in Nat
  BY DEF Executions
<1>2. /\ w \in Executions /\ w.orders = x.orders /\ w.fills = x.fills /\ w.crowded = x.crowded /\ w.status = x.status
      /\ w.slices[s] = r /\ \A t \in Slices \ {s} : w.slices[t] = x.slices[t]
  BY <1>1 DEF Executions
<1> HIDE DEF w
<1>3. OrdersStay(x, w)
  BY <1>2 DEF OrdersStay, OrderStays
<1> QED
  BY <1>2, <1>3 DEF w

LaterRecords == [id : Orders, order : OrderRecords]

LEMMA LaterSums ==
    ASSUME NEW x \in Executions, NEW s
    PROVE  /\ Sum([i \in DOMAIN x.later |-> x.later[i].order.submitted], LaterOf(x, s)) \in Nat
           /\ Sum([i \in DOMAIN x.later |-> x.later[i].order.filled], LaterOf(x, s)) \in Nat
<1> DEFINE D == DOMAIN x.later
           p == [i \in D |-> x.later[i].order.submitted]
           q == [i \in D |-> x.later[i].order.filled]
<1>1. x.later \in Seq(LaterRecords)
  BY DEF Executions, LaterRecords
<1>2. IsFiniteSet(D)
  <2>1. D = 1..Len(x.later) /\ Len(x.later) \in Nat
    BY <1>1
  <2> QED
    BY <2>1, FS_Interval
<1>3. LaterOf(x, s) \subseteq D
  BY DEF LaterOf
<1>4. IsFiniteSet(LaterOf(x, s))
  BY <1>2, <1>3, FS_Subset
<1>5. \A i \in D : x.later[i] \in LaterRecords
  BY <1>1
<1>6. \A i \in D : p[i] \in Nat /\ q[i] \in Nat
  BY <1>5 DEF LaterRecords, OrderRecords
<1>7. /\ Sum(p, LaterOf(x, s)) = SumOver(p, LaterOf(x, s))
      /\ Sum(q, LaterOf(x, s)) = SumOver(q, LaterOf(x, s))
  BY DEF Sum, SumOver
<1> HIDE DEF D, p, q
<1>8. SumOver(p, LaterOf(x, s)) \in Nat /\ SumOver(q, LaterOf(x, s)) \in Nat
  BY <1>3, <1>4, <1>6, SumNat
<1> QED
  BY <1>7, <1>8 DEF D, p, q

\* A slice is brought up to date with its orders: no more of it is left than what
\* those its ids find have not filled, for the others count too.
LEMMA SliceUpdateStays ==
    ASSUME NEW x \in Executions, NEW s \in Slices
    PROVE  LET y == SliceUpdated(x, s)
           IN  /\ y \in Executions /\ OrdersStay(x, y) /\ y.orders = x.orders /\ y.status = x.status
               /\ \A t \in Slices \ {s} : y.slices[t] = x.slices[t]
               /\ SliceFilled(x, s) <= Target[s] => y.slices[s].remaining + SliceFilled(x, s) <= Target[s]
<1> DEFINE m == Sum([i \in DOMAIN x.later |-> x.later[i].order.submitted], LaterOf(x, s))
           n == Sum([i \in DOMAIN x.later |-> x.later[i].order.filled], LaterOf(x, s))
           submitted == Min({Target[s], Sum([k \in Orders |-> x.orders[k].submitted], OrdersOf(x, s)) + m})
           filled    == Min({Target[s], Sum([k \in Orders |-> x.orders[k].filled], OrdersOf(x, s)) + n})
           status    == IF filled = Target[s] THEN "FILLED"
                        ELSE IF filled > 0 THEN "PARTIALLY_FILLED"
                        ELSE IF submitted > 0 THEN "SUBMITTED"
                        ELSE IF /\ OrdersOf(x, s) # {} /\ \A k \in OrdersOf(x, s) : ~Active(x.orders[k])
                                /\ \A i \in LaterOf(x, s) : ~Active(x.later[i].order) THEN "CANCELLED"
                        ELSE x.slices[s].status
           r == [status |-> status, submitted |-> submitted, filled |-> filled, remaining |-> Target[s] - filled]
           y == [x EXCEPT !.slices[s] = r, !.version = @ + 1]
<1>1. SliceUpdated(x, s) = y
  BY DEF SliceUpdated
<1>0. m \in Nat /\ n \in Nat
  BY LaterSums
<1> HIDE DEF m, n
<1>2. filled = Min({Target[s], SliceFilled(x, s) + n})
  BY DEF Sum, SumOver, FilledOf, SliceFilled
<1>3. submitted \in Nat
  <2> DEFINE q == [k \in Orders |-> x.orders[k].submitted]
  <2>1. \A k \in OrdersOf(x, s) : q[k] \in Nat
    BY SumsAreNat DEF OrderRecords
  <2>2. submitted = Min({Target[s], SumOver(q, OrdersOf(x, s)) + m})
    BY DEF Sum, SumOver
  <2> HIDE DEF q, submitted
  <2>3. SumOver(q, OrdersOf(x, s)) + m \in Nat
    BY <1>0, <2>1, SumsAreNat, SumNat
  <2>4. Target[s] \in Nat
    BY AlgorithmAssumption
  <2> QED
    BY <2>2, <2>3, <2>4, MinOfTwo
<1>4. /\ filled \in Nat /\ Target[s] - filled \in Nat
      /\ SliceFilled(x, s) <= Target[s] => (Target[s] - filled) + SliceFilled(x, s) <= Target[s]
  <2>1. Target[s] \in Nat /\ SliceFilled(x, s) \in Nat /\ SliceFilled(x, s) + n \in Nat
    BY <1>0, AlgorithmAssumption, SumsAreNat
  <2> HIDE DEF filled
  <2>2. filled = IF Target[s] <= SliceFilled(x, s) + n THEN Target[s] ELSE SliceFilled(x, s) + n
    BY <1>2, <2>1, MinOfTwo
  <2> QED
    BY <1>0, <2>1, <2>2
<1>5. status \in SliceStatuses
  <2>1. x.slices[s].status \in SliceStatuses
    BY SumsAreNat DEF SliceRecords
  <2> HIDE DEF filled, submitted
  <2> QED
    BY <2>1 DEF SliceStatuses
<1> HIDE DEF submitted, filled, status
<1>6. r \in SliceRecords /\ r.remaining = Target[s] - filled
  BY <1>3, <1>4, <1>5 DEF SliceRecords
<1> HIDE DEF r
<1>7. /\ y \in Executions /\ OrdersStay(x, y) /\ y.orders = x.orders /\ y.status = x.status
      /\ y.slices[s] = r /\ \A t \in Slices \ {s} : y.slices[t] = x.slices[t]
  BY <1>6, SliceSet
<1> HIDE DEF y
<1> QED
  BY <1>1, <1>4, <1>6, <1>7

\* ... after which it has room, if no other slice lacked it.
LEMMA SliceUpdateKeeps ==
    ASSUME NEW x \in Executions, NEW s \in Slices, Ledger(x), Done(x), \A t \in Slices \ {s} : Room(x, t)
    PROVE  Kept(SliceUpdated(x, s))
<1> DEFINE y == SliceUpdated(x, s)
<1>1. /\ y \in Executions /\ OrdersStay(x, y) /\ y.orders = x.orders /\ y.status = x.status /\ y.crowded = x.crowded
      /\ \A t \in Slices \ {s} : y.slices[t] = x.slices[t]
      /\ SliceFilled(x, s) <= Target[s] => y.slices[s].remaining + SliceFilled(x, s) <= Target[s]
  BY SliceUpdateStays DEF OrdersStay
<1> HIDE DEF y
<1>2. Ledger(y) /\ \A t \in Slices : SliceFilled(y, t) = SliceFilled(x, t)
  BY <1>1, StayingKeeps
<1>3. Room(y, s)
  <2>1. ASSUME s \notin y.crowded PROVE SliceFilled(x, s) <= Target[s]
    BY <1>1, <2>1 DEF Ledger, NotCrowded
  <2> QED
    BY <1>1, <1>2, <2>1 DEF Room
<1>4. \A t \in Slices \ {s} : Room(y, t)
  BY <1>1, <1>2 DEF Room
<1>5. Done(y)
  BY <1>1 DEF Done
<1> QED
  BY <1>1, <1>2, <1>3, <1>4, <1>5 DEF Kept, y

-----------------------------------------------------------------------------
(* The operations keep the books.                                          *)

LEMMA TransitionKeeps ==
    ASSUME NEW x, Kept(x), NEW s \in Statuses \ {"COMPLETED"}, NEW y \in Transitions(x, s) PROVE Kept(y)
<1>1. y = [x EXCEPT !.status = s, !.version = @ + 1] /\ x \in Executions
  BY DEF Transitions, Kept
<1>2. x.version + 1 \in Nat
  BY <1>1 DEF Executions
<1>3. /\ y \in Executions /\ y.orders = x.orders /\ y.slices = x.slices /\ y.fills = x.fills
      /\ y.crowded = x.crowded /\ y.status = s
  BY <1>1, <1>2 DEF Executions
<1>4. OrdersStay(x, y)
  BY <1>3 DEF OrdersStay, OrderStays
<1>5. \A t \in Slices : y.slices[t].remaining <= x.slices[t].remaining
  BY <1>1, <1>3, SumsAreNat DEF SliceRecords
<1> QED
  BY <1>3, <1>4, <1>5, AmendingKeeps

LEMMA ChangeIsSound ==
    ASSUME NEW x, Sound(x), NEW s \in Statuses \ {"COMPLETED"}, NEW y \in Changed(x, s) PROVE Sound(y)
  BY TransitionKeeps, ProgressIsSound DEF Changed, Sound, Kept

LEMMA EndedStays == ASSUME NEW o \in OrderRecords PROVE Ended(o) \in OrderRecords /\ OrderStays(o, Ended(o))
<1>1. CASE Active(o)
  BY <1>1 DEF Ended, OrderRecords, OrderStatuses, OrderStays, Active
<1>2. CASE ~Active(o)
  BY <1>2 DEF Ended, OrderStays
<1> QED
  BY <1>1, <1>2

LEMMA CancelIsSound ==
    ASSUME NEW x, Sound(x), NEW y \in Cancelled(x) PROVE Sound(y)
<1> DEFINE os == [k \in Orders |-> Ended(x.orders[k])]
           later == [i \in DOMAIN x.later |-> [id |-> x.later[i].id, order |-> Ended(x.later[i].order)]]
           w == [x EXCEPT !.orders = os, !.later = later, !.version = @ + 1]
<1>1. PICK z \in Transitions(w, "CANCELLED") : y = WithProgress(z)
  BY DEF Cancelled
<1>2. x \in Executions /\ x.version + 1 \in Nat
  BY DEF Sound, Executions
<1>3. os \in [Orders -> OrderRecords] /\ \A k \in Orders : OrderStays(x.orders[k], os[k])
  <2>1. ASSUME NEW k \in Orders PROVE os[k] \in OrderRecords /\ OrderStays(x.orders[k], os[k])
    <3>1. x.orders[k] \in OrderRecords
      BY <1>2, SumsAreNat
    <3> QED
      BY <3>1, EndedStays
  <2> QED
    BY <2>1
<1>9. later \in Seq(LaterRecords)
  <2>1. x.later \in Seq(LaterRecords)
    BY <1>2 DEF Executions, LaterRecords
  <2>2. ASSUME NEW i \in DOMAIN x.later PROVE later[i] \in LaterRecords
    <3>1. x.later[i] \in LaterRecords
      BY <2>1
    <3>2. Ended(x.later[i].order) \in OrderRecords
      BY <3>1, EndedStays DEF LaterRecords
    <3> QED
      BY <3>1, <3>2 DEF LaterRecords
  <2> HIDE DEF later
  <2>3. DOMAIN later = 1..Len(x.later) /\ later = [i \in 1..Len(x.later) |-> later[i]] /\ Len(x.later) \in Nat
    BY <2>1 DEF later
  <2> QED
    BY <2>1, <2>2, <2>3
<1> HIDE DEF os, later
<1>4. /\ w \in Executions /\ w.orders = os /\ w.slices = x.slices /\ w.fills = x.fills
      /\ w.crowded = x.crowded /\ w.status = x.status
  BY <1>2, <1>3, <1>9 DEF Executions, LaterRecords
<1>5. OrdersStay(x, w)
  BY <1>3, <1>4 DEF OrdersStay
<1>6. \A t \in Slices : w.slices[t].remaining <= x.slices[t].remaining
  BY <1>2, <1>4, SumsAreNat DEF SliceRecords
<1> HIDE DEF w
<1>7. Kept(w)
  BY <1>4, <1>5, <1>6, AmendingKeeps DEF Sound, Kept
<1> QED
  BY <1>1, <1>7, TransitionKeeps, ProgressIsSound DEF Statuses

\* A slice is given another record, with no more left of it.
LEMMA SliceChangeKeeps ==
    ASSUME NEW x, Kept(x), NEW s \in Slices, NEW r \in SliceRecords, r.remaining <= x.slices[s].remaining
    PROVE  Kept([x EXCEPT !.slices[s] = r, !.version = @ + 1])
<1> DEFINE w == [x EXCEPT !.slices[s] = r, !.version = @ + 1]
<1>1. x \in Executions
  BY DEF Kept
<1>2. /\ w \in Executions /\ OrdersStay(x, w) /\ w.orders = x.orders /\ w.status = x.status
      /\ w.slices[s] = r /\ \A t \in Slices \ {s} : w.slices[t] = x.slices[t]
  BY <1>1, SliceSet
<1> HIDE DEF w
<1>4. ASSUME NEW t \in Slices PROVE w.slices[t].remaining <= x.slices[t].remaining
  <2>1. x.slices[t].remaining \in Nat
    BY <1>1, SumsAreNat DEF SliceRecords
  <2> QED
    BY <1>2, <2>1
<1>5. Kept(w)
  BY <1>2, <1>4, AmendingKeeps
<1> QED
  BY <1>5 DEF w

LEMMA SliceStatusIsSound ==
    ASSUME NEW x, Kept(x), NEW s \in Slices, NEW status \in SliceStatuses
    PROVE  Sound(WithProgress([x EXCEPT !.slices[s].status = status, !.version = @ + 1]))
<1> DEFINE r == [x.slices[s] EXCEPT !.status = status]
<1>1. r \in SliceRecords /\ r.remaining <= x.slices[s].remaining
  BY SumsAreNat DEF Kept, SliceRecords
<1>2. [x EXCEPT !.slices[s].status = status, !.version = @ + 1] = [x EXCEPT !.slices[s] = r, !.version = @ + 1]
  OBVIOUS
<1> HIDE DEF r
<1> QED
  BY <1>1, <1>2, SliceChangeKeeps, ProgressIsSound

LEMMA ActivationIsSound ==
    ASSUME NEW x, Sound(x), NEW s \in Slices, NEW y \in Activated(x, s) PROVE Sound(y)
<1>1. Kept(x)
  BY DEF Sound, Kept
<1> QED
  BY <1>1, SliceStatusIsSound DEF Activated, SliceStatuses

LEMMA SliceFailureIsSound ==
    ASSUME NEW x, Sound(x), NEW s \in Slices, NEW y \in SliceFailed(x, s) PROVE Sound(y)
<1>1. Kept(x)
  BY DEF Sound, Kept
<1> QED
  BY <1>1, SliceStatusIsSound DEF SliceFailed, SliceStatuses

LEMMA SliceCompletionIsSound ==
    ASSUME NEW x, Sound(x), NEW s \in Slices, NEW y \in SliceCompleted(x, s) PROVE Sound(y)
<1> DEFINE r == [x.slices[s] EXCEPT !.status = "FILLED", !.filled = Target[s], !.remaining = 0]
<1>1. r \in SliceRecords /\ r.remaining <= x.slices[s].remaining
  <2>1. x.slices[s] \in SliceRecords /\ Target[s] \in Nat
    BY SumsAreNat, AlgorithmAssumption DEF Sound
  <2>2. "FILLED" \in SliceStatuses
    BY DEF SliceStatuses
  <2>3. r \in SliceRecords /\ r.remaining = 0
    BY <2>1, <2>2 DEF SliceRecords
  <2> QED
    BY <2>1, <2>3 DEF SliceRecords
<1>2. y \in Completed(WithProgress([x EXCEPT !.slices[s] = r, !.version = @ + 1]))
  BY DEF SliceCompleted
<1> HIDE DEF r
<1> QED
  BY <1>1, <1>2, SliceChangeKeeps, ProgressIsSound, CompletionIsSound DEF Sound, Kept

\* Only an active order moves on.
LEMMA ActiveOnesMove ==
    ASSUME NEW o \in OrderRecords, NEW status, status \in OrderTransitions[o.status]
    PROVE  Active(o) /\ o.status # "NONE"
  BY DEF OrderRecords, OrderStatuses, OrderTransitions, Active

LEMMA LaterReplaced ==
    ASSUME NEW x \in Executions, NEW k \in Orders, NEW p \in OrderRecords
    PROVE  [i \in DOMAIN x.later |-> IF x.later[i].id = k THEN [id |-> k, order |-> p] ELSE x.later[i]] \in Seq(LaterRecords)
<1> DEFINE later == [i \in DOMAIN x.later |-> IF x.later[i].id = k THEN [id |-> k, order |-> p] ELSE x.later[i]]
<1>1. x.later \in Seq(LaterRecords)
  BY DEF Executions, LaterRecords
<1>2. ASSUME NEW i \in DOMAIN x.later PROVE later[i] \in LaterRecords
  <2>1. x.later[i] \in LaterRecords
    BY <1>1
  <2>2. [id |-> k, order |-> p] \in LaterRecords
    BY DEF LaterRecords
  <2>3. later[i] = IF x.later[i].id = k THEN [id |-> k, order |-> p] ELSE x.later[i]
    OBVIOUS
  <2> HIDE DEF later
  <2> QED
    BY <2>1, <2>2, <2>3
<1>3. later = [i \in 1..Len(x.later) |-> later[i]] /\ DOMAIN x.later = 1..Len(x.later) /\ Len(x.later) \in Nat
  BY <1>1
<1> HIDE DEF later
<1>4. later \in Seq(LaterRecords)
  BY <1>2, <1>3
<1> QED
  BY <1>4 DEF later

\* One order is replaced, and fills are entered.
With(x, k, p, F) == [Replaced(x, k, p) EXCEPT !.fills = F, !.version = @ + 1]

LEMMA ReplacedWith ==
    ASSUME NEW x \in Executions, NEW k \in Orders, NEW p \in OrderRecords, NEW F \in Seq(Fills)
    PROVE  LET w == With(x, k, p, F)
           IN  /\ w \in Executions /\ w.slices = x.slices /\ w.fills = F /\ w.crowded = x.crowded
               /\ w.status = x.status
               /\ w.orders[k] = p /\ \A j \in Orders \ {k} : w.orders[j] = x.orders[j]
<1> DEFINE w == With(x, k, p, F)
           later == [i \in DOMAIN x.later |-> IF x.later[i].id = k THEN [id |-> k, order |-> p] ELSE x.later[i]]
           O == [x.orders EXCEPT ![k] = p]
           v == [x EXCEPT !.orders = O, !.later = later, !.fills = F, !.version = x.version + 1]
<1>1. w = v
  BY DEF Replaced, With, Executions
<1>2. later \in Seq(LaterRecords)
  BY LaterReplaced
<1>3. O \in [Orders -> OrderRecords] /\ O[k] = p /\ \A j \in Orders \ {k} : O[j] = x.orders[j]
  BY DEF Executions
<1>4. x.version + 1 \in Nat
  BY DEF Executions
<1> HIDE DEF w, later, O
<1>5. /\ v \in Executions /\ v.slices = x.slices /\ v.fills = F /\ v.crowded = x.crowded
      /\ v.status = x.status /\ v.orders = O
  BY <1>2, <1>3, <1>4 DEF Executions, LaterRecords
<1> HIDE DEF v
<1> QED
  BY <1>1, <1>3, <1>5 DEF w

LEMMA OrderSet ==
    ASSUME NEW x \in Executions, NEW k \in Orders, NEW p \in OrderRecords
    PROVE  LET w == [Replaced(x, k, p) EXCEPT !.version = @ + 1]
           IN  /\ w \in Executions /\ w.slices = x.slices /\ w.fills = x.fills /\ w.crowded = x.crowded
               /\ w.status = x.status
               /\ w.orders[k] = p /\ \A j \in Orders \ {k} : w.orders[j] = x.orders[j]
<1> DEFINE w == [Replaced(x, k, p) EXCEPT !.version = @ + 1]
           v == With(x, k, p, x.fills)
<1>1. w = v
  BY DEF Replaced, With, Executions
<1>2. x.fills \in Seq(Fills)
  BY DEF Executions
<1>3. /\ v \in Executions /\ v.slices = x.slices /\ v.fills = x.fills /\ v.crowded = x.crowded
      /\ v.status = x.status
      /\ v.orders[k] = p /\ \A j \in Orders \ {k} : v.orders[j] = x.orders[j]
  BY <1>2, ReplacedWith
<1> HIDE DEF w, v
<1> QED
  BY <1>1, <1>3 DEF w

LEMMA OrderChangeKeeps ==
    ASSUME NEW x, Kept(x), NEW k \in Orders, NEW p \in OrderRecords, OrderStays(x.orders[k], p)
    PROVE  Kept([Replaced(x, k, p) EXCEPT !.version = @ + 1])
<1> DEFINE w == [Replaced(x, k, p) EXCEPT !.version = @ + 1]
<1>1. x \in Executions
  BY DEF Kept
<1>2. /\ w \in Executions /\ w.slices = x.slices /\ w.fills = x.fills /\ w.crowded = x.crowded
      /\ w.status = x.status
      /\ w.orders[k] = p /\ \A j \in Orders \ {k} : w.orders[j] = x.orders[j]
  BY <1>1, OrderSet
<1> HIDE DEF w
<1>3. OrdersStay(x, w)
  BY <1>2 DEF OrdersStay, OrderStays
<1>4. \A t \in Slices : w.slices[t].remaining <= x.slices[t].remaining
  BY <1>1, <1>2, SumsAreNat DEF SliceRecords
<1>5. Kept(w)
  BY <1>2, <1>3, <1>4, AmendingKeeps
<1> QED
  BY <1>5 DEF w

LEMMA MoveIsSound ==
    ASSUME NEW x, Sound(x), NEW k \in Orders, NEW status \in OrderStatuses \ {"NONE"}, NEW y \in OrderMoved(x, k, status)
    PROVE  Sound(y)
<1> DEFINE o == x.orders[k]
           p == [o EXCEPT !.status = status]
           w == [Replaced(x, k, p) EXCEPT !.version = @ + 1]
<1>1. y = WithProgress(SliceUpdated(w, o.slice)) /\ status \in OrderTransitions[o.status]
  BY DEF OrderMoved
<1>2. o \in OrderRecords
  BY SumsAreNat DEF Sound
<1> HIDE DEF o
<1>3. p \in OrderRecords /\ OrderStays(o, p) /\ o.slice \in Slices
  BY <1>1, <1>2, ActiveOnesMove DEF OrderRecords, OrderStays
<1> HIDE DEF p
<1>4. Kept(w)
  BY <1>3, OrderChangeKeeps DEF Sound, Kept, o
<1> HIDE DEF w
<1>5. Kept(SliceUpdated(w, o.slice))
  BY <1>3, <1>4, SliceUpdateKeeps DEF Kept
<1> QED
  BY <1>1, <1>5, ProgressIsSound

LEMMA SubmissionIsSound ==
    ASSUME NEW x, Sound(x), NEW k \in Orders, NEW y \in OrderSubmitted(x, k) PROVE Sound(y)
<1> DEFINE o == x.orders[k]
           status == IF o.filled = o.quantity THEN "FILLED" ELSE IF o.filled > 0 THEN "PARTIALLY_FILLED" ELSE "OPEN"
           v == SliceUpdated(x, o.slice)
           p == [o EXCEPT !.status = status, !.submitted = o.quantity]
           w == [Replaced(v, k, p) EXCEPT !.version = @ + 1]
<1>1. x \in Executions /\ o \in OrderRecords /\ o.slice \in Slices
  BY SumsAreNat DEF Sound, OrderRecords
<1>2. v.orders = x.orders /\ Kept(v)
  BY <1>1, SliceUpdateStays, SliceUpdateKeeps DEF Sound
<1>3. y = WithProgress(w) /\ status \in OrderTransitions[o.status]
  BY <1>2 DEF OrderSubmitted
<1> HIDE DEF v
<1>4. status \in OrderStatuses \ {"NONE"}
  BY DEF OrderStatuses
<1> HIDE DEF status
<1>5. p \in OrderRecords /\ OrderStays(o, p)
  BY <1>1, <1>3, <1>4, ActiveOnesMove DEF OrderRecords, OrderStays
<1> HIDE DEF p
<1>6. Kept(w)
  BY <1>2, <1>5, OrderChangeKeeps
<1> QED
  BY <1>3, <1>6, ProgressIsSound

\* An order joins under an id that is not in use.
LEMMA FirstOfItsId ==
    ASSUME NEW x, Sound(x), x.status = "RUNNING", NEW s \in Slices, NEW k \in Orders, x.orders[k].status = "NONE",
           NEW q \in Quantities, q <= x.slices[s].remaining
    PROVE  Kept(Joined(x, k, NewOrder(s, q)))
<1> DEFINE p == NewOrder(s, q)
           busy == \E j \in OrdersOf(x, s) : Active(x.orders[j])
           crowd == IF busy THEN x.crowded \cup {s} ELSE x.crowded
           O == [x.orders EXCEPT ![k] = p]
           w == Joined(x, k, p)
<1>1. q <= x.slices[s].remaining /\ x.orders[k].status = "NONE" /\ x.status = "RUNNING"
  OBVIOUS
<1>2. x \in Executions /\ q \in Nat \ {0}
  BY AlgorithmAssumption DEF Sound, Executions
<1>3. /\ p \in OrderRecords /\ p.status = "CREATED" /\ p.slice = s /\ p.quantity = q /\ p.filled = 0
  BY <1>2 DEF NewOrder, OrderRecords, OrderStatuses
<1> HIDE DEF p
<1>5. crowd \in SUBSET Slices /\ x.crowded \subseteq crowd /\ (s \notin crowd => ~busy)
  BY <1>2 DEF Executions
<1>6. w = [x EXCEPT !.orders = O, !.crowded = crowd]
  BY <1>3 DEF Joined
<1> HIDE DEF crowd, w
<1>7. /\ w \in Executions /\ w.fills = x.fills /\ w.crowded = crowd /\ w.status = x.status
      /\ w.orders[k] = p /\ \A j \in Orders \ {k} : w.orders[j] = x.orders[j]
      /\ \A t \in Slices : w.slices[t].remaining = x.slices[t].remaining
  <2>1. O \in [Orders -> OrderRecords] /\ O[k] = p /\ \A j \in Orders \ {k} : O[j] = x.orders[j]
    BY <1>2, <1>3 DEF Executions
  <2> HIDE DEF O
  <2>3. w \in Executions
    BY <1>2, <1>5, <1>6, <2>1 DEF Executions
  <2> QED
    BY <1>2, <1>6, <2>1, <2>3 DEF Executions
<1>8. Ledger(x) /\ x.orders[k].filled = 0
  BY <1>1 DEF Sound, Ledger, OrdersOpen
<1>9. FilledOf(w) = FilledOf(x)
  BY <1>3, <1>7, <1>8 DEF FilledOf
<1>10. /\ \A t \in Slices \ {s} : OrdersOf(w, t) = OrdersOf(x, t) /\ k \notin OrdersOf(x, t)
       /\ OrdersOf(w, s) = OrdersOf(x, s) \cup {k} /\ k \notin OrdersOf(x, s)
  BY <1>1, <1>3, <1>7 DEF OrdersOf
<1>11. ASSUME NEW t \in Slices PROVE SliceFilled(w, t) = SliceFilled(x, t) /\ SliceFilled(x, t) \in Nat
  <2>1. SliceFilled(x, t) \in Nat /\ IsFiniteSet(OrdersOf(x, s)) /\ OrdersOf(x, s) \subseteq Orders
    BY <1>2, SumsAreNat
  <2>2. CASE t = s
    <3>1. \A j \in OrdersOf(x, s) \cup {k} : FilledOf(x)[j] \in Nat
      BY <1>2, <2>1, SumsAreNat
    <3>2. FilledOf(x)[k] = 0
      BY <1>2, <1>8, SumsAreNat
    <3>3. SumOver(FilledOf(x), OrdersOf(x, s) \cup {k}) = FilledOf(x)[k] + SumOver(FilledOf(x), OrdersOf(x, s))
      BY <1>10, <2>1, <3>1, SumAdd
    <3>4. SliceFilled(w, s) = SumOver(FilledOf(x), OrdersOf(x, s) \cup {k})
      BY <1>9, <1>10 DEF SliceFilled
    <3>5. SliceFilled(x, s) = SumOver(FilledOf(x), OrdersOf(x, s))
      BY DEF SliceFilled
    <3> QED
      BY <2>1, <2>2, <3>2, <3>3, <3>4, <3>5
  <2>3. CASE t # s
    BY <1>9, <1>10, <2>1, <2>3 DEF SliceFilled
  <2> QED
    BY <2>2, <2>3
<1>12. FillsEntered(w)
  <2>1. \A j \in Orders : w.orders[j].filled = x.orders[j].filled
    BY <1>3, <1>7, <1>8
  <2> QED
    BY <1>7, <1>8, <1>9, <2>1 DEF Ledger, FillsEntered, FillsOf
<1>13. OrdersOpen(w)
  BY <1>2, <1>3, <1>7, <1>8 DEF Ledger, OrdersOpen
<1>14. ASSUME NEW t \in Slices \ w.crowded PROVE NotCrowded(w, t)
  <2>1. NotCrowded(x, t)
    BY <1>5, <1>7, <1>8, <1>14 DEF Ledger
  <2>2. CASE t # s
    <3>1. \A j \in OrdersOf(x, t) : w.orders[j] = x.orders[j]
      BY <1>7, <1>10, <2>2 DEF OrdersOf
    <3> QED
      BY <1>10, <1>11, <2>1, <2>2, <3>1 DEF NotCrowded
  <2>3. CASE t = s
    <3>1. \A j \in OrdersOf(w, s) : Active(w.orders[j]) => j = k
      BY <1>5, <1>7, <1>10, <1>14, <2>3 DEF OrdersOf
    <3>2. SliceFilled(w, s) + q <= Target[s]
      <4>1. x.slices[s].remaining \in Nat /\ Target[s] \in Nat /\ SliceFilled(x, s) \in Nat
        BY <1>2, SumsAreNat, AlgorithmAssumption DEF SliceRecords
      <4>2. x.slices[s].remaining + SliceFilled(x, s) <= Target[s]
        BY <1>5, <1>7, <1>14, <2>3 DEF Sound, Room
      <4> QED
        BY <1>1, <1>2, <1>11, <4>1, <4>2
    <3>3. SliceFilled(w, s) <= Target[s]
      BY <1>11, <2>1, <2>3 DEF NotCrowded
    <3>4. Target[s] + 0 = Target[s]
      BY AlgorithmAssumption
    <3> QED
      BY <1>3, <1>7, <2>3, <3>1, <3>2, <3>3, <3>4 DEF NotCrowded
  <2> QED
    BY <2>2, <2>3
<1>15. \A t \in Slices : Room(w, t)
  BY <1>5, <1>7, <1>11 DEF Sound, Room
<1>16. Done(w)
  BY <1>1, <1>7 DEF Done
<1>17. Kept(w)
  BY <1>7, <1>12, <1>13, <1>14, <1>15, <1>16 DEF Kept, Ledger
<1> QED
  BY <1>17 DEF w, p

\* An order joins under an id that is in use: no id finds it.
LEMMA LaterOfItsId ==
    ASSUME NEW x, Sound(x), NEW k \in Orders, x.orders[k].status # "NONE", NEW o \in OrderRecords
    PROVE  Kept(Joined(x, k, o))
<1> DEFINE later == Append(x.later, [id |-> k, order |-> o])
           w == [x EXCEPT !.later = later]
<1>1. Joined(x, k, o) = w /\ x \in Executions
  BY DEF Joined, Sound
<1>2. later \in Seq(LaterRecords)
  BY <1>1 DEF Executions, LaterRecords
<1> HIDE DEF later
<1>3. /\ w \in Executions /\ w.orders = x.orders /\ w.slices = x.slices /\ w.fills = x.fills
      /\ w.crowded = x.crowded /\ w.status = x.status
  BY <1>1, <1>2 DEF Executions, LaterRecords
<1> HIDE DEF w
<1>4. OrdersStay(x, w)
  BY <1>3 DEF OrdersStay, OrderStays
<1>5. \A t \in Slices : w.slices[t].remaining <= x.slices[t].remaining
  BY <1>1, <1>3, SumsAreNat DEF SliceRecords
<1>6. Kept(w)
  BY <1>3, <1>4, <1>5, AmendingKeeps DEF Sound, Kept
<1> QED
  BY <1>1, <1>6

LEMMA CreationIsSound ==
    ASSUME NEW x, Sound(x), NEW s \in Slices, NEW k \in Orders, NEW q \in Quantities, NEW y \in OrderCreated(x, s, k, q)
    PROVE  Sound(y)
<1> DEFINE v == Joined(x, k, NewOrder(s, q))
<1>1. /\ y = WithProgress([v EXCEPT !.slices[s].status = "SUBMITTING", !.version = @ + 1])
      /\ x.status = "RUNNING" /\ q <= x.slices[s].remaining
  BY DEF OrderCreated, TakesOrders
<1>2. NewOrder(s, q) \in OrderRecords
  BY AlgorithmAssumption DEF NewOrder, OrderRecords, OrderStatuses
<1>3. Kept(v)
  BY <1>1, <1>2, FirstOfItsId, LaterOfItsId
<1> HIDE DEF v
<1> QED
  BY <1>1, <1>3, SliceStatusIsSound DEF SliceStatuses

\* A fill is entered, and no slice has been brought up to date yet.
LEMMA EntryKeepsLedger ==
    ASSUME NEW x, Sound(x), NEW f \in Fills \ ToSet(x.fills), NEW p \in OrderRecords, NEW w \in Executions,
           LET o == x.orders[FillOf[f]]
           IN  /\ Active(o) /\ p.slice = o.slice /\ p.quantity = o.quantity
               /\ p.filled = o.filled + FillQty[f] /\ p.filled <= p.quantity
               /\ p.status = IF p.filled = p.quantity THEN "FILLED" ELSE "PARTIALLY_FILLED",
           w.orders[FillOf[f]] = p, \A j \in Orders \ {FillOf[f]} : w.orders[j] = x.orders[j],
           w.fills = Append(x.fills, f), w.crowded = x.crowded
    PROVE  /\ Ledger(w)
           /\ \A t \in Slices \ {p.slice} : SliceFilled(w, t) = SliceFilled(x, t)
<1> DEFINE k == FillOf[f]
           o == x.orders[k]
           s == o.slice
           q == FillQty[f]
<1>1. x \in Executions /\ Ledger(x)
  BY DEF Sound
<1>2. k \in Orders /\ q \in Nat
  BY AlgorithmAssumption
<1>3. o \in OrderRecords /\ s \in Slices /\ Active(o) /\ o.status # "NONE"
  BY <1>1, <1>2, SumsAreNat DEF OrderRecords, Active
<1>4. /\ w.orders[k] = p /\ p.slice = s /\ p.quantity = o.quantity /\ p.filled = o.filled + q
      /\ p.filled <= p.quantity /\ p.status = IF p.filled = p.quantity THEN "FILLED" ELSE "PARTIALLY_FILLED"
      /\ \A j \in Orders \ {k} : w.orders[j] = x.orders[j]
  OBVIOUS
<1>5. o.filled \in Nat /\ o.quantity \in Nat
  BY <1>1, <1>2, SumsAreNat
<1> HIDE DEF k, o, s, q
<1>6. /\ FilledOf(w)[k] = FilledOf(x)[k] + q /\ FilledOf(x)[k] \in Nat
      /\ \A j \in Orders \ {k} : FilledOf(w)[j] = FilledOf(x)[j]
      /\ \A j \in Orders : FilledOf(w)[j] \in Nat /\ FilledOf(x)[j] \in Nat
  <2>1. \A j \in Orders : FilledOf(w)[j] = w.orders[j].filled /\ FilledOf(x)[j] = x.orders[j].filled
    BY <1>1, SumsAreNat
  <2>2. \A j \in Orders : FilledOf(w)[j] \in Nat /\ FilledOf(x)[j] \in Nat
    BY <1>1, SumsAreNat
  <2> QED
    BY <1>2, <1>4, <2>1, <2>2 DEF o
<1>7. \A A \in SUBSET Orders : k \in A => SumOver(FilledOf(w), A) = SumOver(FilledOf(x), A) + q
  <2>1. ASSUME NEW A \in SUBSET Orders, k \in A PROVE SumOver(FilledOf(w), A) = SumOver(FilledOf(x), A) + q
    <3>1. IsFiniteSet(A)
      BY AlgorithmAssumption, FS_Subset
    <3>2. SumOver(FilledOf(w), A) + FilledOf(x)[k] = SumOver(FilledOf(x), A) + FilledOf(w)[k]
      BY <1>6, <2>1, <3>1, SumUpdate
    <3>3. SumOver(FilledOf(w), A) \in Nat /\ SumOver(FilledOf(x), A) \in Nat
      BY <1>6, <3>1, SumNat
    <3>4. \A m, n, c, d \in Nat : m + c = n + (c + d) => m = n + d
      OBVIOUS
    <3>5. SumOver(FilledOf(w), A) + FilledOf(x)[k] = SumOver(FilledOf(x), A) + (FilledOf(x)[k] + q)
      BY <1>6, <3>2
    <3>6. FilledOf(x)[k] \in Nat /\ q \in Nat
      BY <1>2, <1>6
    <3> QED
      BY <3>3, <3>4, <3>5, <3>6
  <2> QED
    BY <2>1
<1>8. \A A \in SUBSET Orders : k \notin A => SumOver(FilledOf(w), A) = SumOver(FilledOf(x), A)
  BY <1>6, SumSame, AlgorithmAssumption, FS_Subset
<1>9. p.status # "NONE" /\ (Active(p) => p.filled # p.quantity)
  BY <1>4 DEF Active
<1>10. \A t \in Slices : OrdersOf(w, t) = OrdersOf(x, t) /\ (k \in OrdersOf(x, t) <=> t = s)
  BY <1>2, <1>3, <1>4, <1>9 DEF OrdersOf, o, s
<1>11. ASSUME NEW t \in Slices PROVE SliceFilled(w, t) = IF t = s THEN SliceFilled(x, s) + q ELSE SliceFilled(x, t)
  <2>1. OrdersOf(x, t) \in SUBSET Orders
    BY DEF OrdersOf
  <2> QED
    BY <1>7, <1>8, <1>10, <2>1 DEF SliceFilled
<1>12. FillsEntered(w)
  <2>1. FillsEntered(x) /\ x.fills \in Seq(Fills) /\ Len(x.fills) \in Nat
    BY <1>1 DEF Ledger, Executions
  <2>2. ToSet(w.fills) = ToSet(x.fills) \cup {f} /\ Len(w.fills) = Len(x.fills) + 1
    BY <2>1 DEF ToSet
  <2>3. IsFiniteSet(ToSet(w.fills)) /\ Cardinality(ToSet(w.fills)) = Len(w.fills)
    BY <2>1, <2>2, FS_AddElement DEF FillsEntered
  <2>4. FilledBy(w.fills) = SumOver(FilledOf(w), Orders)
    <3>1. SumOver(FilledOf(w), Orders) = SumOver(FilledOf(x), Orders) + q
      BY <1>2, <1>7
    <3>2. FilledBy(w.fills) = FilledBy(x.fills) + q
      BY <2>1, FilledByFills DEF q
    <3> QED
      BY <2>1, <3>1, <3>2 DEF FillsEntered
  <2>5. ASSUME NEW j \in Orders PROVE w.orders[j].filled = SumOver(FillQty, FillsOf(w, j))
    <3>1. x.orders[j].filled = SumOver(FillQty, FillsOf(x, j)) /\ ToSet(x.fills) \subseteq Fills
      BY <2>1 DEF FillsEntered, ToSet
    <3>2. IsFiniteSet(FillsOf(x, j))
      BY <2>1, FS_Subset DEF FillsEntered, FillsOf
    <3>3. CASE j = k
      <4>1. FillsOf(w, j) = FillsOf(x, j) \cup {f} /\ f \notin FillsOf(x, j)
        BY <2>2, <3>3 DEF FillsOf, k
      <4>2. \A g \in FillsOf(x, j) \cup {f} : FillQty[g] \in Nat
        BY <3>1, AlgorithmAssumption DEF FillsOf
      <4>3. SumOver(FillQty, FillsOf(w, j)) = FillQty[f] + SumOver(FillQty, FillsOf(x, j))
        BY <3>2, <4>1, <4>2, SumAdd
      <4>4. w.orders[j].filled = x.orders[j].filled + FillQty[f] /\ x.orders[j].filled \in Nat /\ FillQty[f] \in Nat
        BY <1>2, <1>4, <1>5, <3>3 DEF o, q
      <4> QED
        BY <3>1, <4>3, <4>4
    <3>4. CASE j # k
      <4>1. FillsOf(w, j) = FillsOf(x, j)
        BY <2>2, <3>4 DEF FillsOf, k
      <4> QED
        BY <1>4, <3>1, <3>4, <4>1
    <3> QED
      BY <3>3, <3>4
  <2> QED
    BY <2>3, <2>4, <2>5 DEF FillsEntered
<1>13. OrdersOpen(w)
  <2>1. p.filled \in Nat /\ p.quantity \in Nat
    BY <1>2, <1>4, <1>5
  <2>2. OrdersOpen(x)
    BY <1>1 DEF Ledger
  <2>3. Active(p) => p.filled < p.quantity
    BY <1>4, <1>9, <2>1
  <2>4. \A j \in Orders : j = k \/ w.orders[j] = x.orders[j]
    BY <1>4
  <2> QED
    BY <1>4, <1>9, <2>2, <2>3, <2>4 DEF OrdersOpen
<1>14. ASSUME NEW t \in Slices \ w.crowded PROVE NotCrowded(w, t)
  <2>1. NotCrowded(x, t) /\ OrdersOf(x, t) \subseteq Orders
    BY <1>1, <1>14 DEF Ledger, OrdersOf
  <2>2. CASE t # s
    <3>1. \A j \in OrdersOf(x, t) : w.orders[j] = x.orders[j]
      BY <1>4, <1>10, <2>1, <2>2
    <3> QED
      BY <1>10, <1>11, <2>1, <2>2, <3>1 DEF NotCrowded
  <2>3. CASE t = s
    <3>1. /\ k \in OrdersOf(x, s) /\ OrdersOf(w, s) = OrdersOf(x, s)
          /\ SliceFilled(w, s) = SliceFilled(x, s) + q
      BY <1>3, <1>10, <1>11
    <3>2. SliceFilled(x, s) + o.quantity <= Target[s] + o.filled
      BY <1>3, <2>1, <2>3, <3>1 DEF NotCrowded, o
    <3>3. \A j \in OrdersOf(x, s) : Active(w.orders[j]) => j = k
      BY <1>3, <1>4, <2>1, <2>3, <3>1 DEF NotCrowded, o
    <3>4. SliceFilled(x, s) \in Nat /\ Target[s] \in Nat
      BY <1>1, <1>3, SumsAreNat, AlgorithmAssumption
    <3>5. SliceFilled(w, s) <= Target[s] /\ SliceFilled(w, s) + p.quantity <= Target[s] + p.filled
      BY <1>2, <1>4, <1>5, <3>1, <3>2, <3>4
    <3> QED
      BY <1>4, <2>3, <3>1, <3>3, <3>5 DEF NotCrowded
  <2> QED
    BY <2>2, <2>3
<1> QED
  BY <1>4, <1>11, <1>12, <1>13, <1>14 DEF Ledger

LEMMA FillIsSound ==
    ASSUME NEW x, Sound(x), NEW f \in Fills, NEW y \in FillApplied(x, f) PROVE Sound(y)
<1> DEFINE k == FillOf[f]
           o == x.orders[k]
           filled == o.filled + FillQty[f]
           status == IF filled = o.quantity THEN "FILLED" ELSE "PARTIALLY_FILLED"
           submitted == IF filled > o.submitted THEN filled ELSE o.submitted
           p == [o EXCEPT !.status = status, !.filled = filled, !.fills = Append(@, f), !.submitted = submitted]
           F == Append(x.fills, f)
           w == With(x, k, p, F)
<1>1. /\ y \in Completed(WithProgress(SliceUpdated(w, o.slice)))
      /\ f \notin ToSet(x.fills) /\ filled <= o.quantity /\ status \in OrderTransitions[o.status]
  <2>1. Replaced(x, k, p).fills = x.fills
    BY DEF Replaced, Sound, Executions
  <2> QED
    BY <2>1 DEF FillApplied, With
<1>2. x \in Executions /\ k \in Orders /\ FillQty[f] \in Nat
  BY AlgorithmAssumption DEF Sound, Executions
<1>3. o \in OrderRecords /\ o.slice \in Slices /\ o.filled \in Nat /\ o.submitted \in Nat /\ o.quantity \in Nat
      /\ o.fills \in Seq(Fills)
  BY <1>2, SumsAreNat DEF OrderRecords
<1> HIDE DEF o
<1>4. filled \in Nat /\ submitted \in Nat /\ status \in OrderStatuses /\ Append(o.fills, f) \in Seq(Fills)
  BY <1>2, <1>3 DEF OrderStatuses
<1>5. Active(o)
  BY <1>1, <1>3, ActiveOnesMove
<1>6. status = IF filled = o.quantity THEN "FILLED" ELSE "PARTIALLY_FILLED"
  OBVIOUS
<1> HIDE DEF status, submitted
<1>7. /\ p \in OrderRecords /\ p.slice = o.slice /\ p.quantity = o.quantity /\ p.filled = filled /\ p.status = status
  BY <1>3, <1>4 DEF OrderRecords
<1> HIDE DEF p
<1>9. F \in Seq(Fills)
  BY <1>2 DEF Executions
<1> HIDE DEF F
<1>10. /\ w \in Executions /\ w.fills = F /\ w.crowded = x.crowded
       /\ w.status = x.status /\ w.slices = x.slices
       /\ w.orders[k] = p /\ \A j \in Orders \ {k} : w.orders[j] = x.orders[j]
  BY <1>2, <1>7, <1>9, ReplacedWith
<1> HIDE DEF w
<1>11. Ledger(w) /\ \A t \in Slices \ {o.slice} : SliceFilled(w, t) = SliceFilled(x, t)
  <2>1. /\ Active(x.orders[FillOf[f]]) /\ p.slice = x.orders[FillOf[f]].slice
        /\ p.quantity = x.orders[FillOf[f]].quantity
        /\ p.filled = x.orders[FillOf[f]].filled + FillQty[f] /\ p.filled <= p.quantity
        /\ p.status = IF p.filled = p.quantity THEN "FILLED" ELSE "PARTIALLY_FILLED"
    BY <1>1, <1>5, <1>6, <1>7 DEF o
  <2>2. w.orders[FillOf[f]] = p /\ \A j \in Orders \ {FillOf[f]} : w.orders[j] = x.orders[j]
    BY <1>10
  <2> HIDE DEF k, filled
  <2> QED
    BY <1>1, <1>7, <1>10, <2>1, <2>2, EntryKeepsLedger DEF F
<1>12. \A t \in Slices \ {o.slice} : Room(w, t)
  BY <1>10, <1>11 DEF Sound, Room
<1>13. Done(w)
  BY <1>2, <1>5, <1>10 DEF Sound, Done, o
<1>14. Kept(SliceUpdated(w, o.slice))
  BY <1>3, <1>10, <1>11, <1>12, <1>13, SliceUpdateKeeps
<1> QED
  BY <1>1, <1>14, ProgressIsSound, CompletionIsSound

LEMMA OutcomeIsSound ==
    ASSUME NEW x, Sound(x), NEW r \in Requests, r.op # "create", NEW y \in Outcomes(x, r) PROVE Sound(y)
<1>1. CASE r.op \in {"start", "resume", "pause", "fail"}
  BY <1>1, ChangeIsSound DEF Outcomes, Statuses
<1>2. CASE r.op = "cancel"
  BY <1>2, CancelIsSound DEF Outcomes
<1>3. CASE r.op = "refresh"
  BY <1>3, ProgressIsSound, CompletionIsSound DEF Outcomes, Sound, Kept
<1>4. CASE r.op \in {"activateSlice", "completeSlice", "failSlice"}
  <2>1. r.slice \in Slices
    BY <1>4 DEF Requests
  <2> QED
    BY <1>4, <2>1, ActivationIsSound, SliceCompletionIsSound, SliceFailureIsSound DEF Outcomes
<1>5. CASE r.op = "createChildOrder"
  <2>1. r.slice \in Slices /\ r.order \in Orders /\ r.quantity \in Quantities
    BY <1>5 DEF Requests
  <2> QED
    BY <1>5, <2>1, CreationIsSound DEF Outcomes
<1>6. CASE r.op \in {"markSubmitting", "markSubmitted", "cancelChildOrder", "rejectChildOrder", "failChildOrder"}
  <2>1. r.order \in Orders /\ {"SUBMITTING", "CANCELLED", "REJECTED", "FAILED"} \subseteq OrderStatuses \ {"NONE"}
    BY <1>6 DEF Requests, OrderStatuses
  <2> QED
    BY <1>6, <2>1, MoveIsSound, SubmissionIsSound DEF Outcomes, OrderCancelled
<1>7. CASE r.op = "applyFill"
  <2>1. r.fill \in Fills
    BY <1>7 DEF Requests
  <2> QED
    BY <1>7, <2>1, FillIsSound DEF Outcomes
<1> QED
  BY <1>1, <1>2, <1>3, <1>4, <1>5, <1>6, <1>7 DEF Requests

LEMMA FreshIsSound == Sound(Fresh)
<1> DEFINE r == [s \in Slices |-> [status |-> "PENDING", submitted |-> 0, filled |-> 0, remaining |-> Target[s]]]
           o == [status |-> "NONE", slice |-> CHOOSE s \in Slices : TRUE, quantity |-> 0,
                 submitted |-> 0, filled |-> 0, fills |-> <<>>]
           os == [k \in Orders |-> o]
<1>1. r \in [Slices -> SliceRecords] /\ \A s \in Slices : r[s].remaining = Target[s] /\ Target[s] \in Nat
  BY AlgorithmAssumption DEF SliceRecords, SliceStatuses
<1>2. o \in OrderRecords
  <2>1. (CHOOSE s \in Slices : TRUE) \in Slices
    BY AlgorithmAssumption
  <2> QED
    BY <2>1 DEF OrderRecords, OrderStatuses
<1>3. o.status = "NONE" /\ o.filled = 0
  OBVIOUS
<1>4. Fresh = [version |-> 0, status |-> "CREATED", slices |-> r, orders |-> os, later |-> <<>>, fills |-> <<>>,
               remaining |-> Total, crowded |-> {}]
  BY DEF Fresh
<1> HIDE DEF r, o
<1>5. Fresh \in Executions
  <2>1. <<>> \in Seq([id : Orders, order : OrderRecords])
    OBVIOUS
  <2> QED
    BY <1>1, <1>2, <1>4, <2>1, TotalIsNat DEF Executions, Statuses
<1>6. \A k \in Orders : Fresh.orders[k].status = "NONE" /\ Fresh.orders[k].filled = 0
  BY <1>3, <1>4
<1>7. Fresh.fills = <<>> /\ Fresh.status = "CREATED" /\ Fresh.slices = r /\ Fresh.remaining = Total
  BY <1>4
<1>8. FilledBy(Fresh.fills) = 0
  <2> DEFINE q == [i \in DOMAIN <<>> |-> FillQty[<<>>[i]]]
  <2>1. FilledBy(<<>>) = SumOver(q, DOMAIN <<>>) /\ DOMAIN <<>> = {}
    BY DEF FilledBy, Sum, SumOver
  <2> HIDE DEF q
  <2> QED
    BY <1>7, <2>1, SumEmpty
<1>9. FillsEntered(Fresh)
  <2>1. ToSet(Fresh.fills) = {} /\ Len(Fresh.fills) = 0
    BY <1>7 DEF ToSet
  <2>2. SumOver(FilledOf(Fresh), Orders) = 0
    BY <1>6, SumZero, AlgorithmAssumption DEF FilledOf
  <2>3. \A k \in Orders : FillsOf(Fresh, k) = {}
    BY <2>1 DEF FillsOf
  <2> QED
    BY <1>6, <1>8, <2>1, <2>2, <2>3, FS_EmptySet, SumEmpty DEF FillsEntered
<1>10. OrdersOpen(Fresh)
  BY <1>6 DEF OrdersOpen, Active
<1>11. ASSUME NEW s \in Slices PROVE NotCrowded(Fresh, s) /\ Room(Fresh, s)
  <2>1. OrdersOf(Fresh, s) = {} /\ SliceFilled(Fresh, s) = 0
    <3>1. OrdersOf(Fresh, s) = {}
      BY <1>6 DEF OrdersOf
    <3> QED
      BY <3>1, SumEmpty DEF SliceFilled
  <2> QED
    BY <1>1, <1>7, <2>1 DEF NotCrowded, Room
<1>12. Done(Fresh)
  BY <1>7 DEF Done
<1>13. Fresh.remaining = Remaining(Fresh)
  BY <1>7, <1>8, TotalIsNat, MinOfTwo DEF Remaining
<1> QED
  BY <1>5, <1>9, <1>10, <1>11, <1>12, <1>13 DEF Sound, Ledger

-----------------------------------------------------------------------------
(* ... for every overlap of calls: each saves what it makes of a sound     *)
(* execution, whether or not that is still the one stored.                 *)

LEMMA SaveKeepsBooks ==
    ASSUME HistoryInv, BooksInv, NEW c \in Callers, NEW x, Sound(x), Saves(c, x) PROVE BooksInv'
<1>1. stored' = stored \/ stored' = x
  BY DEF Saves
<1>2. call' = [call EXCEPT ![c] = NoCall] /\ call = [d \in Callers |-> call[d]]
  BY DEF Saves, HistoryInv
<1>3. stored' # None => Sound(stored')
  BY <1>1 DEF BooksInv
<1>4. ASSUME NEW d \in Callers, call'[d] # NoCall, call'[d].read # None PROVE Sound(call'[d].read)
  BY <1>2, <1>4 DEF BooksInv
<1> QED
  BY <1>3, <1>4 DEF BooksInv

LEMMA BooksNext == HistoryInv /\ BooksInv /\ [Next]_vars => BooksInv'
<1> SUFFICES ASSUME HistoryInv, BooksInv, [Next]_vars PROVE BooksInv'
  OBVIOUS
<1>1. ASSUME NEW c \in Callers, NEW r \in Requests, Read(c, r) PROVE BooksInv'
  <2>1. stored' = stored /\ call' = [call EXCEPT ![c] = [request |-> r, read |-> stored]]
        /\ call = [d \in Callers |-> call[d]]
    BY <1>1 DEF Read, HistoryInv
  <2>2. ASSUME NEW d \in Callers, call'[d] # NoCall, call'[d].read # None PROVE Sound(call'[d].read)
    <3>1. CASE d = c
      BY <2>1, <2>2, <3>1 DEF BooksInv
    <3>2. CASE d # c
      BY <2>1, <2>2, <3>2 DEF BooksInv
    <3> QED
      BY <3>1, <3>2
  <2> QED
    BY <2>1, <2>2 DEF BooksInv
<1>2. ASSUME NEW c \in Callers, Create(c) PROVE BooksInv'
  BY <1>2, FreshIsSound, SaveKeepsBooks DEF Create
<1>3. ASSUME NEW c \in Callers, Update(c) PROVE BooksInv'
  <2>1. PICK x \in Outcomes(call[c].read, call[c].request) : Saves(c, x)
    BY <1>3 DEF Update
  <2>2. call[c].request \in Requests /\ call[c].request.op # "create" /\ Sound(call[c].read)
    BY <1>3 DEF Update, HistoryInv, ReadEarlier, BooksInv
  <2>3. Sound(x)
    BY <2>2, OutcomeIsSound
  <2> QED
    BY <2>1, <2>3, SaveKeepsBooks
<1>4. ASSUME NEW c \in Callers, Throw(c) PROVE BooksInv'
  <2>1. stored' = stored /\ call' = [call EXCEPT ![c] = NoCall] /\ call = [d \in Callers |-> call[d]]
    BY <1>4 DEF Throw, HistoryInv
  <2>2. ASSUME NEW d \in Callers, call'[d] # NoCall, call'[d].read # None PROVE Sound(call'[d].read)
    BY <2>1, <2>2 DEF BooksInv
  <2> QED
    BY <2>1, <2>2 DEF BooksInv
<1>5. CASE UNCHANGED vars
  BY <1>5 DEF vars, BooksInv
<1> QED
  BY <1>1, <1>2, <1>3, <1>4, <1>5 DEF Next

LEMMA BooksInductive == Spec => []BooksInv
<1>1. Init => BooksInv
  BY DEF Init, BooksInv
<1> QED
  BY <1>1, BooksNext, Inductive, PTL DEF Spec

\* BooksAgree: no fill is entered twice, the fills of the execution are those of
\* its orders, and what remains is what the orders have not filled, for any
\* number of calls that overlap and overwrite one another.
THEOREM BooksAlwaysAgree == Spec => []BooksAgree
<1>1. BooksInv => BooksAgree
  <2> SUFFICES ASSUME Sound(stored) PROVE BooksAgree
    BY DEF BooksInv, BooksAgree
  <2>1. FillsEntered(stored) /\ stored.remaining = Remaining(stored)
    BY DEF Sound, Ledger
  <2>2. \A k \in Orders : stored.orders[k].filled = Sum(FillQty, {f \in ToSet(stored.fills) : FillOf[f] = k})
    BY <2>1 DEF FillsEntered, FillsOf, Sum, SumOver
  <2>3. stored.remaining = Total - Min({Total, Sum([k \in Orders |-> stored.orders[k].filled], Orders)})
    BY <2>1 DEF FillsEntered, Remaining, Sum, SumOver, FilledOf
  <2> QED
    BY <2>1, <2>2, <2>3 DEF BooksAgree, FillsEntered
<1> QED
  BY <1>1, BooksInductive, PTL

\* OverfillNeedsCrowd: a slice that never had two active orders at once is not
\* filled beyond its target.
THEOREM NoOverfillUncrowded == Spec => []OverfillNeedsCrowd
<1>1. BooksInv => OverfillNeedsCrowd
  BY DEF BooksInv, OverfillNeedsCrowd, Sound, Ledger, NotCrowded, SliceFilled, FilledOf, Sum, SumOver
<1> QED
  BY <1>1, BooksInductive, PTL

\* CompletedIsDone: an execution none of whose slices was crowded is completed
\* only when no order of it is active.
THEOREM CompletionIsTheEnd == Spec => []CompletedIsDone
<1>1. BooksInv => CompletedIsDone
  BY DEF BooksInv, CompletedIsDone, Sound, Done
<1> QED
  BY <1>1, BooksInductive, PTL

\* Nothing else is ever stored or read than an execution with all its fields.
THEOREM TypeCorrect == Spec => []TypeOK
<1>1. Init => TypeOK
  BY DEF Init, TypeOK
<1>2. TypeOK /\ HistoryInv /\ BooksInv /\ BooksInv' /\ [Next]_vars => TypeOK'
  <2> SUFFICES ASSUME TypeOK, HistoryInv, BooksInv, BooksInv', [Next]_vars PROVE TypeOK'
    OBVIOUS
  <2>1. stored' \in {None} \cup Executions
    BY DEF BooksInv, Sound
  <2>2. overwritten' \in BOOLEAN
    <3>1. overwritten \in BOOLEAN
      BY DEF TypeOK
    <3>2. ASSUME NEW c \in Callers, NEW x, Saves(c, x) PROVE overwritten' \in BOOLEAN
      BY <3>1, <3>2, Zenon DEF Saves
    <3>3. CASE overwritten' = overwritten
      BY <3>1, <3>3
    <3> QED
      BY <3>2, <3>3 DEF Next, Read, Create, Update, Throw, vars
  <2>3. ASSUME NEW c \in Callers
        PROVE  call'[c] = NoCall \/ call'[c] \in [request : Requests, read : {None} \cup Executions]
    <3>1. call[c] = NoCall \/ call[c] \in [request : Requests, read : {None} \cup Executions]
      BY DEF TypeOK
    <3>2. call = [d \in Callers |-> call[d]] /\ stored \in {None} \cup Executions
      BY DEF HistoryInv, TypeOK
    <3>3. ASSUME NEW d \in Callers, NEW r \in Requests, Read(d, r)
          PROVE  call'[c] = NoCall \/ call'[c] \in [request : Requests, read : {None} \cup Executions]
      BY <3>1, <3>2, <3>3 DEF Read
    <3>4. ASSUME NEW d \in Callers, call' = [call EXCEPT ![d] = NoCall]
          PROVE  call'[c] = NoCall \/ call'[c] \in [request : Requests, read : {None} \cup Executions]
      BY <3>1, <3>2, <3>4
    <3>5. CASE call' = call
      BY <3>1, <3>5
    <3> QED
      BY <3>3, <3>4, <3>5 DEF Next, Create, Update, Throw, Saves, vars
  <2> QED
    BY <2>1, <2>2, <2>3 DEF TypeOK
<1> QED
  BY <1>1, <1>2, BooksInductive, Inductive, PTL DEF Spec
=============================================================================
