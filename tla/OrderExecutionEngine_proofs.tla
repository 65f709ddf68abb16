---------------------- MODULE OrderExecutionEngine_proofs ----------------------
(***************************************************************************)
(* Proofs about the execution engine, for every set of commands, orders    *)
(* and concurrent drains and any number of attempts and restarts. Where a  *)
(* theorem needs one of the options to be set, it says so.                 *)
(***************************************************************************)
EXTENDS OrderExecutionEngine, CollectionLemmas, TLAPS

-----------------------------------------------------------------------------
(* Type correctness.                                                       *)

USE DEF Goto, vars, queueVars, drainVars, ghostVars

LEMMA TypeInit == Init => TypeOK
  BY EngineAssumption
     DEF Init, TypeOK, NoCount, Pcs, QueuePcs, CorePcs

LEMMA JoinQueueType ==
    ASSUME TypeOK, NEW c \in Commands, JoinQueue(c)
    PROVE  /\ pc' \in [Commands -> Pcs]
           /\ tail' \in [Orders -> Nat] /\ ticket' \in [Commands -> Nat]
           /\ prev' \in [Commands -> Nat] /\ nextTicket' \in Nat
           /\ pending' \subseteq 1 .. nextTicket'
<1>1. pc' \in [Commands -> Pcs]
  BY DEF TypeOK, JoinQueue, Pcs, QueuePcs
<1>2. CASE SerializePerOrder
  <2>1. nextTicket' = nextTicket + 1 /\ nextTicket' \in Nat
    BY <1>2 DEF TypeOK, JoinQueue
  <2>2. \A i \in 1 .. nextTicket : i \in 1 .. nextTicket'
    BY <2>1 DEF TypeOK
  <2>3. nextTicket' \in 1 .. nextTicket'
    BY <2>1 DEF TypeOK
  <2>4. pending' \subseteq 1 .. nextTicket'
    BY <1>2, <2>2, <2>3 DEF TypeOK, JoinQueue
  <2>5. tail[OrderOf[c]] \in Nat
    BY EngineAssumption DEF TypeOK
  <2> QED
    BY <1>1, <1>2, <2>1, <2>4, <2>5 DEF TypeOK, JoinQueue
<1>3. CASE ~SerializePerOrder
  BY <1>1, <1>3 DEF TypeOK, JoinQueue
<1> QED
  BY <1>2, <1>3

LEMMA LeaveCoreType ==
    ASSUME TypeOK, NEW c \in Commands, NEW result \in {"ok", "error"},
           LeaveCore(c, result)
    PROVE  /\ pc' \in [Commands -> Pcs]
           /\ outcome' \in [Commands -> {"none", "ok", "error"}]
  BY DEF TypeOK, LeaveCore, Pcs, QueuePcs

LEMMA ExecuteType ==
    ASSUME TypeOK, NEW c \in Commands, Execute(c)
    PROVE  TypeOK'
<1>1. /\ pc' \in [Commands -> Pcs]
      /\ tail' \in [Orders -> Nat] /\ ticket' \in [Commands -> Nat]
      /\ prev' \in [Commands -> Nat] /\ nextTicket' \in Nat
      /\ pending' \subseteq 1 .. nextTicket'
  BY JoinQueueType DEF Execute, TypeOK, Pcs
<1>2. attempts' \in [Commands -> 0 .. MaxAttempts]
  BY EngineAssumption DEF Execute, TypeOK
<1> QED
  BY <1>1, <1>2 DEF Execute, TypeOK

LEMMA StepType ==
    ASSUME TypeOK, NEW c \in Commands, Step(c)
    PROVE  TypeOK'
<1> USE DEF TypeOK, Pcs, QueuePcs, CorePcs, Recorded
<1>1. CASE CacheHit(c)
  BY <1>1 DEF CacheHit
<1>2. CASE HitNotified(c)
  BY <1>2 DEF HitNotified
<1>3. CASE CacheMiss(c)
  BY <1>3, JoinQueueType DEF CacheMiss
<1>4. CASE CacheReadFails(c)
  BY <1>4 DEF CacheReadFails
<1>5. CASE StartCore(c)
  BY <1>5 DEF StartCore
<1>6. CASE Dispatch(c)
  BY <1>6 DEF Dispatch
<1>7. CASE StartObserverFails(c)
  BY <1>7, LeaveCoreType DEF StartObserverFails
<1>8. CASE DispatchReturns(c)
  BY <1>8 DEF DispatchReturns
<1>9. CASE Save(c)
  BY <1>9 DEF Save
<1>10. CASE RecordSuccess(c)
  BY <1>10 DEF RecordSuccess
<1>11. CASE NotifyCompleted(c)
  BY <1>11, LeaveCoreType DEF NotifyCompleted
<1>12. CASE TryFails(c)
  BY <1>12 DEF TryFails
<1>13. CASE RecordFailure(c)
  BY <1>13 DEF RecordFailure
<1>14. CASE RecordFailureFails(c)
  BY <1>14, LeaveCoreType DEF RecordFailureFails
<1>15. CASE NotifyFailed(c)
  BY <1>15, LeaveCoreType DEF NotifyFailed
<1>16. CASE Release(c)
  BY <1>16, EngineAssumption DEF Release
<1>17. CASE Settle(c)
  BY <1>17 DEF Settle
<1> QED
  BY <1>1, <1>2, <1>3, <1>4, <1>5, <1>6, <1>7, <1>8, <1>9, <1>10, <1>11,
     <1>12, <1>13, <1>14, <1>15, <1>16, <1>17 DEF Step

LEMMA TypeNext == TypeOK /\ [Next]_vars => TypeOK'
<1> SUFFICES ASSUME TypeOK, [Next]_vars PROVE TypeOK'
  OBVIOUS
<1>1. ASSUME NEW c \in Commands, Execute(c) PROVE TypeOK'
  BY <1>1, ExecuteType
<1>2. ASSUME NEW c \in Commands, Step(c) PROVE TypeOK'
  BY <1>2, StepType
<1>3. ASSUME NEW d \in Drains, Drain(d) PROVE TypeOK'
  BY <1>3 DEF Drain, TypeOK
<1>4. ASSUME NEW d \in Drains, DrainReturns(d) PROVE TypeOK'
  BY <1>4 DEF DrainReturns, TypeOK
<1>5. CASE Start
  BY <1>5 DEF Start, TypeOK
<1>6. CASE Crash
  BY <1>6, EngineAssumption DEF Crash, TypeOK, NoCount, Pcs
<1>7. CASE UNCHANGED vars
  BY <1>7 DEF TypeOK
<1> QED
  BY <1>1, <1>2, <1>3, <1>4, <1>5, <1>6, <1>7 DEF Next

\* The state always has its type.
THEOREM TypeCorrect == Spec => []TypeOK
  BY TypeInit, TypeNext, PTL DEF Spec

-----------------------------------------------------------------------------
(* The chain of promises.                                                  *)

\* The commands in flight are those whose execution is not over.
InFlightMatches == \A c \in Commands : c \in inFlight <=> pc[c] # "idle"

QInv == TypeOK /\ InFlightMatches /\ ChainInv

LEMMA FlightInit == Init => InFlightMatches
  BY DEF Init, InFlightMatches

LEMMA FlightNext == TypeOK /\ InFlightMatches /\ [Next]_vars => InFlightMatches'
<1> SUFFICES ASSUME TypeOK, InFlightMatches, [Next]_vars PROVE InFlightMatches'
  OBVIOUS
<1> USE DEF TypeOK, InFlightMatches
<1>1. ASSUME NEW c \in Commands, Execute(c) PROVE InFlightMatches'
  BY <1>1 DEF Execute, JoinQueue
<1>2. ASSUME NEW c \in Commands, Step(c) PROVE InFlightMatches'
  <2>1. CASE Settle(c)
    BY <2>1 DEF Settle
  <2>2. CASE Release(c)
    BY <2>2 DEF Release
  <2>3. CASE CacheMiss(c)
    BY <2>3 DEF CacheMiss, JoinQueue
  <2>4. CASE CacheHit(c) \/ HitNotified(c) \/ CacheReadFails(c)
    BY <2>4 DEF CacheHit, HitNotified, CacheReadFails
  <2>5. CASE StartCore(c) \/ Dispatch(c) \/ StartObserverFails(c)
    BY <2>5 DEF StartCore, Dispatch, StartObserverFails, LeaveCore
  <2>6. CASE DispatchReturns(c) \/ Save(c) \/ RecordSuccess(c)
    BY <2>6 DEF DispatchReturns, Save, RecordSuccess
  <2>7. CASE NotifyCompleted(c) \/ TryFails(c)
    BY <2>7 DEF NotifyCompleted, TryFails, LeaveCore
  <2>8. CASE RecordFailure(c) \/ RecordFailureFails(c) \/ NotifyFailed(c)
    BY <2>8 DEF RecordFailure, RecordFailureFails, NotifyFailed, LeaveCore
  <2> QED
    BY <1>2, <2>1, <2>2, <2>3, <2>4, <2>5, <2>6, <2>7, <2>8 DEF Step
<1>3. ASSUME NEW d \in Drains, Drain(d) \/ DrainReturns(d)
      PROVE  InFlightMatches'
  BY <1>3 DEF Drain, DrainReturns
<1>4. CASE Start \/ Crash \/ UNCHANGED vars
  BY <1>4 DEF Start, Crash
<1> QED
  BY <1>1, <1>2, <1>3, <1>4 DEF Next

LEMMA QueueInit == Init => ChainInv
  BY DEF Init, ChainInv, PlacesHeld, PlacesDistinct, TailIsAPlace,
         NobodySkipped, Ahead, HasPlace, QueuePcs, CorePcs

\* A step that leaves the chains alone and starts nobody out of turn.
QueueUntouched ==
    /\ UNCHANGED queueVars
    /\ \A d \in Commands : (pc'[d] \in QueuePcs) <=> (pc[d] \in QueuePcs)
    /\ \A d \in Commands :
          pc'[d] \in CorePcs \cup {"leaving"} =>
             \/ pc[d] \in CorePcs \cup {"leaving"}
             \/ prev[d] \notin pending

LEMMA UntouchedKeeps ==
    ASSUME ChainInv, QueueUntouched
    PROVE  ChainInv'
  BY DEF ChainInv, QueueUntouched, PlacesHeld, PlacesDistinct, TailIsAPlace,
         NobodySkipped, Ahead, HasPlace, Running

\* Taking a place: the new ticket is above all others, and the promise awaited
\* is that of the last command in the chain, if there is one.
LEMMA JoinKeeps ==
    ASSUME QInv, SerializePerOrder, NEW c \in Commands,
           ~HasPlace(c), JoinQueue(c)
    PROVE  ChainInv'
<1> DEFINE n == nextTicket + 1
           o == OrderOf[c]
<1>1. /\ o \in Orders /\ n \in Nat /\ n # 0
      /\ \A i \in pending : i \in Nat /\ i < n /\ i # 0
      /\ tail[o] \in Nat
      /\ \A d \in Commands : ticket[d] \in Nat /\ prev[d] \in Nat
  <2>1. o \in Orders /\ tail[o] \in Nat
    BY EngineAssumption DEF QInv, TypeOK
  <2>2. nextTicket \in Nat /\ pending \subseteq 1 .. nextTicket
    BY DEF QInv, TypeOK
  <2>3. \A i \in 1 .. nextTicket : i \in Nat /\ i < n /\ i # 0
    BY <2>2
  <2>4. n \in Nat /\ n # 0
    BY <2>2
  <2>5. \A d \in Commands : ticket[d] \in Nat /\ prev[d] \in Nat
    BY DEF QInv, TypeOK
  <2> QED
    BY <2>1, <2>2, <2>3, <2>4, <2>5
<1>2. /\ pc' = [pc EXCEPT ![c] = "queued"]
      /\ ticket' = [ticket EXCEPT ![c] = n]
      /\ prev' = [prev EXCEPT ![c] = tail[o]]
      /\ tail' = [tail EXCEPT ![o] = n]
      /\ pending' = pending \cup {n}
  BY DEF JoinQueue
<1>3. /\ pc'[c] = "queued" /\ ticket'[c] = n /\ prev'[c] = tail[o]
      /\ tail'[o] = n
      /\ \A d \in Commands \ {c} :
            pc'[d] = pc[d] /\ ticket'[d] = ticket[d] /\ prev'[d] = prev[d]
      /\ \A q \in Orders \ {o} : tail'[q] = tail[q]
  BY <1>1, <1>2 DEF QInv, TypeOK
<1>4. HasPlace(c)' /\ ~Running(c)'
  BY <1>3 DEF HasPlace, Running, QueuePcs, CorePcs
<1>5. \A d \in Commands \ {c} :
         (HasPlace(d)' <=> HasPlace(d)) /\ (Running(d)' <=> Running(d))
  BY <1>3 DEF HasPlace, Running
<1>6. \A d \in Commands :
         HasPlace(d) => /\ ticket[d] \in pending /\ prev[d] < ticket[d]
                        /\ Running(d) => prev[d] \notin pending
                        /\ ticket[d] <= tail[OrderOf[d]]
  BY DEF QInv, ChainInv, PlacesHeld
<1>7. tail[o] # 0 => tail[o] \in pending
  BY <1>1, <1>6 DEF QInv, ChainInv, TailIsAPlace
<1>8. PlacesHeld'
  <2> SUFFICES ASSUME NEW d \in Commands, HasPlace(d)'
               PROVE  /\ ticket'[d] \in pending'
                      /\ prev'[d] < ticket'[d]
                      /\ Running(d)' => prev'[d] \notin pending'
                      /\ ticket'[d] <= tail'[OrderOf[d]]
    BY DEF PlacesHeld
  <2>1. CASE d = c
    BY <1>1, <1>2, <1>3, <1>4, <1>7, <2>1
  <2>2. CASE d # c
    <3>1. HasPlace(d) /\ (Running(d)' <=> Running(d))
      BY <1>5, <2>2
    <3>2. /\ ticket'[d] = ticket[d] /\ prev'[d] = prev[d]
          /\ ticket[d] \in pending /\ prev[d] < ticket[d] /\ prev[d] # n
          /\ ticket[d] < n
      BY <1>1, <1>3, <1>6, <2>2, <3>1
    <3>3. ticket[d] <= tail'[OrderOf[d]]
      BY <1>1, <1>3, <1>6, <3>1, <3>2, EngineAssumption
    <3> QED
      BY <1>2, <1>6, <3>1, <3>2, <3>3
  <2> QED
    BY <2>1, <2>2
<1>9. PlacesDistinct'
  <2> SUFFICES ASSUME NEW d \in Commands, NEW e \in Commands,
                      HasPlace(d)', HasPlace(e)', ticket'[d] = ticket'[e]
               PROVE  d = e
    BY DEF PlacesDistinct
  <2>1. \A b \in Commands \ {c} : HasPlace(b)' => ticket'[b] # n
    BY <1>1, <1>3, <1>5, <1>6
  <2>2. CASE d # c /\ e # c
    BY <1>3, <1>5, <2>2 DEF QInv, ChainInv, PlacesDistinct
  <2> QED
    BY <1>3, <2>1, <2>2
<1>10. TailIsAPlace'
  <2> SUFFICES ASSUME NEW q \in Orders, tail'[q] # 0
               PROVE  \E d \in Commands : /\ OrderOf[d] = q /\ HasPlace(d)'
                                         /\ ticket'[d] = tail'[q]
    BY DEF TailIsAPlace
  <2>1. CASE q = o
    BY <1>3, <1>4, <2>1
  <2>2. CASE q # o
    <3>1. PICK d \in Commands : /\ OrderOf[d] = q /\ HasPlace(d)
                                /\ ticket[d] = tail[q]
      BY <1>3, <2>2 DEF QInv, ChainInv, TailIsAPlace
    <3> QED
      BY <1>3, <1>5, <2>2, <3>1
  <2> QED
    BY <2>1, <2>2
<1>11. NobodySkipped'
  <2> SUFFICES ASSUME NEW d \in Commands, NEW e \in Commands, Ahead(d, e)'
               PROVE  \E b \in Commands : /\ Ahead(b, e)'
                                         /\ ticket'[b] = prev'[e]
                                         /\ ticket'[d] <= ticket'[b]
    BY DEF NobodySkipped
  <2>1. d # c
    <3>1. HasPlace(e)' => ticket'[e] <= n
      BY <1>1, <1>3, <1>5, <1>6
    <3> QED
      BY <1>1, <1>3, <1>5, <1>6, <3>1 DEF Ahead
  <2>2. HasPlace(d) /\ ticket'[d] = ticket[d]
    BY <1>3, <1>5, <2>1 DEF Ahead
  <2>3. CASE e = c
    <3>1. ticket[d] \in pending /\ ticket[d] <= tail[o]
      BY <1>6, <2>2, <2>3 DEF Ahead
    <3>2. tail[o] # 0
      BY <1>1, <3>1
    <3>3. PICK b \in Commands : /\ OrderOf[b] = o /\ HasPlace(b)
                                /\ ticket[b] = tail[o]
      BY <1>1, <3>2 DEF QInv, ChainInv, TailIsAPlace
    <3>4. b # c /\ HasPlace(b)' /\ ticket'[b] = ticket[b] /\ ticket[b] < n
      BY <1>1, <1>3, <1>5, <1>6, <3>3
    <3>5. Ahead(b, c)'
      BY <1>3, <1>4, <3>3, <3>4 DEF Ahead
    <3> QED
      BY <1>3, <2>2, <2>3, <3>1, <3>3, <3>4, <3>5
  <2>4. CASE e # c
    <3>1. Ahead(d, e)
      BY <1>3, <1>5, <2>2, <2>4 DEF Ahead
    <3>2. PICK b \in Commands : /\ Ahead(b, e) /\ ticket[b] = prev[e]
                                /\ ticket[d] <= ticket[b]
      BY <3>1 DEF QInv, ChainInv, NobodySkipped
    <3>3. b # c /\ Ahead(b, e)'
      BY <1>3, <1>5, <2>4, <3>2 DEF Ahead
    <3> QED
      BY <1>3, <2>2, <2>4, <3>2, <3>3
  <2> QED
    BY <2>3, <2>4
<1> QED
  BY <1>8, <1>9, <1>10, <1>11 DEF ChainInv

\* Giving a place up: whoever releases was running, so its ticket is the
\* lowest of its chain, and nobody behind it awaits a lower one.
LEMMA ReleaseKeeps ==
    ASSUME QInv, SerializePerOrder, NEW c \in Commands, Release(c)
    PROVE  ChainInv'
<1> DEFINE o == OrderOf[c]
<1>1. /\ o \in Orders
      /\ \A i \in pending : i \in Nat /\ i # 0
      /\ \A d \in Commands : ticket[d] \in Nat /\ prev[d] \in Nat
  BY EngineAssumption DEF QInv, TypeOK
<1>2. /\ pc[c] = "leaving" /\ pc'[c] = "settling"
      /\ pending' = pending \ {ticket[c]}
      /\ tail'[o] = IF tail[o] = ticket[c] THEN 0 ELSE tail[o]
      /\ \A q \in Orders \ {o} : tail'[q] = tail[q]
      /\ \A d \in Commands \ {c} :
            pc'[d] = pc[d] /\ ticket'[d] = ticket[d] /\ prev'[d] = prev[d]
  BY <1>1 DEF Release, QInv, TypeOK
<1>3. HasPlace(c) /\ Running(c) /\ ~HasPlace(c)'
  BY <1>2 DEF HasPlace, Running, QueuePcs, CorePcs
<1>4. \A d \in Commands \ {c} :
         (HasPlace(d)' <=> HasPlace(d)) /\ (Running(d)' <=> Running(d))
  BY <1>2 DEF HasPlace, Running
<1>5. \A d \in Commands :
         HasPlace(d) => /\ ticket[d] \in pending /\ prev[d] < ticket[d]
                        /\ Running(d) => prev[d] \notin pending
                        /\ ticket[d] <= tail[OrderOf[d]]
  BY DEF QInv, ChainInv, PlacesHeld
<1>6. ASSUME NEW d \in Commands \ {c}, HasPlace(d)
      PROVE  ticket[d] # ticket[c]
  BY <1>3, <1>6 DEF QInv, ChainInv, PlacesDistinct
<1>7. ASSUME NEW d \in Commands \ {c}, HasPlace(d), OrderOf[d] = o
      PROVE  ticket[c] < ticket[d]
  <2>1. ~Ahead(d, c)
    BY <1>3, <1>5 DEF QInv, ChainInv, NobodySkipped, Ahead
  <2>2. ~(ticket[d] < ticket[c])
    BY <1>3, <1>7, <2>1 DEF Ahead
  <2> QED
    BY <1>1, <1>6, <1>7, <2>2
<1>8. PlacesHeld'
  <2> SUFFICES ASSUME NEW d \in Commands, HasPlace(d)'
               PROVE  /\ ticket'[d] \in pending'
                      /\ prev'[d] < ticket'[d]
                      /\ Running(d)' => prev'[d] \notin pending'
                      /\ ticket'[d] <= tail'[OrderOf[d]]
    BY DEF PlacesHeld
  <2>1. d # c /\ HasPlace(d) /\ (Running(d)' <=> Running(d))
    BY <1>3, <1>4
  <2>2. ticket[d] <= tail'[OrderOf[d]]
    <3>1. CASE OrderOf[d] = o
      <4>1. tail[o] # ticket[c]
        <5>1. ticket[c] < ticket[d] /\ ticket[d] <= tail[o]
          BY <1>5, <1>7, <2>1, <3>1
        <5> QED
          BY <1>1, <5>1
      <4> QED
        BY <1>2, <1>5, <2>1, <3>1, <4>1
    <3>2. CASE OrderOf[d] # o
      BY <1>2, <1>5, <2>1, <3>2, EngineAssumption
    <3> QED
      BY <3>1, <3>2
  <2> QED
    BY <1>2, <1>5, <1>6, <2>1, <2>2
<1>9. PlacesDistinct'
  BY <1>2, <1>3, <1>4 DEF QInv, ChainInv, PlacesDistinct
<1>10. TailIsAPlace'
  <2> SUFFICES ASSUME NEW q \in Orders, tail'[q] # 0
               PROVE  \E d \in Commands : /\ OrderOf[d] = q /\ HasPlace(d)'
                                         /\ ticket'[d] = tail'[q]
    BY DEF TailIsAPlace
  <2>1. tail[q] # 0 /\ tail'[q] = tail[q] /\ (q = o => tail[q] # ticket[c])
    BY <1>2
  <2>2. PICK d \in Commands : /\ OrderOf[d] = q /\ HasPlace(d)
                              /\ ticket[d] = tail[q]
    BY <2>1 DEF QInv, ChainInv, TailIsAPlace
  <2>3. d # c
    BY <2>1, <2>2
  <2> QED
    BY <1>2, <1>4, <2>1, <2>2, <2>3
<1>11. NobodySkipped'
  <2> SUFFICES ASSUME NEW d \in Commands, NEW e \in Commands, Ahead(d, e)'
               PROVE  \E b \in Commands : /\ Ahead(b, e)'
                                         /\ ticket'[b] = prev'[e]
                                         /\ ticket'[d] <= ticket'[b]
    BY DEF NobodySkipped
  <2>1. d # c /\ e # c
    BY <1>3 DEF Ahead
  <2>2. Ahead(d, e)
    BY <1>2, <1>4, <2>1 DEF Ahead
  <2>3. PICK b \in Commands : /\ Ahead(b, e) /\ ticket[b] = prev[e]
                              /\ ticket[d] <= ticket[b]
    BY <2>2 DEF QInv, ChainInv, NobodySkipped
  <2>4. b # c
    <3>1. CASE OrderOf[d] = o
      BY <1>1, <1>7, <2>1, <2>2, <2>3, <3>1 DEF Ahead
    <3>2. CASE OrderOf[d] # o
      BY <2>2, <2>3, <3>2 DEF Ahead
    <3> QED
      BY <3>1, <3>2
  <2>5. Ahead(b, e)'
    BY <1>2, <1>4, <2>1, <2>3, <2>4 DEF Ahead
  <2> QED
    BY <1>2, <2>1, <2>3, <2>4, <2>5
<1> QED
  BY <1>8, <1>9, <1>10, <1>11 DEF ChainInv

LEMMA StepChain ==
    ASSUME QInv, SerializePerOrder, NEW c \in Commands, Step(c)
    PROVE  ChainInv'
<1> USE DEF QInv, TypeOK, QueueUntouched, QueuePcs, CorePcs
<1>1. CASE CacheHit(c)
  BY <1>1, UntouchedKeeps DEF CacheHit
<1>2. CASE HitNotified(c)
  BY <1>2, UntouchedKeeps DEF HitNotified
<1>3. CASE CacheMiss(c)
  BY <1>3, JoinKeeps DEF CacheMiss, HasPlace
<1>4. CASE CacheReadFails(c)
  BY <1>4, UntouchedKeeps DEF CacheReadFails
<1>5. CASE StartCore(c)
  BY <1>5, UntouchedKeeps DEF StartCore
<1>6. CASE Dispatch(c)
  BY <1>6, UntouchedKeeps DEF Dispatch
<1>7. CASE StartObserverFails(c)
  BY <1>7, UntouchedKeeps DEF StartObserverFails, LeaveCore
<1>8. CASE DispatchReturns(c)
  BY <1>8, UntouchedKeeps DEF DispatchReturns
<1>9. CASE Save(c)
  BY <1>9, UntouchedKeeps DEF Save
<1>10. CASE RecordSuccess(c)
  BY <1>10, UntouchedKeeps DEF RecordSuccess
<1>11. CASE NotifyCompleted(c)
  BY <1>11, UntouchedKeeps DEF NotifyCompleted, LeaveCore
<1>12. CASE TryFails(c)
  BY <1>12, UntouchedKeeps DEF TryFails
<1>13. CASE RecordFailure(c)
  BY <1>13, UntouchedKeeps DEF RecordFailure
<1>14. CASE RecordFailureFails(c)
  BY <1>14, UntouchedKeeps DEF RecordFailureFails, LeaveCore
<1>15. CASE NotifyFailed(c)
  BY <1>15, UntouchedKeeps DEF NotifyFailed, LeaveCore
<1>16. CASE Release(c)
  BY <1>16, ReleaseKeeps
<1>17. CASE Settle(c)
  BY <1>17, UntouchedKeeps DEF Settle
<1> QED
  BY <1>1, <1>2, <1>3, <1>4, <1>5, <1>6, <1>7, <1>8, <1>9, <1>10, <1>11,
     <1>12, <1>13, <1>14, <1>15, <1>16, <1>17 DEF Step

LEMMA ChainNext == QInv /\ [Next]_vars => ChainInv'
<1> SUFFICES ASSUME QInv, [Next]_vars, SerializePerOrder PROVE ChainInv'
  BY DEF ChainInv
<1>1. ASSUME NEW c \in Commands, Execute(c) PROVE ChainInv'
  <2>3. pc[c] = "idle" /\ ~HasPlace(c)
    BY <1>1 DEF Execute, QInv, InFlightMatches, HasPlace, QueuePcs, CorePcs
  <2>1. CASE EnableIdempotency
    BY <1>1, <2>1, <2>3, UntouchedKeeps
       DEF Execute, QInv, TypeOK, QueueUntouched, QueuePcs, CorePcs
  <2>2. CASE ~EnableIdempotency
    BY <1>1, <2>2, <2>3, JoinKeeps DEF Execute
  <2> QED
    BY <2>1, <2>2
<1>2. ASSUME NEW c \in Commands, Step(c) PROVE ChainInv'
  BY <1>2, StepChain
<1>3. ASSUME NEW d \in Drains, Drain(d) PROVE ChainInv'
  BY <1>3, UntouchedKeeps DEF Drain, QInv, QueueUntouched
<1>4. ASSUME NEW d \in Drains, DrainReturns(d) PROVE ChainInv'
  BY <1>4, UntouchedKeeps DEF DrainReturns, QInv, QueueUntouched
<1>5. CASE Start
  BY <1>5, UntouchedKeeps DEF Start, QInv, QueueUntouched
<1>6. CASE Crash
  BY <1>6 DEF Crash, ChainInv, PlacesHeld, PlacesDistinct, TailIsAPlace,
              NobodySkipped, Ahead, HasPlace, QueuePcs, CorePcs
<1>7. CASE UNCHANGED vars
  BY <1>7, UntouchedKeeps DEF QInv, QueueUntouched
<1> QED
  BY <1>1, <1>2, <1>3, <1>4, <1>5, <1>6, <1>7 DEF Next

LEMMA QInvHolds == Spec => []QInv
<1>1. Init => QInv
  BY TypeInit, FlightInit, QueueInit DEF QInv
<1>2. QInv /\ [Next]_vars => QInv'
  BY TypeNext, FlightNext, ChainNext DEF QInv
<1> QED
  BY <1>1, <1>2, PTL DEF Spec

\* The inductive invariant of the chains.
THEOREM ChainInvariant == Spec => []ChainInv
<1>1. QInv => ChainInv
  BY DEF QInv
<1> QED
  BY <1>1, QInvHolds, PTL

\* Of two running commands of one order, the one with the higher ticket
\* would await the promise of one ahead of it, which is pending.
LEMMA ChainExcludes == QInv => OneAtATime
<1> SUFFICES ASSUME QInv, SerializePerOrder,
                    NEW c \in Commands, NEW d \in Commands,
                    Running(c), Running(d), OrderOf[c] = OrderOf[d]
             PROVE  c = d
  BY DEF OneAtATime
<1>1. HasPlace(c) /\ HasPlace(d)
  BY DEF Running, HasPlace, QueuePcs
<1>2. ASSUME NEW a \in Commands, NEW b \in Commands, Ahead(a, b), Running(b)
      PROVE  FALSE
  <2>1. PICK e \in Commands : Ahead(e, b) /\ ticket[e] = prev[b]
    BY <1>2 DEF QInv, ChainInv, NobodySkipped
  <2>2. ticket[e] \in pending /\ prev[b] \notin pending
    BY <1>2, <2>1 DEF QInv, ChainInv, PlacesHeld, Ahead
  <2> QED
    BY <2>1, <2>2
<1>3. ~(ticket[c] < ticket[d]) /\ ~(ticket[d] < ticket[c])
  BY <1>1, <1>2 DEF Ahead
<1>4. ticket[c] = ticket[d]
  BY <1>3 DEF QInv, TypeOK
<1> QED
  BY <1>1, <1>4 DEF QInv, ChainInv, PlacesDistinct

\* Two commands for the same order are never inside executeCore together,
\* for any number of commands, orders, retries and restarts.
THEOREM MutualExclusion == Spec => []OneAtATime
  BY QInvHolds, ChainExcludes, PTL

LEMMA ChainTails == QInv => TailsMatchQueues
<1> SUFFICES ASSUME QInv, SerializePerOrder, NEW o \in Orders
             PROVE  tail[o] # 0 <=>
                      \E c \in Commands : OrderOf[c] = o /\ pc[c] \in QueuePcs
  BY DEF TailsMatchQueues
<1>1. ASSUME tail[o] # 0
      PROVE  \E c \in Commands : OrderOf[c] = o /\ pc[c] \in QueuePcs
  BY <1>1 DEF QInv, ChainInv, TailIsAPlace, HasPlace
<1>2. ASSUME NEW c \in Commands, OrderOf[c] = o, pc[c] \in QueuePcs
      PROVE  tail[o] # 0
  <2>1. ticket[c] \in pending /\ ticket[c] <= tail[o]
    BY <1>2 DEF QInv, ChainInv, PlacesHeld, HasPlace
  <2>2. ticket[c] \in Nat /\ ticket[c] # 0 /\ tail[o] \in Nat
    BY <2>1 DEF QInv, TypeOK
  <2> QED
    BY <2>1, <2>2
<1> QED
  BY <1>1, <1>2

\* orderTails has an entry for exactly the orders with commands queued or
\* running, so that start() is not refused for ever and nobody overtakes.
THEOREM TailsAreExact == Spec => []TailsMatchQueues
  BY QInvHolds, ChainTails, PTL

-----------------------------------------------------------------------------
(* First come, first served.                                               *)

\* No command starts while one that joined the chain of its order before is there.
StartsInTurn ==
    [][SerializePerOrder =>
          \A c, d \in Commands :
              Ahead(c, d) => ~(pc[d] = "queued" /\ pc'[d] = "started")]_vars

\* Only a command whose promise is resolved starts.
LEMMA OnlyStartCore ==
    ASSUME TypeOK, [Next]_vars, NEW e \in Commands, pc[e] = "queued", pc'[e] = "started"
    PROVE  prev[e] \notin pending
<1> USE DEF TypeOK
<1>1. ASSUME NEW c \in Commands, Execute(c) PROVE prev[e] \notin pending
  BY <1>1 DEF Execute, JoinQueue
<1>2. ASSUME NEW c \in Commands, Step(c) PROVE prev[e] \notin pending
  <2>1. CASE StartCore(c)
    BY <2>1 DEF StartCore
  <2>2. CASE CacheMiss(c) \/ CacheReadFails(c) \/ CacheHit(c) \/ HitNotified(c)
    BY <2>2 DEF CacheMiss, CacheReadFails, CacheHit, HitNotified, JoinQueue
  <2>3. CASE Dispatch(c) \/ StartObserverFails(c) \/ DispatchReturns(c) \/ Save(c)
    BY <2>3 DEF Dispatch, StartObserverFails, DispatchReturns, Save, LeaveCore
  <2>4. CASE RecordSuccess(c) \/ NotifyCompleted(c) \/ TryFails(c)
    BY <2>4 DEF RecordSuccess, NotifyCompleted, TryFails, LeaveCore
  <2>5. CASE RecordFailure(c) \/ RecordFailureFails(c) \/ NotifyFailed(c)
    BY <2>5 DEF RecordFailure, RecordFailureFails, NotifyFailed, LeaveCore
  <2>6. CASE Release(c) \/ Settle(c)
    BY <2>6 DEF Release, Settle
  <2> QED
    BY <1>2, <2>1, <2>2, <2>3, <2>4, <2>5, <2>6 DEF Step
<1>3. ASSUME NEW d \in Drains, Drain(d) \/ DrainReturns(d) PROVE prev[e] \notin pending
  BY <1>3 DEF Drain, DrainReturns
<1>4. CASE Start \/ Crash \/ UNCHANGED vars
  BY <1>4 DEF Start, Crash
<1> QED
  BY <1>1, <1>2, <1>3, <1>4 DEF Next

\* The commands of an order are executed in the order they came (:951), whatever
\* fails, is retried or is released late.
THEOREM CommandsStartInTurn == Spec => StartsInTurn
<1>1. QInv /\ [Next]_vars =>
        (SerializePerOrder =>
            \A c, d \in Commands :
                Ahead(c, d) => ~(pc[d] = "queued" /\ pc'[d] = "started"))
  <2> SUFFICES ASSUME QInv, [Next]_vars, SerializePerOrder, NEW c \in Commands, NEW d \in Commands,
                      Ahead(c, d), pc[d] = "queued", pc'[d] = "started"
               PROVE  FALSE
    OBVIOUS
  <2>1. prev[d] \notin pending
    BY OnlyStartCore DEF QInv
  <2>2. PICK b \in Commands : Ahead(b, d) /\ ticket[b] = prev[d]
    BY DEF QInv, ChainInv, NobodySkipped
  <2>3. ticket[b] \in pending
    BY <2>2 DEF QInv, ChainInv, PlacesHeld, Ahead
  <2> QED
    BY <2>1, <2>2, <2>3
<1> QED
  BY <1>1, QInvHolds, PTL DEF Spec, StartsInTurn

-----------------------------------------------------------------------------
(* The result store.                                                       *)

\* A command whose result is stored is past its dispatch.
StoredIsPast ==
    /\ ~EnableIdempotency =>
          store = {} /\ \A c \in Commands : pc[c] # "saving"
    /\ EnableIdempotency /\ ~IgnoreResultStoreErrors =>
          \A c \in store : pc[c] \notin {"queued", "started", "dispatched"}

LEMMA StoredNext ==
    TypeOK /\ InFlightMatches /\ StoredIsPast /\ [Next]_vars => StoredIsPast'
<1> SUFFICES ASSUME TypeOK, InFlightMatches, StoredIsPast, [Next]_vars
             PROVE  StoredIsPast'
  OBVIOUS
<1> USE DEF TypeOK, StoredIsPast
<1>1. ASSUME NEW c \in Commands, Execute(c) PROVE StoredIsPast'
  BY <1>1 DEF Execute, JoinQueue
<1>2. ASSUME NEW c \in Commands, Step(c) PROVE StoredIsPast'
  <2>1. CASE Settle(c)
    BY <2>1 DEF Settle
  <2>2. CASE Release(c)
    BY <2>2 DEF Release
  <2>3. CASE CacheMiss(c)
    BY <2>3 DEF CacheMiss, JoinQueue
  <2>4. CASE CacheHit(c) \/ HitNotified(c) \/ CacheReadFails(c)
    BY <2>4 DEF CacheHit, HitNotified, CacheReadFails
  <2>5. CASE StartCore(c) \/ Dispatch(c) \/ StartObserverFails(c)
    BY <2>5 DEF StartCore, Dispatch, StartObserverFails, LeaveCore
  <2>6. CASE DispatchReturns(c) \/ RecordSuccess(c)
    BY <2>6 DEF DispatchReturns, RecordSuccess
  <2>7. CASE Save(c)
    BY <2>7 DEF Save
  <2>8. CASE NotifyCompleted(c)
    BY <2>8 DEF NotifyCompleted, LeaveCore
  <2>9. CASE TryFails(c)
    BY <2>9 DEF TryFails
  <2>10. CASE RecordFailure(c) \/ RecordFailureFails(c) \/ NotifyFailed(c)
    BY <2>10 DEF RecordFailure, RecordFailureFails, NotifyFailed, LeaveCore
  <2> QED
    BY <1>2, <2>1, <2>2, <2>3, <2>4, <2>5, <2>6, <2>7, <2>8, <2>9, <2>10
       DEF Step
<1>3. ASSUME NEW d \in Drains, Drain(d) \/ DrainReturns(d)
      PROVE  StoredIsPast'
  BY <1>3 DEF Drain, DrainReturns
<1>4. CASE Start \/ Crash \/ UNCHANGED vars
  BY <1>4 DEF Start, Crash
<1> QED
  BY <1>1, <1>2, <1>3, <1>4 DEF Next

LEMMA StoredHolds == Spec => [](TypeOK /\ StoredIsPast)
<1>1. Init => TypeOK /\ InFlightMatches /\ StoredIsPast
  BY TypeInit, FlightInit DEF Init, StoredIsPast
<1>2. /\ TypeOK /\ InFlightMatches /\ StoredIsPast
      /\ [Next]_vars
      => (TypeOK /\ InFlightMatches /\ StoredIsPast)'
  BY TypeNext, FlightNext, StoredNext
<1> QED
  BY <1>1, <1>2, PTL DEF Spec

\* Only Dispatch leads to a handler.
LEMMA OnlyDispatch ==
    ASSUME TypeOK, [Next]_vars, NEW c \in Commands, pc'[c] = "dispatched",
           pc[c] # "dispatched"
    PROVE  pc[c] = "started"
<1> USE DEF TypeOK
<1>1. ASSUME NEW d \in Commands, Execute(d) PROVE pc[c] = "started"
  BY <1>1 DEF Execute, JoinQueue
<1>2. ASSUME NEW d \in Commands, Step(d) PROVE pc[c] = "started"
  <2>1. CASE Settle(d) \/ Release(d) \/ CacheMiss(d) \/ CacheHit(d)
    BY <2>1 DEF Settle, Release, CacheMiss, CacheHit, JoinQueue
  <2>2. CASE HitNotified(d) \/ CacheReadFails(d) \/ StartCore(d)
    BY <2>2 DEF HitNotified, CacheReadFails, StartCore
  <2>3. CASE Dispatch(d)
    BY <2>3 DEF Dispatch
  <2>4. CASE StartObserverFails(d) \/ DispatchReturns(d) \/ Save(d)
    BY <2>4 DEF StartObserverFails, DispatchReturns, Save, LeaveCore
  <2>5. CASE RecordSuccess(d) \/ NotifyCompleted(d) \/ TryFails(d)
    BY <2>5 DEF RecordSuccess, NotifyCompleted, TryFails, LeaveCore
  <2>6. CASE RecordFailure(d) \/ RecordFailureFails(d) \/ NotifyFailed(d)
    BY <2>6 DEF RecordFailure, RecordFailureFails, NotifyFailed, LeaveCore
  <2> QED
    BY <1>2, <2>1, <2>2, <2>3, <2>4, <2>5, <2>6 DEF Step
<1>3. ASSUME NEW d \in Drains, Drain(d) \/ DrainReturns(d)
      PROVE  pc[c] = "started"
  BY <1>3 DEF Drain, DrainReturns
<1>4. CASE Start \/ Crash \/ UNCHANGED vars
  BY <1>4 DEF Start, Crash
<1> QED
  BY <1>1, <1>2, <1>3, <1>4 DEF Next

\* Once the result of a command is in a store that is not ignored, no call of
\* it reaches a handler again, across any number of repetitions and restarts.
THEOREM StoredResultsStand == Spec => SavedNeverRedispatched
<1>1. TypeOK /\ StoredIsPast /\ [Next]_vars =>
        [~IgnoreResultStoreErrors =>
           \A c \in Commands :
              c \in store /\ pc'[c] = "dispatched" => pc[c] = "dispatched"]_vars
  <2> SUFFICES ASSUME TypeOK, StoredIsPast, [Next]_vars,
                      ~IgnoreResultStoreErrors, NEW c \in Commands,
                      c \in store, pc'[c] = "dispatched",
                      pc[c] # "dispatched"
               PROVE  FALSE
    OBVIOUS
  <2>1. pc[c] = "started"
    BY OnlyDispatch
  <2>2. EnableIdempotency
    BY DEF StoredIsPast
  <2> QED
    BY <2>1, <2>2 DEF StoredIsPast
<1> QED
  BY <1>1, StoredHolds, PTL DEF Spec, SavedNeverRedispatched
-----------------------------------------------------------------------------
(* What a caller and the history are told.                                 *)

\* A command that is past its save, or was found in the store, is in it.
SuccessBacked ==
    EnableIdempotency /\ ~IgnoreResultStoreErrors =>
        \A c \in Commands :
            outcome[c] = "ok" \/ pc[c] \in {"hitNotifying", "recording", "notifying"}
            => c \in store

LEMMA SuccessNext == TypeOK /\ SuccessBacked /\ [Next]_vars => SuccessBacked'
<1> SUFFICES ASSUME TypeOK, SuccessBacked, [Next]_vars PROVE SuccessBacked'
  OBVIOUS
<1> USE DEF TypeOK, SuccessBacked
<1>1. ASSUME NEW c \in Commands, Execute(c) PROVE SuccessBacked'
  BY <1>1 DEF Execute, JoinQueue
<1>2. ASSUME NEW c \in Commands, Step(c) PROVE SuccessBacked'
  <2>1. CASE Settle(c) \/ Release(c)
    BY <2>1 DEF Settle, Release
  <2>2. CASE CacheMiss(c) \/ CacheReadFails(c)
    BY <2>2 DEF CacheMiss, CacheReadFails, JoinQueue
  <2>3. CASE CacheHit(c) \/ HitNotified(c)
    BY <2>3 DEF CacheHit, HitNotified
  <2>4. CASE StartCore(c) \/ Dispatch(c) \/ StartObserverFails(c)
    BY <2>4 DEF StartCore, Dispatch, StartObserverFails, LeaveCore
  <2>5. CASE DispatchReturns(c) \/ Save(c)
    BY <2>5 DEF DispatchReturns, Save
  <2>6. CASE RecordSuccess(c) \/ NotifyCompleted(c)
    BY <2>6 DEF RecordSuccess, NotifyCompleted, LeaveCore
  <2>7. CASE TryFails(c)
    BY <2>7 DEF TryFails
  <2>8. CASE RecordFailure(c) \/ RecordFailureFails(c) \/ NotifyFailed(c)
    BY <2>8 DEF RecordFailure, RecordFailureFails, NotifyFailed, LeaveCore
  <2> QED
    BY <1>2, <2>1, <2>2, <2>3, <2>4, <2>5, <2>6, <2>7, <2>8 DEF Step
<1>3. ASSUME NEW d \in Drains, Drain(d) \/ DrainReturns(d)
      PROVE  SuccessBacked'
  BY <1>3 DEF Drain, DrainReturns
<1>4. CASE Start \/ Crash \/ UNCHANGED vars
  BY <1>4 DEF Start, Crash
<1> QED
  BY <1>1, <1>2, <1>3, <1>4 DEF Next

\* A caller is told of success only after the result is in a store whose errors
\* are not ignored, for any number of retries and restarts.
THEOREM ToldIsStored == Spec => []SuccessIsStored
<1>1. Init => TypeOK /\ SuccessBacked
  BY TypeInit DEF Init, SuccessBacked
<1>2. TypeOK /\ SuccessBacked /\ [Next]_vars => (TypeOK /\ SuccessBacked)'
  BY TypeNext, SuccessNext
<1>3. SuccessBacked => SuccessIsStored
  BY DEF SuccessBacked, SuccessIsStored
<1> QED
  BY <1>1, <1>2, <1>3, PTL DEF Spec

\* An attempt has no verdict before it is recorded, and one afterwards.
VerdictOnce ==
  IgnoreHistoryErrors /\ IgnoreObserverErrors =>
    \A c \in Commands :
        /\ history[c] # {"COMPLETED", "FAILED"}
        /\ pc[c] \in {"started", "dispatched", "saving", "recording", "failRecording"}
           => history[c] = {}

LEMMA VerdictNext == TypeOK /\ VerdictOnce /\ [Next]_vars => VerdictOnce'
<1> SUFFICES ASSUME TypeOK, VerdictOnce, [Next]_vars PROVE VerdictOnce'
  OBVIOUS
<1> USE DEF TypeOK, VerdictOnce, Recorded
<1>1. ASSUME NEW c \in Commands, Execute(c) PROVE VerdictOnce'
  BY <1>1 DEF Execute, JoinQueue
<1>2. ASSUME NEW c \in Commands, Step(c) PROVE VerdictOnce'
  <2>1. CASE Settle(c) \/ Release(c)
    BY <2>1 DEF Settle, Release
  <2>2. CASE CacheMiss(c) \/ CacheReadFails(c)
    BY <2>2 DEF CacheMiss, CacheReadFails, JoinQueue
  <2>3. CASE CacheHit(c) \/ HitNotified(c)
    BY <2>3 DEF CacheHit, HitNotified
  <2>4. CASE StartCore(c) \/ Dispatch(c) \/ StartObserverFails(c)
    BY <2>4 DEF StartCore, Dispatch, StartObserverFails, LeaveCore
  <2>5. CASE DispatchReturns(c) \/ Save(c)
    BY <2>5 DEF DispatchReturns, Save
  <2>6. CASE RecordSuccess(c) \/ NotifyCompleted(c)
    BY <2>6 DEF RecordSuccess, NotifyCompleted, LeaveCore
  <2>7. CASE TryFails(c)
    BY <2>7 DEF TryFails
  <2>8. CASE RecordFailure(c) \/ RecordFailureFails(c) \/ NotifyFailed(c)
    BY <2>8 DEF RecordFailure, RecordFailureFails, NotifyFailed, LeaveCore
  <2> QED
    BY <1>2, <2>1, <2>2, <2>3, <2>4, <2>5, <2>6, <2>7, <2>8 DEF Step
<1>3. ASSUME NEW d \in Drains, Drain(d) \/ DrainReturns(d)
      PROVE  VerdictOnce'
  BY <1>3 DEF Drain, DrainReturns
<1>4. CASE Start \/ Crash \/ UNCHANGED vars
  BY <1>4 DEF Start, Crash
<1> QED
  BY <1>1, <1>2, <1>3, <1>4 DEF Next

\* An engine that ignores the errors of its observer and of its history records
\* at most one verdict for an attempt, whether handlers, saves and appends take
\* effect, fail, or take effect and then throw.
THEOREM VerdictsAreSingle == Spec => []OneVerdict
<1>1. Init => TypeOK /\ VerdictOnce
  BY TypeInit DEF Init, VerdictOnce
<1>2. TypeOK /\ VerdictOnce /\ [Next]_vars => (TypeOK /\ VerdictOnce)'
  BY TypeNext, VerdictNext
<1>3. TypeOK /\ VerdictOnce => OneVerdict
  <2> SUFFICES ASSUME TypeOK, VerdictOnce, NEW c \in Commands,
                      IgnoreHistoryErrors, IgnoreObserverErrors
               PROVE  Cardinality(history[c]) <= 1
    BY DEF OneVerdict
  <2>1. history[c] \subseteq {"COMPLETED", "FAILED"} /\ history[c] # {"COMPLETED", "FAILED"}
    BY DEF TypeOK, VerdictOnce
  <2>2. history[c] = {} \/ history[c] = {"COMPLETED"} \/ history[c] = {"FAILED"}
    <3>1. CASE "COMPLETED" \in history[c]
      BY <2>1, <3>1
    <3>2. CASE "COMPLETED" \notin history[c]
      <4>1. history[c] \subseteq {"FAILED"}
        BY <2>1, <3>2
      <4>2. CASE "FAILED" \in history[c]
        BY <4>1, <4>2
      <4>3. CASE "FAILED" \notin history[c]
        BY <4>1, <4>3
      <4> QED
        BY <4>2, <4>3
    <3> QED
      BY <3>1, <3>2
  <2>3. Cardinality({"COMPLETED"}) = 1 /\ Cardinality({"FAILED"}) = 1
    BY FS_Singleton
  <2>4. Cardinality({}) = 0
    BY FS_EmptySet
  <2> QED
    BY <2>2, <2>3, <2>4
<1> QED
  BY <1>1, <1>2, <1>3, PTL DEF Spec

-----------------------------------------------------------------------------
(* Draining.                                                               *)

\* A drain() that has not returned awaits all that is in flight: nothing has
\* been accepted since it was called.
DrainCovers ==
    /\ state = "STOPPED" => inFlight = {}
    /\ \A d \in draining : state # "RUNNING" /\ inFlight \subseteq awaited[d]

LEMMA DrainNext ==
    ASSUME StartAwaitsDrain
    PROVE  TypeOK /\ DrainCovers /\ [Next]_vars => DrainCovers'
<1> SUFFICES ASSUME TypeOK, DrainCovers, [Next]_vars PROVE DrainCovers'
  OBVIOUS
<1> USE DEF TypeOK, DrainCovers
<1>1. ASSUME NEW c \in Commands, Execute(c) PROVE DrainCovers'
  BY <1>1 DEF Execute, JoinQueue
<1>2. ASSUME NEW c \in Commands, Step(c) PROVE DrainCovers'
  <2>1. CASE Settle(c) \/ Release(c)
    BY <2>1 DEF Settle, Release
  <2>2. CASE CacheMiss(c) \/ CacheReadFails(c)
    BY <2>2 DEF CacheMiss, CacheReadFails, JoinQueue
  <2>3. CASE CacheHit(c) \/ HitNotified(c)
    BY <2>3 DEF CacheHit, HitNotified
  <2>4. CASE StartCore(c) \/ Dispatch(c) \/ StartObserverFails(c)
    BY <2>4 DEF StartCore, Dispatch, StartObserverFails, LeaveCore
  <2>5. CASE DispatchReturns(c) \/ Save(c)
    BY <2>5 DEF DispatchReturns, Save
  <2>6. CASE RecordSuccess(c) \/ NotifyCompleted(c)
    BY <2>6 DEF RecordSuccess, NotifyCompleted, LeaveCore
  <2>7. CASE TryFails(c)
    BY <2>7 DEF TryFails
  <2>8. CASE RecordFailure(c) \/ RecordFailureFails(c) \/ NotifyFailed(c)
    BY <2>8 DEF RecordFailure, RecordFailureFails, NotifyFailed, LeaveCore
  <2> QED
    BY <1>2, <2>1, <2>2, <2>3, <2>4, <2>5, <2>6, <2>7, <2>8 DEF Step
<1>3. ASSUME NEW d \in Drains, Drain(d) \/ DrainReturns(d)
      PROVE  DrainCovers'
  BY <1>3 DEF Drain, DrainReturns
<1>4. CASE Start \/ Crash \/ UNCHANGED vars
  BY <1>4 DEF Start, Crash
<1> QED
  BY <1>1, <1>2, <1>3, <1>4 DEF Next

\* Where callers await drain() before they call start(), an engine that says
\* STOPPED has no command in flight, for any number of drains at once.
THEOREM StoppedMeansIdle ==
    ASSUME StartAwaitsDrain
    PROVE  Spec => []StoppedIsIdle
<1>1. Init => TypeOK /\ DrainCovers
  BY TypeInit DEF Init, DrainCovers
<1>2. TypeOK /\ DrainCovers /\ [Next]_vars => (TypeOK /\ DrainCovers)'
  BY TypeNext, DrainNext
<1>3. DrainCovers => StoppedIsIdle
  BY DEF DrainCovers, StoppedIsIdle
<1> QED
  BY <1>1, <1>2, <1>3, PTL DEF Spec
-----------------------------------------------------------------------------
(* The metrics.                                                            *)

Undecided == {c \in Commands : pc[c] \in {"started", "dispatched", "saving"}}
Decided == count.completed + count.failed

LEMMA UndecidedFinite ==
    ASSUME IsFiniteSet(Commands)
    PROVE  IsFiniteSet(Undecided) /\ Cardinality(Undecided) \in Nat
  BY FS_Subset, FS_CardinalityType DEF Undecided

\* What a step does to the number of undecided commands.
LEMMA OneMoreUndecided ==
    ASSUME IsFiniteSet(Commands), NEW c \in Commands, c \notin Undecided,
           Undecided' = Undecided \cup {c}
    PROVE  Cardinality(Undecided)' = Cardinality(Undecided) + 1
  BY UndecidedFinite, FS_AddElement

LEMMA OneLessUndecided ==
    ASSUME IsFiniteSet(Commands), NEW c \in Commands, c \in Undecided,
           Undecided' = Undecided \ {c}
    PROVE  Cardinality(Undecided)' = Cardinality(Undecided) - 1
  BY UndecidedFinite, FS_RemoveElement

Balance ==
    /\ Decided + Cardinality(Undecided) >= count.accepted
    /\ IgnoreHistoryErrors => Decided + Cardinality(Undecided) = count.accepted

LEMMA BalanceKept ==
    ASSUME TypeOK, IsFiniteSet(Commands), Balance,
           Undecided' = Undecided, UNCHANGED count
    PROVE  Balance'
<1>1. Cardinality(Undecided)' = Cardinality(Undecided)
  OBVIOUS
<1> QED
  BY <1>1 DEF Balance, Decided

LEMMA StepBalance ==
    ASSUME TypeOK, IsFiniteSet(Commands), IgnoreObserverErrors, Balance,
           NEW c \in Commands, Step(c)
    PROVE  Balance'
<1> USE DEF TypeOK
<1>1. CASE Settle(c) \/ Release(c) \/ CacheMiss(c) \/ CacheReadFails(c) \/ CacheHit(c) \/ HitNotified(c)
  <2>1. Undecided' = Undecided
    BY <1>1 DEF Undecided, Settle, Release, CacheMiss, CacheReadFails, CacheHit, HitNotified, JoinQueue
  <2>2. UNCHANGED count
    BY <1>1 DEF Settle, Release, CacheMiss, CacheReadFails, CacheHit, HitNotified
  <2> QED
    BY <2>1, <2>2, BalanceKept
<1>2. CASE StartCore(c)
  <2>1. c \notin Undecided /\ Undecided' = Undecided \cup {c}
    BY <1>2 DEF StartCore, Undecided
  <2>2. Cardinality(Undecided)' = Cardinality(Undecided) + 1
    BY <2>1, OneMoreUndecided
  <2>3. count'.accepted = count.accepted + 1 /\ Decided' = Decided
    BY <1>2 DEF StartCore, Decided
  <2> QED
    BY <2>2, <2>3, UndecidedFinite DEF Balance, Decided
<1>3. CASE Dispatch(c) \/ RecordSuccess(c) \/ NotifyCompleted(c)
  <2>1. Undecided' = Undecided /\ UNCHANGED count
    BY <1>3 DEF Undecided, Dispatch, RecordSuccess, NotifyCompleted, LeaveCore
  <2> QED
    BY <2>1, BalanceKept
<1>4. CASE RecordFailure(c) \/ RecordFailureFails(c) \/ NotifyFailed(c)
  <2>1. Undecided' = Undecided /\ UNCHANGED count
    BY <1>4 DEF Undecided, RecordFailure, RecordFailureFails, NotifyFailed, LeaveCore
  <2> QED
    BY <2>1, BalanceKept
<1>5. CASE DispatchReturns(c) /\ EnableIdempotency
  <2>1. Undecided' = Undecided /\ UNCHANGED count
    BY <1>5 DEF Undecided, DispatchReturns
  <2> QED
    BY <2>1, BalanceKept
<1>6. CASE (DispatchReturns(c) /\ ~EnableIdempotency) \/ Save(c) \/ (TryFails(c) /\ pc[c] \in {"dispatched", "saving"})
  <2>1. c \in Undecided /\ Undecided' = Undecided \ {c}
    BY <1>6 DEF DispatchReturns, Save, TryFails, Undecided
  <2>2. Cardinality(Undecided)' = Cardinality(Undecided) - 1
    BY <2>1, OneLessUndecided
  <2>3. count'.accepted = count.accepted /\ Decided' = Decided + 1
    BY <1>6 DEF DispatchReturns, Save, TryFails, Decided
  <2> QED
    BY <2>2, <2>3, UndecidedFinite DEF Balance, Decided
<1>7. CASE TryFails(c) /\ pc[c] \notin {"dispatched", "saving"}
  <2>1. ~IgnoreHistoryErrors /\ Undecided' = Undecided
    BY <1>7 DEF TryFails, Undecided
  <2>2. Cardinality(Undecided)' = Cardinality(Undecided)
    BY <2>1
  <2>3. count'.accepted = count.accepted /\ Decided' = Decided + 1
    BY <1>7 DEF TryFails, Decided
  <2> QED
    BY <2>1, <2>2, <2>3, UndecidedFinite DEF Balance, Decided
<1> QED
  BY <1>1, <1>2, <1>3, <1>4, <1>5, <1>6, <1>7 DEF Step, StartObserverFails

LEMMA BalanceNext ==
    ASSUME IsFiniteSet(Commands), IgnoreObserverErrors
    PROVE  TypeOK /\ InFlightMatches /\ Balance /\ [Next]_vars => Balance'
<1> SUFFICES ASSUME TypeOK, InFlightMatches, Balance, [Next]_vars PROVE Balance'
  OBVIOUS
<1>1. ASSUME NEW c \in Commands, Execute(c) PROVE Balance'
  <2>1. pc[c] = "idle"
    BY <1>1 DEF Execute, InFlightMatches
  <2>2. Undecided' = Undecided /\ UNCHANGED count
    BY <1>1, <2>1 DEF Execute, JoinQueue, Undecided, TypeOK
  <2> QED
    BY <2>2, BalanceKept
<1>2. ASSUME NEW c \in Commands, Step(c) PROVE Balance'
  BY <1>2, StepBalance
<1>3. ASSUME NEW d \in Drains, Drain(d) \/ DrainReturns(d) PROVE Balance'
  BY <1>3, BalanceKept DEF Drain, DrainReturns, Undecided
<1>4. CASE Start \/ UNCHANGED vars
  BY <1>4, BalanceKept DEF Start, Undecided
<1>5. CASE Crash
  <2>1. Undecided' = {}
    BY <1>5 DEF Crash, Undecided
  <2> QED
    BY <1>5, <2>1, FS_EmptySet DEF Crash, Balance, Decided, NoCount
<1> QED
  BY <1>1, <1>2, <1>3, <1>4, <1>5 DEF Next

\* With observer errors ignored, the default, the metrics lose no accepted command,
\* and with history errors ignored too they count none twice.
THEOREM MetricsBalance ==
    ASSUME IsFiniteSet(Commands)
    PROVE  Spec => []CountsBalance
<1>1. CASE IgnoreObserverErrors
  <2>1. Init => TypeOK /\ InFlightMatches /\ Balance
    <3>1. Init => Undecided = {}
      BY DEF Init, Undecided
    <3> QED
      BY <3>1, TypeInit, FlightInit, FS_EmptySet DEF Init, Balance, Decided, NoCount
  <2>2. TypeOK /\ InFlightMatches /\ Balance /\ [Next]_vars
        => (TypeOK /\ InFlightMatches /\ Balance)'
    BY <1>1, TypeNext, FlightNext, BalanceNext
  <2>3. Balance => CountsBalance
    BY DEF Balance, CountsBalance, Decided, Undecided
  <2> QED
    BY <2>1, <2>2, <2>3, PTL DEF Spec
<1>2. CASE ~IgnoreObserverErrors
  <2>1. CountsBalance
    BY <1>2 DEF CountsBalance
  <2> QED
    BY <2>1, PTL
<1> QED
  BY <1>1, <1>2

-----------------------------------------------------------------------------
(* The abstract queue: the queue of an order lists the commands of its     *)
(* chain.                                                                  *)

Listed == \A o \in Orders : Lists(QueueOf(o), InChain(o), ticket)

LEMMA QueueIs ==
    ASSUME NEW S, NEW key, \A x \in S : key[x] \in Nat, NEW s, Lists(s, S, key), NEW o,
           S = InChain(o), key = ticket
    PROVE  QueueOf(o) = s
  BY ListChosen DEF QueueOf

\* Also in the next state.
LEMMA QueueWillBe ==
    ASSUME NEW s, NEW o, \A x \in InChain(o)' : ticket'[x] \in Nat, Lists(s, InChain(o)', ticket')
    PROVE  QueueOf(o)' = s
  BY ListChosen DEF QueueOf

\* A step that leaves the chains alone and starts or ends nobody's turn.
QueueStutters ==
    /\ UNCHANGED queueVars
    /\ \A d \in Commands : HasPlace(d)' <=> HasPlace(d)
    /\ \A d \in Commands : Running(d)' <=> Running(d)

StartedNow == {c \in Commands : Running(c)}

LEMMA SameQueue ==
    ASSUME NEW o, UNCHANGED ticket, \A d \in Commands : HasPlace(d)' <=> HasPlace(d)
    PROVE  QueueOf(o)' = QueueOf(o) /\ InChain(o)' = InChain(o)
<1>1. InChain(o)' = InChain(o)
  BY DEF InChain
<1> QED
  BY <1>1 DEF QueueOf

LEMMA SameQueues ==
    ASSUME Listed, UNCHANGED ticket, \A d \in Commands : HasPlace(d)' <=> HasPlace(d)
    PROVE  Listed' /\ [o \in Orders |-> QueueOf(o)]' = [o \in Orders |-> QueueOf(o)]
  BY SameQueue DEF Listed

LEMMA StutterImplements ==
    ASSUME Listed, QueueStutters
    PROVE  Listed' /\ UNCHANGED Queue!qvars
<1>1. StartedNow' = StartedNow
  BY DEF QueueStutters, StartedNow
<1> QED
  BY <1>1, SameQueues DEF QueueStutters, StartedNow, Queue!qvars

\* A command whose turn has come has nobody ahead of it.
LEMMA FirstInChain ==
    ASSUME QInv, SerializePerOrder, NEW c \in Commands, HasPlace(c), prev[c] \notin pending,
           NEW d \in InChain(OrderOf[c]), d # c
    PROVE  ticket[c] < ticket[d]
<1>1. d \in Commands /\ HasPlace(d) /\ OrderOf[d] = OrderOf[c]
  BY DEF InChain
<1>2. ~Ahead(d, c)
  <2> SUFFICES ASSUME Ahead(d, c) PROVE FALSE
    OBVIOUS
  <2>1. PICK b \in Commands : Ahead(b, c) /\ ticket[b] = prev[c]
    BY <1>1 DEF QInv, ChainInv, NobodySkipped
  <2> QED
    BY <2>1 DEF QInv, ChainInv, PlacesHeld, Ahead
<1>3. ticket[d] # ticket[c]
  BY <1>1 DEF QInv, ChainInv, PlacesDistinct
<1>4. ticket[c] \in Nat /\ ticket[d] \in Nat
  BY <1>1 DEF QInv, TypeOK
<1> QED
  BY <1>1, <1>2, <1>3, <1>4 DEF Ahead

LEMMA HeadOfQueue ==
    ASSUME QInv, Listed, SerializePerOrder, NEW c \in Commands, HasPlace(c), prev[c] \notin pending
    PROVE  QueueOf(OrderOf[c]) # <<>> /\ Head(QueueOf(OrderOf[c])) = c
<1> DEFINE S == InChain(OrderOf[c])
<1>1. c \in S /\ OrderOf[c] \in Orders
  BY EngineAssumption DEF InChain
<1>2. \A x \in S : ticket[x] \in Nat /\ (x # c => ticket[c] < ticket[x])
  BY FirstInChain DEF QInv, TypeOK, InChain
<1>3. Lists(QueueOf(OrderOf[c]), S, ticket)
  BY <1>1 DEF Listed
<1> HIDE DEF S
<1> QED
  BY <1>1, <1>2, <1>3, ListHead

\* A command that joins is the last of its queue.
LEMMA JoinImplements ==
    ASSUME QInv, Listed, SerializePerOrder, NEW c \in Commands, ~HasPlace(c), JoinQueue(c)
    PROVE  Listed' /\ Queue!Arrive(c)
<1> DEFINE o == OrderOf[c]
           n == nextTicket + 1
<1>1. o \in Orders
  BY EngineAssumption
<1>2. /\ pc' = [pc EXCEPT ![c] = "queued"]
      /\ ticket' = [ticket EXCEPT ![c] = n]
  BY DEF JoinQueue
<1>3. /\ pc \in [Commands -> Pcs] /\ ticket \in [Commands -> Nat]
      /\ nextTicket \in Nat /\ pending \subseteq 1 .. nextTicket
  BY DEF QInv, TypeOK
<1>4. /\ HasPlace(c)' /\ ~Running(c)' /\ ~Running(c) /\ ticket'[c] = n
      /\ \A d \in Commands \ {c} :
            /\ HasPlace(d)' <=> HasPlace(d)
            /\ Running(d)' <=> Running(d)
            /\ ticket'[d] = ticket[d]
  BY <1>2, <1>3 DEF HasPlace, Running, QueuePcs, CorePcs
<1>5. \A q \in Orders : InChain(q)' = IF q = o THEN InChain(q) \cup {c} ELSE InChain(q)
  BY <1>4 DEF InChain
<1>6. \A q \in Orders : \A x \in InChain(q) : ticket[x] \in Nat /\ ticket'[x] = ticket[x] /\ ticket[x] < n
  <2> SUFFICES ASSUME NEW q \in Orders, NEW x \in InChain(q)
               PROVE  ticket[x] \in Nat /\ ticket'[x] = ticket[x] /\ ticket[x] < n
    OBVIOUS
  <2>1. x \in Commands /\ HasPlace(x) /\ x # c
    BY DEF InChain
  <2>2. ticket[x] \in 1 .. nextTicket
    BY <1>3, <2>1 DEF QInv, ChainInv, PlacesHeld
  <2> QED
    BY <1>3, <1>4, <2>1, <2>2
<1>7. \A q \in Orders : \A x \in InChain(q)' : ticket'[x] \in Nat
  BY <1>3, <1>4, <1>5, <1>6
<1>8. Lists(Append(QueueOf(o), c), InChain(o)', ticket') /\ QueueOf(o)' = Append(QueueOf(o), c)
  <2>1. PICK s, S, key, other : s = QueueOf(o) /\ S = InChain(o) /\ key = ticket /\ other = ticket'
    OBVIOUS
  <2>2. Lists(s, S, key)
    BY <1>1, <2>1 DEF Listed
  <2>3. c \notin S
    BY <2>1 DEF InChain
  <2>4. \A x \in S : key[x] \in Nat /\ other[x] = key[x] /\ key[x] < other[c]
    BY <1>1, <1>4, <1>6, <2>1
  <2>5. Lists(Append(s, c), S \cup {c}, other)
    BY <2>2, <2>3, <2>4, ListAppend
  <2>6. S \cup {c} = InChain(o)'
    BY <1>1, <1>5, <2>1
  <2>7. Lists(Append(s, c), InChain(o)', ticket')
    BY <2>1, <2>5, <2>6
  <2>8. QueueOf(o)' = Append(s, c)
    BY <1>1, <1>7, <2>7, QueueWillBe
  <2> QED
    BY <2>1, <2>7, <2>8
<1>9. ASSUME NEW q \in Orders, q # o
      PROVE  Lists(QueueOf(q), InChain(q)', ticket') /\ QueueOf(q)' = QueueOf(q)
  <2>1. PICK s, S, key, other : s = QueueOf(q) /\ S = InChain(q) /\ key = ticket /\ other = ticket'
    OBVIOUS
  <2>2. Lists(s, S, key) /\ \A x \in S : other[x] = key[x]
    BY <1>6, <2>1 DEF Listed
  <2>3. Lists(s, S, other)
    BY <2>2, ListSame
  <2>4. Lists(s, InChain(q)', ticket')
    BY <1>5, <1>9, <2>1, <2>3
  <2>5. QueueOf(q)' = s
    BY <1>7, <2>4, QueueWillBe
  <2> QED
    BY <2>1, <2>4, <2>5
<1>10. Listed'
  BY <1>8, <1>9 DEF Listed
<1>11. StartedNow' = StartedNow
  BY <1>4 DEF StartedNow
<1>12. [p \in Orders |-> QueueOf(p)]' = [[p \in Orders |-> QueueOf(p)] EXCEPT ![o] = Append(@, c)]
  BY <1>1, <1>8, <1>9
<1> QED
  BY <1>10, <1>11, <1>12 DEF Queue!Arrive, StartedNow

\* A command that starts is the first of its queue.
LEMMA StartImplements ==
    ASSUME QInv, Listed, SerializePerOrder, NEW c \in Commands, StartCore(c)
    PROVE  Listed' /\ Queue!Begin(c)
<1>1. /\ HasPlace(c) /\ HasPlace(c)' /\ ~Running(c) /\ Running(c)' /\ UNCHANGED ticket
      /\ \A d \in Commands \ {c} :
            (HasPlace(d)' <=> HasPlace(d)) /\ (Running(d)' <=> Running(d))
  BY DEF StartCore, QInv, TypeOK, HasPlace, Running, QueuePcs, CorePcs
<1>2. OrderOf[c] \in Orders
  BY EngineAssumption
<1>3. Listed' /\ [o \in Orders |-> QueueOf(o)]' = [o \in Orders |-> QueueOf(o)]
  BY <1>1, SameQueues
<1>4. QueueOf(OrderOf[c]) # <<>> /\ Head(QueueOf(OrderOf[c])) = c
  BY <1>1, HeadOfQueue DEF StartCore
<1>5. StartedNow' = StartedNow \cup {c} /\ c \notin StartedNow
  BY <1>1 DEF StartedNow
<1> QED
  BY <1>2, <1>3, <1>4, <1>5 DEF Queue!Begin, Queue!AtHead, StartedNow

\* A command that gives its place up is the first of its queue and has begun.
LEMMA ReleaseImplements ==
    ASSUME QInv, Listed, SerializePerOrder, NEW c \in Commands, Release(c)
    PROVE  Listed' /\ Queue!Finish(c)
<1> DEFINE o == OrderOf[c]
<1>1. o \in Orders
  BY EngineAssumption
<1>2. /\ HasPlace(c) /\ ~HasPlace(c)' /\ Running(c) /\ ~Running(c)'
      /\ \A d \in Commands \ {c} :
            /\ HasPlace(d)' <=> HasPlace(d)
            /\ Running(d)' <=> Running(d)
            /\ ticket'[d] = ticket[d]
      /\ ticket \in [Commands -> Nat] /\ ticket' \in [Commands -> Nat]
  BY DEF Release, QInv, TypeOK, HasPlace, Running, QueuePcs, CorePcs
<1>3. prev[c] \notin pending
  BY <1>2 DEF QInv, ChainInv, PlacesHeld
<1>4. QueueOf(o) # <<>> /\ Head(QueueOf(o)) = c
  BY <1>2, <1>3, HeadOfQueue
<1>5. \A q \in Orders : InChain(q)' = IF q = o THEN InChain(q) \ {c} ELSE InChain(q)
  BY <1>2 DEF InChain
<1>6. \A q \in Orders : \A x \in InChain(q)' : ticket'[x] \in Nat
  BY <1>2 DEF InChain
<1>7. Lists(Tail(QueueOf(o)), InChain(o)', ticket') /\ QueueOf(o)' = Tail(QueueOf(o))
  <2>1. PICK s, S, key, other : s = QueueOf(o) /\ S = InChain(o) /\ key = ticket /\ other = ticket'
    OBVIOUS
  <2>2. Lists(s, S, key)
    BY <1>1, <2>1 DEF Listed
  <2>3. c \in S
    BY <1>2, <2>1 DEF InChain
  <2>4. \A x \in S : key[x] \in Nat /\ (x # c => key[c] < key[x] /\ other[x] = key[x])
    BY <1>2, <1>3, <2>1, FirstInChain DEF InChain
  <2>5. Lists(Tail(s), S \ {c}, other)
    BY <2>2, <2>3, <2>4, ListTail
  <2>6. S \ {c} = InChain(o)'
    BY <1>1, <1>5, <2>1
  <2>7. Lists(Tail(s), InChain(o)', ticket')
    BY <2>1, <2>5, <2>6
  <2>8. QueueOf(o)' = Tail(s)
    BY <1>1, <1>6, <2>7, QueueWillBe
  <2> QED
    BY <2>1, <2>7, <2>8
<1>8. ASSUME NEW q \in Orders, q # o
      PROVE  Lists(QueueOf(q), InChain(q)', ticket') /\ QueueOf(q)' = QueueOf(q)
  <2>1. PICK s, S, key, other : s = QueueOf(q) /\ S = InChain(q) /\ key = ticket /\ other = ticket'
    OBVIOUS
  <2>2. Lists(s, S, key) /\ \A x \in S : other[x] = key[x]
    BY <1>2, <1>8, <2>1 DEF Listed, InChain
  <2>3. Lists(s, S, other)
    BY <2>2, ListSame
  <2>4. Lists(s, InChain(q)', ticket')
    BY <1>5, <1>8, <2>1, <2>3
  <2>5. QueueOf(q)' = s
    BY <1>6, <2>4, QueueWillBe
  <2> QED
    BY <2>1, <2>4, <2>5
<1>9. Listed'
  BY <1>7, <1>8 DEF Listed
<1>10. StartedNow' = StartedNow \ {c} /\ c \in StartedNow
  BY <1>2 DEF StartedNow
<1>11. [p \in Orders |-> QueueOf(p)]' = [[p \in Orders |-> QueueOf(p)] EXCEPT ![o] = Tail(@)]
  BY <1>1, <1>7, <1>8
<1> QED
  BY <1>1, <1>4, <1>9, <1>10, <1>11 DEF Queue!Finish, Queue!AtHead, StartedNow

\* A restart empties the queues; before anything happens they are empty.
LEMMA NobodyListed ==
    (\A c \in Commands : pc[c] = "idle") =>
        Listed /\ [o \in Orders |-> QueueOf(o)] = [o \in Orders |-> <<>>] /\ StartedNow = {}
<1> SUFFICES ASSUME \A c \in Commands : pc[c] = "idle"
             PROVE  Listed /\ [o \in Orders |-> QueueOf(o)] = [o \in Orders |-> <<>>] /\ StartedNow = {}
  OBVIOUS
<1>1. \A o : InChain(o) = {}
  BY DEF InChain, HasPlace, QueuePcs, CorePcs
<1>2. \A o : QueueOf(o) = <<>> /\ Lists(QueueOf(o), InChain(o), ticket)
  <2>1. Lists(<<>>, {}, ticket)
    BY ListNothing
  <2> QED
    BY <1>1, <2>1, QueueIs
<1>3. StartedNow = {}
  BY DEF StartedNow, Running, CorePcs
<1> QED
  BY <1>2, <1>3 DEF Listed

LEMMA StepImplements ==
    ASSUME QInv, Listed, SerializePerOrder, NEW c \in Commands, Step(c)
    PROVE  Listed' /\ [Queue!QNext]_(Queue!qvars)
<1> USE DEF QInv, TypeOK, QueueStutters, HasPlace, Running, QueuePcs, CorePcs
<1>1. CASE CacheMiss(c)
  <2>1. ~HasPlace(c)
    BY <1>1 DEF CacheMiss
  <2>2. JoinQueue(c)
    BY <1>1 DEF CacheMiss
  <2> QED
    BY <2>1, <2>2, JoinImplements DEF Queue!QNext
<1>2. CASE StartCore(c)
  BY <1>2, StartImplements DEF Queue!QNext
<1>3. CASE Release(c)
  BY <1>3, ReleaseImplements DEF Queue!QNext
<1>4. CASE CacheHit(c) \/ HitNotified(c) \/ CacheReadFails(c) \/ Settle(c)
  <2>1. QueueStutters
    BY <1>4 DEF CacheHit, HitNotified, CacheReadFails, Settle
  <2> QED
    BY <2>1, StutterImplements
<1>5. CASE Dispatch(c) \/ StartObserverFails(c) \/ DispatchReturns(c)
  <2>1. QueueStutters
    BY <1>5 DEF Dispatch, StartObserverFails, DispatchReturns, LeaveCore
  <2> QED
    BY <2>1, StutterImplements
<1>6. CASE Save(c) \/ RecordSuccess(c) \/ NotifyCompleted(c)
  <2>1. QueueStutters
    BY <1>6 DEF Save, RecordSuccess, NotifyCompleted, LeaveCore
  <2> QED
    BY <2>1, StutterImplements
<1>7. CASE TryFails(c) \/ RecordFailure(c)
  <2>1. QueueStutters
    BY <1>7 DEF TryFails, RecordFailure
  <2> QED
    BY <2>1, StutterImplements
<1>8. CASE RecordFailureFails(c) \/ NotifyFailed(c)
  <2>1. QueueStutters
    BY <1>8 DEF RecordFailureFails, NotifyFailed, LeaveCore
  <2> QED
    BY <2>1, StutterImplements
<1> QED
  BY <1>1, <1>2, <1>3, <1>4, <1>5, <1>6, <1>7, <1>8 DEF Step

LEMMA NextImplements ==
    SerializePerOrder /\ QInv /\ Listed /\ [Next]_vars => Listed' /\ [Queue!QNext]_(Queue!qvars)
<1> SUFFICES ASSUME SerializePerOrder, QInv, Listed, [Next]_vars
             PROVE  Listed' /\ [Queue!QNext]_(Queue!qvars)
  OBVIOUS
<1> DEFINE Goal == Listed' /\ [Queue!QNext]_(Queue!qvars)
<1>1. ASSUME NEW c \in Commands, Execute(c) PROVE Goal
  <2>1. pc[c] = "idle" /\ ~HasPlace(c)
    BY <1>1 DEF Execute, QInv, InFlightMatches, HasPlace, QueuePcs, CorePcs
  <2>2. CASE EnableIdempotency
    <3>1. QueueStutters
      BY <1>1, <2>1, <2>2
         DEF Execute, QInv, TypeOK, QueueStutters, HasPlace, Running, QueuePcs, CorePcs
    <3> QED
      BY <3>1, StutterImplements
  <2>3. CASE ~EnableIdempotency
    <3>1. JoinQueue(c)
      BY <1>1, <2>3 DEF Execute
    <3> QED
      BY <2>1, <3>1, JoinImplements DEF Queue!QNext
  <2> QED
    BY <2>2, <2>3
<1>2. ASSUME NEW c \in Commands, Step(c) PROVE Goal
  BY <1>2, StepImplements
<1>3. ASSUME NEW d \in Drains, Drain(d) \/ DrainReturns(d) PROVE Goal
  <2>1. QueueStutters
    BY <1>3 DEF Drain, DrainReturns, QueueStutters, HasPlace, Running
  <2> QED
    BY <2>1, StutterImplements
<1>4. CASE Start \/ UNCHANGED vars
  <2>1. QueueStutters
    BY <1>4 DEF Start, QueueStutters, HasPlace, Running
  <2> QED
    BY <2>1, StutterImplements
<1>5. CASE Crash
  <2>1. (\A c \in Commands : pc[c] = "idle")'
    BY <1>5 DEF Crash
  <2>2. (Listed /\ [o \in Orders |-> QueueOf(o)] = [o \in Orders |-> <<>>] /\ StartedNow = {})'
    BY <2>1, NobodyListed, PTL
  <2>3. Queue!Lose
    BY <2>2 DEF Queue!Lose, StartedNow
  <2> QED
    BY <2>2, <2>3 DEF Queue!QNext
<1> QED
  BY <1>1, <1>2, <1>3, <1>4, <1>5 DEF Next

\* enqueueByOrder (:951) implements a queue for each order: with the commands of an
\* order serialized, every execution of the engine is one of OrderQueue.
THEOREM EngineIsAQueue == SerializePerOrder => (Spec => QueueSpec)
<1> SUFFICES ASSUME SerializePerOrder PROVE Spec => QueueSpec
  OBVIOUS
<1>1. Init => Listed /\ Queue!QInit
  <2> SUFFICES ASSUME Init PROVE Listed /\ Queue!QInit
    OBVIOUS
  <2>1. \A c \in Commands : pc[c] = "idle"
    BY DEF Init
  <2> QED
    BY <2>1, NobodyListed DEF Queue!QInit, StartedNow
<1>2. QInv /\ Listed /\ [Next]_vars => Listed' /\ [Queue!QNext]_(Queue!qvars)
  BY NextImplements
<1> QED
  BY <1>1, <1>2, QInvHolds, PTL DEF Spec, QueueSpec, Queue!QSpec
=============================================================================
