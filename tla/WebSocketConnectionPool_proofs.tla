---------------------- MODULE WebSocketConnectionPool_proofs ----------------------
(***************************************************************************)
(* The connection pool, for any callers, exchanges, limits and numbers of  *)
(* connections: its type, its leases, that no connection is stranded, and  *)
(* its limits.                                                             *)
(*                                                                         *)
(* A caller that works on a connection either holds it, to connect and     *)
(* lease it, or takes it off, to evict it or after its release. The        *)
(* acquisition of an exchange is alone (OnlyOne), so that nobody else can  *)
(* hold its connection; a connection being taken off is not IDLE, hence    *)
(* not chosen; and whoever meets another at work on a connection is on     *)
(* record (overtaken).                                                     *)
(*                                                                         *)
(* A status of what is neither leased nor IDLE is explained by somebody at *)
(* work on the connection or by a failure of the connection, so that with  *)
(* nobody at work it has failed. An acquisition that creates has room in   *)
(* its exchange, for it is alone in it; the total is weighed: a connection *)
(* that an eviction has overtaken may have made room for every exchange at *)
(* once.                                                                   *)
(***************************************************************************)
EXTENDS WebSocketConnectionPool, FiniteSetTheorems, TLAPS

HoldPcs == {"created", "connecting", "connected", "connectFailed"}
OffPcs == {"off", "offFailed", "offRetry", "disconnecting", "queuedOff", "disposing"}
Holds(c) == call[c].pc \in HoldPcs
TakesOff(c) == call[c].pc \in OffPcs

\* What is at work has a connection that was made.
AtWork == \A c \in Callers : Holds(c) \/ TakesOff(c) =>
              call[c].conn \in Conns /\ record[call[c].conn].status # "NONE"
\* Whoever acquires has an exchange, and is the one that is pending for it.
AskPcs == {"waiting", "again", "creating", "granted", "acquireFailed"}
IsAcquisition(x) == x.goal \in {"room", "slot", "failure"} \/ x.pc \in AskPcs
OnlyOne == \A c \in Callers :
              /\ IsAcquisition(call[c]) => call[c].exchange # None
              /\ call[c].exchange # None /\ call[c].pc \notin {"waiting", "again"} =>
                    pending[call[c].exchange] = c
\* What is held is a connection of the exchange asked for, and nobody's.
HeldIsFree == \A c \in Callers : Holds(c) =>
              /\ call[c].exchange # None
              /\ record[call[c].conn].exchange = call[c].exchange
              /\ record[call[c].conn].leases = {}
              /\ call[c].conn \in pooled \cup overtaken
LeaseMatches == \A c \in Callers : leases[c] # 0 => record[leases[c]].leases = {c}
NewIsFree == \A k \in Conns : record[k].status = "NONE" => record[k].leases = {}
\* Two at work on a connection, or one taking off what is leased or IDLE, have met.
Met == /\ \A c, d \in Callers : /\ c # d /\ call[c].conn = call[d].conn
                                /\ (Holds(c) \/ TakesOff(c)) /\ (Holds(d) \/ TakesOff(d))
                                => call[c].conn \in overtaken
       /\ \A c \in Callers : TakesOff(c) =>
              /\ record[call[c].conn].status = "IDLE" => call[c].conn \in overtaken
              /\ \A d \in Callers : leases[d] = call[c].conn => call[c].conn \in overtaken
Backed == \A c \in Callers : leases[c] \notin {0} \cup overtaken =>
              leases[c] \in pooled /\ record[leases[c]].status = "LEASED"

LInv == AtWork /\ OnlyOne /\ HeldIsFree /\ LeaseMatches /\ NewIsFree /\ Met /\ Backed

-----------------------------------------------------------------------------
(* What the operators of the manager and the evictions do to the call *)

ManagerType == state \in [Conns -> States] /\ operation \in [Conns -> {"none", "connect", "disconnect"}]

\* Caller c goes on, with k, for the exchange of x.
GoesOnFrom(c, k, x, pcs) ==
    \E y \in Calls : /\ y.pc \in pcs /\ y.conn = k /\ y.exchange = x.exchange /\ y.goal = x.goal
                     /\ call' = [call EXCEPT ![c] = y]

LEMMA NewPc ==
    ASSUME NEW x \in Calls, NEW p \in Pcs
    PROVE  LET y == [x EXCEPT !.pc = p] IN
           y \in Calls /\ y.pc = p /\ y.conn = x.conn /\ y.exchange = x.exchange /\ y.goal = x.goal
  BY DEF Calls

LEMMA GoesEffect ==
    ASSUME NEW c \in Callers, NEW k, NEW x \in Calls, x.conn = k, NEW pcs \in SUBSET Pcs,
           NEW p \in pcs, Goes(c, [x EXCEPT !.pc = p])
    PROVE  GoesOnFrom(c, k, x, pcs)
<1>1. p \in Pcs
  OBVIOUS
<1> QED
  BY <1>1, NewPc DEF Goes, GoesOnFrom

LEMMA PcSets == /\ OffPcs \in SUBSET Pcs /\ HoldPcs \in SUBSET Pcs
                /\ \A p \in Resumable : p \in Pcs
  BY DEF OffPcs, HoldPcs, Pcs, Resumable

LEMMA DisconnectsEffect ==
    ASSUME ManagerType, NEW c \in Callers, NEW k \in Conns, NEW x \in Calls, x.conn = k, Disconnects(c, k, x)
    PROVE  GoesOnFrom(c, k, x, OffPcs) /\ ManagerType'
<1>1. \E p \in OffPcs : Goes(c, [x EXCEPT !.pc = p])
  BY DEF Disconnects, OffPcs
<1>2. ManagerType'
  BY DEF Disconnects, manager, ManagerType, States
<1> QED
  BY <1>1, <1>2, GoesEffect, PcSets

LEMMA UnregistersEffect ==
    ASSUME ManagerType, NEW c \in Callers, NEW k \in Conns, NEW x \in Calls, x.conn = k, Unregisters(c, k, x)
    PROVE  GoesOnFrom(c, k, x, OffPcs) /\ ManagerType'
<1> DEFINE z == [x EXCEPT !.forced = TRUE]
<1>1. z \in Calls /\ z.conn = k /\ z.exchange = x.exchange /\ z.goal = x.goal
  BY DEF Calls
<1>2. CASE Disconnects(c, k, z)
  <2>1. GoesOnFrom(c, k, z, OffPcs) /\ ManagerType'
    BY <1>1, <1>2, DisconnectsEffect
  <2> QED
    BY <1>1, <2>1 DEF GoesOnFrom
<1>3. CASE UNCHANGED manager /\ \E p \in OffPcs : Goes(c, [x EXCEPT !.pc = p])
  BY <1>3, GoesEffect, PcSets DEF ManagerType, manager
<1> QED
  BY <1>2, <1>3 DEF Unregisters, OffPcs

LEMMA ConnectsEffect ==
    ASSUME ManagerType, NEW c \in Callers, NEW k \in Conns, NEW x \in Calls, x.conn = k, Connects(c, k, x)
    PROVE  GoesOnFrom(c, k, x, HoldPcs) /\ ManagerType'
<1>1. \E p \in HoldPcs : Goes(c, [x EXCEPT !.pc = p])
  BY DEF Connects, HoldPcs
<1>2. ManagerType'
  BY DEF Connects, manager, ManagerType, States
<1> QED
  BY <1>1, <1>2, GoesEffect, PcSets

\* An eviction is refused, or c takes the connection off from now on.
Refused(c, k, x) == GoesOnFrom(c, k, x, {"evictFailed"}) /\ UNCHANGED <<record, overtaken>>
Begins(c, k, x) == /\ record[k].leases = {} /\ Becomes(k, "EVICTING") /\ Meets(k, c)
                   /\ GoesOnFrom(c, k, x, OffPcs)

LEMMA EvictsEffect ==
    ASSUME ManagerType, NEW c \in Callers, NEW k \in Conns, NEW x \in Calls, Evicts(c, k, x)
    PROVE  ManagerType' /\ (Refused(c, k, x) \/ Begins(c, k, x))
<1> DEFINE y == [x EXCEPT !.conn = k, !.forced = FALSE]
<1>1. y \in Calls /\ y.conn = k /\ y.exchange = x.exchange /\ y.goal = x.goal
  BY DEF Calls
<1>2. \A pcs : GoesOnFrom(c, k, y, pcs) => GoesOnFrom(c, k, x, pcs)
  BY <1>1 DEF GoesOnFrom
<1>3. CASE record[k].leases # {}
  <2>1. Goes(c, [y EXCEPT !.pc = "evictFailed"]) /\ UNCHANGED <<record, manager, overtaken>>
    BY <1>3 DEF Evicts
  <2>2. {"evictFailed"} \in SUBSET Pcs
    BY DEF Pcs, Resumable
  <2>3. GoesOnFrom(c, k, y, {"evictFailed"})
    BY <1>1, <2>1, <2>2, GoesEffect
  <2> QED
    BY <1>2, <2>1, <2>3 DEF Refused, ManagerType, manager
<1>4. CASE record[k].leases = {}
  <2>1. Becomes(k, "EVICTING") /\ Meets(k, c) /\ (Disconnects(c, k, y) \/ Unregisters(c, k, y))
    BY <1>4 DEF Evicts
  <2>2. GoesOnFrom(c, k, y, OffPcs) /\ ManagerType'
    BY <1>1, <2>1, DisconnectsEffect, UnregistersEffect
  <2> QED
    BY <1>2, <1>4, <2>1, <2>2 DEF Begins
<1> QED
  BY <1>3, <1>4

-----------------------------------------------------------------------------
(* The kinds of steps *)

IInv == TypeOK /\ LInv

\* The steps of one caller keep OnlyOne, acquisition or not.
LEMMA OnlyOneKept ==
    ASSUME IInv, NEW c \in Callers, NEW y \in Calls, call' = [call EXCEPT ![c] = y],
           IsAcquisition(y) => y.exchange # None,
           \/ /\ pending' = pending
              /\ y.exchange = None \/ y.pc \in {"waiting", "again"} \/ pending[y.exchange] = c
           \/ y.exchange # None /\ pending[y.exchange] = None /\ pending' = [pending EXCEPT ![y.exchange] = c]
    PROVE  OnlyOne'
<1>1. call \in [Callers -> Calls] /\ y.exchange \in Exchanges \cup {None} /\ None \notin Callers
  BY PoolAssumption DEF IInv, TypeOK, Calls
<1>2. pending \in [Exchanges -> Callers \cup {None}] /\ \A d \in Callers : call[d].exchange \in Exchanges \cup {None}
  BY DEF IInv, TypeOK, Calls
<1> QED
  BY <1>1, <1>2 DEF IInv, LInv, OnlyOne

\* Nothing changes but the calls, and nobody starts to work on a connection.
LEMMA Steady ==
    ASSUME IInv, UNCHANGED <<record, leases, pooled, overtaken>>, OnlyOne',
           \A d \in Callers :
              /\ Holds(d)' => Holds(d) /\ call'[d].conn = call[d].conn /\ call'[d].exchange = call[d].exchange
              /\ TakesOff(d)' => TakesOff(d) /\ call'[d].conn = call[d].conn
    PROVE  LInv'
<1> USE DEF IInv, LInv
<1>1. AtWork'
  BY DEF AtWork
<1>2. HeldIsFree'
  BY DEF HeldIsFree
<1>3. LeaseMatches' /\ NewIsFree' /\ Backed'
  BY DEF LeaseMatches, NewIsFree, Backed
<1>4. Met'
  BY DEF Met
<1> QED
  BY <1>1, <1>2, <1>3, <1>4

\* A caller goes on with the same connection, or works on none any more.
LEMMA SteadyOne ==
    ASSUME IInv, NEW c \in Callers, NEW y \in Calls, call' = [call EXCEPT ![c] = y],
           UNCHANGED <<record, leases, pooled, overtaken>>, OnlyOne',
           \/ y.pc \notin HoldPcs \cup OffPcs
           \/ Holds(c) /\ y.pc \in HoldPcs /\ y.conn = call[c].conn /\ y.exchange = call[c].exchange
           \/ TakesOff(c) /\ y.pc \in OffPcs /\ y.conn = call[c].conn
    PROVE  LInv'
<1>1. call \in [Callers -> Calls] /\ HoldPcs \cap OffPcs = {}
  BY DEF IInv, TypeOK, HoldPcs, OffPcs
<1> QED
  BY <1>1, Steady DEF Holds, TakesOff

LEMMA EvictionBegins ==
    ASSUME IInv, NEW c \in Callers, NEW k \in Conns, NEW x \in Calls, Begins(c, k, x),
           UNCHANGED <<leases, pooled>>, OnlyOne'
    PROVE  LInv'
<1> USE DEF IInv, LInv
<1>1. PICK y \in Calls : y.pc \in OffPcs /\ y.conn = k /\ call' = [call EXCEPT ![c] = y]
  BY DEF Begins, GoesOnFrom
<1>2. call \in [Callers -> Calls] /\ HoldPcs \cap OffPcs = {} /\ record' = [record EXCEPT ![k].status = "EVICTING"]
  BY DEF TypeOK, HoldPcs, OffPcs, Begins, Becomes
<1>3. /\ record' \in [Conns -> [exchange : Exchanges \cup {None}, status : Statuses, leases : SUBSET Callers]]
      /\ record'[k].status = "EVICTING" /\ record'[k].leases = record[k].leases /\ record'[k].exchange = record[k].exchange
      /\ \A j \in Conns \ {k} : record'[j] = record[j]
  BY <1>2 DEF TypeOK, Statuses
<1>4. /\ overtaken \subseteq overtaken'
      /\ \A d \in Callers \ {c} : call'[d] = call[d] /\ (call[d].conn = k => k \in overtaken')
  BY <1>1, <1>2 DEF Begins, Meets, Busy
<1>5. call'[c] = y
  BY <1>1, <1>2
<1>6. AtWork'
  BY <1>1, <1>2, <1>3, <1>4, <1>5 DEF AtWork, Holds, TakesOff
<1>7. HeldIsFree'
  BY <1>1, <1>2, <1>3, <1>4, <1>5 DEF HeldIsFree, AtWork, Holds, TakesOff
<1>8. \A d \in Callers : leases[d] \in Conns \cup {0}
  BY DEF TypeOK
<1>9. LeaseMatches' /\ NewIsFree'
  BY <1>2, <1>3, <1>8 DEF LeaseMatches, NewIsFree
<1>10. \A d \in Callers : leases[d] # k
  BY DEF LeaseMatches, Begins, Conns
<1>11. Backed'
  BY <1>3, <1>4, <1>8, <1>10 DEF Backed
<1>12. Met'
  <2>1. ASSUME NEW d \in Callers, NEW e \in Callers, d # e, call'[d].conn = call'[e].conn,
               (Holds(d) \/ TakesOff(d))', (Holds(e) \/ TakesOff(e))'
        PROVE  call'[d].conn \in overtaken'
    BY <1>1, <1>4, <1>5, <2>1 DEF Met, Holds, TakesOff
  <2>2. ASSUME NEW d \in Callers, TakesOff(d)', record'[call'[d].conn].status = "IDLE"
        PROVE  call'[d].conn \in overtaken'
    BY <1>1, <1>3, <1>4, <1>5, <2>2 DEF Met, AtWork, Holds, TakesOff
  <2>3. ASSUME NEW d \in Callers, NEW e \in Callers, TakesOff(d)', leases[e] = call'[d].conn
        PROVE  call'[d].conn \in overtaken'
    BY <1>1, <1>4, <1>5, <1>10, <2>3 DEF Met, Holds, TakesOff
  <2> QED
    BY <2>1, <2>2, <2>3 DEF Met
<1> QED
  BY <1>6, <1>7, <1>9, <1>11, <1>12

\* c may connect and lease k for e: nobody has it, holds it, or takes it off unmet.
MayUse(c, k, e) ==
    /\ k \in Conns /\ e \in Exchanges
    /\ record[k].status # "NONE" /\ record[k].exchange = e /\ record[k].leases = {}
    /\ k \in pooled \cup overtaken
    /\ \A d \in Callers : leases[d] # k
    /\ \A d \in Callers \ {c} : call[d].conn = k =>
          ~Holds(d) /\ (TakesOff(d) => k \in overtaken)

LEMMA HolderMayUse ==
    ASSUME IInv, NEW c \in Callers, Holds(c)
    PROVE  MayUse(c, call[c].conn, call[c].exchange)
<1> DEFINE k == call[c].conn
<1> USE DEF IInv, LInv
<1>1. call \in [Callers -> Calls] /\ None \notin Exchanges /\ k \in Conns /\ call[c].exchange \in Exchanges
  BY PoolAssumption DEF TypeOK, AtWork, HeldIsFree, Calls
<1>2. /\ record[k].status # "NONE" /\ record[k].exchange = call[c].exchange /\ record[k].leases = {}
      /\ k \in pooled \cup overtaken
  BY DEF AtWork, HeldIsFree
<1>3. \A d \in Callers : leases[d] # k
  BY <1>1, <1>2 DEF LeaseMatches, Conns
<1>4. ASSUME NEW d \in Callers \ {c}, call[d].conn = k, Holds(d) PROVE FALSE
  <2>1. call[d].exchange = call[c].exchange /\ call[d].exchange # None
    BY <1>2, <1>4 DEF HeldIsFree
  <2>2. pending[call[c].exchange] = c /\ pending[call[d].exchange] = d
    BY <2>1, <1>4 DEF OnlyOne, Holds, HoldPcs
  <2> QED
    BY <2>1, <2>2
<1>5. ASSUME NEW d \in Callers \ {c}, call[d].conn = k, TakesOff(d) PROVE k \in overtaken
  BY <1>5 DEF Met
<1> QED
  BY <1>1, <1>2, <1>3, <1>4, <1>5 DEF MayUse

LEMMA ReusableMayBeUsed ==
    ASSUME IInv, NEW c \in Callers, NEW e \in Exchanges, pending[e] = None, NEW k \in Reusable(e)
    PROVE  MayUse(c, k, e)
<1> USE DEF IInv, LInv
<1>1. /\ k \in pooled /\ k \in Conns /\ record[k].status = "IDLE" /\ record[k].exchange = e
      /\ record[k].leases = {} /\ None \notin Callers
  BY PoolAssumption DEF Reusable, Unused, Of, TypeOK
<1>2. \A d \in Callers : leases[d] # k
  BY <1>1 DEF LeaseMatches, Conns
<1>3. ASSUME NEW d \in Callers, call[d].conn = k, Holds(d) PROVE FALSE
  <2>1. call[d].exchange = e /\ call[d].exchange # None
    BY <1>1, <1>3 DEF HeldIsFree
  <2> QED
    BY <1>1, <1>3, <2>1 DEF OnlyOne, Holds, HoldPcs
<1>4. ASSUME NEW d \in Callers, call[d].conn = k, TakesOff(d) PROVE k \in overtaken
  BY <1>1, <1>4 DEF Met
<1> QED
  BY <1>1, <1>2, <1>3, <1>4 DEF MayUse

\* c starts, or goes on, to connect what it may use.
LEMMA HoldingBegins ==
    ASSUME IInv, NEW c \in Callers, NEW k \in Conns, NEW y \in Calls, call' = [call EXCEPT ![c] = y],
           MayUse(c, k, y.exchange), y.pc \in HoldPcs, y.conn = k,
           Becomes(k, "CONNECTING"), UNCHANGED <<leases, pooled, overtaken>>, OnlyOne'
    PROVE  LInv'
<1> USE DEF IInv, LInv
<1>1. /\ call'[c] = y /\ HoldPcs \cap OffPcs = {} /\ None \notin Exchanges
      /\ \A d \in Callers \ {c} : call'[d] = call[d]
  BY PoolAssumption DEF TypeOK, HoldPcs, OffPcs
<1>2. /\ record'[k].status = "CONNECTING" /\ record'[k].leases = {} /\ record'[k].exchange = y.exchange
      /\ \A j \in Conns \ {k} : record'[j] = record[j]
  BY DEF TypeOK, Becomes, MayUse
<1>3. \A d \in Callers : leases[d] \in Conns \cup {0} /\ leases[d] # k
  BY DEF TypeOK, MayUse
<1>4. AtWork'
  BY <1>1, <1>2 DEF AtWork, Holds, TakesOff
<1>5. HeldIsFree'
  BY <1>1, <1>2 DEF HeldIsFree, AtWork, Holds, TakesOff, MayUse
<1>6. LeaseMatches' /\ NewIsFree'
  BY <1>2, <1>3 DEF LeaseMatches, NewIsFree
<1>7. Backed'
  BY <1>2, <1>3 DEF Backed
<1>8. Met'
  <2>1. ASSUME NEW d \in Callers, NEW e \in Callers, d # e, call'[d].conn = call'[e].conn,
               (Holds(d) \/ TakesOff(d))', (Holds(e) \/ TakesOff(e))'
        PROVE  call'[d].conn \in overtaken'
    BY <1>1, <2>1 DEF Met, Holds, TakesOff, MayUse
  <2>2. ASSUME NEW d \in Callers, TakesOff(d)', record'[call'[d].conn].status = "IDLE"
        PROVE  call'[d].conn \in overtaken'
    BY <1>1, <1>2, <2>2 DEF Met, AtWork, Holds, TakesOff
  <2>3. ASSUME NEW d \in Callers, NEW e \in Callers, TakesOff(d)', leases[e] = call'[d].conn
        PROVE  call'[d].conn \in overtaken'
    BY <1>1, <2>3 DEF Met, Holds, TakesOff
  <2> QED
    BY <2>1, <2>2, <2>3 DEF Met
<1> QED
  BY <1>4, <1>5, <1>6, <1>7, <1>8

LEMMA LeaseGranted ==
    ASSUME IInv, NEW c \in Callers, NEW k \in Conns, NEW x \in Calls, MayUse(c, k, x.exchange),
           Grants(c, k, x), UNCHANGED <<pooled, overtaken>>, OnlyOne'
    PROVE  LInv'
<1> USE DEF IInv, LInv
<1>1. /\ call'[c].pc = "granted"
      /\ \A d \in Callers \ {c} : call'[d] = call[d]
  BY DEF TypeOK, Grants, Goes, Calls
<1>2. /\ record'[k].status = "LEASED" /\ record'[k].leases = {c} /\ record'[k].exchange = record[k].exchange
      /\ \A j \in Conns \ {k} : record'[j] = record[j]
  BY DEF TypeOK, Grants, MayUse
<1>3. /\ \A d \in Callers : leases[d] \in Conns \cup {0} /\ leases[d] # k
      /\ leases'[c] = k /\ \A d \in Callers \ {c} : leases'[d] = leases[d]
  BY DEF TypeOK, MayUse, Grants
<1>4. \A d \in Callers : /\ Holds(d)' => d # c /\ Holds(d)
                         /\ TakesOff(d)' => d # c /\ TakesOff(d)
  BY <1>1 DEF Holds, TakesOff, HoldPcs, OffPcs
<1>5. AtWork'
  BY <1>1, <1>2, <1>4 DEF AtWork
<1>6. HeldIsFree'
  BY <1>1, <1>2, <1>4 DEF HeldIsFree, AtWork, MayUse
<1>7. LeaseMatches' /\ NewIsFree'
  BY <1>2, <1>3 DEF LeaseMatches, NewIsFree
<1>8. Backed'
  BY <1>2, <1>3 DEF Backed, MayUse
<1>9. Met'
  BY <1>1, <1>2, <1>3, <1>4 DEF Met, AtWork, MayUse
<1> QED
  BY <1>5, <1>6, <1>7, <1>8, <1>9

\* Whoever worked on k leaves it with another status, perhaps out of the pool.
LEMMA WorkEnds ==
    ASSUME IInv, NEW c \in Callers, NEW y \in Calls, call' = [call EXCEPT ![c] = y],
           y.pc \notin HoldPcs \cup OffPcs, NEW status \in {"FAILED", "DISPOSED", "IDLE"},
           Becomes(call[c].conn, status), UNCHANGED <<leases, overtaken>>, OnlyOne',
           \/ TakesOff(c) /\ pooled' \in {pooled, pooled \ {call[c].conn}}
           \/ Holds(c) /\ pooled' = pooled /\ status = "FAILED"
    PROVE  LInv'
<1> DEFINE k == call[c].conn
<1> USE DEF IInv, LInv
<1>1. \A d \in Callers : /\ Holds(d)' => d # c /\ Holds(d) /\ call'[d] = call[d]
                         /\ TakesOff(d)' => d # c /\ TakesOff(d) /\ call'[d] = call[d]
  BY DEF Holds, TakesOff, TypeOK
<1>2. k \in Conns /\ record[k].status # "NONE" /\ HoldPcs \cap OffPcs = {}
  BY DEF AtWork, HoldPcs, OffPcs
<1>3. /\ record'[k].status = status /\ record'[k].leases = record[k].leases /\ record'[k].exchange = record[k].exchange
      /\ \A j \in Conns \ {k} : record'[j] = record[j]
  BY <1>2 DEF TypeOK, Becomes
<1>4. \A d \in Callers : leases[d] \in Conns \cup {0}
  BY DEF TypeOK
<1>5. AtWork'
  BY <1>1, <1>2, <1>3 DEF AtWork
<1>6. HeldIsFree'
  BY <1>1, <1>2, <1>3 DEF HeldIsFree, AtWork, Met
<1>7. LeaseMatches' /\ NewIsFree'
  BY <1>2, <1>3, <1>4 DEF LeaseMatches, NewIsFree
<1>8. \A d \in Callers : leases[d] = k => k \in overtaken
  BY <1>2, HolderMayUse DEF Met, MayUse
<1>9. Backed'
  BY <1>2, <1>3, <1>4, <1>8 DEF Backed
<1>10. Met'
  BY <1>1, <1>2, <1>3 DEF Met, AtWork
<1> QED
  BY <1>5, <1>6, <1>7, <1>9, <1>10

LEMMA ConnectionMade ==
    ASSUME IInv, NEW c \in Callers, At(c, "creating"), call[c].exchange # None,
           NEW k \in Conns, record[k].status = "NONE", Made(c, k),
           UNCHANGED <<leases, pending, overtaken>>
    PROVE  LInv'
<1> USE DEF IInv, LInv
<1>1. /\ call'[c].pc = "created" /\ call'[c].conn = k /\ call'[c].exchange = call[c].exchange
      /\ \A d \in Callers \ {c} : call'[d] = call[d]
  BY DEF Made, Goes, TypeOK, Calls
<1>2. /\ record'[k].status = "IDLE" /\ record'[k].leases = {} /\ record'[k].exchange = call[c].exchange
      /\ \A j \in Conns \ {k} : record'[j] = record[j]
  BY DEF Made, TypeOK, NewIsFree
<1>3. ASSUME NEW d \in Callers
      PROVE  /\ leases[d] \in Conns \cup {0} /\ leases[d] # k
             /\ (Holds(d) \/ TakesOff(d)) => call[d].conn # k
  <2>1. leases[d] \in Conns \cup {0} /\ k # 0
    BY DEF TypeOK, Conns
  <2>2. leases[d] # k
    BY <2>1 DEF LeaseMatches, NewIsFree
  <2>3. (Holds(d) \/ TakesOff(d)) => call[d].conn # k
    BY DEF AtWork
  <2> QED
    BY <2>1, <2>2, <2>3
<1>4. \A d \in Callers : /\ Holds(d)' => d = c \/ Holds(d)
                         /\ TakesOff(d)' => d # c /\ TakesOff(d)
  BY <1>1 DEF Holds, TakesOff, OffPcs
<1>5. AtWork'
  BY <1>1, <1>2, <1>3, <1>4 DEF AtWork
<1>6. OnlyOne'
  BY <1>1 DEF OnlyOne, At
<1>7. HeldIsFree'
  <2>1. pooled' = pooled \cup {k}
    BY DEF Made
  <2> QED
    BY <1>1, <1>2, <1>3, <1>4, <2>1 DEF HeldIsFree, AtWork
<1>8. LeaseMatches' /\ NewIsFree'
  BY <1>2, <1>3 DEF LeaseMatches, NewIsFree
<1>9. Backed'
  <2>1. pooled \subseteq pooled'
    BY DEF Made
  <2> QED
    BY <1>2, <1>3, <2>1 DEF Backed
<1>10. Met'
  BY <1>1, <1>2, <1>3, <1>4 DEF Met, AtWork
<1> QED
  BY <1>5, <1>6, <1>7, <1>8, <1>9, <1>10

\* The lease of k ends; c is done with k, or takes it off.
LEMMA LeaseEnds ==
    ASSUME IInv, NEW c \in Callers, NEW k \in Conns, leases[c] = k, At(c, "idle"), k \in pooled,
           NEW y \in Calls, call' = [call EXCEPT ![c] = y], NEW status \in Statuses \ {"NONE"}, Leaves(c, k, status),
           leases' = [leases EXCEPT ![c] = 0], UNCHANGED pooled, OnlyOne',
           \/ y.pc \notin HoldPcs \cup OffPcs /\ overtaken' = overtaken
           \/ /\ y.pc \in OffPcs /\ y.conn = k /\ (status = "IDLE" => k \in overtaken)
              /\ overtaken' = overtaken \/ Meets(k, c)
    PROVE  LInv'
<1> USE DEF IInv, LInv
<1>1. /\ call'[c] = y /\ HoldPcs \cap OffPcs = {}
      /\ \A d \in Callers \ {c} : call'[d] = call[d]
  BY DEF TypeOK, HoldPcs, OffPcs
<1>2. /\ record'[k].status = status /\ record'[k].leases = {} /\ record'[k].exchange = record[k].exchange
      /\ \A j \in Conns \ {k} : record'[j] = record[j]
  <2>1. record[k].leases = {c}
    BY DEF LeaseMatches, Conns
  <2> QED
    BY <2>1 DEF TypeOK, Leaves
<1>3. /\ \A d \in Callers : leases[d] \in Conns \cup {0} /\ (d # c => leases[d] # k)
      /\ leases'[c] = 0 /\ \A d \in Callers \ {c} : leases'[d] = leases[d]
  <2>1. leases \in [Callers -> Conns \cup {0}] /\ k # 0
    BY DEF TypeOK, Conns
  <2>2. record[k].leases = {c}
    BY <2>1 DEF LeaseMatches
  <2>3. \A d \in Callers : d # c => leases[d] # k
    BY <2>1, <2>2 DEF LeaseMatches
  <2> QED
    BY <2>1, <2>3
<1>4. overtaken \subseteq overtaken'
  BY DEF Meets
<1>5. \A d \in Callers : /\ TakesOff(d) /\ call[d].conn = k => k \in overtaken
                         /\ Holds(d) => call[d].conn # k
  <2>1. record[k].leases = {c}
    BY DEF LeaseMatches, Conns
  <2> QED
    BY <2>1 DEF Met, HeldIsFree
<1>6. \A d \in Callers : /\ Holds(d)' => (d # c /\ Holds(d))
                         /\ TakesOff(d)' => ((d # c /\ TakesOff(d)) \/ (d = c /\ y.pc \in OffPcs /\ y.conn = k /\ (status = "IDLE" => k \in overtaken)))
  BY <1>1 DEF Holds, TakesOff
<1>7. AtWork'
  BY <1>1, <1>2, <1>6 DEF AtWork
<1>8. HeldIsFree'
  BY <1>1, <1>2, <1>4, <1>5, <1>6 DEF HeldIsFree, AtWork
<1>9. LeaseMatches' /\ NewIsFree'
  BY <1>2, <1>3 DEF LeaseMatches, NewIsFree, Conns
<1>10. Backed'
  BY <1>2, <1>3, <1>4 DEF Backed
<1>11. Met'
  <2>1. ASSUME NEW d \in Callers, NEW e \in Callers, d # e, call'[d].conn = call'[e].conn,
               (Holds(d) \/ TakesOff(d))', (Holds(e) \/ TakesOff(e))'
        PROVE  call'[d].conn \in overtaken'
    BY <1>1, <1>4, <1>5, <1>6, <2>1 DEF Met
  <2>2. ASSUME NEW d \in Callers, TakesOff(d)', record'[call'[d].conn].status = "IDLE"
        PROVE  call'[d].conn \in overtaken'
    BY <1>1, <1>2, <1>4, <1>5, <1>6, <2>2 DEF Met, AtWork
  <2>3. ASSUME NEW d \in Callers, NEW e \in Callers, TakesOff(d)', leases'[e] = call'[d].conn
        PROVE  call'[d].conn \in overtaken'
    <3>1. call'[d].conn \in Conns
      BY <1>7, <2>3 DEF AtWork
    <3>2. e # c /\ leases'[e] = leases[e] /\ leases[e] # k
      BY <1>3, <2>3, <3>1 DEF Conns
    <3> QED
      BY <1>1, <1>4, <1>6, <2>3, <3>2 DEF Met
  <2> QED
    BY <2>1, <2>2, <2>3 DEF Met
<1> QED
  BY <1>7, <1>8, <1>9, <1>10, <1>11

\* The lease of a connection that is not in the pool any more.
LEMMA LeaseLapses ==
    ASSUME IInv, NEW c \in Callers, call' = [call EXCEPT ![c] = Idle], At(c, "idle"),
           leases' = [leases EXCEPT ![c] = 0], UNCHANGED <<record, pooled, overtaken>>, OnlyOne'
    PROVE  LInv'
<1> USE DEF IInv, LInv
<1>1. \A d \in Callers : /\ Holds(d)' => Holds(d) /\ call'[d] = call[d]
                         /\ TakesOff(d)' => TakesOff(d) /\ call'[d] = call[d]
  BY DEF TypeOK, Holds, TakesOff, Idle, HoldPcs, OffPcs
<1>2. \A d \in Callers : leases'[d] \in {leases[d], 0}
  BY DEF TypeOK
<1>3. AtWork' /\ HeldIsFree' /\ LeaseMatches' /\ NewIsFree' /\ Backed'
  BY <1>1, <1>2 DEF AtWork, HeldIsFree, LeaseMatches, NewIsFree, Backed
<1>4. Met'
  <2>1. \A d \in Callers : TakesOff(d)' => call'[d].conn # 0
    BY <1>1 DEF AtWork, Conns
  <2> QED
    BY <1>1, <1>2, <2>1 DEF Met
<1> QED
  BY <1>3, <1>4

-----------------------------------------------------------------------------
(* The operators that actions share *)

StepType ==
    /\ pooled' \subseteq Conns /\ overtaken' \subseteq Conns
    /\ record' \in [Conns -> [exchange : Exchanges \cup {None}, status : Statuses, leases : SUBSET Callers]]
    /\ leases' \in [Callers -> Conns \cup {0}]
    /\ pending' \in [Exchanges -> Callers \cup {None}]
    /\ call' \in [Callers -> Calls]
    /\ ManagerType'

StepOK == StepType /\ LInv'

\* c goes on with an acquisition for e, or has none, or begins one.
PendingOK(c, e) ==
    \/ pending' = pending /\ (e = None \/ pending[e] = c)
    \/ e # None /\ pending[e] = None /\ pending' = [pending EXCEPT ![e] = c]

LEMMA PendingType ==
    ASSUME IInv, NEW c \in Callers, NEW x \in Calls, PendingOK(c, x.exchange)
    PROVE  pending' \in [Exchanges -> Callers \cup {None}]
  BY DEF IInv, TypeOK, PendingOK, Calls

LEMMA BecomesType ==
    ASSUME IInv, NEW k \in Conns, NEW status \in Statuses, Becomes(k, status)
    PROVE  record' \in [Conns -> [exchange : Exchanges \cup {None}, status : Statuses, leases : SUBSET Callers]]
  BY DEF IInv, TypeOK, Becomes

\* Only the call of c changes, and c works on no connection.
LEMMA Away ==
    ASSUME IInv, NEW c \in Callers, NEW y \in Calls, call' = [call EXCEPT ![c] = y],
           y.pc \notin HoldPcs \cup OffPcs, UNCHANGED <<record, leases, pooled, overtaken, manager>>,
           PendingOK(c, y.exchange), IsAcquisition(y) => y.exchange # None
    PROVE  StepOK
<1>1. OnlyOne'
  BY OnlyOneKept DEF PendingOK
<1>2. LInv'
  BY <1>1, SteadyOne
<1>3. StepType
  BY PendingType DEF StepType, IInv, TypeOK, ManagerType, manager
<1> QED
  BY <1>2, <1>3 DEF StepOK

LEMMA EvictsStep ==
    ASSUME IInv, NEW c \in Callers, NEW k \in Conns, NEW x \in Calls, Evicts(c, k, x),
           x.goal \in {"room", "slot", "failure"} => x.exchange # None,
           PendingOK(c, x.exchange), UNCHANGED <<leases, pooled>>
    PROVE  StepOK
<1>1. ManagerType
  BY DEF IInv, TypeOK, ManagerType
<1>2. ManagerType' /\ (Refused(c, k, x) \/ Begins(c, k, x))
  BY <1>1, EvictsEffect
<1>3. PICK y \in Calls : /\ y.exchange = x.exchange /\ y.goal = x.goal /\ call' = [call EXCEPT ![c] = y]
                         /\ y.pc \in OffPcs \cup {"evictFailed"}
                         /\ Refused(c, k, x) => y.pc = "evictFailed"
  BY <1>2 DEF Refused, Begins, GoesOnFrom
<1>asks. IsAcquisition(y) => y.exchange # None
  BY <1>3 DEF IsAcquisition, AskPcs, OffPcs
<1>4. OnlyOne'
  BY <1>3, <1>asks, OnlyOneKept DEF PendingOK
<1>5. call' \in [Callers -> Calls] /\ pending' \in [Exchanges -> Callers \cup {None}]
  BY <1>3, PendingType DEF IInv, TypeOK
<1>6. CASE Refused(c, k, x)
  <2>1. UNCHANGED <<record, overtaken>> /\ y.pc \notin HoldPcs \cup OffPcs
    BY <1>3, <1>6 DEF Refused, HoldPcs, OffPcs
  <2>2. LInv'
    BY <1>3, <1>4, <2>1, SteadyOne
  <2> QED
    BY <1>2, <1>5, <2>1, <2>2 DEF StepOK, StepType, IInv, TypeOK
<1>7. CASE Begins(c, k, x)
  <2>1. LInv'
    BY <1>4, <1>7, EvictionBegins
  <2>2. record' \in [Conns -> [exchange : Exchanges \cup {None}, status : Statuses, leases : SUBSET Callers]]
    BY <1>7, BecomesType DEF Begins, Statuses
  <2>3. overtaken' \subseteq Conns
    BY <1>7 DEF Begins, Meets, IInv, TypeOK
  <2> QED
    BY <1>2, <1>5, <2>1, <2>2, <2>3 DEF StepOK, StepType, IInv, TypeOK
<1> QED
  BY <1>2, <1>6, <1>7

LEMMA GrantsStep ==
    ASSUME IInv, NEW c \in Callers, NEW k \in Conns, NEW x \in Calls, Grants(c, k, x),
           MayUse(c, k, x.exchange), PendingOK(c, x.exchange), UNCHANGED <<pooled, overtaken, manager>>
    PROVE  StepOK
<1> DEFINE y == [x EXCEPT !.pc = "granted", !.conn = k]
<1>1. y \in Calls /\ y.exchange = x.exchange
  BY DEF Calls, Pcs, Resumable
<1>2. call' = [call EXCEPT ![c] = y]
  BY DEF Grants, Goes
<1>3. OnlyOne'
  BY <1>1, <1>2, OnlyOneKept, PoolAssumption DEF PendingOK, MayUse
<1>4. LInv'
  BY <1>3, LeaseGranted
<1>5. record' \in [Conns -> [exchange : Exchanges \cup {None}, status : Statuses, leases : SUBSET Callers]]
  BY DEF Grants, IInv, TypeOK, Statuses
<1>6. call' \in [Callers -> Calls] /\ leases' \in [Callers -> Conns \cup {0}]
  BY <1>1, <1>2 DEF Grants, IInv, TypeOK
<1> QED
  BY <1>1, <1>4, <1>5, <1>6, PendingType DEF StepOK, StepType, IInv, TypeOK, ManagerType, manager

LEMMA UsesStep ==
    ASSUME IInv, NEW c \in Callers, NEW k \in Conns, NEW x \in Calls, Uses(c, k, x),
           MayUse(c, k, x.exchange), PendingOK(c, x.exchange), UNCHANGED <<pooled, overtaken>>
    PROVE  StepOK
<1>1. CASE Goes(c, [x EXCEPT !.pc = "acquireFailed"]) /\ UNCHANGED <<record, leases, manager>>
  <2> DEFINE y == [x EXCEPT !.pc = "acquireFailed"]
  <2>1. y \in Calls /\ y.exchange = x.exchange /\ y.pc \notin HoldPcs \cup OffPcs
    BY DEF Calls, Pcs, Resumable, HoldPcs, OffPcs
  <2>2. y.exchange # None
    BY <2>1, PoolAssumption DEF MayUse
  <2> QED
    BY <1>1, <2>1, <2>2, Away DEF Goes
<1>2. CASE Grants(c, k, x) /\ UNCHANGED manager
  BY <1>2, GrantsStep
<1>3. CASE /\ Becomes(k, "CONNECTING")
           /\ Connects(c, k, [x EXCEPT !.conn = k])
           /\ UNCHANGED leases
  <2> DEFINE z == [x EXCEPT !.conn = k]
  <2>1. z \in Calls /\ z.conn = k /\ z.exchange = x.exchange
    BY DEF Calls
  <2>2. ManagerType
    BY DEF IInv, TypeOK, ManagerType
  <2>3. GoesOnFrom(c, k, z, HoldPcs) /\ ManagerType'
    BY <1>3, <2>1, <2>2, ConnectsEffect
  <2>4. PICK y \in Calls : y.pc \in HoldPcs /\ y.conn = k /\ y.exchange = x.exchange /\ call' = [call EXCEPT ![c] = y]
    BY <2>1, <2>3 DEF GoesOnFrom
  <2>5. OnlyOne'
    BY <2>4, OnlyOneKept, PoolAssumption DEF PendingOK, MayUse
  <2>6. MayUse(c, k, y.exchange)
    BY <2>4
  <2>7. LInv'
    BY <1>3, <2>4, <2>5, <2>6, HoldingBegins
  <2>8. record' \in [Conns -> [exchange : Exchanges \cup {None}, status : Statuses, leases : SUBSET Callers]]
    BY <1>3, BecomesType DEF Statuses
  <2>9. call' \in [Callers -> Calls]
    BY <2>4 DEF IInv, TypeOK
  <2> QED
    BY <1>3, <2>3, <2>7, <2>8, <2>9, PendingType DEF StepOK, StepType, IInv, TypeOK
<1> QED
  BY <1>1, <1>2, <1>3 DEF Uses

\* Whoever is not waiting for an exchange goes on with its acquisition, if any.
LEMMA MyTurn ==
    ASSUME IInv, NEW c \in Callers, UNCHANGED pending, call[c].pc \notin {"waiting", "again"}
    PROVE  /\ call[c] \in Calls /\ PendingOK(c, call[c].exchange)
           /\ IsAcquisition(call[c]) => call[c].exchange \in Exchanges
  BY DEF IInv, TypeOK, LInv, OnlyOne, PendingOK, Calls

LEMMA WorkEndsStep ==
    ASSUME IInv, NEW c \in Callers, NEW y \in Calls, call' = [call EXCEPT ![c] = y],
           y.pc \notin HoldPcs \cup OffPcs, NEW status \in {"FAILED", "DISPOSED", "IDLE"},
           Becomes(call[c].conn, status), UNCHANGED <<leases, overtaken, pending>>,
           PendingOK(c, y.exchange), IsAcquisition(y) => y.exchange # None, ManagerType',
           \/ TakesOff(c) /\ pooled' \in {pooled, pooled \ {call[c].conn}}
           \/ Holds(c) /\ pooled' = pooled /\ status = "FAILED"
    PROVE  StepOK
<1>1. OnlyOne'
  BY OnlyOneKept DEF PendingOK
<1>2. LInv'
  BY <1>1, WorkEnds
<1>3. record' \in [Conns -> [exchange : Exchanges \cup {None}, status : Statuses, leases : SUBSET Callers]]
  BY BecomesType DEF Statuses, IInv, LInv, AtWork
<1>4. pooled' \subseteq Conns
  BY DEF IInv, TypeOK
<1> QED
  BY <1>2, <1>3, <1>4 DEF StepOK, StepType, IInv, TypeOK

\* What takes a connection off goes on doing so.
LEMMA TakesOffStep ==
    ASSUME IInv, NEW c \in Callers, TakesOff(c), GoesOnFrom(c, call[c].conn, call[c], OffPcs), ManagerType',
           UNCHANGED <<pooled, record, leases, pending, overtaken>>
    PROVE  StepOK
<1>1. PICK y \in Calls : /\ y.pc \in OffPcs /\ y.conn = call[c].conn /\ y.exchange = call[c].exchange
                         /\ y.goal = call[c].goal /\ call' = [call EXCEPT ![c] = y]
  BY DEF GoesOnFrom
<1>2. y.pc \notin AskPcs \cup {"waiting", "again"} /\ call[c].pc \notin {"waiting", "again"}
  BY <1>1 DEF AskPcs, OffPcs, TakesOff
<1>3. OnlyOne'
  BY <1>1, <1>2, OnlyOneKept DEF IInv, LInv, OnlyOne, IsAcquisition
<1>4. LInv'
  BY <1>1, <1>3, SteadyOne
<1>5. call' \in [Callers -> Calls]
  BY <1>1 DEF IInv, TypeOK
<1> QED
  BY <1>4, <1>5 DEF StepOK, StepType, IInv, TypeOK

LEMMA MakesRoomStep ==
    ASSUME IInv, NEW c \in Callers, NEW x \in Calls, x.exchange \in Exchanges, NEW goal \in {"room", "slot"},
           NEW candidates \in SUBSET Conns, MakesRoom(c, x, goal, candidates),
           PendingOK(c, x.exchange), UNCHANGED <<leases, pooled>>
    PROVE  StepOK
<1>1. CASE Goes(c, [x EXCEPT !.pc = "acquireFailed"]) /\ UNCHANGED <<record, manager, overtaken>>
  <2> DEFINE y == [x EXCEPT !.pc = "acquireFailed"]
  <2>1. y \in Calls /\ y.exchange = x.exchange /\ y.exchange # None /\ y.pc \notin HoldPcs \cup OffPcs
    BY PoolAssumption DEF Calls, Pcs, Resumable, HoldPcs, OffPcs
  <2> QED
    BY <1>1, <2>1, Away DEF Goes
<1>2. ASSUME NEW k \in candidates, Evicts(c, k, [x EXCEPT !.goal = goal]) PROVE StepOK
  <2> DEFINE z == [x EXCEPT !.goal = goal]
  <2>1. z \in Calls /\ z.exchange = x.exchange /\ z.exchange # None
    BY PoolAssumption DEF Calls
  <2> QED
    BY <1>2, <2>1, EvictsStep
<1> QED
  BY <1>1, <1>2 DEF MakesRoom

LEMMA CandidatesType ==
    ASSUME IInv
    PROVE  /\ Unused \in SUBSET Conns
           /\ \A S \in SUBSET Conns : Candidates(S) \in SUBSET Conns
  BY DEF IInv, TypeOK, Unused, Candidates

LEMMA CreatesAtLimitStep ==
    ASSUME IInv, NEW c \in Callers, NEW x \in Calls, x.exchange \in Exchanges, CreatesAtLimit(c, x),
           PendingOK(c, x.exchange), UNCHANGED <<leases, pooled>>
    PROVE  StepOK
<1>1. CASE MakesRoom(c, x, "slot", Candidates(Unused))
  BY <1>1, MakesRoomStep, CandidatesType
<1>2. CASE /\ Goes(c, [x EXCEPT !.pc = "creating", !.goal = "none", !.conn = 0])
           /\ UNCHANGED <<record, manager, overtaken>>
  <2> DEFINE y == [x EXCEPT !.pc = "creating", !.goal = "none", !.conn = 0]
  <2>1. y \in Calls /\ y.exchange = x.exchange /\ y.exchange # None /\ y.pc \notin HoldPcs \cup OffPcs
    BY PoolAssumption DEF Calls, Pcs, Resumable, HoldPcs, OffPcs
  <2> QED
    BY <1>2, <2>1, Away DEF Goes
<1> QED
  BY <1>1, <1>2 DEF CreatesAtLimit

LEMMA AcquiresStep ==
    ASSUME IInv, NEW c \in Callers, NEW x \in Calls, x.exchange \in Exchanges, Acquires(c, x), UNCHANGED pooled
    PROVE  StepOK
<1> DEFINE e == x.exchange
<1>1. CASE pending[e] # None
  <2> DEFINE y == [x EXCEPT !.pc = "waiting"]
  <2>1. /\ y \in Calls /\ y.exchange # None /\ y.pc = "waiting" /\ y.pc \notin HoldPcs \cup OffPcs
        /\ call' = [call EXCEPT ![c] = y] /\ UNCHANGED <<record, leases, pending, manager, overtaken>>
    BY <1>1, PoolAssumption DEF Acquires, Goes, Calls, Pcs, HoldPcs, OffPcs
  <2>2. OnlyOne'
    BY <2>1, OnlyOneKept
  <2>3. LInv'
    BY <2>1, <2>2, SteadyOne
  <2> QED
    BY <2>1, <2>3 DEF StepOK, StepType, IInv, TypeOK, ManagerType, manager
<1>2. CASE pending[e] = None
  <2>1. PendingOK(c, e)
    BY <1>2, PoolAssumption DEF Acquires, PendingOK
  <2>2. ASSUME NEW k \in Reusable(e), Uses(c, k, x), UNCHANGED overtaken PROVE StepOK
    <3>1. MayUse(c, k, e)
      BY <1>2, <2>2, ReusableMayBeUsed
    <3> QED
      BY <2>1, <2>2, <3>1, UsesStep DEF MayUse
  <2>3. CASE /\ UNCHANGED leases /\ Goes(c, [x EXCEPT !.pc = "acquireFailed"])
             /\ UNCHANGED <<record, manager, overtaken>>
    <3> DEFINE y == [x EXCEPT !.pc = "acquireFailed"]
    <3>1. y \in Calls /\ y.exchange = e /\ y.exchange # None /\ y.pc \notin HoldPcs \cup OffPcs
      BY PoolAssumption DEF Calls, Pcs, Resumable, HoldPcs, OffPcs
    <3> QED
      BY <2>1, <2>3, <3>1, Away DEF Goes
  <2>4. CASE UNCHANGED leases /\ CreatesAtLimit(c, x)
    BY <2>1, <2>4, CreatesAtLimitStep
  <2>5. CASE UNCHANGED leases /\ MakesRoom(c, x, "room", Candidates(Unused \cap Of(e)))
    <3>1. Candidates(Unused \cap Of(e)) \in SUBSET Conns
      BY CandidatesType
    <3> QED
      BY <2>1, <2>5, <3>1, MakesRoomStep
  <2> QED
    BY <1>2, <2>2, <2>3, <2>4, <2>5 DEF Acquires, Creates
<1> QED
  BY <1>1, <1>2

-----------------------------------------------------------------------------
(* The actions *)

LEMMA IdleIsAway == Idle \in Calls /\ Idle.exchange = None /\ Idle.pc \notin HoldPcs \cup OffPcs /\ ~IsAcquisition(Idle)
  BY DEF Idle, Calls, Pcs, HoldPcs, OffPcs, IsAcquisition, AskPcs

LEMMA AcquireStep ==
    ASSUME IInv, NEW c \in Callers, NEW e \in Exchanges, NEW reuseOnly \in BOOLEAN, Acquire(c, e, reuseOnly)
    PROVE  StepOK
<1> DEFINE x == [Idle EXCEPT !.exchange = e, !.reuseOnly = reuseOnly]
<1>1. x \in Calls /\ x.exchange = e
  BY DEF Idle, Calls, Pcs
<1> QED
  BY <1>1, AcquiresStep DEF Acquire

LEMMA AgainStep ==
    ASSUME IInv, NEW c \in Callers, Again(c)
    PROVE  StepOK
<1>1. call[c] \in Calls /\ call[c].exchange \in Exchanges
  BY DEF Again, At, IInv, TypeOK, LInv, OnlyOne, IsAcquisition, AskPcs, Calls
<1> QED
  BY <1>1, AcquiresStep DEF Again

LEMMA CreatedStep ==
    ASSUME IInv, NEW c \in Callers, Created(c)
    PROVE  StepOK
<1>1. Holds(c) /\ call[c].pc \notin {"waiting", "again"}
  BY DEF Created, At, Holds, HoldPcs
<1>2. MayUse(c, call[c].conn, call[c].exchange) /\ call[c].conn \in Conns
  BY <1>1, HolderMayUse DEF MayUse
<1>3. call[c] \in Calls /\ PendingOK(c, call[c].exchange)
  BY <1>1, MyTurn DEF Created
<1> QED
  BY <1>2, <1>3, UsesStep DEF Created

LEMMA ConnectedStep ==
    ASSUME IInv, NEW c \in Callers, Connected(c)
    PROVE  StepOK
<1>1. Holds(c) /\ call[c].pc \notin {"waiting", "again"}
  BY DEF Connected, At, Holds, HoldPcs
<1>2. MayUse(c, call[c].conn, call[c].exchange) /\ call[c].conn \in Conns
  BY <1>1, HolderMayUse DEF MayUse
<1>3. call[c] \in Calls /\ PendingOK(c, call[c].exchange)
  BY <1>1, MyTurn DEF Connected
<1> QED
  BY <1>2, <1>3, GrantsStep DEF Connected

LEMMA ConnectFailedStep ==
    ASSUME IInv, NEW c \in Callers, ConnectFailed(c)
    PROVE  StepOK
<1> DEFINE k == call[c].conn
<1>1. Holds(c) /\ call[c].pc \notin {"waiting", "again"}
  BY DEF ConnectFailed, At, Holds, HoldPcs
<1>2. call[c] \in Calls /\ PendingOK(c, call[c].exchange) /\ call[c].exchange # None /\ k \in Conns
  BY <1>1, MyTurn, HolderMayUse, PoolAssumption DEF ConnectFailed, MayUse
<1>3. CASE Evicts(c, k, [call[c] EXCEPT !.goal = "failure"])
  <2> DEFINE z == [call[c] EXCEPT !.goal = "failure"]
  <2>1. z \in Calls /\ z.exchange = call[c].exchange
    BY <1>2 DEF Calls
  <2> QED
    BY <1>2, <1>3, <2>1, EvictsStep DEF ConnectFailed
<1>4. CASE /\ Becomes(k, "FAILED") /\ Goes(c, [call[c] EXCEPT !.pc = "acquireFailed"])
           /\ UNCHANGED <<manager, overtaken>>
  <2> DEFINE y == [call[c] EXCEPT !.pc = "acquireFailed"]
  <2>1. /\ y \in Calls /\ y.exchange = call[c].exchange /\ y.pc \notin HoldPcs \cup OffPcs
    BY <1>2 DEF Calls, Pcs, Resumable, HoldPcs, OffPcs
  <2>2. ManagerType'
    BY <1>4 DEF manager, ManagerType, IInv, TypeOK
  <2> QED
    BY <1>1, <1>2, <1>4, <2>1, <2>2, WorkEndsStep DEF ConnectFailed, Goes
<1> QED
  BY <1>3, <1>4 DEF ConnectFailed

LEMMA SettlesStep ==
    ASSUME IInv, NEW c \in Callers, Settles(c)
    PROVE  StepOK
<1> DEFINE e == call[c].exchange
<1>1. e \in Exchanges /\ pending[e] = c /\ None \notin Callers /\ None \notin Exchanges
  BY PoolAssumption DEF IInv, TypeOK, LInv, OnlyOne, IsAcquisition, AskPcs, Settles, Calls
<1>2. \A d \in Callers : call'[d] \in {Idle, [call[d] EXCEPT !.pc = "again"], call[d]}
  BY DEF Settles
<1>3. \A d \in Callers : LET y == [call[d] EXCEPT !.pc = "again"] IN
         /\ call[d] \in Calls /\ y \in Calls
         /\ y.pc = "again" /\ y.exchange = call[d].exchange /\ y.goal = call[d].goal
  BY DEF IInv, TypeOK, Calls, Pcs, Resumable
<1>4. ASSUME NEW d \in Callers
      PROVE  \/ call'[d] = Idle
             \/ At(d, "waiting") /\ call'[d].pc = "again" /\ call'[d].exchange = call[d].exchange
             \/ d # c /\ call'[d] = call[d] /\ (At(d, "waiting") => call[d].exchange # e)
  BY <1>3 DEF Settles
<1>5. OnlyOne'
  <2>1. ASSUME NEW d \in Callers, IsAcquisition(call'[d]) PROVE call'[d].exchange # None
    BY <1>4, <2>1, IdleIsAway DEF IInv, LInv, OnlyOne, IsAcquisition, AskPcs, At
  <2>2. ASSUME NEW d \in Callers, call'[d].exchange # None, call'[d].pc \notin {"waiting", "again"}
        PROVE  pending'[call'[d].exchange] = d
    <3>1. d # c /\ call'[d] = call[d]
      BY <1>4, <2>2, IdleIsAway
    <3>2. pending[call[d].exchange] = d
      BY <2>2, <3>1 DEF IInv, LInv, OnlyOne
    <3>3. call[d].exchange # e
      BY <1>1, <3>1, <3>2
    <3> QED
      BY <3>1, <3>2, <3>3 DEF Settles, IInv, TypeOK
  <2> QED
    BY <2>1, <2>2 DEF OnlyOne
<1>6. LInv'
  <2>1. \A d \in Callers : (Holds(d) \/ TakesOff(d))' => call'[d] = call[d]
    BY <1>4, IdleIsAway DEF Holds, TakesOff, HoldPcs, OffPcs
  <2>2. ASSUME NEW d \in Callers
        PROVE  /\ Holds(d)' => Holds(d) /\ call'[d].conn = call[d].conn /\ call'[d].exchange = call[d].exchange
               /\ TakesOff(d)' => TakesOff(d) /\ call'[d].conn = call[d].conn
    BY <2>1 DEF Holds, TakesOff
  <2> QED
    BY <1>5, <2>2, Steady DEF Settles
<1>7. call' \in [Callers -> Calls]
  <2>1. \A d \in Callers : call'[d] \in Calls
    BY <1>2, <1>3, IdleIsAway
  <2> QED
    BY <2>1 DEF Settles
<1>8. pending' \in [Exchanges -> Callers \cup {None}]
  BY DEF Settles, IInv, TypeOK
<1> QED
  BY <1>6, <1>7, <1>8 DEF StepOK, StepType, Settles, IInv, TypeOK, ManagerType, manager

LEMMA OffStep ==
    ASSUME IInv, NEW c \in Callers, Off(c) \/ OffRetry(c)
    PROVE  StepOK
<1> DEFINE x == call[c]
<1>1. TakesOff(c) /\ UNCHANGED <<pooled, record, leases, pending, overtaken>>
  BY DEF TakesOff, Off, OffRetry, At, OffPcs
<1>2. x \in Calls /\ x.conn \in Conns /\ ManagerType
  BY <1>1 DEF IInv, TypeOK, LInv, AtWork, ManagerType
<1>3. CASE Goes(c, [x EXCEPT !.pc = "disposing"]) /\ UNCHANGED manager
  <2>1. "disposing" \in OffPcs
    BY DEF OffPcs
  <2>2. GoesOnFrom(c, x.conn, x, OffPcs)
    BY <1>2, <1>3, <2>1, GoesEffect, PcSets
  <2> QED
    BY <1>1, <1>2, <1>3, <2>2, TakesOffStep DEF ManagerType, manager
<1>4. CASE Unregisters(c, x.conn, x)
  BY <1>1, <1>2, <1>4, UnregistersEffect, TakesOffStep
<1>5. CASE Disconnects(c, x.conn, x)
  BY <1>1, <1>2, <1>5, DisconnectsEffect, TakesOffStep
<1> QED
  BY <1>3, <1>4, <1>5 DEF Off, OffRetry

LEMMA OffFailedStep ==
    ASSUME IInv, NEW c \in Callers, OffFailed(c)
    PROVE  StepOK
<1> DEFINE y == [call[c] EXCEPT !.pc = "evictFailed"]
<1>1. TakesOff(c) /\ call[c].pc \notin {"waiting", "again"}
  BY DEF TakesOff, OffFailed, At, OffPcs
<1>2. call[c] \in Calls /\ PendingOK(c, call[c].exchange) /\ (IsAcquisition(call[c]) => call[c].exchange # None)
  BY <1>1, MyTurn, PoolAssumption DEF OffFailed
<1>3. /\ y \in Calls /\ y.exchange = call[c].exchange /\ y.pc \notin HoldPcs \cup OffPcs
      /\ IsAcquisition(y) => IsAcquisition(call[c])
  BY <1>2 DEF Calls, Pcs, Resumable, HoldPcs, OffPcs, IsAcquisition, AskPcs
<1>4. ManagerType'
  BY DEF OffFailed, manager, ManagerType, IInv, TypeOK
<1> QED
  BY <1>1, <1>2, <1>3, <1>4, WorkEndsStep DEF OffFailed, Goes

LEMMA DisposesStep ==
    ASSUME IInv, NEW c \in Callers, NEW ok \in BOOLEAN, Disposes(c, ok)
    PROVE  StepOK
<1> DEFINE p == IF ok THEN "evicted" ELSE "evictFailed"
           y == [call[c] EXCEPT !.pc = p]
<1>1. TakesOff(c) /\ call[c].pc \notin {"waiting", "again"}
  BY DEF TakesOff, Disposes, At, OffPcs
<1>2. call[c] \in Calls /\ PendingOK(c, call[c].exchange) /\ (IsAcquisition(call[c]) => call[c].exchange # None)
  BY <1>1, MyTurn, PoolAssumption DEF Disposes
<1>3. /\ y \in Calls /\ y.exchange = call[c].exchange /\ y.pc \notin HoldPcs \cup OffPcs
      /\ IsAcquisition(y) => IsAcquisition(call[c])
  BY <1>2 DEF Calls, Pcs, Resumable, HoldPcs, OffPcs, IsAcquisition, AskPcs
<1>4. ManagerType'
  BY DEF Disposes, ManagerType, IInv, TypeOK, States
<1>5. pooled' \in {pooled, pooled \ {call[c].conn}}
  BY DEF Disposes
<1>6. \E status \in {"FAILED", "DISPOSED"} : Becomes(call[c].conn, status)
  BY DEF Disposes
<1> QED
  BY <1>1, <1>2, <1>3, <1>4, <1>5, <1>6, WorkEndsStep DEF Disposes, Goes

LEMMA ReleasedStep ==
    ASSUME IInv, NEW c \in Callers, Released(c)
    PROVE  StepOK
<1>1. TakesOff(c) /\ call' = [call EXCEPT ![c] = Idle]
  BY DEF TakesOff, Released, OffPcs, Returns, Goes
<1>2. PendingOK(c, Idle.exchange)
  BY IdleIsAway DEF PendingOK, Released
<1>3. CASE Becomes(call[c].conn, "IDLE")
  <2>1. ManagerType'
    BY DEF Released, manager, ManagerType, IInv, TypeOK
  <2> QED
    BY <1>1, <1>2, <1>3, <2>1, IdleIsAway, WorkEndsStep DEF Released
<1>4. CASE UNCHANGED record
  BY <1>1, <1>2, <1>4, IdleIsAway, Away DEF Released
<1> QED
  BY <1>3, <1>4 DEF Released

LEMMA EvictedStep ==
    ASSUME IInv, NEW c \in Callers, Evicted(c)
    PROVE  StepOK
<1> DEFINE x == call[c]
<1>1. x \in Calls /\ PendingOK(c, x.exchange) /\ x.exchange \in Exchanges
  BY MyTurn DEF Evicted, At, Acquiring, IsAcquisition
<1>2. CASE CreatesAtLimit(c, x)
  BY <1>1, <1>2, CreatesAtLimitStep DEF Evicted
<1>3. ASSUME NEW p \in {"creating", "acquireFailed"},
             Goes(c, [x EXCEPT !.pc = p, !.goal = "none", !.conn = 0]),
             UNCHANGED <<record, manager, overtaken>>
      PROVE  StepOK
  <2> DEFINE y == [x EXCEPT !.pc = p, !.goal = "none", !.conn = 0]
  <2>1. y \in Calls /\ y.exchange = x.exchange /\ y.exchange # None /\ y.pc \notin HoldPcs \cup OffPcs
    BY <1>1, PoolAssumption DEF Calls, Pcs, Resumable, HoldPcs, OffPcs
  <2> QED
    BY <1>1, <1>3, <2>1, Away DEF Goes, Evicted
<1> QED
  BY <1>2, <1>3 DEF Evicted

LEMMA EvictionFailedStep ==
    ASSUME IInv, NEW c \in Callers, EvictionFailed(c)
    PROVE  StepOK
<1> DEFINE x == call[c]
           y == [x EXCEPT !.pc = "acquireFailed"]
<1>1. x \in Calls /\ PendingOK(c, x.exchange) /\ x.exchange \in Exchanges
  BY MyTurn DEF EvictionFailed, At, Acquiring, IsAcquisition
<1>2. y \in Calls /\ y.exchange = x.exchange /\ y.exchange # None /\ y.pc \notin HoldPcs \cup OffPcs
  BY <1>1, PoolAssumption DEF Calls, Pcs, Resumable, HoldPcs, OffPcs
<1> QED
  BY <1>1, <1>2, Away DEF EvictionFailed, Goes

LEMMA EvictionReturnsStep ==
    ASSUME IInv, NEW c \in Callers, EvictionReturns(c)
    PROVE  StepOK
<1> DEFINE x == call[c]
<1>1. x \in Calls /\ PendingOK(c, x.exchange) /\ x.goal \notin {"room", "slot", "failure"}
  BY MyTurn DEF EvictionReturns, Acquiring
<1>2. CASE Returns(c) /\ UNCHANGED <<record, manager, overtaken>>
  <2>1. PendingOK(c, Idle.exchange)
    BY IdleIsAway DEF PendingOK, EvictionReturns
  <2> QED
    BY <1>2, <2>1, IdleIsAway, Away DEF EvictionReturns, Returns, Goes
<1>3. ASSUME NEW k \in x.todo, Evicts(c, k, [x EXCEPT !.todo = @ \ {k}]) PROVE StepOK
  <2> DEFINE z == [x EXCEPT !.todo = @ \ {k}]
  <2>1. z \in Calls /\ z.exchange = x.exchange /\ z.goal = x.goal /\ k \in Conns
    BY <1>1 DEF Calls
  <2> QED
    BY <1>1, <1>3, <2>1, EvictsStep DEF EvictionReturns
<1> QED
  BY <1>2, <1>3 DEF EvictionReturns

LEMMA EvictConnectionStep ==
    ASSUME IInv, NEW c \in Callers, NEW k \in Conns, EvictConnection(c, k)
    PROVE  StepOK
<1> DEFINE x == [Idle EXCEPT !.goal = "manual"]
<1>1. x \in Calls /\ x.exchange = None /\ x.goal = "manual"
  BY DEF Idle, Calls, Pcs
<1>2. PendingOK(c, x.exchange)
  BY <1>1 DEF PendingOK, EvictConnection
<1> QED
  BY <1>1, <1>2, EvictsStep DEF EvictConnection

LEMMA CleanupStep ==
    ASSUME IInv, NEW c \in Callers, NEW S \in SUBSET Unused, CleanupIdleConnections(c, S)
    PROVE  StepOK
<1>1. PICK k \in S : Evicts(c, k, [Idle EXCEPT !.goal = "sweep", !.todo = S \ {k}])
  BY DEF CleanupIdleConnections
<1> DEFINE x == [Idle EXCEPT !.goal = "sweep", !.todo = S \ {k}]
<1>2. S \subseteq Conns
  BY CandidatesType
<1>3. x \in Calls /\ x.exchange = None /\ x.goal = "sweep"
  BY <1>2 DEF Idle, Calls, Pcs
<1>4. PendingOK(c, x.exchange)
  BY <1>3 DEF PendingOK, CleanupIdleConnections
<1> QED
  BY <1>1, <1>2, <1>3, <1>4, EvictsStep DEF CleanupIdleConnections

LEMMA FactoryResolvesStep ==
    ASSUME IInv, NEW c \in Callers, NEW ok \in BOOLEAN, FactoryResolves(c, ok)
    PROVE  StepOK
<1> DEFINE x == call[c]
<1>1. x \in Calls /\ PendingOK(c, x.exchange) /\ x.exchange \in Exchanges
  BY MyTurn DEF FactoryResolves, At, IsAcquisition, AskPcs
<1>2. CASE ok
  <2>1. PICK k \in Conns : record[k].status = "NONE" /\ Made(c, k)
    BY <1>2 DEF FactoryResolves
  <2>2. LInv'
    BY <1>1, <2>1, ConnectionMade, PoolAssumption DEF FactoryResolves
  <2>3. [x EXCEPT !.pc = "created", !.conn = k] \in Calls
    BY <1>1 DEF Calls, Pcs, Resumable
  <2>4. call' \in [Callers -> Calls] /\ pooled' \subseteq Conns
    BY <2>1, <2>3 DEF Made, Goes, IInv, TypeOK
  <2>5. record' \in [Conns -> [exchange : Exchanges \cup {None}, status : Statuses, leases : SUBSET Callers]]
    BY <1>1, <2>1 DEF Made, IInv, TypeOK, Statuses
  <2>6. ManagerType'
    BY <2>1 DEF Made, FactoryResolves, IInv, TypeOK, ManagerType, States
  <2> QED
    BY <2>2, <2>4, <2>5, <2>6 DEF StepOK, StepType, FactoryResolves, IInv, TypeOK
<1>3. CASE ~ok
  <2> DEFINE y == [x EXCEPT !.pc = "acquireFailed"]
  <2>1. y \in Calls /\ y.exchange = x.exchange /\ y.exchange # None /\ y.pc \notin HoldPcs \cup OffPcs
    BY <1>1, PoolAssumption DEF Calls, Pcs, Resumable, HoldPcs, OffPcs
  <2> QED
    BY <1>1, <1>3, <2>1, Away DEF FactoryResolves, Goes, manager
<1> QED
  BY <1>2, <1>3

LEMMA ReleaseStep ==
    ASSUME IInv, NEW c \in Callers, Release(c)
    PROVE  StepOK
<1> DEFINE k == leases[c]
           x(goal) == [Idle EXCEPT !.conn = k, !.goal = goal]
<1>1. /\ k \in Conns /\ At(c, "idle") /\ leases' = [leases EXCEPT ![c] = 0] /\ UNCHANGED <<pooled, pending>>
      /\ call \in [Callers -> Calls]
  BY DEF Release, IInv, TypeOK
<1>2. leases' \in [Callers -> Conns \cup {0}]
  BY <1>1 DEF IInv, TypeOK
<1>3. ASSUME NEW status \in Statuses, Leaves(c, k, status)
      PROVE  record' \in [Conns -> [exchange : Exchanges \cup {None}, status : Statuses, leases : SUBSET Callers]]
  BY <1>1, <1>3 DEF IInv, TypeOK, Statuses, Leaves
<1>4. ASSUME Returns(c) PROVE OnlyOne' /\ call' = [call EXCEPT ![c] = Idle] /\ call' \in [Callers -> Calls]
  BY <1>1, <1>4, IdleIsAway, OnlyOneKept DEF Returns, Goes
<1>5. CASE k \notin pooled
  <2>1. Returns(c) /\ UNCHANGED <<record, manager, overtaken>>
    BY <1>5 DEF Release
  <2>2. LInv'
    BY <1>1, <1>4, <2>1, LeaseLapses
  <2> QED
    BY <1>1, <1>2, <1>4, <2>1, <2>2 DEF StepOK, StepType, IInv, TypeOK, ManagerType, manager
<1>6. ASSUME k \in pooled, NEW status \in {"IDLE", "LEASED"}, Leaves(c, k, status), Returns(c),
             UNCHANGED <<manager, overtaken>>
      PROVE  StepOK
  <2>0. status \in Statuses \ {"NONE"}
    BY DEF Statuses
  <2>1. LInv'
    BY <1>1, <1>4, <1>6, <2>0, IdleIsAway, LeaseEnds
  <2> QED
    BY <1>1, <1>2, <1>3, <1>4, <1>6, <2>0, <2>1 DEF StepOK, StepType, IInv, TypeOK, ManagerType, manager
<1>s. /\ {"IDLE", "LEASED", "EVICTING"} \subseteq Statuses /\ record[k].status \in Statuses \ {"NONE"}
      /\ record[k].status = "IDLE" => k \in overtaken
  <2>1. k # 0 /\ record[k].leases = {c} /\ record[k].status \in Statuses
    BY <1>1 DEF IInv, TypeOK, LInv, LeaseMatches, Conns
  <2> QED
    BY <1>1, <2>1 DEF Statuses, IInv, LInv, NewIsFree, Backed
<1>7. ASSUME k \in pooled, NEW status \in Statuses \ {"NONE"}, status = "IDLE" => k \in overtaken,
             Leaves(c, k, status), NEW goal \in {"release", "manual"},
             Disconnects(c, k, x(goal)), overtaken' = overtaken \/ Meets(k, c)
      PROVE  StepOK
  <2>1. x(goal) \in Calls /\ x(goal).conn = k /\ x(goal).exchange = None /\ x(goal).goal = goal
    BY <1>1 DEF Idle, Calls, Pcs
  <2>2. ManagerType
    BY DEF IInv, TypeOK, ManagerType
  <2>3. GoesOnFrom(c, k, x(goal), OffPcs) /\ ManagerType'
    BY <1>1, <1>7, <2>1, <2>2, DisconnectsEffect
  <2>4. PICK y \in Calls : /\ y.pc \in OffPcs /\ y.conn = k /\ y.exchange = None /\ y.goal = goal
                           /\ call' = [call EXCEPT ![c] = y]
    BY <2>1, <2>3 DEF GoesOnFrom
  <2>5. ~IsAcquisition(y)
    BY <2>4 DEF IsAcquisition, AskPcs, OffPcs
  <2>6. OnlyOne'
    BY <1>1, <2>4, <2>5, OnlyOneKept
  <2>7. LInv'
    BY <1>1, <1>7, <2>4, <2>6, LeaseEnds
  <2>8. overtaken' \subseteq Conns /\ call' \in [Callers -> Calls]
    BY <1>1, <1>7, <2>4 DEF Meets, IInv, TypeOK
  <2> QED
    BY <1>1, <1>2, <1>3, <1>7, <2>3, <2>7, <2>8 DEF StepOK, StepType, IInv, TypeOK
<1>8. CASE k \in pooled
  <2> DEFINE many == record[k].leases \ {c} # {}
             broken == EvictFailed /\ state[k] = "FAILED"
             off == disconnectOnRelease /\ RequiresDisconnection(k)
  <2>1. CASE many
    BY <1>6, <1>8, <2>1 DEF Release
  <2>2. CASE ~many /\ broken
    BY <1>7, <1>8, <1>s, <2>2 DEF Release
  <2>3. CASE ~many /\ ~broken /\ off
    BY <1>7, <1>8, <1>s, <2>3 DEF Release
  <2>4. CASE ~many /\ ~broken /\ ~off
    BY <1>6, <1>8, <2>4 DEF Release
  <2> QED
    BY <2>1, <2>2, <2>3, <2>4
<1> QED
  BY <1>5, <1>8

\* A connection's answer only resumes those who wait for it.
LEMMA ResumesStep ==
    ASSUME IInv, NEW k \in Conns, NEW ok \in BOOLEAN, Resumes(k, ok), ManagerType',
           UNCHANGED <<pooled, record, leases, pending, overtaken>>
    PROVE  StepOK
<1>1. ASSUME NEW d \in Callers
      PROVE  \/ call'[d] = call[d]
             \/ \E p \in {"connected", "connectFailed"} : At(d, "connecting") /\ call'[d] = [call[d] EXCEPT !.pc = p]
             \/ \E p \in {"off", "offFailed", "offRetry"} :
                   call[d].pc \in {"disconnecting", "queuedOff"} /\ call'[d] = [call[d] EXCEPT !.pc = p]
  BY DEF Resumes, At
<1>2. \A d \in Callers : call[d] \in Calls
  BY DEF IInv, TypeOK
<1>3. ASSUME NEW d \in Callers
      PROVE  /\ call'[d] \in Calls /\ call'[d].conn = call[d].conn
             /\ call'[d].exchange = call[d].exchange /\ call'[d].goal = call[d].goal
             /\ \/ call'[d].pc = call[d].pc
                \/ call'[d].pc \in {"connected", "connectFailed"} /\ At(d, "connecting")
                \/ call'[d].pc \in {"off", "offFailed", "offRetry"} /\ call[d].pc \in {"disconnecting", "queuedOff"}
  <2>1. call[d] \in Calls
    BY <1>2
  <2>2. \A p \in Resumable : LET y == [call[d] EXCEPT !.pc = p] IN
           y \in Calls /\ y.pc = p /\ y.conn = call[d].conn /\ y.exchange = call[d].exchange /\ y.goal = call[d].goal
    BY <2>1, NewPc, PcSets
  <2>3. ASSUME NEW p \in {"connected", "connectFailed"}, At(d, "connecting"), call'[d] = [call[d] EXCEPT !.pc = p]
        PROVE  /\ call'[d] \in Calls /\ call'[d].pc = p /\ call'[d].conn = call[d].conn
               /\ call'[d].exchange = call[d].exchange /\ call'[d].goal = call[d].goal
    <3>1. p \in Resumable
      BY DEF Resumable
    <3> QED
      BY <2>2, <2>3, <3>1
  <2>4. ASSUME NEW p \in {"off", "offFailed", "offRetry"}, call'[d] = [call[d] EXCEPT !.pc = p]
        PROVE  /\ call'[d] \in Calls /\ call'[d].pc = p /\ call'[d].conn = call[d].conn
               /\ call'[d].exchange = call[d].exchange /\ call'[d].goal = call[d].goal
    <3>1. p \in Resumable
      BY DEF Resumable
    <3> QED
      BY <2>2, <2>4, <3>1
  <2> QED
    BY <1>1, <2>1, <2>3, <2>4
<1>4. OnlyOne'
  BY <1>3 DEF OnlyOne, IInv, LInv, IsAcquisition, AskPcs, At
<1>5. ASSUME NEW d \in Callers
      PROVE  /\ Holds(d)' => Holds(d) /\ call'[d].conn = call[d].conn /\ call'[d].exchange = call[d].exchange
             /\ TakesOff(d)' => TakesOff(d) /\ call'[d].conn = call[d].conn
  BY <1>3 DEF Holds, TakesOff, At, HoldPcs, OffPcs
<1>6. LInv'
  BY <1>4, <1>5, Steady
<1>7. call' \in [Callers -> Calls]
  BY <1>3 DEF Resumes
<1> QED
  BY <1>6, <1>7 DEF StepOK, StepType, IInv, TypeOK

LEMMA AnswersStep ==
    ASSUME IInv, NEW k \in Conns, NEW succeeds \in BOOLEAN, ConnectResolves(k, succeeds) \/ DisconnectResolves(k, succeeds)
    PROVE  StepOK
<1>1. ManagerType'
  BY DEF ConnectResolves, DisconnectResolves, IInv, TypeOK, ManagerType, States
<1>2. \E ok \in BOOLEAN : Resumes(k, ok)
  BY DEF ConnectResolves, DisconnectResolves
<1> QED
  BY <1>1, <1>2, ResumesStep DEF ConnectResolves, DisconnectResolves

\* Nothing but the manager's state of a connection changes.
LEMMA QuietStep ==
    ASSUME IInv, UNCHANGED <<pooled, record, leases, pending, call, overtaken>>, ManagerType'
    PROVE  StepOK
<1>1. OnlyOne'
  BY DEF OnlyOne, IInv, LInv
<1>2. LInv'
  BY <1>1, Steady DEF Holds, TakesOff
<1> QED
  BY <1>2 DEF StepOK, StepType, IInv, TypeOK

-----------------------------------------------------------------------------
(* The theorems *)

\* Every step keeps the invariant.
LEMMA NextStep ==
    ASSUME IInv, [Next]_vars
    PROVE  IInv'
<1>1. StepOK
  <2>1. ASSUME NEW c \in Callers, Asks(c) PROVE StepOK
    BY <2>1, AcquireStep, EvictConnectionStep, CleanupStep, ReleaseStep DEF Asks
  <2>2. ASSUME NEW c \in Callers, GoesOn(c) PROVE StepOK
    BY <2>2, AgainStep, CreatedStep, ConnectedStep, ConnectFailedStep, SettlesStep, OffStep, OffFailedStep,
       ReleasedStep, EvictedStep, EvictionFailedStep, EvictionReturnsStep DEF GoesOn
  <2>3. ASSUME NEW c \in Callers, Ends(c) PROVE StepOK
    BY <2>3, FactoryResolvesStep, DisposesStep DEF Ends
  <2>4. ASSUME NEW k \in Conns, Answers(k) PROVE StepOK
    BY <2>4, AnswersStep DEF Answers
  <2>5. ASSUME NEW k \in Conns, Tells(k) PROVE StepOK
    <3>1. PICK to \in {"CONNECTED", "DISCONNECTED", "FAILED"} : Reports(k, to)
      BY <2>5 DEF Tells
    <3>2. ManagerType'
      BY <3>1 DEF Reports, IInv, TypeOK, ManagerType, States
    <3> QED
      BY <3>1, <3>2, QuietStep DEF Reports
  <2>6. CASE UNCHANGED vars
    BY <2>6, QuietStep DEF vars, IInv, TypeOK, ManagerType
  <2> QED
    BY <2>1, <2>2, <2>3, <2>4, <2>5, <2>6 DEF Next
<1>2. disconnectOnRelease' = disconnectOnRelease
  BY DEF Next, Asks, GoesOn, Ends, Answers, Tells, vars
<1>3. calls' \in 0..MaxCalls
  <2>1. calls \in 0..MaxCalls /\ MaxCalls \in Nat
    BY PoolAssumption DEF IInv, TypeOK
  <2>2. calls' = calls \/ (calls < MaxCalls /\ calls' = calls + 1)
    <3>1. ASSUME NEW c \in Callers, Asks(c) PROVE calls < MaxCalls /\ calls' = calls + 1
      BY <3>1 DEF Asks, Acquire, EvictConnection, CleanupIdleConnections, Release
    <3>2. ASSUME NEW c \in Callers, GoesOn(c) \/ Ends(c) PROVE calls' = calls
      BY <3>2 DEF GoesOn, Again, Created, Connected, ConnectFailed, Settles, Off, OffRetry, OffFailed, Released,
         Evicted, EvictionFailed, EvictionReturns, Ends, FactoryResolves, Disposes
    <3>3. ASSUME NEW k \in Conns, Answers(k) \/ Tells(k) PROVE calls' = calls
      BY <3>3 DEF Answers, ConnectResolves, DisconnectResolves, Tells, Reports
    <3> QED
      BY <3>1, <3>2, <3>3 DEF Next, vars
  <2> QED
    BY <2>1, <2>2
<1>4. faulty' \subseteq Conns
  <2>1. faulty \subseteq Conns
    BY DEF IInv, TypeOK
  <2>2. ASSUME NEW c \in Callers, NEW ok \in BOOLEAN, Disposes(c, ok) PROVE faulty' \subseteq Conns
    <3>1. call[c].conn \in Conns
      BY <2>2 DEF Disposes, At, TakesOff, OffPcs, IInv, LInv, AtWork
    <3> QED
      BY <2>1, <2>2, <3>1 DEF Disposes, Judges
  <2>3. ASSUME NEW k \in Conns, Answers(k) PROVE faulty' \subseteq Conns
    BY <2>1, <2>3 DEF Answers, ConnectResolves, DisconnectResolves, Judges
  <2> QED
    BY <2>1, <2>2, <2>3 DEF Next, Asks, GoesOn, Ends, FactoryResolves, Tells, vars
<1> QED
  BY <1>1, <1>2, <1>3, <1>4 DEF StepOK, StepType, ManagerType, IInv, TypeOK

LEMMA InitHolds == Init => IInv
<1> SUFFICES ASSUME Init PROVE IInv
  OBVIOUS
<1>1. \A c \in Callers : call[c] = Idle
  BY DEF Init
<1>2. TypeOK
  BY PoolAssumption, IdleIsAway DEF Init, TypeOK, Statuses, States
<1>3. \A c \in Callers : ~Holds(c) /\ ~TakesOff(c)
  BY <1>1, IdleIsAway DEF Holds, TakesOff
<1>4. AtWork /\ HeldIsFree /\ Met
  BY <1>3 DEF AtWork, HeldIsFree, Met
<1>5. OnlyOne
  BY <1>1, IdleIsAway DEF OnlyOne
<1>6. LeaseMatches /\ NewIsFree /\ Backed
  BY DEF Init, LeaseMatches, NewIsFree, Backed
<1> QED
  BY <1>2, <1>4, <1>5, <1>6 DEF IInv, LInv

\* A lease is nobody else's, and backed by the pool unless an eviction met another call.
LEMMA LeasesFollow == IInv => LeasesAreSound
<1> SUFFICES ASSUME IInv, NEW c \in Callers, leases[c] # 0
             PROVE  /\ \A d \in Callers \ {c} : leases[d] # leases[c]
                    /\ \/ leases[c] \in overtaken
                       \/ /\ leases[c] \in pooled /\ record[leases[c]].status = "LEASED"
                          /\ record[leases[c]].leases = {c}
  BY DEF LeasesAreSound
<1>1. record[leases[c]].leases = {c}
  BY DEF IInv, LInv, LeaseMatches
<1>2. ASSUME NEW d \in Callers \ {c}, leases[d] = leases[c] PROVE FALSE
  BY <1>1, <1>2 DEF IInv, LInv, LeaseMatches
<1> QED
  BY <1>1, <1>2 DEF IInv, LInv, Backed

LEMMA InvariantHolds == Spec => []IInv
  BY InitHolds, NextStep, PTL DEF Spec

\* The pool's and the manager's records keep their types, whatever calls overlap.
THEOREM TypeCorrect == Spec => []TypeOK
<1>1. IInv => TypeOK
  BY DEF IInv
<1> QED
  BY <1>1, InvariantHolds, PTL

\* acquire never leases a connection twice, for any callers, exchanges and limits, and
\* what is leased is in the pool unless an eviction met another call at work on it.
THEOREM LeasesSound == Spec => []LeasesAreSound
  BY LeasesFollow, InvariantHolds, PTL

-----------------------------------------------------------------------------
(* No connection is stranded. What a status says of the callers at work:   *)

Releasing(c) == TakesOff(c) /\ call[c].goal = "release"
Rests(c) == ~Holds(c) /\ ~TakesOff(c)

\* The manager has what the pool has.
RegisteredPool == \A k \in Conns : /\ k \in pooled <=> state[k] # "UNREGISTERED"
                                   /\ k \in pooled => record[k].status \notin {"NONE", "DISPOSED"}
\* Somebody waits for every operation.
OperationsAwaited ==
    \A k \in Conns :
        /\ operation[k] = "connect" => \E c \in Callers : call[c].conn = k /\ At(c, "connecting")
        /\ operation[k] = "disconnect" => \E c \in Callers : call[c].conn = k /\ At(c, "disconnecting")
\* What is disconnected on its release is not chosen, connected or leased meanwhile.
ReleasedAlone ==
    \A c \in Callers : Releasing(c) => LET k == call[c].conn IN
        /\ disconnectOnRelease /\ record[k].leases = {} /\ record[k].status \notin {"NONE", "IDLE", "CONNECTING"}
        /\ \A d \in Callers : (Holds(d) => call[d].conn # k) /\ leases[d] # k
        /\ \A d \in Callers \ {c} : Releasing(d) => call[d].conn # k
\* A status an acquisition may meet or set on its way is not that of a leased connection.
LeasedInUse == \A c \in Callers : leases[c] # 0 => record[leases[c]].status \notin {"NONE", "IDLE", "CONNECTING"}
\* Whoever is told of a failure works on what has failed, and so has what is left half disconnected.
FailuresKnown ==
    /\ \A c \in Callers : At(c, "offFailed") \/ At(c, "connectFailed") =>
                              (call[c].conn \in pooled => call[c].conn \in faulty)
    /\ \A k \in Conns : state[k] = "DISCONNECTING" /\ operation[k] = "none" => k \in faulty
\* A status that is not lasting has somebody at work who will change it, or follows a failure.
Evicting(k) == \E c \in Callers : call[c].conn = k /\ TakesOff(c) /\ call[c].goal # "release"
Connecting(k) == \E c \in Callers : call[c].conn = k /\ Holds(c)
WorkedOn(k) == \E c \in Callers : call[c].conn = k /\ (Holds(c) \/ TakesOff(c))
Explained(k) ==
    /\ record[k].status = "EVICTING" => Evicting(k)
    /\ record[k].status = "CONNECTING" => Connecting(k)
    /\ record[k].status = "FAILED" => WorkedOn(k) \/ k \in faulty
    /\ record[k].status = "LEASED" /\ record[k].leases = {} => WorkedOn(k) \/ (k \in faulty /\ disconnectOnRelease)
StatusExplained == \A k \in pooled : Explained(k)

SInv == RegisteredPool /\ OperationsAwaited /\ ReleasedAlone /\ LeasedInUse /\ FailuresKnown /\ StatusExplained

LEMMA StillExplained ==
    ASSUME NEW k, Explained(k), record'[k] = record[k], disconnectOnRelease' = disconnectOnRelease,
           k \in faulty => (k \in faulty' \/ WorkedOn(k)'),
           Evicting(k) => Evicting(k)', Connecting(k) => Connecting(k)', WorkedOn(k) => WorkedOn(k)'
    PROVE  Explained(k)'
  BY DEF Explained

\* What a step of caller c does to the manager's state and operations.
ManagerMoves(c) ==
    /\ \A j \in Conns : state'[j] = "UNREGISTERED" <=> state[j] = "UNREGISTERED"
    /\ \A j \in Conns : state'[j] = "DISCONNECTING" /\ operation'[j] = "none" =>
          state[j] = "DISCONNECTING" /\ operation[j] = "none"
    /\ \A j \in Conns : operation'[j] = "connect" =>
          operation[j] = "connect" \/ (call'[c].conn = j /\ call'[c].pc = "connecting")
    /\ \A j \in Conns : operation'[j] = "disconnect" =>
          operation[j] = "disconnect" \/ (call'[c].conn = j /\ call'[c].pc = "disconnecting")
    /\ call'[c].pc = "offFailed" => state[call'[c].conn] = "UNREGISTERED"
    /\ call'[c].pc = "connectFailed" => \/ state[call'[c].conn] = "UNREGISTERED"
                                        \/ state[call'[c].conn] = "DISCONNECTING" /\ operation[call'[c].conn] = "none"

LEMMA UnchangedMoves ==
    ASSUME NEW c \in Callers, UNCHANGED manager, call'[c].pc = "offFailed" => state[call'[c].conn] = "UNREGISTERED",
           call'[c].pc # "connectFailed"
    PROVE  ManagerMoves(c)
  BY DEF ManagerMoves, manager

LEMMA NewCall ==
    ASSUME IInv, NEW c \in Callers, NEW x \in Calls, NEW p \in Pcs, Goes(c, [x EXCEPT !.pc = p])
    PROVE  call'[c].pc = p /\ call'[c].conn = x.conn /\ call'[c].goal = x.goal
  BY NewPc DEF Goes, IInv, TypeOK

LEMMA DisconnectsMoves ==
    ASSUME IInv, NEW c \in Callers, NEW k \in Conns, NEW x \in Calls, x.conn = k, Disconnects(c, k, x)
    PROVE  ManagerMoves(c)
<1>t. state \in [Conns -> States] /\ operation \in [Conns -> {"none", "connect", "disconnect"}]
  BY DEF IInv, TypeOK
<1>p. \A p \in OffPcs : Goes(c, [x EXCEPT !.pc = p]) => call'[c].pc = p /\ call'[c].conn = k
  BY NewCall, PcSets
<1>1. CASE Active(k)
  <2>1. UNCHANGED manager /\ call'[c].pc = "queuedOff"
    BY <1>1, <1>p DEF Disconnects, OffPcs
  <2> QED
    BY <2>1, UnchangedMoves
<1>2. CASE ~Active(k) /\ state[k] = "UNREGISTERED"
  <2>1. UNCHANGED manager /\ call'[c].pc = "offFailed" /\ call'[c].conn = k
    BY <1>2, <1>p DEF Disconnects, OffPcs
  <2> QED
    BY <1>2, <2>1, UnchangedMoves
<1>3. CASE ~Active(k) /\ state[k] \in {"REGISTERED", "DISCONNECTED"}
  <2>1. state' = [state EXCEPT ![k] = "DISCONNECTED"] /\ UNCHANGED operation /\ call'[c].pc = "off"
    BY <1>3, <1>p DEF Disconnects, OffPcs
  <2>2. operation[k] = "none"
    BY <1>3 DEF Active
  <2> QED
    BY <1>t, <1>3, <2>1, <2>2 DEF ManagerMoves
<1>4. CASE ~Active(k) /\ state[k] \notin {"REGISTERED", "DISCONNECTED", "UNREGISTERED"}
  <2>1. /\ state' = [state EXCEPT ![k] = "DISCONNECTING"] /\ operation' = [operation EXCEPT ![k] = "disconnect"]
        /\ call'[c].pc = "disconnecting" /\ call'[c].conn = k
    BY <1>4, <1>p DEF Disconnects, OffPcs
  <2>2. operation[k] = "none"
    BY <1>4 DEF Active
  <2> QED
    BY <1>t, <1>4, <2>1, <2>2 DEF ManagerMoves
<1> QED
  BY <1>1, <1>2, <1>3, <1>4

LEMMA ConnectsMoves ==
    ASSUME IInv, NEW c \in Callers, NEW k \in Conns, NEW x \in Calls, x.conn = k, Connects(c, k, x)
    PROVE  ManagerMoves(c)
<1>t. state \in [Conns -> States] /\ operation \in [Conns -> {"none", "connect", "disconnect"}]
  BY DEF IInv, TypeOK
<1>p. \A p \in HoldPcs : Goes(c, [x EXCEPT !.pc = p]) => call'[c].pc = p /\ call'[c].conn = k
  BY NewCall, PcSets
<1>1. CASE UNCHANGED manager /\ call'[c].pc \in HoldPcs \ {"connectFailed"}
  BY <1>1, UnchangedMoves DEF HoldPcs
<1>3. CASE UNCHANGED manager /\ call'[c].pc = "connectFailed"
  <2>1. state[k] \in {"UNREGISTERED", "DISCONNECTING"} /\ ~Active(k) /\ call'[c].conn = k
    BY <1>3, <1>p DEF Connects, HoldPcs
  <2> QED
    BY <1>t, <1>3, <2>1 DEF ManagerMoves, manager, Active
<1>2. CASE ~(UNCHANGED manager /\ call'[c].pc \in HoldPcs)
  <2>1. /\ ~Active(k) /\ state[k] \notin {"UNREGISTERED", "DISCONNECTING"}
        /\ state' = [state EXCEPT ![k] = "CONNECTING"] /\ operation' = [operation EXCEPT ![k] = "connect"]
        /\ call'[c].pc = "connecting" /\ call'[c].conn = k
    BY <1>2, <1>p DEF Connects, HoldPcs
  <2>2. operation[k] = "none"
    BY <2>1 DEF Active
  <2> QED
    BY <1>t, <2>1, <2>2 DEF ManagerMoves
<1> QED
  BY <1>1, <1>2, <1>3

LEMMA UnregistersMoves ==
    ASSUME IInv, NEW c \in Callers, NEW k \in Conns, NEW x \in Calls, x.conn = k, Unregisters(c, k, x)
    PROVE  ManagerMoves(c)
<1> DEFINE z == [x EXCEPT !.forced = TRUE]
<1>1. z \in Calls /\ z.conn = k
  BY DEF Calls
<1>2. CASE Disconnects(c, k, z)
  BY <1>1, <1>2, DisconnectsMoves
<1>3. CASE state[k] = "UNREGISTERED" /\ Goes(c, [x EXCEPT !.pc = "offFailed"]) /\ UNCHANGED manager
  BY <1>3, NewCall, PcSets, UnchangedMoves DEF OffPcs
<1>4. CASE Goes(c, [x EXCEPT !.pc = "disposing"]) /\ UNCHANGED manager
  BY <1>4, NewCall, PcSets, UnchangedMoves DEF OffPcs
<1> QED
  BY <1>2, <1>3, <1>4 DEF Unregisters

LEMMA EvictsMoves ==
    ASSUME IInv, NEW c \in Callers, NEW k \in Conns, NEW x \in Calls, Evicts(c, k, x)
    PROVE  ManagerMoves(c)
<1> DEFINE y == [x EXCEPT !.conn = k, !.forced = FALSE]
<1>1. y \in Calls /\ y.conn = k
  BY DEF Calls
<1>2. CASE Disconnects(c, k, y) \/ Unregisters(c, k, y)
  BY <1>1, <1>2, DisconnectsMoves, UnregistersMoves
<1>3. CASE Goes(c, [y EXCEPT !.pc = "evictFailed"]) /\ UNCHANGED manager
  <2>1. "evictFailed" \in Pcs
    BY PcSets DEF Resumable
  <2> QED
    BY <1>1, <1>3, <2>1, NewCall, UnchangedMoves
<1> QED
  BY <1>2, <1>3 DEF Evicts
-----------------------------------------------------------------------------
(* What a step of caller c does to the pool's records *)

Idles(c) == call[c].pc \in {"idle", "waiting", "again"}
Others(c) == \A d \in Callers \ {c} : call'[d] = call[d] \/ (Idles(d) /\ Idles(d)')
\* c has worked on nothing, or to connect k; and it may now do so.
Free(c, k) == Rests(c) \/ (Holds(c) /\ call[c].conn = k)
Chooses(c, k) == /\ \/ Rests(c) /\ record[k].status = "IDLE" /\ \A d \in Callers : leases[d] # k
                    \/ Holds(c) /\ call[c].conn = k
                 /\ record[k].leases = {}

\* Nothing: c does no work, gives up what is disposed, cannot disconnect what it
\* released, or goes on with taking off.
KeepsRecords(c) ==
    /\ UNCHANGED record
    /\ \/ Rests(c) /\ Rests(c)' /\ leases' \in {leases, [leases EXCEPT ![c] = 0]}
       \/ /\ UNCHANGED leases
          /\ \/ Holds(c) /\ record[call[c].conn].status = "DISPOSED" /\ Rests(c)'
             \/ Releasing(c) /\ At(c, "offFailed") /\ Rests(c)'
             \/ /\ TakesOff(c) /\ TakesOff(c)' /\ ~At(c, "offFailed")
                /\ call'[c].conn = call[c].conn /\ call'[c].goal = call[c].goal

TakesOffNow(c, k, release) == TakesOff(c)' /\ call'[c].conn = k /\ (call'[c].goal = "release" <=> release)
EvictsNow(c, k) == Free(c, k) /\ record[k].leases = {} /\ Becomes(k, "EVICTING") /\ TakesOffNow(c, k, FALSE) /\ UNCHANGED leases
HoldsNow(c, k) == Chooses(c, k) /\ Becomes(k, "CONNECTING") /\ Holds(c)' /\ call'[c].conn = k /\ UNCHANGED leases
LeasesNow(c, k) == /\ Chooses(c, k) /\ Rests(c)'
                   /\ record' = [record EXCEPT ![k].status = "LEASED", ![k].leases = @ \cup {c}]
                   /\ leases' = [leases EXCEPT ![c] = k]
EndsNow(c, k) == /\ ~Rests(c) /\ call[c].conn = k /\ Rests(c)' /\ UNCHANGED leases
                 /\ \/ Becomes(k, "FAILED") /\ (k \in pooled => k \in faulty')
                    \/ Releasing(c) /\ Becomes(k, "IDLE")
FreesNow(c, k) == /\ leases[c] = k /\ record[k].leases = {c} /\ Rests(c) /\ leases' = [leases EXCEPT ![c] = 0]
                  /\ \/ Leaves(c, k, "IDLE") /\ Rests(c)'
                     \/ Leaves(c, k, "EVICTING") /\ TakesOffNow(c, k, FALSE)
                     \/ /\ Leaves(c, k, record[k].status) /\ record[k].status \in {"LEASED", "EVICTING", "FAILED"}
                        /\ TakesOffNow(c, k, TRUE) /\ disconnectOnRelease
ChangesRecord(c, k) == EvictsNow(c, k) \/ HoldsNow(c, k) \/ LeasesNow(c, k) \/ EndsNow(c, k) \/ FreesNow(c, k)

CallStep(c) == /\ ManagerMoves(c) /\ Others(c) /\ UNCHANGED <<pooled, disconnectOnRelease>>
               /\ faulty \subseteq faulty'
               /\ ~At(c, "connecting") /\ ~At(c, "disconnecting")
               /\ KeepsRecords(c) \/ \E k \in Conns : ChangesRecord(c, k)

\* What such a step leaves of a record.
LEMMA RecordMoves ==
    ASSUME IInv, NEW c \in Callers, NEW k \in Conns, ChangesRecord(c, k)
    PROVE  /\ \A j \in Conns \ {k} : record'[j] = record[j]
           /\ EvictsNow(c, k) => record'[k].status = "EVICTING" /\ record'[k].leases = {}
           /\ HoldsNow(c, k) => record'[k].status = "CONNECTING" /\ record'[k].leases = {}
           /\ LeasesNow(c, k) => record'[k].status = "LEASED" /\ record'[k].leases = {c}
           /\ EndsNow(c, k) => /\ \/ record'[k].status = "FAILED" /\ (k \in pooled => k \in faulty')
                                  \/ record'[k].status = "IDLE" /\ Releasing(c)
                               /\ record'[k].leases = record[k].leases
           /\ FreesNow(c, k) => /\ record'[k].leases = {}
                                /\ \/ record'[k].status = "IDLE" /\ Rests(c)'
                                   \/ record'[k].status = "EVICTING" /\ TakesOffNow(c, k, FALSE)
                                   \/ /\ record'[k].status \in {record[k].status} \cap {"LEASED", "EVICTING", "FAILED"}
                                      /\ TakesOffNow(c, k, TRUE) /\ disconnectOnRelease
<1>1. record[k] \in [exchange : Exchanges \cup {None}, status : Statuses, leases : SUBSET Callers] /\ DOMAIN record = Conns
  BY DEF IInv, TypeOK
<1>b. ASSUME NEW status, Becomes(k, status)
      PROVE  /\ record'[k].status = status /\ record'[k].leases = record[k].leases
             /\ \A j \in Conns \ {k} : record'[j] = record[j]
  BY <1>1, <1>b DEF Becomes
<1>l. ASSUME NEW status, Leaves(c, k, status), record[k].leases = {c}
      PROVE  /\ record'[k].status = status /\ record'[k].leases = {}
             /\ \A j \in Conns \ {k} : record'[j] = record[j]
  BY <1>1, <1>l DEF Leaves
<1>2. EvictsNow(c, k) => /\ record'[k].status = "EVICTING" /\ record'[k].leases = {}
                         /\ \A j \in Conns \ {k} : record'[j] = record[j]
  BY <1>b DEF EvictsNow
<1>3. HoldsNow(c, k) => /\ record'[k].status = "CONNECTING" /\ record'[k].leases = {}
                        /\ \A j \in Conns \ {k} : record'[j] = record[j]
  BY <1>b DEF HoldsNow, Chooses
<1>4. LeasesNow(c, k) => /\ record'[k].status = "LEASED" /\ record'[k].leases = {c}
                         /\ \A j \in Conns \ {k} : record'[j] = record[j]
  BY <1>1 DEF LeasesNow, Chooses
<1>5. EndsNow(c, k) => /\ \/ record'[k].status = "FAILED" /\ (k \in pooled => k \in faulty')
                          \/ record'[k].status = "IDLE" /\ Releasing(c)
                       /\ record'[k].leases = record[k].leases
                       /\ \A j \in Conns \ {k} : record'[j] = record[j]
  BY <1>b DEF EndsNow
<1>6. FreesNow(c, k) => /\ record'[k].leases = {}
                        /\ \/ record'[k].status = "IDLE" /\ Rests(c)'
                           \/ record'[k].status = "EVICTING" /\ TakesOffNow(c, k, FALSE)
                           \/ /\ record'[k].status \in {record[k].status} \cap {"LEASED", "EVICTING", "FAILED"}
                              /\ TakesOffNow(c, k, TRUE) /\ disconnectOnRelease
                        /\ \A j \in Conns \ {k} : record'[j] = record[j]
  <2> SUFFICES ASSUME FreesNow(c, k)
               PROVE  /\ record'[k].leases = {}
                      /\ \/ record'[k].status = "IDLE" /\ Rests(c)'
                         \/ record'[k].status = "EVICTING" /\ TakesOffNow(c, k, FALSE)
                         \/ /\ record'[k].status \in {record[k].status} \cap {"LEASED", "EVICTING", "FAILED"}
                            /\ TakesOffNow(c, k, TRUE) /\ disconnectOnRelease
                      /\ \A j \in Conns \ {k} : record'[j] = record[j]
    OBVIOUS
  <2>1. CASE Leaves(c, k, "IDLE") /\ Rests(c)'
    BY <1>l, <2>1 DEF FreesNow
  <2>2. CASE Leaves(c, k, "EVICTING") /\ TakesOffNow(c, k, FALSE)
    BY <1>l, <2>2 DEF FreesNow
  <2>3. CASE /\ Leaves(c, k, record[k].status) /\ record[k].status \in {"LEASED", "EVICTING", "FAILED"}
             /\ TakesOffNow(c, k, TRUE) /\ disconnectOnRelease
    BY <1>l, <2>3 DEF FreesNow
  <2> QED
    BY <2>1, <2>2, <2>3 DEF FreesNow
<1> QED
  BY <1>2, <1>3, <1>4, <1>5, <1>6 DEF ChangesRecord

\* A caller at work is still at work, on the same connection, unless it is c.
LEMMA OthersStay ==
    ASSUME NEW c, Others(c), NEW d \in Callers \ {c}
    PROVE  /\ Holds(d) <=> Holds(d)'
           /\ TakesOff(d) <=> TakesOff(d)'
           /\ Holds(d) \/ TakesOff(d) => call'[d] = call[d]
  BY DEF Others, Idles, Holds, TakesOff, HoldPcs, OffPcs

LEMMA OperationsAwaitedKept ==
    ASSUME IInv, SInv, NEW c \in Callers, CallStep(c)
    PROVE  OperationsAwaited'
<1>1. \A d \in Callers : At(d, "connecting") \/ At(d, "disconnecting") =>
          d # c /\ call'[d] = call[d]
  <2>1. \A d \in Callers : At(d, "connecting") \/ At(d, "disconnecting") => Holds(d) \/ TakesOff(d)
    BY DEF At, Holds, TakesOff, HoldPcs, OffPcs
  <2> QED
    BY <2>1, OthersStay DEF CallStep
<1>2. ASSUME NEW k \in Conns, operation'[k] = "connect"
      PROVE  \E d \in Callers : call'[d].conn = k /\ call'[d].pc = "connecting"
  BY <1>1, <1>2 DEF CallStep, ManagerMoves, SInv, OperationsAwaited, At
<1>3. ASSUME NEW k \in Conns, operation'[k] = "disconnect"
      PROVE  \E d \in Callers : call'[d].conn = k /\ call'[d].pc = "disconnecting"
  BY <1>1, <1>3 DEF CallStep, ManagerMoves, SInv, OperationsAwaited, At
<1> QED
  BY <1>2, <1>3 DEF OperationsAwaited, At

LEMMA RegisteredPoolKept ==
    ASSUME IInv, SInv, NEW c \in Callers, CallStep(c)
    PROVE  RegisteredPool'
<1>1. \A j \in Conns : record'[j] = record[j] \/ record'[j].status \notin {"NONE", "DISPOSED"}
  <2>1. CASE KeepsRecords(c)
    BY <2>1 DEF KeepsRecords
  <2>2. ASSUME NEW k \in Conns, ChangesRecord(c, k)
        PROVE  \A j \in Conns : record'[j] = record[j] \/ record'[j].status \notin {"NONE", "DISPOSED"}
    BY <2>2, RecordMoves DEF ChangesRecord
  <2> QED
    BY <2>1, <2>2 DEF CallStep
<1> QED
  BY <1>1 DEF CallStep, ManagerMoves, SInv, RegisteredPool

\* Nobody connects, leases or frees what another caller has released.
LEMMA ReleasedIsLeftAlone ==
    ASSUME IInv, SInv, NEW c \in Callers, NEW k \in Conns, NEW d \in Callers \ {c}, Releasing(d), call[d].conn = k
    PROVE  ~Chooses(c, k) /\ ~FreesNow(c, k) /\ ~(Releasing(c) /\ call[c].conn = k)
<1>1. /\ record[k].leases = {} /\ record[k].status # "IDLE"
      /\ \A e \in Callers : (Holds(e) => call[e].conn # k) /\ leases[e] # k
      /\ \A e \in Callers \ {d} : Releasing(e) => call[e].conn # k
  BY DEF SInv, ReleasedAlone
<1> QED
  BY <1>1 DEF Chooses, FreesNow

LEMMA ReleasedAloneKept ==
    ASSUME IInv, SInv, NEW c \in Callers, CallStep(c)
    PROVE  ReleasedAlone'
<1> DEFINE Alone(d) == LET k == call[d].conn IN
        /\ disconnectOnRelease /\ record[k].leases = {} /\ record[k].status \notin {"NONE", "IDLE", "CONNECTING"}
        /\ \A e \in Callers : (Holds(e) => call[e].conn # k) /\ leases[e] # k
        /\ \A e \in Callers \ {d} : Releasing(e) => call[e].conn # k
<1>0. \A d \in Callers : Releasing(d) => Alone(d) /\ call[d].conn \in Conns
  BY DEF SInv, ReleasedAlone, IInv, LInv, AtWork, Releasing
<1>others. \A d \in Callers \ {c} : /\ Holds(d) <=> Holds(d)'
                                    /\ Releasing(d) <=> Releasing(d)'
                                    /\ Holds(d) \/ TakesOff(d) => call'[d] = call[d]
  <2>1. Others(c)
    BY DEF CallStep
  <2> QED
    BY <2>1, OthersStay DEF Releasing
<1>d. disconnectOnRelease' = disconnectOnRelease
  BY DEF CallStep
<1>ty. leases \in [Callers -> Conns \cup {0}] /\ HoldPcs \cap OffPcs = {} /\ 0 \notin Conns
  BY DEF IInv, TypeOK, HoldPcs, OffPcs, Conns
<1>1. CASE KeepsRecords(c)
  <2>1. record' = record /\ \A e \in Callers : leases'[e] \in {leases[e], 0}
    BY <1>1, <1>ty DEF KeepsRecords
  <2>2. /\ Holds(c)' => Holds(c) /\ call'[c].conn = call[c].conn
        /\ Releasing(c)' => Releasing(c) /\ call'[c].conn = call[c].conn
    BY <1>1, <1>ty DEF KeepsRecords, Rests, Holds, TakesOff, Releasing
  <2>3. \A e \in Callers : /\ Holds(e)' => Holds(e) /\ call'[e].conn = call[e].conn
                           /\ Releasing(e)' => Releasing(e) /\ call'[e].conn = call[e].conn
    BY <2>2, <1>others DEF Releasing
  <2>4. ASSUME NEW d \in Callers, Releasing(d)' PROVE Alone(d)'
    <3>1. Alone(d) /\ call[d].conn \in Conns /\ call'[d].conn = call[d].conn
      BY <1>0, <2>3, <2>4
    <3> QED
      BY <3>1, <2>1, <2>3, <1>d, <1>ty
  <2> QED
    BY <2>4 DEF ReleasedAlone
<1>2. ASSUME NEW k \in Conns, ChangesRecord(c, k) PROVE ReleasedAlone'
  <2>0. \A j \in Conns \ {k} : record'[j] = record[j]
    BY <1>2, RecordMoves
  <2>1. ASSUME NEW d \in Callers \ {c}, Releasing(d)' PROVE Alone(d)'
    <3>1. Alone(d) /\ call[d].conn \in Conns /\ call'[d].conn = call[d].conn /\ Releasing(d)
      BY <1>0, <1>others, <2>1 DEF Releasing
    <3>2. CASE call[d].conn = k
      <4>1. EvictsNow(c, k) \/ (EndsNow(c, k) /\ ~Releasing(c))
        BY <1>2, <3>1, <3>2, ReleasedIsLeftAlone DEF ChangesRecord, HoldsNow, LeasesNow, EndsNow
      <4>2. record'[k].leases = {} /\ record'[k].status \in {"EVICTING", "FAILED"} /\ leases' = leases
        BY <1>2, <3>1, <3>2, <4>1, RecordMoves DEF EvictsNow, EndsNow
      <4>3. ~Holds(c)' /\ ~Releasing(c)'
        BY <4>1, <1>ty DEF EvictsNow, EndsNow, TakesOffNow, Rests, Releasing, Holds, TakesOff
      <4> QED
        BY <3>1, <3>2, <4>2, <4>3, <1>others, <1>d DEF Releasing
    <3>3. CASE call[d].conn # k
      <4>1. record'[call[d].conn] = record[call[d].conn]
        BY <2>0, <3>1, <3>3
      <4>2. \A e \in Callers : leases'[e] \in {leases[e], 0, k}
        BY <1>2, <1>ty DEF ChangesRecord, EvictsNow, HoldsNow, LeasesNow, EndsNow, FreesNow
      <4>3. Holds(c)' \/ Releasing(c)' => call'[c].conn = k
        BY <1>2 DEF ChangesRecord, EvictsNow, HoldsNow, LeasesNow, EndsNow, FreesNow, TakesOffNow, Rests, Releasing, Holds, TakesOff
      <4> QED
        BY <3>1, <3>3, <4>1, <4>2, <4>3, <1>others, <1>d, <1>ty DEF Releasing
    <3> QED
      BY <3>2, <3>3
  <2>2. ASSUME Releasing(c)' PROVE Alone(c)'
    <3>1. FreesNow(c, k) /\ disconnectOnRelease /\ call'[c].conn = k
      BY <1>2, <2>2, <1>ty DEF ChangesRecord, EvictsNow, HoldsNow, LeasesNow, EndsNow, FreesNow, TakesOffNow, Rests, Releasing, Holds, TakesOff
    <3>2. record'[k].leases = {} /\ record'[k].status \in {"EVICTING", "LEASED", "FAILED"}
      BY <1>2, <2>2, <3>1, RecordMoves DEF TakesOffNow, Rests, Releasing
    <3>3. leases[c] = k /\ record[k].leases = {c} /\ leases' = [leases EXCEPT ![c] = 0]
      BY <3>1 DEF FreesNow
    <3>4. \A e \in Callers : leases'[e] # k
      BY <3>3, <1>ty DEF IInv, LInv, LeaseMatches
    <3>5. \A e \in Callers : Holds(e)' => call'[e].conn # k
      <4>1. \A e \in Callers : Holds(e) => call[e].conn # k
        BY <3>3 DEF IInv, LInv, HeldIsFree
      <4>2. ~Holds(c)'
        BY <2>2, <1>ty DEF Releasing, Holds, TakesOff
      <4> QED
        BY <4>1, <4>2, <1>others
    <3>6. \A e \in Callers \ {c} : Releasing(e)' => call'[e].conn # k
      BY <3>3, <1>0, <1>others DEF Releasing
    <3> QED
      BY <3>1, <3>2, <3>4, <3>5, <3>6, <1>d
  <2> QED
    BY <2>1, <2>2 DEF ReleasedAlone
<1> QED
  BY <1>1, <1>2 DEF CallStep

\* A step that would take a leased connection into use finds that it is leased.
LEMMA LeasedInUseKept ==
    ASSUME IInv, SInv, NEW c \in Callers, CallStep(c)
    PROVE  LeasedInUse'
<1>t. leases \in [Callers -> Conns \cup {0}] /\ 0 \notin Conns
  BY DEF IInv, TypeOK, Conns
<1>m. \A d \in Callers : leases[d] # 0 => /\ record[leases[d]].leases = {d}
                                         /\ record[leases[d]].status \notin {"NONE", "IDLE", "CONNECTING"}
  BY DEF IInv, LInv, LeaseMatches, SInv, LeasedInUse
<1> SUFFICES ASSUME NEW d \in Callers, NEW k, k = leases'[d], k # 0
             PROVE  record'[k].status \notin {"NONE", "IDLE", "CONNECTING"}
  BY DEF LeasedInUse
<1>1. CASE KeepsRecords(c)
  <2>1. k = leases[d] /\ record' = record
    BY <1>1, <1>t DEF KeepsRecords
  <2> QED
    BY <1>m, <2>1
<1>2. ASSUME NEW j \in Conns, ChangesRecord(c, j) PROVE record'[k].status \notin {"NONE", "IDLE", "CONNECTING"}
  <2>1. CASE LeasesNow(c, j)
    <3>1. k = j \/ k = leases[d]
      BY <1>t, <2>1 DEF LeasesNow
    <3>2. k = leases[d] => k \in Conns
      BY <1>t
    <3>3. CASE k = j
      BY <1>2, <2>1, <3>3, RecordMoves
    <3>4. CASE k # j
      <4>1. k \in Conns /\ record'[k] = record[k]
        BY <1>2, <3>1, <3>2, <3>4, RecordMoves
      <4>2. record[k].status \notin {"NONE", "IDLE", "CONNECTING"}
        BY <1>m, <3>1, <3>4
      <4> QED
        BY <4>1, <4>2
    <3> QED
      BY <3>3, <3>4
  <2>2. CASE ~LeasesNow(c, j)
    <3>1. k = leases[d] /\ k \in Conns
      BY <1>2, <1>t, <2>2 DEF ChangesRecord, EvictsNow, HoldsNow, EndsNow, FreesNow
    <3>2. CASE k # j
      <4>1. record'[k] = record[k]
        BY <1>2, <3>1, <3>2, RecordMoves
      <4>2. record[k].status \notin {"NONE", "IDLE", "CONNECTING"}
        BY <1>m, <3>1
      <4> QED
        BY <4>1, <4>2
    <3>3. CASE k = j
      <4>1. record[j].leases = {d} /\ leases[d] = j
        BY <1>m, <3>1, <3>3
      <4>2. ~EvictsNow(c, j) /\ ~HoldsNow(c, j)
        BY <4>1 DEF EvictsNow, HoldsNow, Chooses
      <4>3. ~FreesNow(c, j)
        <5>1. ASSUME FreesNow(c, j) PROVE FALSE
          <6>1. d = c /\ leases'[c] = 0
            BY <1>t, <4>1, <5>1 DEF FreesNow
          <6> QED
            BY <6>1
        <5> QED
          BY <5>1
      <4>4. EndsNow(c, j)
        BY <1>2, <2>2, <4>2, <4>3 DEF ChangesRecord
      <4>5. ~Releasing(c)
        BY <4>1, <4>4 DEF EndsNow, SInv, ReleasedAlone
      <4> QED
        BY <1>2, <3>3, <4>4, <4>5, RecordMoves
    <3> QED
      BY <3>2, <3>3
  <2> QED
    BY <2>1, <2>2
<1> QED
  BY <1>1, <1>2 DEF CallStep

LEMMA FailuresKnownKept ==
    ASSUME IInv, SInv, NEW c \in Callers, CallStep(c)
    PROVE  FailuresKnown'
<1>o. Others(c) /\ pooled' = pooled /\ faulty \subseteq faulty' /\ ManagerMoves(c)
  BY DEF CallStep
<1>1. ASSUME NEW k \in Conns, state'[k] = "DISCONNECTING", operation'[k] = "none" PROVE k \in faulty'
  BY <1>o, <1>1 DEF ManagerMoves, SInv, FailuresKnown
<1>2. ASSUME NEW d \in Callers, At(d, "offFailed")' \/ At(d, "connectFailed")', call'[d].conn \in pooled
      PROVE  call'[d].conn \in faulty'
  <2> DEFINE k == call'[d].conn
  <2>1. k \in Conns /\ state[k] # "UNREGISTERED"
    BY <1>2 DEF IInv, TypeOK, SInv, RegisteredPool
  <2>2. CASE d = c
    <3>1. state[k] = "DISCONNECTING" /\ operation[k] = "none"
      BY <1>o, <1>2, <2>1, <2>2 DEF ManagerMoves, At
    <3> QED
      BY <1>o, <2>1, <3>1 DEF SInv, FailuresKnown
  <2>3. CASE d # c
    <3>1. call'[d] = call[d]
      BY <1>o, <1>2, <2>3 DEF Others, Idles, At
    <3> QED
      BY <1>o, <1>2, <3>1 DEF SInv, FailuresKnown, At
  <2> QED
    BY <2>2, <2>3
<1> QED
  BY <1>o, <1>1, <1>2 DEF FailuresKnown

LEMMA StatusExplainedKept ==
    ASSUME IInv, SInv, NEW c \in Callers, CallStep(c)
    PROVE  StatusExplained'
<1>o. /\ Others(c) /\ pooled' = pooled /\ pooled \subseteq Conns /\ disconnectOnRelease' = disconnectOnRelease
      /\ faulty \subseteq faulty'
  BY DEF CallStep, IInv, TypeOK
<1>s. \A k \in pooled : record[k].status \notin {"NONE", "DISPOSED"}
  BY <1>o DEF SInv, RegisteredPool
<1>h. Holds(c) => ~TakesOff(c)
  BY DEF Holds, TakesOff, HoldPcs, OffPcs
<1>f. c \in Callers /\ (Rests(c) => ~Holds(c) /\ ~TakesOff(c)) /\ (Releasing(c) <=> TakesOff(c) /\ call[c].goal = "release")
  BY DEF Rests, Releasing
<1>0. \A k \in pooled : Explained(k)
  BY DEF SInv, StatusExplained
\* Unless c was the one at work on k, somebody still is.
<1>1. ASSUME NEW k \in pooled, record'[k] = record[k],
             (TakesOff(c) /\ call[c].conn = k) => TakesOff(c)' /\ call'[c].conn = k /\ call'[c].goal = call[c].goal,
             ~(Holds(c) /\ call[c].conn = k)
      PROVE  Explained(k)'
  <2>1. Evicting(k) => Evicting(k)'
    BY <1>o, <1>1, OthersStay DEF Evicting
  <2>2. Connecting(k) => Connecting(k)'
    BY <1>o, <1>1, OthersStay DEF Connecting
  <2>3. WorkedOn(k) => WorkedOn(k)'
    BY <1>o, <1>1, OthersStay DEF WorkedOn
  <2>4. Explained(k) /\ (k \in faulty => k \in faulty')
    BY <1>0, <1>1, <1>o
  <2> QED
    BY <1>1, <1>o, <2>1, <2>2, <2>3, <2>4, StillExplained
<1>2. CASE KeepsRecords(c)
  <2> SUFFICES ASSUME NEW k \in pooled
               PROVE  Explained(k)'
    BY <1>o DEF StatusExplained
  <2>1. record'[k] = record[k]
    BY <1>2 DEF KeepsRecords
  <2>2. CASE Rests(c) \/ call[c].conn # k \/ (TakesOff(c)' /\ call'[c].conn = call[c].conn /\ call'[c].goal = call[c].goal)
    <3>1. ~(Holds(c) /\ call[c].conn = k)
      BY <1>2, <1>f, <1>h, <2>2 DEF KeepsRecords, Rests, Holds, TakesOff, HoldPcs, OffPcs
    <3> QED
      BY <1>1, <1>f, <2>1, <2>2, <3>1
  <2>3. CASE Holds(c) /\ record[call[c].conn].status = "DISPOSED"
    BY <1>1, <1>h, <1>s, <2>1, <2>3
  <2>4. CASE Releasing(c) /\ At(c, "offFailed") /\ call[c].conn = k
    <3>1. disconnectOnRelease /\ record[k].status # "CONNECTING"
      BY <2>4 DEF SInv, ReleasedAlone
    <3>2. k \in faulty'
      BY <1>o, <2>4 DEF SInv, FailuresKnown
    <3>3. record[k].status = "EVICTING" => Evicting(k)'
      <4> SUFFICES ASSUME record[k].status = "EVICTING" PROVE Evicting(k)'
        OBVIOUS
      <4>1. PICK d \in Callers : call[d].conn = k /\ TakesOff(d) /\ call[d].goal # "release"
        BY <1>0 DEF Explained, Evicting
      <4>2. d # c
        BY <4>1, <2>4, <1>f
      <4> QED
        BY <1>o, <4>1, <4>2, OthersStay DEF Evicting
    <3> QED
      BY <1>o, <2>1, <3>1, <3>2, <3>3 DEF Explained
  <2> QED
    BY <1>2, <2>2, <2>3, <2>4 DEF KeepsRecords
<1>3. ASSUME NEW j \in Conns, ChangesRecord(c, j) PROVE StatusExplained'
  <2>0. \A k \in pooled : k # j => record'[k] = record[k]
    BY <1>o, <1>3, RecordMoves
  <2>1. Rests(c) \/ call[c].conn = j
    BY <1>3 DEF ChangesRecord, EvictsNow, HoldsNow, LeasesNow, EndsNow, FreesNow, Free, Chooses
  <2>2. ASSUME NEW k \in pooled, k # j PROVE Explained(k)'
    <3>1. record'[k] = record[k] /\ ~(Holds(c) /\ call[c].conn = k) /\ ~(TakesOff(c) /\ call[c].conn = k)
      BY <1>f, <2>0, <2>1, <2>2
    <3> QED
      BY <1>1, <3>1
  <2>3. ASSUME j \in pooled PROVE Explained(j)'
    <3>1. CASE EvictsNow(c, j)
      <4>1. Evicting(j)'
        BY <3>1 DEF EvictsNow, TakesOffNow, Evicting
      <4> QED
        BY <1>3, <3>1, <4>1, RecordMoves DEF Explained
    <3>2. CASE HoldsNow(c, j)
      <4>1. Connecting(j)'
        BY <3>2 DEF HoldsNow, Connecting
      <4> QED
        BY <1>3, <3>2, <4>1, RecordMoves DEF Explained
    <3>3. CASE LeasesNow(c, j) \/ EndsNow(c, j)
      BY <1>3, <2>3, <3>3, RecordMoves DEF Explained
    <3>4. CASE FreesNow(c, j)
      <4>1. CASE record'[j].status = "IDLE"
        BY <4>1 DEF Explained
      <4>2. CASE record'[j].status = "EVICTING" /\ TakesOffNow(c, j, FALSE)
        <5>1. Evicting(j)'
          BY <4>2 DEF TakesOffNow, Evicting
        <5> QED
          BY <4>2, <5>1 DEF Explained
      <4>3. CASE record'[j].status \in {record[j].status} \cap {"LEASED", "EVICTING", "FAILED"} /\ TakesOffNow(c, j, TRUE)
        <5>1. WorkedOn(j)'
          BY <4>3 DEF TakesOffNow, WorkedOn
        <5>2. record'[j].status = "EVICTING" => Evicting(j)'
          <6> SUFFICES ASSUME record'[j].status = "EVICTING" PROVE Evicting(j)'
            OBVIOUS
          <6>1. PICK d \in Callers : call[d].conn = j /\ TakesOff(d) /\ call[d].goal # "release"
            BY <1>0, <2>3, <4>3 DEF Explained, Evicting
          <6>2. d # c
            BY <1>f, <3>4, <6>1 DEF FreesNow
          <6> QED
            BY <1>o, <6>1, <6>2, OthersStay DEF Evicting
        <5> QED
          BY <4>3, <5>1, <5>2 DEF Explained
      <4> QED
        BY <1>3, <3>4, <4>1, <4>2, <4>3, RecordMoves
    <3> QED
      BY <1>3, <3>1, <3>2, <3>3, <3>4 DEF ChangesRecord
  <2> QED
    BY <1>o, <2>2, <2>3 DEF StatusExplained
<1> QED
  BY <1>2, <1>3 DEF CallStep

LEMMA CallStepKept ==
    ASSUME IInv, SInv, NEW c \in Callers, CallStep(c)
    PROVE  SInv'
  BY OperationsAwaitedKept, RegisteredPoolKept, ReleasedAloneKept, LeasedInUseKept, FailuresKnownKept,
     StatusExplainedKept DEF SInv

-----------------------------------------------------------------------------
(* The actions that are steps of a caller *)

\* Only the call of c changes, and c does no work before or after.
LEMMA RestingStep ==
    ASSUME IInv, NEW c \in Callers, NEW y \in Calls, call' = [call EXCEPT ![c] = y],
           Rests(c), y.pc \notin HoldPcs \cup OffPcs,
           UNCHANGED <<record, leases, pooled, manager, disconnectOnRelease, faulty>>
    PROVE  CallStep(c)
<1>1. call'[c] = y /\ \A d \in Callers \ {c} : call'[d] = call[d]
  BY DEF IInv, TypeOK
<1>2. Rests(c)' /\ y.pc \notin {"offFailed", "connectFailed"}
  BY <1>1 DEF Rests, Holds, TakesOff, HoldPcs, OffPcs
<1>3. ManagerMoves(c)
  BY <1>1, <1>2, UnchangedMoves
<1> QED
  BY <1>1, <1>2, <1>3 DEF CallStep, KeepsRecords, Others, Rests, Holds, TakesOff, HoldPcs, OffPcs, At

LEMMA ResultOf ==
    ASSUME IInv, NEW c \in Callers, NEW k, NEW x, NEW pcs, GoesOnFrom(c, k, x, pcs)
    PROVE  /\ call'[c].pc \in pcs /\ call'[c].conn = k /\ call'[c].goal = x.goal /\ call'[c].exchange = x.exchange
           /\ \A d \in Callers \ {c} : call'[d] = call[d]
  BY DEF GoesOnFrom, IInv, TypeOK

LEMMA EvictsIsCallStep ==
    ASSUME IInv, NEW c \in Callers, NEW k \in Conns, NEW x \in Calls, Evicts(c, k, x), x.goal # "release",
           Rests(c) \/ (Holds(c) /\ call[c].conn = k /\ record[k].leases = {} /\ ~At(c, "connecting")),
           UNCHANGED <<leases, pooled, disconnectOnRelease, faulty>>
    PROVE  CallStep(c)
<1>m. ManagerMoves(c)
  BY EvictsMoves
<1>c. ~At(c, "connecting") /\ ~At(c, "disconnecting")
  BY DEF Rests, Holds, TakesOff, HoldPcs, OffPcs, At
<1>1. Refused(c, k, x) \/ Begins(c, k, x)
  BY EvictsEffect DEF IInv, TypeOK, ManagerType
<1>2. CASE Begins(c, k, x)
  <2>1. /\ call'[c].pc \in OffPcs /\ call'[c].conn = k /\ call'[c].goal = x.goal
        /\ \A d \in Callers \ {c} : call'[d] = call[d]
    BY <1>2, ResultOf DEF Begins
  <2>2. EvictsNow(c, k)
    BY <1>2, <2>1 DEF EvictsNow, Begins, Free, TakesOffNow, TakesOff
  <2> QED
    BY <1>c, <1>m, <2>1, <2>2 DEF CallStep, Others, ChangesRecord
<1>3. CASE Refused(c, k, x) /\ Rests(c)
  <2>1. call'[c].pc = "evictFailed" /\ \A d \in Callers \ {c} : call'[d] = call[d]
    BY <1>3, ResultOf DEF Refused
  <2>2. Rests(c)'
    BY <2>1 DEF Rests, Holds, TakesOff, HoldPcs, OffPcs
  <2> QED
    BY <1>c, <1>m, <1>3, <2>1, <2>2 DEF CallStep, Others, KeepsRecords, Refused
<1>4. CASE Refused(c, k, x) /\ ~Rests(c)
  <2>1. record[k].leases = {}
    BY <1>4
  <2>2. Begins(c, k, x)
    <3> DEFINE y == [x EXCEPT !.conn = k, !.forced = FALSE]
    <3>1. y \in Calls /\ y.conn = k /\ y.exchange = x.exchange /\ y.goal = x.goal
      BY DEF Calls
    <3>2. Becomes(k, "EVICTING") /\ Meets(k, c) /\ (Disconnects(c, k, y) \/ Unregisters(c, k, y))
      BY <2>1 DEF Evicts
    <3>3. GoesOnFrom(c, k, y, OffPcs)
      BY <3>1, <3>2, DisconnectsEffect, UnregistersEffect DEF IInv, TypeOK, ManagerType
    <3> QED
      BY <2>1, <3>1, <3>2, <3>3 DEF Begins, GoesOnFrom
  <2> QED
    BY <1>2, <2>2
<1> QED
  BY <1>1, <1>2, <1>3, <1>4

LEMMA GrantsIsCallStep ==
    ASSUME IInv, NEW c \in Callers, NEW k \in Conns, NEW x \in Calls, Grants(c, k, x), Chooses(c, k),
           ~At(c, "connecting"), UNCHANGED <<pooled, manager, disconnectOnRelease, faulty>>
    PROVE  CallStep(c)
<1>1. call'[c].pc = "granted" /\ \A d \in Callers \ {c} : call'[d] = call[d]
  BY DEF Grants, Goes, IInv, TypeOK, Calls
<1>2. Rests(c)'
  BY <1>1 DEF Rests, Holds, TakesOff, HoldPcs, OffPcs
<1>3. ManagerMoves(c)
  BY <1>1, UnchangedMoves
<1>4. LeasesNow(c, k)
  BY <1>2 DEF LeasesNow, Grants
<1>5. ~At(c, "disconnecting")
  BY DEF Chooses, Rests, Holds, TakesOff, HoldPcs, OffPcs, At
<1> QED
  BY <1>1, <1>3, <1>4, <1>5 DEF CallStep, Others, ChangesRecord

LEMMA UsesIsCallStep ==
    ASSUME IInv, SInv, NEW c \in Callers, NEW k \in Conns, NEW x \in Calls, Uses(c, k, x), Chooses(c, k),
           ~At(c, "connecting"), UNCHANGED <<pooled, disconnectOnRelease, faulty>>
    PROVE  CallStep(c)
<1>c. ~At(c, "disconnecting")
  BY DEF Chooses, Rests, Holds, TakesOff, HoldPcs, OffPcs, At
<1>1. CASE record[k].status = "DISPOSED" /\ Goes(c, [x EXCEPT !.pc = "acquireFailed"]) /\ UNCHANGED <<record, leases, manager>>
  <2>1. call'[c].pc = "acquireFailed" /\ \A d \in Callers \ {c} : call'[d] = call[d]
    BY <1>1 DEF Goes, IInv, TypeOK, Calls
  <2>2. Rests(c)'
    BY <2>1 DEF Rests, Holds, TakesOff, HoldPcs, OffPcs
  <2>3. ManagerMoves(c)
    BY <1>1, <2>1, UnchangedMoves
  <2>4. KeepsRecords(c)
    BY <1>1, <2>2 DEF KeepsRecords, Chooses
  <2> QED
    BY <1>c, <2>1, <2>3, <2>4 DEF CallStep, Others
<1>2. CASE Grants(c, k, x) /\ UNCHANGED manager
  BY <1>2, GrantsIsCallStep
<1>3. CASE Becomes(k, "CONNECTING") /\ Connects(c, k, [x EXCEPT !.conn = k]) /\ UNCHANGED leases
  <2> DEFINE z == [x EXCEPT !.conn = k]
  <2>1. z \in Calls /\ z.conn = k
    BY DEF Calls
  <2>2. ManagerMoves(c) /\ GoesOnFrom(c, k, z, HoldPcs)
    BY <1>3, <2>1, ConnectsMoves, ConnectsEffect DEF IInv, TypeOK, ManagerType
  <2>3. call'[c].pc \in HoldPcs /\ call'[c].conn = k /\ \A d \in Callers \ {c} : call'[d] = call[d]
    BY <2>2, ResultOf
  <2>4. HoldsNow(c, k)
    BY <1>3, <2>3 DEF HoldsNow, Holds
  <2> QED
    BY <1>c, <2>2, <2>3, <2>4 DEF CallStep, Others, ChangesRecord
<1> QED
  BY <1>1, <1>2, <1>3 DEF Uses

LEMMA MakesRoomIsCallStep ==
    ASSUME IInv, NEW c \in Callers, NEW x \in Calls, NEW goal \in {"room", "slot"}, NEW candidates \in SUBSET Conns,
           MakesRoom(c, x, goal, candidates), Rests(c), UNCHANGED <<leases, pooled, disconnectOnRelease, faulty>>
    PROVE  CallStep(c)
<1>1. CASE Goes(c, [x EXCEPT !.pc = "acquireFailed"]) /\ UNCHANGED <<record, manager, overtaken>>
  <2>1. [x EXCEPT !.pc = "acquireFailed"] \in Calls /\ [x EXCEPT !.pc = "acquireFailed"].pc \notin HoldPcs \cup OffPcs
    BY DEF Calls, Pcs, Resumable, HoldPcs, OffPcs
  <2> QED
    BY <1>1, <2>1, RestingStep DEF Goes
<1>2. ASSUME NEW k \in candidates, Evicts(c, k, [x EXCEPT !.goal = goal]) PROVE CallStep(c)
  <2>1. [x EXCEPT !.goal = goal] \in Calls /\ [x EXCEPT !.goal = goal].goal = goal
    BY DEF Calls
  <2> QED
    BY <1>2, <2>1, EvictsIsCallStep
<1> QED
  BY <1>1, <1>2 DEF MakesRoom

LEMMA CreatesAtLimitIsCallStep ==
    ASSUME IInv, NEW c \in Callers, NEW x \in Calls, CreatesAtLimit(c, x), Rests(c),
           UNCHANGED <<leases, pooled, disconnectOnRelease, faulty>>
    PROVE  CallStep(c)
<1>1. CASE MakesRoom(c, x, "slot", Candidates(Unused))
  BY <1>1, MakesRoomIsCallStep, CandidatesType
<1>2. CASE /\ Goes(c, [x EXCEPT !.pc = "creating", !.goal = "none", !.conn = 0])
           /\ UNCHANGED <<record, manager, overtaken>>
  <2> DEFINE y == [x EXCEPT !.pc = "creating", !.goal = "none", !.conn = 0]
  <2>1. y \in Calls /\ y.pc \notin HoldPcs \cup OffPcs
    BY DEF Calls, Pcs, Resumable, HoldPcs, OffPcs
  <2> QED
    BY <1>2, <2>1, RestingStep DEF Goes
<1> QED
  BY <1>1, <1>2 DEF CreatesAtLimit

LEMMA AcquiresIsCallStep ==
    ASSUME IInv, SInv, NEW c \in Callers, NEW x \in Calls, x.exchange \in Exchanges, Acquires(c, x), Rests(c),
           UNCHANGED <<pooled, disconnectOnRelease, faulty>>
    PROVE  CallStep(c)
<1>1. ASSUME NEW p \in {"waiting", "acquireFailed"}, Goes(c, [x EXCEPT !.pc = p]),
             UNCHANGED <<record, leases, manager>>
      PROVE  CallStep(c)
  <2>1. [x EXCEPT !.pc = p] \in Calls /\ [x EXCEPT !.pc = p].pc \notin HoldPcs \cup OffPcs
    BY DEF Calls, Pcs, Resumable, HoldPcs, OffPcs
  <2> QED
    BY <1>1, <2>1, RestingStep DEF Goes
<1>2. ASSUME NEW k \in Reusable(x.exchange), pending[x.exchange] = None, Uses(c, k, x) PROVE CallStep(c)
  <2>1. k \in Conns /\ record[k].status = "IDLE" /\ record[k].leases = {}
    BY DEF Reusable, Unused, IInv, TypeOK
  <2>2. \A d \in Callers : leases[d] # k
    BY <2>1 DEF IInv, LInv, LeaseMatches, Conns
  <2>3. Chooses(c, k) /\ ~At(c, "connecting")
    BY <2>1, <2>2 DEF Chooses, Rests, Holds, HoldPcs, At
  <2> QED
    BY <1>2, <2>1, <2>3, UsesIsCallStep
<1>3. CASE UNCHANGED leases /\ Creates(c, x)
  <2>1. Candidates(Unused \cap Of(x.exchange)) \in SUBSET Conns
    BY CandidatesType
  <2> QED
    BY <1>3, <2>1, MakesRoomIsCallStep, CreatesAtLimitIsCallStep DEF Creates
<1> QED
  BY <1>1, <1>2, <1>3 DEF Acquires

\* An idle caller asks the pool for something.
LEMMA AsksIsCallStep ==
    ASSUME IInv, SInv, NEW c \in Callers, Asks(c)
    PROVE  CallStep(c)
<1>r. Rests(c)
  BY DEF Asks, Acquire, EvictConnection, CleanupIdleConnections, Release, At, Rests, Holds, TakesOff, HoldPcs, OffPcs
<1>d. disconnectOnRelease' = disconnectOnRelease /\ faulty' = faulty
  BY DEF Asks
<1>1. ASSUME NEW e \in Exchanges, NEW reuseOnly \in BOOLEAN, Acquire(c, e, reuseOnly) PROVE CallStep(c)
  <2> DEFINE x == [Idle EXCEPT !.exchange = e, !.reuseOnly = reuseOnly]
  <2>1. x \in Calls /\ x.exchange = e
    BY DEF Idle, Calls, Pcs
  <2> QED
    BY <1>1, <1>r, <1>d, <2>1, AcquiresIsCallStep DEF Acquire
<1>2. ASSUME NEW k \in Conns, EvictConnection(c, k) PROVE CallStep(c)
  <2>1. [Idle EXCEPT !.goal = "manual"] \in Calls /\ [Idle EXCEPT !.goal = "manual"].goal = "manual"
    BY DEF Idle, Calls, Pcs
  <2> QED
    BY <1>2, <1>r, <1>d, <2>1, EvictsIsCallStep DEF EvictConnection
<1>3. ASSUME NEW S \in SUBSET Unused, CleanupIdleConnections(c, S) PROVE CallStep(c)
  <2>1. PICK k \in S : Evicts(c, k, [Idle EXCEPT !.goal = "sweep", !.todo = S \ {k}])
    BY <1>3 DEF CleanupIdleConnections
  <2> DEFINE x == [Idle EXCEPT !.goal = "sweep", !.todo = S \ {k}]
  <2>2. S \subseteq Conns
    BY CandidatesType
  <2>3. x \in Calls /\ x.goal = "sweep" /\ k \in Conns
    BY <2>2 DEF Idle, Calls, Pcs
  <2> QED
    BY <1>3, <1>r, <1>d, <2>1, <2>3, EvictsIsCallStep DEF CleanupIdleConnections
<1>4. CASE Release(c)
  <2> DEFINE k == leases[c]
             x(goal) == [Idle EXCEPT !.conn = k, !.goal = goal]
  <2>1. /\ k \in Conns /\ leases' = [leases EXCEPT ![c] = 0] /\ UNCHANGED pooled /\ call \in [Callers -> Calls]
        /\ record[k].leases = {c} /\ ~At(c, "connecting") /\ ~At(c, "disconnecting")
    BY <1>4 DEF Release, IInv, TypeOK, LInv, LeaseMatches, At
  <2>2. ASSUME Returns(c), UNCHANGED manager
        PROVE  ManagerMoves(c) /\ Others(c) /\ Rests(c)'
    <3>1. call'[c] = Idle /\ \A d \in Callers \ {c} : call'[d] = call[d]
      BY <2>1, <2>2 DEF Returns, Goes
    <3>2. Rests(c)' /\ call'[c].pc \notin {"offFailed", "connectFailed"}
      BY <3>1, IdleIsAway DEF Rests, Holds, TakesOff, Idle
    <3> QED
      BY <2>2, <3>1, <3>2, UnchangedMoves DEF Others
  <2>3. CASE k \notin pooled
    <3>1. Returns(c) /\ UNCHANGED <<record, manager>>
      BY <1>4, <2>3 DEF Release
    <3> QED
      BY <1>r, <1>d, <2>1, <2>2, <3>1 DEF CallStep, KeepsRecords
  <2>4. ASSUME Leaves(c, k, "IDLE"), Returns(c), UNCHANGED manager
        PROVE  CallStep(c)
    BY <1>r, <1>d, <2>1, <2>2, <2>4 DEF CallStep, ChangesRecord, FreesNow
  <2>5. ASSUME NEW goal \in {"release", "manual"}, Disconnects(c, k, x(goal)),
               \/ goal = "manual" /\ Leaves(c, k, "EVICTING")
               \/ /\ goal = "release" /\ disconnectOnRelease
                  /\ Leaves(c, k, record[k].status) /\ record[k].status \in {"LEASED", "EVICTING", "FAILED"}
        PROVE  CallStep(c)
    <3>1. x(goal) \in Calls /\ x(goal).conn = k /\ x(goal).goal = goal
      BY <2>1 DEF Idle, Calls, Pcs
    <3>2. ManagerMoves(c) /\ GoesOnFrom(c, k, x(goal), OffPcs)
      BY <2>1, <2>5, <3>1, DisconnectsMoves, DisconnectsEffect DEF IInv, TypeOK, ManagerType
    <3>3. /\ call'[c].pc \in OffPcs /\ call'[c].conn = k /\ call'[c].goal = goal
          /\ \A d \in Callers \ {c} : call'[d] = call[d]
      <4> HIDE DEF k, x
      <4> QED
        BY <3>1, <3>2, ResultOf
    <3>4. FreesNow(c, k)
      <4> HIDE DEF k, x
      <4>1. TakesOff(c)' /\ TakesOffNow(c, k, goal = "release") /\ leases[c] = k
        BY <3>3 DEF TakesOffNow, TakesOff, k
      <4>2. CASE goal = "manual" /\ Leaves(c, k, "EVICTING")
        BY <1>r, <2>1, <4>1, <4>2 DEF FreesNow, TakesOffNow
      <4>3. CASE /\ goal = "release" /\ disconnectOnRelease
                 /\ Leaves(c, k, record[k].status) /\ record[k].status \in {"LEASED", "EVICTING", "FAILED"}
        BY <1>r, <2>1, <4>1, <4>3 DEF FreesNow, TakesOffNow
      <4> QED
        BY <2>5, <4>2, <4>3
    <3> QED
      BY <1>d, <2>1, <3>2, <3>3, <3>4 DEF CallStep, Others, ChangesRecord
  <2>6. CASE k \in pooled
    <3>1. record[k].leases \ {c} = {}
      BY <2>1
    <3>2. CASE EvictFailed /\ state[k] = "FAILED"
      BY <1>4, <2>5, <2>6, <3>1, <3>2 DEF Release
    <3>5. record[k].status \in {"LEASED", "EVICTING", "FAILED"}
      BY <2>1, <2>6 DEF IInv, TypeOK, SInv, RegisteredPool, LeasedInUse, Statuses, Conns
    <3>3. CASE ~(EvictFailed /\ state[k] = "FAILED") /\ disconnectOnRelease /\ RequiresDisconnection(k)
      BY <1>4, <2>5, <2>6, <3>1, <3>3, <3>5 DEF Release
    <3>4. CASE ~(EvictFailed /\ state[k] = "FAILED") /\ ~(disconnectOnRelease /\ RequiresDisconnection(k))
      BY <1>4, <2>4, <2>6, <3>1, <3>4 DEF Release
    <3> QED
      BY <3>2, <3>3, <3>4
  <2> QED
    BY <2>3, <2>6
<1> QED
  BY <1>1, <1>2, <1>3, <1>4 DEF Asks

\* A caller goes on.
LEMMA GoesOnIsCallStep ==
    ASSUME IInv, SInv, NEW c \in Callers, GoesOn(c)
    PROVE  CallStep(c)
<1> DEFINE x == call[c]
<1>t. x \in Calls /\ disconnectOnRelease' = disconnectOnRelease /\ faulty' = faulty /\ call \in [Callers -> Calls]
  BY DEF GoesOn, IInv, TypeOK
<1>w. Holds(c) \/ TakesOff(c) => x.conn \in Conns
  BY DEF IInv, LInv, AtWork
<1>1. CASE Again(c)
  <2>1. x.exchange \in Exchanges
    BY <1>1, <1>t DEF Again, At, IInv, LInv, OnlyOne, IsAcquisition, AskPcs, Calls
  <2>2. Rests(c)
    BY <1>1 DEF Again, At, Rests, Holds, TakesOff, HoldPcs, OffPcs
  <2> QED
    BY <1>1, <1>t, <2>1, <2>2, AcquiresIsCallStep DEF Again
<1>2. CASE Created(c) \/ Connected(c)
  <2>1. Holds(c) /\ ~At(c, "connecting")
    BY <1>2 DEF Created, Connected, At, Holds, HoldPcs
  <2>2. Chooses(c, x.conn)
    BY <2>1 DEF Chooses, IInv, LInv, HeldIsFree
  <2> QED
    BY <1>2, <1>t, <1>w, <2>1, <2>2, UsesIsCallStep, GrantsIsCallStep DEF Created, Connected
\* c ends its work on its connection, whose status becomes FAILED.
<1>ends. ASSUME NEW p \in {"evictFailed", "acquireFailed"}, ~Rests(c), ~At(c, "connecting"), ~At(c, "disconnecting"),
                x.conn \in pooled => x.conn \in faulty,
                Becomes(x.conn, "FAILED"), Goes(c, [x EXCEPT !.pc = p]), UNCHANGED <<leases, pooled, manager>>
         PROVE  CallStep(c)
  <2>1. call'[c].pc = p /\ \A d \in Callers \ {c} : call'[d] = call[d]
    BY <1>t, <1>ends DEF Goes, Calls
  <2>2. Rests(c)'
    BY <2>1 DEF Rests, Holds, TakesOff, HoldPcs, OffPcs
  <2>3. ManagerMoves(c)
    BY <1>ends, <2>1, UnchangedMoves
  <2>4. EndsNow(c, x.conn) /\ x.conn \in Conns
    BY <1>t, <1>w, <1>ends, <2>2 DEF EndsNow, Rests
  <2> QED
    BY <1>t, <1>ends, <2>1, <2>3, <2>4 DEF CallStep, Others, ChangesRecord
<1>3. CASE ConnectFailed(c)
  <2>1. Holds(c) /\ ~At(c, "connecting") /\ ~At(c, "disconnecting") /\ ~Rests(c)
    BY <1>3 DEF ConnectFailed, At, Holds, HoldPcs, Rests
  <2>2. CASE record[x.conn].leases = {} /\ Evicts(c, x.conn, [x EXCEPT !.goal = "failure"])
    <3>1. [x EXCEPT !.goal = "failure"] \in Calls /\ [x EXCEPT !.goal = "failure"].goal = "failure"
      BY <1>t DEF Calls
    <3> QED
      BY <1>3, <1>t, <1>w, <2>1, <2>2, <3>1, EvictsIsCallStep DEF ConnectFailed
  <2>3. CASE Becomes(x.conn, "FAILED") /\ Goes(c, [x EXCEPT !.pc = "acquireFailed"]) /\ UNCHANGED manager
    <3>1. x.conn \in pooled => x.conn \in faulty
      BY <1>3 DEF ConnectFailed, SInv, FailuresKnown
    <3> QED
      BY <1>3, <2>1, <2>3, <3>1, <1>ends DEF ConnectFailed
  <2> QED
    BY <1>3, <2>2, <2>3 DEF ConnectFailed
<1>4. CASE Settles(c)
  <2>1. ASSUME NEW d \in Callers
        PROVE  call'[d] = call[d] \/ (call'[d] \in {Idle, [call[d] EXCEPT !.pc = "again"]} /\ (At(d, "waiting") \/ d = c))
    <3>1. call'[d] = IF d = c THEN Idle
                     ELSE IF ~(At(d, "waiting") /\ call[d].exchange = call[c].exchange) THEN call[d]
                     ELSE IF At(c, "granted") THEN [call[d] EXCEPT !.pc = "again"] ELSE Idle
      BY <1>4 DEF Settles
    <3> QED
      BY <3>1
  <2>2. ASSUME NEW d \in Callers PROVE [call[d] EXCEPT !.pc = "again"].pc = "again"
    <3>1. call[d] \in Calls /\ "again" \in Pcs
      BY <1>t DEF Pcs, Resumable
    <3> QED
      BY <3>1, NewPc
  <2>3. Rests(c) /\ \A d \in Callers : At(d, "waiting") => Idles(d)
    BY <1>4 DEF Settles, At, Rests, Idles, Holds, TakesOff, HoldPcs, OffPcs
  <2>4. ASSUME NEW d \in Callers \ {c} PROVE call'[d] = call[d] \/ (Idles(d) /\ call'[d].pc \in {"idle", "again"})
    <3>1. Idle.pc = "idle" /\ [call[d] EXCEPT !.pc = "again"].pc = "again"
      BY <2>2 DEF Idle
    <3>2. CASE call'[d] = call[d]
      BY <3>2
    <3>3. CASE call'[d] # call[d]
      <4>1. Idles(d)
        BY <2>1, <2>3, <3>3
      <4>2. call'[d] = Idle \/ call'[d] = [call[d] EXCEPT !.pc = "again"]
        BY <2>1, <3>3
      <4> QED
        BY <3>1, <4>1, <4>2
    <3> QED
      BY <3>2, <3>3
  <2>5. \A d \in Callers \ {c} : call'[d] = call[d] \/ (Idles(d) /\ Idles(d)')
    BY <2>4 DEF Idles
  <2>6. call'[c].pc = "idle"
    BY <1>4 DEF Settles, Idle
  <2>7. Rests(c)' /\ ManagerMoves(c)
    BY <1>4, <2>6, UnchangedMoves DEF Settles, Rests, Holds, TakesOff, HoldPcs, OffPcs
  <2>8. ~At(c, "connecting") /\ ~At(c, "disconnecting")
    BY <1>4 DEF Settles, At
  <2> QED
    BY <1>4, <1>t, <2>3, <2>5, <2>7, <2>8 DEF CallStep, Others, KeepsRecords, Settles
<1>5. CASE Off(c) \/ OffRetry(c)
  <2>1. TakesOff(c) /\ ~At(c, "offFailed") /\ ~At(c, "connecting") /\ ~At(c, "disconnecting") /\ UNCHANGED <<pooled, record, leases>>
    BY <1>5 DEF Off, OffRetry, At, TakesOff, OffPcs
  <2>2. ManagerMoves(c) /\ GoesOnFrom(c, x.conn, x, OffPcs)
    <3>1. CASE Goes(c, [x EXCEPT !.pc = "disposing"]) /\ UNCHANGED manager
      <4>1. "disposing" \in OffPcs
        BY DEF OffPcs
      <4>2. GoesOnFrom(c, x.conn, x, OffPcs)
        BY <1>t, <3>1, <4>1, GoesEffect, PcSets
      <4> QED
        BY <1>t, <3>1, <4>1, <4>2, PcSets, NewCall, UnchangedMoves
    <3>2. CASE Unregisters(c, x.conn, x) \/ Disconnects(c, x.conn, x)
      BY <1>t, <1>w, <2>1, <3>2, UnregistersMoves, DisconnectsMoves, UnregistersEffect, DisconnectsEffect
         DEF IInv, TypeOK, ManagerType
    <3> QED
      BY <1>5, <3>1, <3>2 DEF Off, OffRetry
  <2>3. /\ call'[c].pc \in OffPcs /\ call'[c].conn = x.conn /\ call'[c].goal = x.goal
        /\ \A d \in Callers \ {c} : call'[d] = call[d]
    BY <2>2, ResultOf
  <2>4. KeepsRecords(c)
    BY <2>1, <2>3 DEF KeepsRecords, TakesOff
  <2> QED
    BY <1>t, <2>1, <2>2, <2>3, <2>4 DEF CallStep, Others
<1>6. CASE OffFailed(c)
  <2>1. /\ ~Rests(c) /\ ~At(c, "connecting") /\ ~At(c, "disconnecting")
        /\ x.conn \in pooled => x.conn \in faulty
    BY <1>6 DEF OffFailed, At, Rests, TakesOff, OffPcs, SInv, FailuresKnown
  <2> QED
    BY <1>6, <2>1, <1>ends DEF OffFailed
<1>7. CASE Released(c)
  <2>1. /\ Releasing(c) /\ ~Rests(c) /\ ~At(c, "connecting") /\ ~At(c, "disconnecting")
        /\ UNCHANGED <<pooled, leases, manager>>
    BY <1>7 DEF Released, At, Rests, TakesOff, OffPcs, Releasing
  <2>2. call'[c] = Idle /\ \A d \in Callers \ {c} : call'[d] = call[d]
    BY <1>7, <1>t DEF Released, Returns, Goes
  <2>3. Rests(c)' /\ call'[c].pc \notin {"offFailed", "connectFailed"}
    BY <2>2, IdleIsAway DEF Rests, Holds, TakesOff, Idle
  <2>4. ManagerMoves(c)
    BY <2>1, <2>3, UnchangedMoves
  <2>5. KeepsRecords(c) \/ EndsNow(c, x.conn)
    BY <1>7, <2>1, <2>3 DEF Released, KeepsRecords, EndsNow, At
  <2> QED
    BY <1>t, <1>w, <2>1, <2>2, <2>4, <2>5 DEF CallStep, Others, ChangesRecord, Rests
<1>r. ASSUME x.pc \in {"evicted", "evictFailed"} PROVE Rests(c)
  BY <1>r DEF Rests, Holds, TakesOff, HoldPcs, OffPcs
<1>8. CASE Evicted(c)
  <2>1. CASE CreatesAtLimit(c, x)
    BY <1>8, <1>t, <1>r, <2>1, CreatesAtLimitIsCallStep DEF Evicted, At
  <2>2. ASSUME NEW p \in {"creating", "acquireFailed"}, Goes(c, [x EXCEPT !.pc = p, !.goal = "none", !.conn = 0]),
               UNCHANGED <<record, manager, overtaken>>
        PROVE  CallStep(c)
    <3> DEFINE y == [x EXCEPT !.pc = p, !.goal = "none", !.conn = 0]
    <3>1. y \in Calls /\ y.pc \notin HoldPcs \cup OffPcs
      BY <1>t DEF Calls, Pcs, Resumable, HoldPcs, OffPcs
    <3> QED
      BY <1>8, <1>t, <1>r, <2>2, <3>1, RestingStep DEF Evicted, At, Goes
  <2> QED
    BY <1>8, <2>1, <2>2 DEF Evicted
<1>9. CASE EvictionFailed(c)
  <2>1. [x EXCEPT !.pc = "acquireFailed"] \in Calls /\ [x EXCEPT !.pc = "acquireFailed"].pc \notin HoldPcs \cup OffPcs
    BY <1>t DEF Calls, Pcs, Resumable, HoldPcs, OffPcs
  <2> QED
    BY <1>9, <1>t, <1>r, <2>1, RestingStep DEF EvictionFailed, At, Goes
<1>10. CASE EvictionReturns(c)
  <2>1. CASE Returns(c) /\ UNCHANGED <<record, manager, overtaken>>
    BY <1>10, <1>t, <1>r, <2>1, IdleIsAway, RestingStep DEF EvictionReturns, Returns, Goes
  <2>2. ASSUME NEW k \in x.todo, Evicts(c, k, [x EXCEPT !.todo = @ \ {k}]) PROVE CallStep(c)
    <3>1. [x EXCEPT !.todo = @ \ {k}] \in Calls /\ [x EXCEPT !.todo = @ \ {k}].goal = x.goal /\ k \in Conns
      BY <1>t DEF Calls
    <3> QED
      BY <1>10, <1>t, <1>r, <2>2, <3>1, EvictsIsCallStep DEF EvictionReturns
  <2> QED
    BY <1>10, <2>1, <2>2 DEF EvictionReturns
<1> QED
  BY <1>1, <1>2, <1>3, <1>4, <1>5, <1>6, <1>7, <1>8, <1>9, <1>10 DEF GoesOn

-----------------------------------------------------------------------------
(* The steps of the factory and of the connections *)

LEMMA QuietIsNotFailed == Quiet => \A c \in Callers : ~At(c, "offFailed") /\ ~At(c, "connectFailed")
  BY DEF Quiet, Resumable, At

LEMMA MadeKept ==
    ASSUME IInv, SInv, NEW c \in Callers, At(c, "creating"), Quiet, NEW k \in Conns, record[k].status = "NONE", Made(c, k),
           UNCHANGED <<leases, operation, disconnectOnRelease, faulty>>
    PROVE  SInv'
<1>1. /\ call'[c].pc = "created" /\ call'[c].conn = k /\ \A d \in Callers \ {c} : call'[d] = call[d]
      /\ state'[k] = "REGISTERED" /\ \A j \in Conns \ {k} : state'[j] = state[j] /\ record'[j] = record[j]
      /\ record'[k].status = "IDLE" /\ pooled' = pooled \cup {k}
  BY DEF Made, Goes, IInv, TypeOK, Calls
<1>2. \A d \in Callers : (Holds(d) \/ TakesOff(d)) => call[d].conn \in Conns \ {k} /\ d # c
  BY DEF IInv, LInv, AtWork, At, Holds, TakesOff, HoldPcs, OffPcs
<1>3. \A d \in Callers : Holds(d) \/ TakesOff(d) => call'[d] = call[d]
  BY <1>1, <1>2
<1>4. \A d \in Callers : /\ TakesOff(d)' <=> TakesOff(d)
                         /\ Holds(d)' <=> Holds(d) \/ d = c
  BY <1>1, <1>2 DEF Holds, TakesOff, HoldPcs, OffPcs
<1>5. \A d \in Callers : Releasing(d)' <=> Releasing(d)
  BY <1>3, <1>4 DEF Releasing
<1>6. RegisteredPool'
  BY <1>1 DEF RegisteredPool, SInv
<1>7. OperationsAwaited'
  <2>1. operation[k] = "none"
    <3>1. ~(\E d \in Callers : call[d].conn = k /\ (At(d, "connecting") \/ At(d, "disconnecting")))
      BY <1>2 DEF At, Holds, TakesOff, HoldPcs, OffPcs
    <3> QED
      BY <3>1 DEF SInv, OperationsAwaited, IInv, TypeOK
  <2>2. \A d \in Callers : At(d, "connecting") \/ At(d, "disconnecting") => call'[d] = call[d]
    BY <1>3 DEF At, Holds, TakesOff, HoldPcs, OffPcs
  <2>3. ASSUME NEW j \in Conns, operation'[j] = "connect" PROVE \E d \in Callers : call'[d].conn = j /\ At(d, "connecting")'
    <3>1. PICK d \in Callers : call[d].conn = j /\ At(d, "connecting")
      BY <2>3 DEF SInv, OperationsAwaited
    <3> QED
      BY <2>2, <3>1 DEF At
  <2>4. ASSUME NEW j \in Conns, operation'[j] = "disconnect"
        PROVE  \E d \in Callers : call'[d].conn = j /\ At(d, "disconnecting")'
    <3>1. PICK d \in Callers : call[d].conn = j /\ At(d, "disconnecting")
      BY <2>4 DEF SInv, OperationsAwaited
    <3> QED
      BY <2>2, <3>1 DEF At
  <2> QED
    BY <2>3, <2>4 DEF OperationsAwaited
<1>8. ReleasedAlone'
  <2> SUFFICES ASSUME NEW d \in Callers, Releasing(d)', NEW j, j = call'[d].conn
               PROVE  /\ disconnectOnRelease' /\ record'[j].leases = {} /\ record'[j].status \notin {"NONE", "IDLE", "CONNECTING"}
                      /\ \A e \in Callers : (Holds(e)' => call'[e].conn # j) /\ leases'[e] # j
                      /\ \A e \in Callers \ {d} : Releasing(e)' => call'[e].conn # j
    BY DEF ReleasedAlone
  <2>1. Releasing(d) /\ j = call[d].conn /\ j \in Conns \ {k}
    BY <1>2, <1>3, <1>5 DEF Releasing
  <2>2. record'[j] = record[j]
    BY <1>1, <2>1
  <2>3. /\ disconnectOnRelease /\ record[j].leases = {} /\ record[j].status \notin {"NONE", "IDLE", "CONNECTING"}
        /\ \A e \in Callers : (Holds(e) => call[e].conn # j) /\ leases[e] # j
        /\ \A e \in Callers \ {d} : Releasing(e) => call[e].conn # j
    BY <2>1 DEF SInv, ReleasedAlone
  <2>4. \A e \in Callers : Holds(e)' => call'[e].conn # j
    BY <1>1, <1>3, <1>4, <2>1, <2>3
  <2>5. \A e \in Callers \ {d} : Releasing(e)' => call'[e].conn # j
    BY <1>3, <1>5, <2>3 DEF Releasing
  <2> QED
    BY <2>2, <2>3, <2>4, <2>5
<1>l. LeasedInUse'
  <2> SUFFICES ASSUME NEW d \in Callers, leases[d] # 0
               PROVE  record'[leases[d]].status \notin {"NONE", "IDLE", "CONNECTING"}
    BY DEF LeasedInUse
  <2>1. leases[d] \in Conns /\ record[leases[d]].status \notin {"NONE", "IDLE", "CONNECTING"}
    BY DEF IInv, TypeOK, SInv, LeasedInUse
  <2> QED
    BY <1>1, <2>1
<1>9. FailuresKnown'
  <2>1. ASSUME NEW d \in Callers PROVE ~At(d, "offFailed")' /\ ~At(d, "connectFailed")'
    BY <1>1, QuietIsNotFailed DEF At
  <2>2. ASSUME NEW j \in Conns, state'[j] = "DISCONNECTING", operation'[j] = "none" PROVE j \in faulty'
    BY <1>1, <2>2 DEF SInv, FailuresKnown
  <2> QED
    BY <2>1, <2>2 DEF FailuresKnown
<1>10. StatusExplained'
  <2> SUFFICES ASSUME NEW j \in pooled' PROVE Explained(j)'
    BY DEF StatusExplained
  <2>1. CASE j = k
    BY <1>1, <2>1 DEF Explained
  <2>2. CASE j # k
    <3>1. j \in pooled /\ record'[j] = record[j]
      BY <1>1, <2>2 DEF IInv, TypeOK
    <3>2. Evicting(j) => Evicting(j)'
      BY <1>3, <1>4 DEF Evicting
    <3>3. Connecting(j) => Connecting(j)'
      BY <1>3, <1>4 DEF Connecting
    <3>4. WorkedOn(j) => WorkedOn(j)'
      BY <1>3, <1>4 DEF WorkedOn
    <3>5. Explained(j)
      BY <3>1 DEF SInv, StatusExplained
    <3> QED
      BY <3>1, <3>2, <3>3, <3>4, <3>5, StillExplained
  <2> QED
    BY <2>1, <2>2
<1> QED
  BY <1>6, <1>7, <1>8, <1>l, <1>9, <1>10 DEF SInv

LEMMA DisposedKept ==
    ASSUME IInv, SInv, NEW c \in Callers, Disposes(c, TRUE), UNCHANGED disconnectOnRelease
    PROVE  SInv'
<1>1. PICK k \in Conns : k = call[c].conn
  BY DEF Disposes, At, IInv, LInv, AtWork, TakesOff, OffPcs
<1>2. /\ call'[c].pc = "evicted" /\ \A d \in Callers \ {c} : call'[d] = call[d]
      /\ state'[k] = "UNREGISTERED" /\ \A j \in Conns \ {k} : state'[j] = state[j] /\ record'[j] = record[j]
      /\ record'[k].status = "DISPOSED" /\ record'[k].leases = record[k].leases /\ pooled' = pooled \ {k}
      /\ UNCHANGED <<leases, operation>> /\ At(c, "disposing") /\ Quiet /\ faulty' = faulty \ {k}
  BY <1>1 DEF Disposes, Goes, Becomes, Judges, IInv, TypeOK, Calls
<1>3. \A d \in Callers : (Holds(d) \/ TakesOff(d)) /\ d # c => call'[d] = call[d]
  BY <1>2
<1>4. \A d \in Callers : /\ TakesOff(d)' <=> TakesOff(d) /\ d # c
                         /\ Holds(d)' <=> Holds(d) /\ d # c
  BY <1>2 DEF Holds, TakesOff, HoldPcs, OffPcs
<1>5. \A d \in Callers : Releasing(d)' => Releasing(d) /\ d # c
  BY <1>2, <1>4 DEF Releasing
<1>6. RegisteredPool'
  BY <1>2 DEF RegisteredPool, SInv
<1>7. OperationsAwaited'
  <2>1. \A d \in Callers : At(d, "connecting") \/ At(d, "disconnecting") => call'[d] = call[d]
    BY <1>2 DEF At
  <2> QED
    BY <1>2, <2>1 DEF At, SInv, OperationsAwaited
<1>8. ReleasedAlone'
  <2> SUFFICES ASSUME NEW d \in Callers, Releasing(d)', NEW j, j = call'[d].conn
               PROVE  /\ disconnectOnRelease' /\ record'[j].leases = {} /\ record'[j].status \notin {"NONE", "IDLE", "CONNECTING"}
                      /\ \A e \in Callers : (Holds(e)' => call'[e].conn # j) /\ leases'[e] # j
                      /\ \A e \in Callers \ {d} : Releasing(e)' => call'[e].conn # j
    BY DEF ReleasedAlone
  <2>1. Releasing(d) /\ j = call[d].conn /\ j \in Conns
    BY <1>3, <1>5 DEF Releasing, IInv, LInv, AtWork
  <2>2. /\ disconnectOnRelease /\ record[j].leases = {} /\ record[j].status \notin {"NONE", "IDLE", "CONNECTING"}
        /\ \A e \in Callers : (Holds(e) => call[e].conn # j) /\ leases[e] # j
        /\ \A e \in Callers \ {d} : Releasing(e) => call[e].conn # j
    BY <2>1 DEF SInv, ReleasedAlone
  <2>3. record'[j].leases = {} /\ record'[j].status \notin {"NONE", "IDLE", "CONNECTING"}
    BY <1>2, <2>1, <2>2
  <2>4. \A e \in Callers : Holds(e)' => call'[e].conn # j
    BY <1>3, <1>4, <2>2
  <2>5. \A e \in Callers \ {d} : Releasing(e)' => call'[e].conn # j
    BY <1>3, <1>5, <2>2 DEF Releasing
  <2> QED
    BY <1>2, <2>2, <2>3, <2>4, <2>5
<1>l. LeasedInUse'
  <2> SUFFICES ASSUME NEW d \in Callers, leases[d] # 0
               PROVE  record'[leases[d]].status \notin {"NONE", "IDLE", "CONNECTING"}
    BY <1>2 DEF LeasedInUse
  <2>1. leases[d] \in Conns /\ record[leases[d]].status \notin {"NONE", "IDLE", "CONNECTING"}
    BY DEF IInv, TypeOK, SInv, LeasedInUse
  <2> QED
    BY <1>2, <2>1
<1>9. FailuresKnown'
  <2>1. ASSUME NEW d \in Callers PROVE ~At(d, "offFailed")' /\ ~At(d, "connectFailed")'
    BY <1>2, QuietIsNotFailed DEF At
  <2>2. ASSUME NEW j \in Conns, state'[j] = "DISCONNECTING", operation'[j] = "none" PROVE j \in faulty'
    BY <1>2, <2>2 DEF SInv, FailuresKnown
  <2> QED
    BY <2>1, <2>2 DEF FailuresKnown
<1>10. StatusExplained'
  <2> SUFFICES ASSUME NEW j \in pooled' PROVE Explained(j)'
    BY DEF StatusExplained
  <2>1. j \in pooled /\ j # k /\ record'[j] = record[j]
    BY <1>2 DEF IInv, TypeOK
  <2>2. Evicting(j) => Evicting(j)'
    BY <1>1, <1>3, <1>4, <2>1 DEF Evicting
  <2>3. Connecting(j) => Connecting(j)'
    BY <1>1, <1>3, <1>4, <2>1 DEF Connecting
  <2>4. WorkedOn(j) => WorkedOn(j)'
    BY <1>1, <1>3, <1>4, <2>1 DEF WorkedOn
  <2>5. Explained(j) /\ (j \in faulty => j \in faulty')
    BY <1>2, <2>1 DEF SInv, StatusExplained
  <2> QED
    BY <2>1, <2>2, <2>3, <2>4, <2>5, StillExplained
<1> QED
  BY <1>6, <1>7, <1>8, <1>l, <1>9, <1>10 DEF SInv

LEMMA EndsKept ==
    ASSUME IInv, SInv, NEW c \in Callers, Ends(c)
    PROVE  SInv'
<1>t. call[c] \in Calls /\ disconnectOnRelease' = disconnectOnRelease
  BY DEF Ends, IInv, TypeOK
<1>1. CASE FactoryResolves(c, TRUE)
  BY <1>1, <1>t, MadeKept DEF FactoryResolves
<1>2. CASE FactoryResolves(c, FALSE)
  <2> DEFINE y == [call[c] EXCEPT !.pc = "acquireFailed"]
  <2>1. y \in Calls /\ y.pc \notin HoldPcs \cup OffPcs
    BY <1>t DEF Calls, Pcs, Resumable, HoldPcs, OffPcs
  <2>2. Rests(c)
    BY <1>2 DEF FactoryResolves, At, Rests, Holds, TakesOff, HoldPcs, OffPcs
  <2> QED
    BY <1>2, <1>t, <2>1, <2>2, RestingStep, CallStepKept DEF FactoryResolves, Goes, manager
<1>3. CASE Disposes(c, TRUE)
  BY <1>3, <1>t, DisposedKept
<1>4. CASE Disposes(c, FALSE)
  <2>1. /\ At(c, "disposing") /\ Becomes(call[c].conn, "FAILED") /\ UNCHANGED <<pooled, leases, manager>>
        /\ Goes(c, [call[c] EXCEPT !.pc = "evictFailed"])
        /\ faulty' = faulty \cup {call[c].conn}
    BY <1>4 DEF Disposes, Judges, manager
  <2>2. call'[c].pc = "evictFailed" /\ \A d \in Callers \ {c} : call'[d] = call[d]
    BY <1>t, <2>1 DEF Goes, Calls, IInv, TypeOK
  <2>3. Rests(c)' /\ ManagerMoves(c)
    BY <2>1, <2>2, UnchangedMoves DEF Rests, Holds, TakesOff, HoldPcs, OffPcs
  <2>4. EndsNow(c, call[c].conn) /\ call[c].conn \in Conns
    BY <2>1, <2>3 DEF EndsNow, At, Rests, TakesOff, OffPcs, IInv, LInv, AtWork
  <2>5. CallStep(c)
    BY <1>t, <2>1, <2>2, <2>3, <2>4 DEF CallStep, Others, ChangesRecord, At
  <2> QED
    BY <2>5, CallStepKept
<1> QED
  BY <1>1, <1>2, <1>3, <1>4 DEF Ends

\* Whoever is resumed goes on with the same work.
LEMMA ResumedWork ==
    ASSUME IInv, NEW k \in Conns, NEW ok \in BOOLEAN, Resumes(k, ok), NEW d \in Callers
    PROVE  /\ call'[d].conn = call[d].conn /\ call'[d].goal = call[d].goal /\ call'[d].exchange = call[d].exchange
           /\ Holds(d)' <=> Holds(d)
           /\ TakesOff(d)' <=> TakesOff(d)
           /\ call[d].conn # k \/ Rests(d) => call'[d] = call[d]
           /\ At(d, "offFailed")' \/ At(d, "connectFailed")' =>
                 At(d, "offFailed") \/ At(d, "connectFailed") \/ (~ok /\ call[d].conn = k)
<1>1. call[d] \in Calls
  BY DEF IInv, TypeOK
<1>2. \A p \in Resumable : LET y == [call[d] EXCEPT !.pc = p] IN
         y.pc = p /\ y.conn = call[d].conn /\ y.exchange = call[d].exchange /\ y.goal = call[d].goal
  BY <1>1, NewPc, PcSets
<1>3. \/ call'[d] = call[d]
      \/ \E p \in Resumable : /\ call'[d] = [call[d] EXCEPT !.pc = p] /\ call[d].conn = k
                              /\ \/ At(d, "connecting") /\ p \in HoldPcs /\ (p = "connectFailed" => ~ok)
                                 \/ call[d].pc \in {"disconnecting", "queuedOff"} /\ p \in OffPcs /\ (p = "offFailed" => ~ok)
  BY DEF Resumes, At, Resumable, HoldPcs, OffPcs
<1>4. CASE call'[d] = call[d]
  BY <1>4 DEF Holds, TakesOff, At
<1>5. ASSUME NEW p \in Resumable, call'[d] = [call[d] EXCEPT !.pc = p], call[d].conn = k,
             \/ At(d, "connecting") /\ p \in HoldPcs /\ (p = "connectFailed" => ~ok)
             \/ call[d].pc \in {"disconnecting", "queuedOff"} /\ p \in OffPcs /\ (p = "offFailed" => ~ok)
      PROVE  /\ call'[d].conn = call[d].conn /\ call'[d].goal = call[d].goal /\ call'[d].exchange = call[d].exchange
             /\ Holds(d)' <=> Holds(d)
             /\ TakesOff(d)' <=> TakesOff(d)
             /\ ~Rests(d)
             /\ At(d, "offFailed")' \/ At(d, "connectFailed")' => (~ok /\ call[d].conn = k)
  <2>1. /\ call'[d].pc = p /\ call'[d].conn = call[d].conn /\ call'[d].goal = call[d].goal
        /\ call'[d].exchange = call[d].exchange
    BY <1>2, <1>5
  <2> QED
    BY <1>5, <2>1 DEF Rests, Holds, TakesOff, At, HoldPcs, OffPcs
<1> QED
  BY <1>3, <1>4, <1>5

\* What the settling of an operation of k does to the manager's state.
Settled(k, ok) ==
    /\ \A j \in Conns \ {k} : state'[j] = state[j] /\ operation'[j] = operation[j]
    /\ operation[k] \in {"connect", "disconnect"} /\ operation'[k] = "none"
    /\ state'[k] = "UNREGISTERED" <=> state[k] = "UNREGISTERED"
    /\ ok => state'[k] # "DISCONNECTING"
    /\ Judges(k, ok)

LEMMA AnswersSettle ==
    ASSUME IInv, NEW k \in Conns, Answers(k)
    PROVE  \E ok \in BOOLEAN : /\ Settled(k, ok) /\ Resumes(k, ok) /\ Quiet
                               /\ UNCHANGED <<pooled, record, leases, disconnectOnRelease>>
<1>1. state \in [Conns -> States] /\ operation \in [Conns -> {"none", "connect", "disconnect"}]
  BY DEF IInv, TypeOK
<1>2. ASSUME NEW succeeds \in BOOLEAN, ConnectResolves(k, succeeds)
      PROVE  LET ok == succeeds /\ state[k] \in {"CONNECTING", "CONNECTED"} IN Settled(k, ok) /\ Resumes(k, ok)
  BY <1>1, <1>2 DEF ConnectResolves, Settled
<1>3. ASSUME NEW succeeds \in BOOLEAN, DisconnectResolves(k, succeeds)
      PROVE  Settled(k, succeeds /\ state[k] # "UNREGISTERED") /\ Resumes(k, succeeds /\ state[k] # "UNREGISTERED")
  BY <1>1, <1>3 DEF DisconnectResolves, Settled
<1>4. PICK ok \in BOOLEAN : Settled(k, ok) /\ Resumes(k, ok)
  <2>1. PICK succeeds \in BOOLEAN : ConnectResolves(k, succeeds) \/ DisconnectResolves(k, succeeds)
    BY DEF Answers
  <2>2. (succeeds /\ state[k] \in {"CONNECTING", "CONNECTED"}) \in BOOLEAN /\ (succeeds /\ state[k] # "UNREGISTERED") \in BOOLEAN
    OBVIOUS
  <2> QED
    BY <1>2, <1>3, <2>1, <2>2
<1> QED
  BY <1>4 DEF Answers, ConnectResolves, DisconnectResolves

LEMMA AnswersKept ==
    ASSUME IInv, SInv, NEW k \in Conns, Answers(k)
    PROVE  SInv'
<1>1. PICK ok \in BOOLEAN : /\ Settled(k, ok) /\ Resumes(k, ok) /\ Quiet
                            /\ UNCHANGED <<pooled, record, leases, disconnectOnRelease>>
  BY AnswersSettle
<1>2. ASSUME NEW d \in Callers
      PROVE  /\ call'[d].conn = call[d].conn /\ call'[d].goal = call[d].goal
             /\ Holds(d)' <=> Holds(d)
             /\ TakesOff(d)' <=> TakesOff(d)
             /\ call[d].conn # k => call'[d] = call[d]
             /\ At(d, "offFailed")' \/ At(d, "connectFailed")' =>
                   At(d, "offFailed") \/ At(d, "connectFailed") \/ (~ok /\ call[d].conn = k)
             /\ Releasing(d)' <=> Releasing(d)
  BY <1>1, ResumedWork DEF Releasing
<1>3. RegisteredPool'
  BY <1>1 DEF Settled, RegisteredPool, SInv
<1>4. OperationsAwaited'
  <2>1. ASSUME NEW j \in Conns, operation'[j] # "none"
        PROVE  j # k /\ state'[j] = state[j] /\ operation'[j] = operation[j]
    BY <1>1, <2>1 DEF Settled
  <2> QED
    BY <1>2, <2>1 DEF SInv, OperationsAwaited, At
<1>5. ReleasedAlone'
  BY <1>1, <1>2 DEF SInv, ReleasedAlone
<1>l. LeasedInUse'
  BY <1>1 DEF SInv, LeasedInUse
<1>f. \A j \in Conns \ {k} : j \in faulty' <=> j \in faulty
  BY <1>1 DEF Settled, Judges
<1>6. FailuresKnown'
  <2>1. ASSUME NEW d \in Callers, At(d, "offFailed")' \/ At(d, "connectFailed")' PROVE call'[d].conn \in faulty'
    <3>1. ~ok /\ call[d].conn = k /\ call'[d].conn = k
      BY <1>1, <1>2, <2>1, QuietIsNotFailed
    <3> QED
      BY <1>1, <3>1 DEF Settled, Judges
  <2>2. ASSUME NEW j \in Conns, state'[j] = "DISCONNECTING", operation'[j] = "none" PROVE j \in faulty'
    <3>1. CASE j = k
      BY <1>1, <2>2, <3>1 DEF Settled, Judges
    <3>2. CASE j # k
      BY <1>1, <1>f, <2>2, <3>2 DEF Settled, SInv, FailuresKnown
    <3> QED
      BY <3>1, <3>2
  <2> QED
    BY <2>1, <2>2 DEF FailuresKnown
<1>7. StatusExplained'
  <2> SUFFICES ASSUME NEW j \in pooled PROVE Explained(j)'
    BY <1>1 DEF StatusExplained
  <2>1. Explained(j) /\ j \in Conns /\ record' = record /\ disconnectOnRelease' = disconnectOnRelease
    BY <1>1 DEF SInv, StatusExplained, IInv, TypeOK
  <2>2. Evicting(j) => Evicting(j)'
    BY <1>2 DEF Evicting
  <2>3. Connecting(j) => Connecting(j)'
    BY <1>2 DEF Connecting
  <2>4. WorkedOn(j) => WorkedOn(j)'
    BY <1>2 DEF WorkedOn
  <2>5. j = k => WorkedOn(j)
    BY <1>1 DEF Settled, SInv, OperationsAwaited, WorkedOn, At, Holds, TakesOff, HoldPcs, OffPcs
  <2> QED
    BY <1>f, <2>1, <2>2, <2>3, <2>4, <2>5, StillExplained
<1> QED
  BY <1>3, <1>4, <1>5, <1>l, <1>6, <1>7 DEF SInv

\* A connection reports an event: nothing that anybody waits for changes.
LEMMA TellsKept ==
    ASSUME IInv, SInv, NEW k \in Conns, Tells(k)
    PROVE  SInv'
<1>1. /\ UNCHANGED <<pooled, record, leases, operation, call, disconnectOnRelease, faulty>> /\ Quiet
      /\ \A j \in Conns : \/ state'[j] = state[j]
                          \/ state[j] # "UNREGISTERED" /\ state'[j] \in {"CONNECTED", "DISCONNECTED", "FAILED"}
  BY DEF Tells, Reports, IInv, TypeOK
<1>2. RegisteredPool' /\ OperationsAwaited' /\ LeasedInUse'
  BY <1>1 DEF SInv, RegisteredPool, OperationsAwaited, LeasedInUse, At
<1>3. \A d \in Callers : /\ Holds(d)' <=> Holds(d)
                         /\ TakesOff(d)' <=> TakesOff(d)
                         /\ Releasing(d)' <=> Releasing(d)
  BY <1>1 DEF Holds, TakesOff, Releasing
<1>4. ReleasedAlone'
  BY <1>1, <1>3 DEF SInv, ReleasedAlone
<1>5. FailuresKnown'
  BY <1>1 DEF SInv, FailuresKnown, At
<1>6. StatusExplained'
  BY <1>1 DEF SInv, StatusExplained, Explained, Evicting, Connecting, WorkedOn, Holds, TakesOff
<1> QED
  BY <1>2, <1>4, <1>5, <1>6 DEF SInv

LEMMA SInvStep ==
    ASSUME IInv, SInv, [Next]_vars
    PROVE  SInv'
<1>1. ASSUME NEW c \in Callers, Asks(c) \/ GoesOn(c) PROVE SInv'
  BY <1>1, AsksIsCallStep, GoesOnIsCallStep, CallStepKept
<1>2. ASSUME NEW c \in Callers, Ends(c) PROVE SInv'
  BY <1>2, EndsKept
<1>3. ASSUME NEW k \in Conns, Answers(k) \/ Tells(k) PROVE SInv'
  BY <1>3, AnswersKept, TellsKept
<1>4. CASE UNCHANGED vars
  <2>1. RegisteredPool' /\ OperationsAwaited' /\ LeasedInUse'
    BY <1>4 DEF vars, SInv, RegisteredPool, OperationsAwaited, LeasedInUse, At
  <2>2. ReleasedAlone' /\ FailuresKnown'
    BY <1>4 DEF vars, SInv, ReleasedAlone, FailuresKnown, At, Releasing, Holds, TakesOff
  <2>3. StatusExplained'
    BY <1>4 DEF vars, SInv, StatusExplained, Explained, Evicting, Connecting, WorkedOn, Holds, TakesOff
  <2> QED
    BY <2>1, <2>2, <2>3 DEF SInv
<1> QED
  BY <1>1, <1>2, <1>3, <1>4 DEF Next

LEMMA SInvInit == Init => SInv
<1> SUFFICES ASSUME Init PROVE SInv
  OBVIOUS
<1>1. \A c \in Callers : call[c] = Idle
  BY DEF Init
<1>2. \A c \in Callers : ~Holds(c) /\ ~TakesOff(c)
  BY <1>1, IdleIsAway DEF Holds, TakesOff
<1>3. RegisteredPool /\ OperationsAwaited /\ LeasedInUse /\ StatusExplained
  BY DEF Init, RegisteredPool, OperationsAwaited, LeasedInUse, StatusExplained
<1>4. ReleasedAlone /\ FailuresKnown
  BY <1>1, <1>2 DEF Init, ReleasedAlone, FailuresKnown, Releasing, At, Idle
<1> QED
  BY <1>3, <1>4 DEF SInv

\* Whoever could change a status that is not lasting is not idle.
LEMMA StrandedFollows == IInv /\ SInv => NoneStranded
<1> SUFFICES ASSUME IInv, SInv, AllIdle, NEW k \in pooled, record[k].leases = {}
             PROVE  \/ record[k].status = "IDLE"
                    \/ /\ k \in faulty
                       /\ record[k].status = "FAILED" \/ (record[k].status = "LEASED" /\ disconnectOnRelease)
  BY DEF NoneStranded
<1>1. \A c \in Callers : ~Holds(c) /\ ~TakesOff(c)
  BY DEF AllIdle, At, Holds, TakesOff, HoldPcs, OffPcs
<1>2. record[k].status \in Statuses \ {"NONE", "DISPOSED"}
  BY DEF IInv, TypeOK, SInv, RegisteredPool
<1>3. Explained(k) /\ ~Evicting(k) /\ ~Connecting(k) /\ ~WorkedOn(k)
  BY <1>1 DEF SInv, StatusExplained, Evicting, Connecting, WorkedOn
<1> QED
  BY <1>2, <1>3 DEF Explained, Statuses

LEMMA SInvHolds == Spec => []SInv
  BY InvariantHolds, SInvInit, SInvStep, PTL DEF Spec

\* When no call is under way a connection that is not leased is IDLE, for any callers,
\* exchanges and limits, unless the last operation asked of it to settle has failed.
THEOREM NoConnectionStranded == Spec => []NoneStranded
  BY StrandedFollows, InvariantHolds, SInvHolds, PTL

-----------------------------------------------------------------------------
(* The limits. What has passed a check of them, and not been created yet:  *)

\* c may add a connection to its exchange; it will when its eviction ends.
Reserves(c) == \/ At(c, "creating")
               \/ At(c, "evicted") /\ call[c].goal \in {"room", "slot"}
               \/ TakesOff(c) /\ call[c].goal = "slot"
Clears(c) == TakesOff(c) /\ call[c].goal = "room"
HasRoom ==
    /\ \A e \in Exchanges : Cardinality(Of(e)) <= MaxPerExchange
    /\ \A c \in Callers : Reserves(c) => Cardinality(Of(call[c].exchange)) < MaxPerExchange
    /\ \A c \in Callers : Clears(c) => Cardinality(Of(call[c].exchange) \ {call[c].conn}) < MaxPerExchange

\* c may add a connection to the pool, be it that what it evicts is gone already.
Weighs(c) == \/ At(c, "creating")
             \/ At(c, "evicted") /\ call[c].goal = "slot"
             \/ TakesOff(c) /\ call[c].goal = "slot" /\ call[c].conn \notin pooled
Weighers == {e \in Exchanges : \E c \in Callers : call[c].exchange = e /\ Weighs(c)}
\* One connection that several evictions have met on may be replaced by one for each.
TotalKept == Cardinality(pooled) + Cardinality(Weighers)
                <= MaxTotal + (Cardinality(Exchanges) - 1) * (1 + Cardinality(overtaken \ pooled))
OvertakenMade == \A k \in overtaken : record[k].status # "NONE"

RoomInv == OvertakenMade /\ HasRoom /\ TotalKept

-----------------------------------------------------------------------------
(* Counting *)

LEMMA ConnsCount == \A S \in SUBSET Conns : IsFiniteSet(S) /\ Cardinality(S) \in Nat
<1>1. IsFiniteSet(Conns)
  <2>1. MaxConns \in Nat
    BY PoolAssumption
  <2> QED
    BY <2>1, FS_Interval DEF Conns
<1> QED
  BY <1>1, FS_Subset, FS_CardinalityType

LEMMA ExchangesCount ==
    /\ \A S \in SUBSET Exchanges : IsFiniteSet(S) /\ Cardinality(S) \in Nat /\ Cardinality(S) <= Cardinality(Exchanges)
    /\ \E n \in Nat : Cardinality(Exchanges) = n + 1
    /\ MaxTotal \in Nat /\ MaxPerExchange \in Nat /\ MaxPerExchange > 0
<1>1. IsFiniteSet(Exchanges) /\ Exchanges # {}
  BY PoolAssumption
<1>2. \A S \in SUBSET Exchanges : IsFiniteSet(S) /\ Cardinality(S) \in Nat /\ Cardinality(S) <= Cardinality(Exchanges)
  BY <1>1, FS_Subset, FS_CardinalityType
<1>3. Cardinality(Exchanges) \in Nat /\ Cardinality(Exchanges) # 0
  BY <1>1, FS_CardinalityType, FS_EmptySet
<1>4. \E n \in Nat : Cardinality(Exchanges) = n + 1
  <2>1. Cardinality(Exchanges) - 1 \in Nat /\ Cardinality(Exchanges) = (Cardinality(Exchanges) - 1) + 1
    BY <1>3
  <2> QED
    BY <2>1
<1>5. MaxTotal \in Nat /\ MaxPerExchange \in Nat /\ MaxPerExchange > 0
  BY PoolAssumption
<1> QED
  BY <1>2, <1>4, <1>5

LEMMA PoolCounts ==
    ASSUME IInv
    PROVE  /\ Cardinality(pooled) \in Nat /\ Cardinality(overtaken \ pooled) \in Nat
           /\ \A e : IsFiniteSet(Of(e)) /\ Cardinality(Of(e)) \in Nat
<1>1. pooled \in SUBSET Conns /\ overtaken \ pooled \in SUBSET Conns /\ \A e : Of(e) \in SUBSET Conns
  BY DEF IInv, TypeOK, Of
<1> QED
  BY <1>1, ConnsCount

\* More that has met leaves more to add.
LEMMA ProductGrows == \A n, g, h \in Nat : g <= h => n * g <= n * h
<1>1. ASSUME NEW n \in Nat, NEW g \in Nat, NEW d \in Nat PROVE n * g <= n * (g + d)
  <2>1. n * (g + d) = n * g + n * d /\ n * d \in Nat /\ n * g \in Nat
    BY <1>1
  <2> QED
    BY <2>1
<1>2. ASSUME NEW n \in Nat, NEW g \in Nat, NEW h \in Nat, g <= h PROVE n * g <= n * h
  <2>1. h - g \in Nat /\ g + (h - g) = h
    BY <1>2
  <2> QED
    BY <1>1, <2>1
<1> QED
  BY <1>2

LEMMA ProductStep ==
    \A n, g \in Nat : /\ n * (1 + (g + 1)) = n * (1 + g) + n
                       /\ n * (1 + g) = n * g + n /\ n * g \in Nat
  OBVIOUS
-----------------------------------------------------------------------------
(* What the steps of a caller do to the room it has *)

RoomOK(c) ==
    /\ overtaken \subseteq overtaken' /\ \A k \in overtaken' \ overtaken : k \in Conns /\ record'[k].status # "NONE"
    /\ Reserves(c)' => Cardinality(Of(call'[c].exchange)) < MaxPerExchange
    /\ Clears(c)' => Cardinality(Of(call'[c].exchange) \ {call'[c].conn}) < MaxPerExchange
    /\ Weighs(c)' => (Weighs(c) /\ call'[c].exchange = call[c].exchange) \/ Cardinality(pooled) < MaxTotal

\* c asks for no room any more, or not for a connection to create.
LEMMA NoRoomNeeded ==
    ASSUME IInv, NEW c \in Callers, UNCHANGED overtaken,
           \/ call'[c].pc \notin OffPcs \cup {"creating", "evicted"}
           \/ call'[c].pc \in OffPcs /\ call'[c].goal \notin {"room", "slot"}
    PROVE  RoomOK(c)
<1>1. ~Reserves(c)' /\ ~Clears(c)' /\ ~Weighs(c)'
  BY DEF Reserves, Clears, Weighs, TakesOff, OffPcs, At
<1> QED
  BY <1>1 DEF RoomOK

LEMMA CreatingNeedsRoom ==
    ASSUME IInv, NEW c \in Callers, UNCHANGED overtaken, call'[c].pc = "creating",
           Cardinality(Of(call'[c].exchange)) < MaxPerExchange,
           (Weighs(c) /\ call'[c].exchange = call[c].exchange) \/ Cardinality(pooled) < MaxTotal
    PROVE  RoomOK(c)
<1>1. ~Clears(c)'
  BY DEF Clears, TakesOff, OffPcs
<1> QED
  BY <1>1 DEF RoomOK

LEMMA EvictsNeedsRoom ==
    ASSUME IInv, NEW c \in Callers, NEW k \in Conns, NEW x \in Calls, Evicts(c, k, x), UNCHANGED pooled,
           x.goal = "slot" => Cardinality(Of(x.exchange)) < MaxPerExchange /\ k \in pooled,
           x.goal = "room" => Cardinality(Of(x.exchange) \ {k}) < MaxPerExchange
    PROVE  RoomOK(c)
<1>1. Refused(c, k, x) \/ Begins(c, k, x)
  BY EvictsEffect DEF IInv, TypeOK, ManagerType
<1>2. CASE Refused(c, k, x)
  <2>1. call'[c].pc = "evictFailed" /\ UNCHANGED overtaken
    BY <1>2, ResultOf DEF Refused
  <2> QED
    BY <2>1, NoRoomNeeded DEF OffPcs
<1>3. CASE Begins(c, k, x)
  <2>1. call'[c].pc \in OffPcs /\ call'[c].conn = k /\ call'[c].goal = x.goal /\ call'[c].exchange = x.exchange
    BY <1>3, ResultOf DEF Begins
  <2>2. record'[k].status = "EVICTING" /\ overtaken' \in {overtaken, overtaken \cup {k}}
    BY <1>3 DEF Begins, Becomes, Meets, IInv, TypeOK
  <2>3. Reserves(c)' => x.goal = "slot"
    BY <2>1 DEF Reserves, At, OffPcs
  <2>4. Clears(c)' => x.goal = "room"
    BY <2>1 DEF Clears
  <2>5. Weighs(c)' => x.goal = "slot" /\ k \notin pooled
    BY <2>1 DEF Weighs, At, OffPcs
  <2> QED
    BY <2>1, <2>2, <2>3, <2>4, <2>5 DEF RoomOK
<1> QED
  BY <1>1, <1>2, <1>3

LEMMA UsesNeedsNoRoom ==
    ASSUME IInv, NEW c \in Callers, NEW k \in Conns, NEW x \in Calls, Uses(c, k, x), UNCHANGED overtaken
    PROVE  RoomOK(c)
<1>1. CASE Goes(c, [x EXCEPT !.pc = "acquireFailed"])
  <2>1. call'[c].pc = "acquireFailed"
    BY <1>1 DEF Goes, Calls, IInv, TypeOK
  <2> QED
    BY <2>1, NoRoomNeeded DEF OffPcs
<1>2. CASE Grants(c, k, x)
  <2>1. call'[c].pc = "granted"
    BY <1>2 DEF Grants, Goes, Calls, IInv, TypeOK
  <2> QED
    BY <2>1, NoRoomNeeded DEF OffPcs
<1>3. CASE Connects(c, k, [x EXCEPT !.conn = k])
  <2> DEFINE z == [x EXCEPT !.conn = k]
  <2>1. z \in Calls /\ z.conn = k
    BY DEF Calls
  <2>2. GoesOnFrom(c, k, z, HoldPcs)
    BY <1>3, <2>1, ConnectsEffect DEF IInv, TypeOK, ManagerType
  <2>3. call'[c].pc \in HoldPcs
    BY <2>2, ResultOf
  <2> QED
    BY <2>3, NoRoomNeeded DEF OffPcs, HoldPcs
<1> QED
  BY <1>1, <1>2, <1>3 DEF Uses

LEMMA MakesRoomNeedsRoom ==
    ASSUME IInv, NEW c \in Callers, NEW x \in Calls, NEW goal \in {"room", "slot"}, NEW candidates \in SUBSET Conns,
           MakesRoom(c, x, goal, candidates), UNCHANGED pooled,
           goal = "slot" => Cardinality(Of(x.exchange)) < MaxPerExchange /\ candidates \subseteq pooled,
           goal = "room" => \A k \in candidates : Cardinality(Of(x.exchange) \ {k}) < MaxPerExchange
    PROVE  RoomOK(c)
<1>1. CASE Goes(c, [x EXCEPT !.pc = "acquireFailed"]) /\ UNCHANGED overtaken
  <2>1. call'[c].pc = "acquireFailed"
    BY <1>1 DEF Goes, Calls, IInv, TypeOK
  <2> QED
    BY <1>1, <2>1, NoRoomNeeded DEF OffPcs
<1>2. ASSUME NEW k \in candidates, Evicts(c, k, [x EXCEPT !.goal = goal]) PROVE RoomOK(c)
  <2> DEFINE z == [x EXCEPT !.goal = goal]
  <2>1. z \in Calls /\ z.goal = goal /\ z.exchange = x.exchange
    BY DEF Calls
  <2> QED
    BY <1>2, <2>1, EvictsNeedsRoom
<1> QED
  BY <1>1, <1>2 DEF MakesRoom

LEMMA CandidatesArePooled ==
    ASSUME IInv, NEW e
    PROVE  Candidates(Unused) \subseteq pooled /\ Candidates(Unused \cap Of(e)) \subseteq Of(e)
  BY DEF Candidates, Unused

LEMMA CreatesAtLimitNeedsRoom ==
    ASSUME IInv, NEW c \in Callers, NEW x \in Calls, CreatesAtLimit(c, x), UNCHANGED pooled,
           Cardinality(Of(x.exchange)) < MaxPerExchange
    PROVE  RoomOK(c)
<1>1. CASE MakesRoom(c, x, "slot", Candidates(Unused))
  BY <1>1, MakesRoomNeedsRoom, CandidatesType, CandidatesArePooled
<1>2. CASE /\ Goes(c, [x EXCEPT !.pc = "creating", !.goal = "none", !.conn = 0]) /\ UNCHANGED overtaken
           /\ ~(Cardinality(pooled) >= MaxTotal)
  <2>1. call'[c].pc = "creating" /\ call'[c].exchange = x.exchange
    BY <1>2 DEF Goes, Calls, IInv, TypeOK
  <2>2. Cardinality(pooled) < MaxTotal
    BY <1>2, PoolCounts, ExchangesCount
  <2> QED
    BY <1>2, <2>1, <2>2, CreatingNeedsRoom
<1> QED
  BY <1>1, <1>2 DEF CreatesAtLimit

LEMMA AcquiresNeedsRoom ==
    ASSUME IInv, HasRoom, NEW c \in Callers, NEW x \in Calls, x.exchange \in Exchanges, Acquires(c, x), UNCHANGED pooled
    PROVE  RoomOK(c)
<1> DEFINE e == x.exchange
<1>1. ASSUME NEW p \in {"waiting", "acquireFailed"}, Goes(c, [x EXCEPT !.pc = p]), UNCHANGED overtaken
      PROVE  RoomOK(c)
  <2>1. call'[c].pc = p
    BY <1>1 DEF Goes, Calls, IInv, TypeOK
  <2> QED
    BY <1>1, <2>1, NoRoomNeeded DEF OffPcs
<1>2. ASSUME NEW k \in Reusable(e), Uses(c, k, x), UNCHANGED overtaken PROVE RoomOK(c)
  <2>1. k \in Conns
    BY DEF Reusable, Unused, IInv, TypeOK
  <2> QED
    BY <1>2, <2>1, UsesNeedsNoRoom
<1>3. CASE Creates(c, x)
  <2>1. Cardinality(Of(e)) \in Nat /\ MaxPerExchange \in Nat /\ IsFiniteSet(Of(e)) /\ Cardinality(Of(e)) <= MaxPerExchange
    BY PoolCounts, ExchangesCount DEF HasRoom
  <2>2. CASE CreatesAtLimit(c, x) /\ ~(Cardinality(Of(e)) >= MaxPerExchange)
    BY <2>1, <2>2, CreatesAtLimitNeedsRoom
  <2>3. CASE MakesRoom(c, x, "room", Candidates(Unused \cap Of(e)))
    <3>1. Candidates(Unused \cap Of(e)) \in SUBSET Conns
      BY CandidatesType
    <3>2. \A k \in Candidates(Unused \cap Of(e)) : k \in Of(e)
      BY CandidatesArePooled
    <3>3. ASSUME NEW k \in Of(e) PROVE Cardinality(Of(e) \ {k}) < MaxPerExchange
      <4>1. Cardinality(Of(e) \ {k}) = Cardinality(Of(e)) - 1
        BY <2>1, FS_RemoveElement
      <4> QED
        BY <2>1, <4>1
    <3> QED
      BY <2>3, <3>1, <3>2, <3>3, MakesRoomNeedsRoom
  <2> QED
    BY <1>3, <2>2, <2>3 DEF Creates
<1> QED
  BY <1>1, <1>2, <1>3 DEF Acquires

LEMMA AsksNeedsRoom ==
    ASSUME IInv, HasRoom, NEW c \in Callers, Asks(c)
    PROVE  RoomOK(c)
<1>1. ASSUME NEW e \in Exchanges, NEW reuseOnly \in BOOLEAN, Acquire(c, e, reuseOnly) PROVE RoomOK(c)
  <2> DEFINE x == [Idle EXCEPT !.exchange = e, !.reuseOnly = reuseOnly]
  <2>1. x \in Calls /\ x.exchange = e
    BY DEF Idle, Calls, Pcs
  <2> QED
    BY <1>1, <2>1, AcquiresNeedsRoom DEF Acquire
<1>2. ASSUME NEW k \in Conns, EvictConnection(c, k) PROVE RoomOK(c)
  <2>1. [Idle EXCEPT !.goal = "manual"] \in Calls /\ [Idle EXCEPT !.goal = "manual"].goal = "manual"
    BY DEF Idle, Calls, Pcs
  <2> QED
    BY <1>2, <2>1, EvictsNeedsRoom DEF EvictConnection
<1>3. ASSUME NEW S \in SUBSET Unused, CleanupIdleConnections(c, S) PROVE RoomOK(c)
  <2>1. PICK k \in S : Evicts(c, k, [Idle EXCEPT !.goal = "sweep", !.todo = S \ {k}])
    BY <1>3 DEF CleanupIdleConnections
  <2> DEFINE x == [Idle EXCEPT !.goal = "sweep", !.todo = S \ {k}]
  <2>2. S \subseteq Conns
    BY CandidatesType
  <2>3. x \in Calls /\ x.goal = "sweep" /\ k \in Conns
    BY <2>2 DEF Idle, Calls, Pcs
  <2> QED
    BY <1>3, <2>1, <2>3, EvictsNeedsRoom DEF CleanupIdleConnections
<1>4. CASE Release(c)
  <2> DEFINE k == leases[c]
  <2>1. k \in Conns
    BY <1>4 DEF Release, IInv, TypeOK
  <2>2. CASE Returns(c) /\ UNCHANGED overtaken
    <3>1. call'[c] = Idle
      BY <2>2 DEF Returns, Goes, IInv, TypeOK
    <3> QED
      BY <2>2, <3>1, IdleIsAway, NoRoomNeeded DEF Idle
  <2>3. ASSUME NEW goal \in {"release", "manual"}, Disconnects(c, k, [Idle EXCEPT !.conn = k, !.goal = goal]),
               \/ overtaken' = overtaken
               \/ Meets(k, c) /\ Leaves(c, k, "EVICTING")
        PROVE  RoomOK(c)
    <3>1. PICK x \in Calls : x = [Idle EXCEPT !.conn = k, !.goal = goal]
      BY <2>1 DEF Idle, Calls, Pcs
    <3>2. x.conn = k /\ x.goal = goal
      BY <3>1 DEF Idle
    <3>3. GoesOnFrom(c, k, x, OffPcs)
      BY <2>1, <2>3, <3>1, <3>2, DisconnectsEffect DEF IInv, TypeOK, ManagerType
    <3>4. call'[c].pc \in OffPcs /\ call'[c].goal = goal
      BY <3>2, <3>3, ResultOf
    <3>5. ~Reserves(c)' /\ ~Clears(c)' /\ ~Weighs(c)'
      BY <3>4 DEF Reserves, Clears, Weighs, At, OffPcs
    <3>6. overtaken \subseteq overtaken' /\ \A j \in overtaken' \ overtaken : j \in Conns /\ record'[j].status # "NONE"
      <4>1. Leaves(c, k, "EVICTING") => record'[k].status = "EVICTING"
        BY <2>1 DEF Leaves, IInv, TypeOK
      <4> QED
        BY <2>1, <2>3, <4>1 DEF Meets
    <3> QED
      BY <3>5, <3>6 DEF RoomOK
  <2> QED
    BY <1>4, <2>2, <2>3 DEF Release
<1> QED
  BY <1>1, <1>2, <1>3, <1>4 DEF Asks

LEMMA GoesOnNeedsRoom ==
    ASSUME IInv, HasRoom, NEW c \in Callers, GoesOn(c)
    PROVE  RoomOK(c)
<1> DEFINE x == call[c]
<1>t. x \in Calls /\ call \in [Callers -> Calls]
  BY DEF IInv, TypeOK
<1>w. Holds(c) \/ TakesOff(c) => x.conn \in Conns
  BY DEF IInv, LInv, AtWork
\* A step after which c neither creates nor has evicted anything, nor takes a connection off.
<1>n. ASSUME NEW p \in {"acquireFailed", "evictFailed"}, Goes(c, [x EXCEPT !.pc = p]), UNCHANGED overtaken
      PROVE  RoomOK(c)
  <2>1. call'[c].pc = p
    BY <1>t, <1>n DEF Goes, Calls
  <2> QED
    BY <1>n, <2>1, NoRoomNeeded DEF OffPcs
<1>i. ASSUME call'[c] = Idle, UNCHANGED overtaken PROVE RoomOK(c)
  BY <1>i, IdleIsAway, NoRoomNeeded DEF Idle
<1>1. CASE Again(c)
  <2>1. x.exchange \in Exchanges
    BY <1>1, <1>t DEF Again, At, IInv, LInv, OnlyOne, IsAcquisition, AskPcs, Calls
  <2> QED
    BY <1>1, <1>t, <2>1, AcquiresNeedsRoom DEF Again
<1>2. CASE Created(c)
  <2>1. Holds(c)
    BY <1>2 DEF Created, At, Holds, HoldPcs
  <2> QED
    BY <1>2, <1>t, <1>w, <2>1, UsesNeedsNoRoom DEF Created
<1>3. CASE Connected(c)
  <2>1. call'[c].pc = "granted"
    BY <1>3, <1>t DEF Connected, Grants, Goes, Calls
  <2> QED
    BY <1>3, <2>1, NoRoomNeeded DEF Connected, OffPcs
<1>4. CASE ConnectFailed(c)
  <2>1. CASE Evicts(c, x.conn, [x EXCEPT !.goal = "failure"])
    <3>1. [x EXCEPT !.goal = "failure"] \in Calls /\ [x EXCEPT !.goal = "failure"].goal = "failure"
      BY <1>t DEF Calls
    <3>2. Holds(c)
      BY <1>4 DEF ConnectFailed, At, Holds, HoldPcs
    <3> QED
      BY <1>4, <1>w, <2>1, <3>1, <3>2, EvictsNeedsRoom DEF ConnectFailed
  <2> QED
    BY <1>4, <1>n, <2>1 DEF ConnectFailed
<1>5. CASE Settles(c)
  BY <1>5, <1>i DEF Settles
<1>6. CASE Off(c) \/ OffRetry(c)
  <2>1. TakesOff(c) /\ UNCHANGED <<pooled, record, leases, overtaken>>
    BY <1>6 DEF Off, OffRetry, At, TakesOff, OffPcs
  <2>2. GoesOnFrom(c, x.conn, x, OffPcs)
    <3>1. CASE Goes(c, [x EXCEPT !.pc = "disposing"]) /\ UNCHANGED manager
      <4>1. "disposing" \in OffPcs
        BY DEF OffPcs
      <4> QED
        BY <1>t, <3>1, <4>1, GoesEffect, PcSets
    <3>2. CASE Unregisters(c, x.conn, x) \/ Disconnects(c, x.conn, x)
      BY <1>t, <1>w, <2>1, <3>2, UnregistersEffect, DisconnectsEffect DEF IInv, TypeOK, ManagerType
    <3> QED
      BY <1>6, <3>1, <3>2 DEF Off, OffRetry
  <2>3. call'[c].pc \in OffPcs /\ call'[c].conn = x.conn /\ call'[c].goal = x.goal /\ call'[c].exchange = x.exchange
    BY <2>2, ResultOf
  <2>4. Reserves(c)' => Reserves(c)
    BY <2>1, <2>3 DEF Reserves, At, OffPcs
  <2>5. Clears(c)' => Clears(c)
    BY <2>1, <2>3 DEF Clears
  <2>6. Weighs(c)' => Weighs(c)
    BY <2>1, <2>3 DEF Weighs, At, OffPcs
  <2> QED
    BY <2>1, <2>3, <2>4, <2>5, <2>6 DEF RoomOK, HasRoom
<1>7. CASE OffFailed(c) \/ EvictionFailed(c)
  BY <1>7, <1>n DEF OffFailed, EvictionFailed
<1>8. CASE Released(c)
  BY <1>8, <1>t, <1>i DEF Released, Returns, Goes
<1>9. CASE Evicted(c)
  <2>1. x.goal \in {"room", "slot"} => Reserves(c)
    BY <1>9 DEF Evicted, Reserves
  <2>2. CASE x.goal = "room"
    BY <1>9, <1>t, <2>1, <2>2, CreatesAtLimitNeedsRoom DEF Evicted, HasRoom
  <2>3. CASE x.goal = "slot"
    <3>1. call'[c].pc = "creating" /\ call'[c].exchange = x.exchange /\ UNCHANGED overtaken
      <4>1. Goes(c, [x EXCEPT !.pc = "creating", !.goal = "none", !.conn = 0]) /\ UNCHANGED overtaken
        BY <1>9, <2>3 DEF Evicted
      <4> QED
        BY <1>t, <4>1 DEF Goes, Calls
    <3>2. Weighs(c)
      BY <1>9, <2>3 DEF Evicted, Weighs
    <3> QED
      BY <2>1, <2>3, <3>1, <3>2, CreatingNeedsRoom DEF HasRoom
  <2>4. CASE x.goal \notin {"room", "slot"}
    <3>1. call'[c].pc = "acquireFailed" /\ UNCHANGED overtaken
      BY <1>9, <1>t, <2>4 DEF Evicted, Goes, Calls
    <3> QED
      BY <3>1, NoRoomNeeded DEF OffPcs
  <2> QED
    BY <2>2, <2>3, <2>4
<1>10. CASE EvictionReturns(c)
  <2>1. CASE Returns(c) /\ UNCHANGED <<record, manager, overtaken>>
    BY <2>1, <1>t, <1>i DEF Returns, Goes
  <2>2. ASSUME NEW k \in x.todo, Evicts(c, k, [x EXCEPT !.todo = @ \ {k}]) PROVE RoomOK(c)
    <3>1. [x EXCEPT !.todo = @ \ {k}] \in Calls /\ [x EXCEPT !.todo = @ \ {k}].goal = x.goal /\ k \in Conns
      BY <1>t DEF Calls
    <3> QED
      BY <1>10, <2>2, <3>1, EvictsNeedsRoom DEF EvictionReturns
  <2> QED
    BY <1>10, <2>1, <2>2 DEF EvictionReturns
<1> QED
  BY <1>1, <1>2, <1>3, <1>4, <1>5, <1>6, <1>7, <1>8, <1>9, <1>10 DEF GoesOn

\* No step of a caller moves a connection to another exchange.
LEMMA ExchangesKept ==
    ASSUME IInv, NEW c \in Callers, CallStep(c), NEW j \in Conns
    PROVE  /\ record'[j].exchange = record[j].exchange
           /\ record[j].status # "NONE" => record'[j].status # "NONE"
<1>1. record[j] \in [exchange : Exchanges \cup {None}, status : Statuses, leases : SUBSET Callers] /\ DOMAIN record = Conns
  BY DEF IInv, TypeOK
<1>2. CASE KeepsRecords(c)
  BY <1>2 DEF KeepsRecords
<1>3. ASSUME NEW k \in Conns, ChangesRecord(c, k) PROVE record'[j].exchange = record[j].exchange
  <2>1. ASSUME NEW status, Becomes(k, status) PROVE record'[j].exchange = record[j].exchange
    BY <1>1, <2>1 DEF Becomes
  <2>2. ASSUME NEW status, Leaves(c, k, status) PROVE record'[j].exchange = record[j].exchange
    BY <1>1, <2>2 DEF Leaves
  <2>3. CASE LeasesNow(c, k)
    BY <1>1, <2>3 DEF LeasesNow
  <2> QED
    BY <1>3, <2>1, <2>2, <2>3 DEF ChangesRecord, EvictsNow, HoldsNow, EndsNow, FreesNow
<1>4. ASSUME NEW k \in Conns, ChangesRecord(c, k), record[j].status # "NONE" PROVE record'[j].status # "NONE"
  <2>1. CASE j = k
    BY <1>4, <2>1, RecordMoves DEF ChangesRecord
  <2>2. CASE j # k
    BY <1>4, <2>2, RecordMoves
  <2> QED
    BY <2>1, <2>2
<1> QED
  BY <1>2, <1>3, <1>4 DEF CallStep

LEMMA CallStepKeepsRoom ==
    ASSUME IInv, IInv', RoomInv, NEW c \in Callers, CallStep(c), RoomOK(c)
    PROVE  RoomInv'
<1>p. pooled' = pooled /\ pooled \subseteq Conns /\ overtaken' \subseteq Conns /\ overtaken \subseteq Conns
  BY DEF CallStep, IInv, TypeOK
<1>of. \A e : Of(e)' = Of(e)
  BY <1>p, ExchangesKept DEF Of
<1>o. \A d \in Callers \ {c} : call'[d] = call[d] \/ Idles(d)'
  BY DEF CallStep, Others
<1>1. OvertakenMade'
  BY <1>p, ExchangesKept DEF OvertakenMade, RoomInv, RoomOK
<1>2. HasRoom'
  <2>1. ASSUME NEW d \in Callers \ {c}
        PROVE  /\ Reserves(d)' => Reserves(d) /\ call'[d].exchange = call[d].exchange
               /\ Clears(d)' => Clears(d) /\ call'[d].exchange = call[d].exchange /\ call'[d].conn = call[d].conn
    BY <1>o, <2>1 DEF Reserves, Clears, Idles, At, TakesOff, OffPcs
  <2>2. ASSUME NEW d \in Callers
        PROVE  /\ Reserves(d)' => Cardinality(Of(call'[d].exchange)) < MaxPerExchange
               /\ Clears(d)' => Cardinality(Of(call'[d].exchange) \ {call'[d].conn}) < MaxPerExchange
    BY <2>1 DEF RoomOK, RoomInv, HasRoom
  <2>3. ASSUME NEW d \in Callers
        PROVE  Of(call[d].exchange)' = Of(call'[d].exchange)
    BY <1>p, ExchangesKept DEF Of
  <2>4. \A e \in Exchanges : Cardinality(Of(e))' <= MaxPerExchange
    BY <1>of DEF RoomInv, HasRoom
  <2> QED
    BY <2>2, <2>3, <2>4 DEF HasRoom
<1>3. TotalKept'
  <2>1. ASSUME NEW d \in Callers \ {c}, Weighs(d)' PROVE Weighs(d) /\ call'[d].exchange = call[d].exchange
    BY <1>o, <1>p, <2>1 DEF Weighs, Idles, At, TakesOff, OffPcs
  <2>2. PICK n \in Nat : Cardinality(Exchanges) = n + 1
    BY ExchangesCount
  <2>3. PICK W : W = Weighers'
    OBVIOUS
  <2>4. W \in SUBSET Exchanges /\ Weighers \in SUBSET Exchanges
    BY <2>3 DEF Weighers
  <2>5. /\ Cardinality(W) \in Nat /\ Cardinality(W) <= n + 1 /\ Cardinality(Weighers) \in Nat
        /\ Cardinality(pooled) \in Nat /\ MaxTotal \in Nat
    BY <2>2, <2>4, ExchangesCount, PoolCounts
  <2>6. PICK g \in Nat, h \in Nat : g = Cardinality(overtaken \ pooled) /\ h = Cardinality(overtaken' \ pooled) /\ g <= h
    <3>1. overtaken \ pooled \in SUBSET Conns /\ overtaken' \ pooled \in SUBSET Conns
      BY <1>p
    <3>2. overtaken \ pooled \in SUBSET (overtaken' \ pooled)
      BY DEF RoomOK
    <3>3. IsFiniteSet(overtaken' \ pooled)
      BY <3>1, ConnsCount
    <3>4. Cardinality(overtaken \ pooled) \in Nat /\ Cardinality(overtaken' \ pooled) \in Nat
      BY <3>1, ConnsCount
    <3>5. Cardinality(overtaken \ pooled) <= Cardinality(overtaken' \ pooled)
      BY <3>2, <3>3, FS_Subset
    <3> QED
      BY <3>4, <3>5
  <2>7. /\ n * (1 + g) <= n * (1 + h) /\ n * (1 + h) = n * h + n
        /\ n * h \in Nat /\ n * (1 + g) \in Nat /\ n * (1 + h) \in Nat
    <3>1. 1 + g \in Nat /\ 1 + h \in Nat /\ 1 + g <= 1 + h
      BY <2>6
    <3>2. n * (1 + g) <= n * (1 + h)
      BY <3>1, ProductGrows
    <3> QED
      BY <3>1, <3>2, ProductStep
  <2>8. Cardinality(pooled) + Cardinality(Weighers) <= MaxTotal + n * (1 + g)
    BY <2>2, <2>6 DEF RoomInv, TotalKept
  <2>9. Cardinality(W) <= Cardinality(Weighers) \/ Cardinality(pooled) < MaxTotal
    <3>1. CASE ~(Cardinality(pooled) < MaxTotal)
      <4>1. \A d \in Callers : Weighs(d)' => Weighs(d) /\ call'[d].exchange = call[d].exchange
        BY <2>1, <3>1 DEF RoomOK
      <4>2. W \in SUBSET Weighers
        BY <2>3, <4>1 DEF Weighers
      <4> QED
        BY <2>4, <4>2, ExchangesCount, FS_Subset
    <3> QED
      BY <3>1
  <2>10. Cardinality(pooled) + Cardinality(W) <= MaxTotal + n * (1 + h)
    BY <2>5, <2>7, <2>8, <2>9
  <2> QED
    BY <1>p, <2>2, <2>3, <2>6, <2>10 DEF TotalKept
<1> QED
  BY <1>1, <1>2, <1>3 DEF RoomInv
-----------------------------------------------------------------------------
(* What the steps of the factory and of the connections do to the room *)

\* Only one caller has passed the checks for an exchange.
LEMMA Alone ==
    ASSUME IInv, NEW c \in Callers, Reserves(c) \/ Clears(c) \/ Weighs(c)
    PROVE  /\ call[c].exchange \in Exchanges
           /\ \A d \in Callers : (Reserves(d) \/ Clears(d) \/ Weighs(d)) /\ call[d].exchange = call[c].exchange => d = c
<1>1. ASSUME NEW d \in Callers, Reserves(d) \/ Clears(d) \/ Weighs(d)
      PROVE  call[d].exchange \in Exchanges /\ pending[call[d].exchange] = d
  <2>1. IsAcquisition(call[d]) /\ call[d].pc \notin {"waiting", "again"}
    BY <1>1 DEF Reserves, Clears, Weighs, IsAcquisition, AskPcs, TakesOff, OffPcs, At
  <2>2. call[d].exchange \in Exchanges \cup {None}
    BY DEF IInv, TypeOK, Calls
  <2> QED
    BY <2>1, <2>2 DEF IInv, LInv, OnlyOne
<1> QED
  BY <1>1

\* Whoever had room keeps it when the exchanges do not grow.
LEMMA SmallerIsRoom ==
    \A S \in SUBSET Conns : \A T \in SUBSET S : /\ Cardinality(T) <= Cardinality(S)
                                                /\ Cardinality(S) < MaxPerExchange => Cardinality(T) < MaxPerExchange
                                                /\ Cardinality(S) <= MaxPerExchange => Cardinality(T) <= MaxPerExchange
<1> SUFFICES ASSUME NEW S \in SUBSET Conns, NEW T \in SUBSET S
             PROVE  /\ Cardinality(T) <= Cardinality(S)
                    /\ Cardinality(S) < MaxPerExchange => Cardinality(T) < MaxPerExchange
                    /\ Cardinality(S) <= MaxPerExchange => Cardinality(T) <= MaxPerExchange
  OBVIOUS
<1>1. IsFiniteSet(S) /\ Cardinality(S) \in Nat /\ Cardinality(T) \in Nat
  BY ConnsCount
<1>2. Cardinality(T) <= Cardinality(S)
  BY <1>1, FS_Subset
<1> QED
  BY <1>1, <1>2, ExchangesCount

LEMMA MadeKeepsRoom ==
    ASSUME IInv, IInv', RoomInv, NEW c \in Callers, FactoryResolves(c, TRUE)
    PROVE  RoomInv'
<1>1. PICK k \in Conns : record[k].status = "NONE" /\ Made(c, k)
  BY DEF FactoryResolves
<1>2. PICK e \in Exchanges : e = call[c].exchange
  <2>1. Reserves(c)
    BY DEF FactoryResolves, Reserves
  <2> QED
    BY <2>1, Alone
<1>3. /\ call'[c].pc = "created" /\ \A d \in Callers \ {c} : call'[d] = call[d]
      /\ \A j \in Conns \ {k} : record'[j] = record[j]
      /\ record'[k].status = "IDLE" /\ record'[k].exchange = e
      /\ pooled' = pooled \cup {k} /\ overtaken' = overtaken /\ k \notin overtaken
      /\ pooled \subseteq Conns /\ overtaken \subseteq Conns
  <2>1. /\ call'[c].pc = "created" /\ \A d \in Callers \ {c} : call'[d] = call[d]
    BY <1>1 DEF Made, Goes, IInv, TypeOK, Calls
  <2>2. /\ \A j \in Conns \ {k} : record'[j] = record[j]
        /\ record'[k].status = "IDLE" /\ record'[k].exchange = e
    BY <1>1, <1>2 DEF Made, IInv, TypeOK
  <2> QED
    BY <1>1, <2>1, <2>2 DEF FactoryResolves, Made, IInv, TypeOK, RoomInv, OvertakenMade
<1>4. Reserves(c) /\ Weighs(c)
  BY DEF FactoryResolves, Reserves, Weighs
<1>5. \A d \in Callers : /\ Reserves(d)' => d # c /\ Reserves(d) /\ call'[d] = call[d]
                         /\ Clears(d)' => d # c /\ Clears(d) /\ call'[d] = call[d]
                         /\ Weighs(d)' => d # c /\ Weighs(d) /\ call'[d] = call[d]
  BY <1>3 DEF Reserves, Clears, Weighs, At, TakesOff, OffPcs
<1>6. \A d \in Callers : Reserves(d)' \/ Clears(d)' \/ Weighs(d)' => call[d].exchange # e
  BY <1>2, <1>4, <1>5, Alone
<1>7. \A f : Of(f) \in SUBSET Conns
  BY <1>3 DEF Of
<1>8. \A f : f # e => Of(f)' \in SUBSET Of(f)
  BY <1>3 DEF Of
<1>9. Of(e)' \in SUBSET (Of(e) \cup {k})
  BY <1>3 DEF Of
<1>10. OvertakenMade'
  BY <1>3 DEF RoomInv, OvertakenMade
<1>11. HasRoom'
  <2>1. Cardinality(Of(e))' <= MaxPerExchange
    <3>1. Cardinality(Of(e)) < MaxPerExchange
      BY <1>2, <1>4 DEF RoomInv, HasRoom
    <3>2. Cardinality(Of(e) \cup {k}) <= Cardinality(Of(e)) + 1
      BY <1>7, ConnsCount, FS_AddElement
    <3>3. Cardinality(Of(e)) \in Nat /\ Cardinality(Of(e) \cup {k}) \in Nat /\ Of(e) \cup {k} \in SUBSET Conns
      BY <1>7, ConnsCount
    <3>4. Cardinality(Of(e) \cup {k}) <= MaxPerExchange
      BY <3>1, <3>2, <3>3, ExchangesCount
    <3> QED
      BY <1>9, <3>3, <3>4, SmallerIsRoom
  <2>2. ASSUME NEW f \in Exchanges, f # e PROVE Cardinality(Of(f))' <= MaxPerExchange
    <3>1. Cardinality(Of(f)) <= MaxPerExchange
      BY DEF RoomInv, HasRoom
    <3> QED
      BY <1>7, <1>8, <2>2, <3>1, SmallerIsRoom
  <2>3. ASSUME NEW d \in Callers, NEW f, f = call[d].exchange, Reserves(d)'
        PROVE  Cardinality(Of(f)') < MaxPerExchange /\ call'[d] = call[d]
    <3>1. Cardinality(Of(f)) < MaxPerExchange
      BY <1>5, <2>3 DEF RoomInv, HasRoom
    <3>2. Of(f)' \in SUBSET Of(f)
      BY <1>6, <1>8, <2>3
    <3> QED
      BY <1>5, <1>7, <2>3, <3>1, <3>2, SmallerIsRoom
  <2>4. ASSUME NEW d \in Callers, NEW f, f = call[d].exchange, NEW j, j = call[d].conn, Clears(d)'
        PROVE  Cardinality(Of(f)' \ {j}) < MaxPerExchange /\ call'[d] = call[d]
    <3>1. Cardinality(Of(f) \ {j}) < MaxPerExchange
      BY <1>5, <2>4 DEF RoomInv, HasRoom
    <3>2. (Of(f)' \ {j}) \in SUBSET (Of(f) \ {j})
      BY <1>6, <1>8, <2>4
    <3>3. (Of(f) \ {j}) \in SUBSET Conns
      BY <1>7
    <3> QED
      BY <1>5, <2>4, <3>1, <3>2, <3>3, SmallerIsRoom
  <2>5. ASSUME NEW d \in Callers, Reserves(d)' PROVE Cardinality(Of(call[d].exchange)') < MaxPerExchange
    BY <2>3, <2>5 DEF Of
  <2>6. ASSUME NEW d \in Callers, Clears(d)' PROVE Cardinality(Of(call[d].exchange)' \ {call'[d].conn}) < MaxPerExchange
    BY <2>4, <2>6 DEF Of
  <2> QED
    BY <2>1, <2>2, <2>5, <2>6 DEF HasRoom
<1>12. TotalKept'
  <2>1. PICK W : W = Weighers'
    OBVIOUS
  <2>2. W \in SUBSET (Weighers \ {e}) /\ e \in Weighers /\ Weighers \in SUBSET Exchanges
    <3>1. e \in Weighers
      BY <1>2, <1>4 DEF Weighers
    <3>2. W \in SUBSET (Weighers \ {e})
      BY <1>5, <1>6, <2>1 DEF Weighers
    <3> QED
      BY <3>1, <3>2 DEF Weighers
  <2>3. Cardinality(W) + 1 <= Cardinality(Weighers) /\ Cardinality(W) \in Nat /\ Cardinality(Weighers) \in Nat
    <3>1. IsFiniteSet(Weighers) /\ Cardinality(Weighers) \in Nat
      BY <2>2, ExchangesCount
    <3>2. IsFiniteSet(Weighers \ {e}) /\ Cardinality(Weighers \ {e}) = Cardinality(Weighers) - 1
      BY <2>2, <3>1, FS_RemoveElement
    <3>3. Cardinality(W) <= Cardinality(Weighers \ {e})
      BY <2>2, <3>2, FS_Subset
    <3>4. Cardinality(W) \in Nat
      BY <2>2, ExchangesCount
    <3> QED
      BY <3>1, <3>2, <3>3, <3>4
  <2>4. Cardinality(pooled \cup {k}) <= Cardinality(pooled) + 1 /\ Cardinality(pooled) \in Nat /\ Cardinality(pooled \cup {k}) \in Nat
    <3>1. pooled \in SUBSET Conns /\ pooled \cup {k} \in SUBSET Conns
      BY <1>3
    <3>2. IsFiniteSet(pooled) /\ Cardinality(pooled) \in Nat /\ Cardinality(pooled \cup {k}) \in Nat
      BY <3>1, ConnsCount
    <3> QED
      BY <3>2, FS_AddElement
  <2>5. overtaken' \ pooled' = overtaken \ pooled
    BY <1>3
  <2>6. PICK r \in Int : r = MaxTotal + (Cardinality(Exchanges) - 1) * (1 + Cardinality(overtaken \ pooled))
    <3>1. PICK n \in Nat : Cardinality(Exchanges) - 1 = n
      BY ExchangesCount
    <3>2. n * (1 + Cardinality(overtaken \ pooled)) \in Nat
      BY PoolCounts, ProductStep
    <3> QED
      BY <3>1, <3>2, ExchangesCount
  <2>7. Cardinality(pooled) + Cardinality(Weighers) <= r
    BY <2>6 DEF RoomInv, TotalKept
  <2>8. Cardinality(pooled \cup {k}) + Cardinality(W) <= r
    BY <2>3, <2>4, <2>7
  <2> QED
    BY <1>3, <2>1, <2>5, <2>6, <2>8 DEF TotalKept
<1> QED
  BY <1>10, <1>11, <1>12 DEF RoomInv

\* An eviction ends. If others still take the connection off, all of them may be for
\* a connection to create, and have met.
LEMMA DisposedKeepsRoom ==
    ASSUME IInv, IInv', RoomInv, NEW c \in Callers, Disposes(c, TRUE)
    PROVE  RoomInv'
<1>1. PICK k \in Conns : k = call[c].conn
  BY DEF Disposes, At, IInv, LInv, AtWork, TakesOff, OffPcs
<1>2. PICK e : e = call[c].exchange
  OBVIOUS
<1>3. /\ call'[c].pc = "evicted" /\ call'[c].goal = call[c].goal /\ call'[c].exchange = e /\ call'[c].conn = k
      /\ \A d \in Callers \ {c} : call'[d] = call[d]
  BY <1>1, <1>2 DEF Disposes, Goes, IInv, TypeOK, Calls
<1>4. /\ \A j \in Conns : record'[j].exchange = record[j].exchange
      /\ \A j \in Conns \ {k} : record'[j] = record[j]
      /\ record'[k].status = "DISPOSED"
  BY <1>1 DEF Disposes, Becomes, IInv, TypeOK
<1>5. /\ pooled' = pooled \ {k} /\ overtaken' = overtaken /\ TakesOff(c) /\ At(c, "disposing")
      /\ pooled \subseteq Conns /\ overtaken \subseteq Conns
  BY <1>1 DEF Disposes, TakesOff, OffPcs, At, IInv, TypeOK
<1>6. \A f : Of(f) \in SUBSET Conns /\ Of(f)' = Of(f) \ {k}
  BY <1>4, <1>5 DEF Of
<1>7. \A d \in Callers \ {c} :
         /\ Reserves(d)' => Reserves(d)
         /\ Clears(d)' => Clears(d)
         /\ Weighs(d)' => Weighs(d) \/ (TakesOff(d) /\ call[d].conn = k /\ call[d].goal = "slot")
  BY <1>3, <1>5 DEF Reserves, Clears, Weighs, At, TakesOff, OffPcs
<1>8. /\ ~Clears(c)'
      /\ Reserves(c)' => (Reserves(c) /\ call[c].goal = "slot") \/ Clears(c)
      /\ Weighs(c)' => Reserves(c) /\ call[c].goal = "slot"
  BY <1>3, <1>5 DEF Reserves, Clears, Weighs, At, TakesOff, OffPcs
<1>9. OvertakenMade'
  BY <1>4, <1>5 DEF RoomInv, OvertakenMade
<1>10. HasRoom'
  <2>1. ASSUME NEW f \in Exchanges PROVE Cardinality(Of(f))' <= MaxPerExchange
    <3>1. Cardinality(Of(f)) <= MaxPerExchange
      BY DEF RoomInv, HasRoom
    <3> QED
      BY <1>6, <3>1, SmallerIsRoom
  <2>2. ASSUME NEW d \in Callers, NEW f, f = call'[d].exchange, Reserves(d)'
        PROVE  Cardinality(Of(f)') < MaxPerExchange
    <3>1. CASE d # c
      <4>1. Cardinality(Of(f)) < MaxPerExchange
        BY <1>3, <1>7, <2>2, <3>1 DEF RoomInv, HasRoom
      <4> QED
        BY <1>6, <4>1, SmallerIsRoom
    <3>2. CASE d = c /\ Reserves(c)
      <4>1. Cardinality(Of(f)) < MaxPerExchange
        BY <1>2, <1>3, <2>2, <3>2 DEF RoomInv, HasRoom
      <4> QED
        BY <1>6, <4>1, SmallerIsRoom
    <3>3. CASE d = c /\ Clears(c)
      BY <1>1, <1>2, <1>3, <1>6, <2>2, <3>3 DEF RoomInv, HasRoom
    <3> QED
      BY <1>8, <2>2, <3>1, <3>2, <3>3
  <2>3. ASSUME NEW d \in Callers, NEW f, f = call'[d].exchange, NEW j, j = call'[d].conn, Clears(d)'
        PROVE  Cardinality(Of(f)' \ {j}) < MaxPerExchange
    <3>1. Cardinality(Of(f) \ {j}) < MaxPerExchange
      BY <1>3, <1>7, <1>8, <2>3 DEF RoomInv, HasRoom
    <3>2. (Of(f)' \ {j}) \in SUBSET (Of(f) \ {j}) /\ (Of(f) \ {j}) \in SUBSET Conns
      BY <1>6
    <3> QED
      BY <3>1, <3>2, SmallerIsRoom
  <2>4. ASSUME NEW d \in Callers, Reserves(d)' PROVE Cardinality(Of(call[d].exchange)') < MaxPerExchange
    BY <2>2, <2>4 DEF Of
  <2>5. ASSUME NEW d \in Callers, Clears(d)' PROVE Cardinality(Of(call[d].exchange)' \ {call'[d].conn}) < MaxPerExchange
    BY <2>3, <2>5 DEF Of
  <2> QED
    BY <2>1, <2>4, <2>5 DEF HasRoom
<1>11. TotalKept'
  <2>1. PICK W : W = Weighers'
    OBVIOUS
  <2>2. W \in SUBSET Exchanges /\ Weighers \in SUBSET Exchanges
    BY <2>1 DEF Weighers
  <2>3. PICK n \in Nat : Cardinality(Exchanges) = n + 1
    BY ExchangesCount
  <2>4. /\ Cardinality(W) \in Nat /\ Cardinality(W) <= n + 1 /\ Cardinality(Weighers) \in Nat
        /\ Cardinality(pooled) \in Nat /\ MaxTotal \in Nat /\ IsFiniteSet(Weighers)
    BY <2>2, <2>3, ExchangesCount, PoolCounts
  <2>5. PICK G, H : G = overtaken \ pooled /\ H = overtaken \ (pooled \ {k})
    OBVIOUS
  <2>6. /\ G \in SUBSET Conns /\ H \in SUBSET Conns /\ G \in SUBSET H
        /\ IsFiniteSet(G) /\ IsFiniteSet(H) /\ IsFiniteSet(pooled)
        /\ Cardinality(G) \in Nat /\ Cardinality(H) \in Nat /\ Cardinality(G) <= Cardinality(H)
    <3>1. G \in SUBSET Conns /\ H \in SUBSET Conns /\ G \in SUBSET H
      BY <1>5, <2>5
    <3>2. IsFiniteSet(G) /\ IsFiniteSet(H) /\ IsFiniteSet(pooled) /\ Cardinality(G) \in Nat /\ Cardinality(H) \in Nat
      BY <1>5, <3>1, ConnsCount
    <3>3. Cardinality(G) <= Cardinality(H)
      BY <3>1, <3>2, FS_Subset
    <3> QED
      BY <3>1, <3>2, <3>3
  <2>7. PICK p \in Nat, q \in Nat : p = n * (1 + Cardinality(G)) /\ q = n * (1 + Cardinality(H))
    <3>1. n * (1 + Cardinality(G)) \in Nat /\ n * (1 + Cardinality(H)) \in Nat
      BY <2>6, ProductStep
    <3> QED
      BY <3>1
  <2>8. p <= q
    <3>1. 1 + Cardinality(G) \in Nat /\ 1 + Cardinality(H) \in Nat /\ 1 + Cardinality(G) <= 1 + Cardinality(H)
      BY <2>6
    <3> QED
      BY <2>7, <3>1, ProductGrows
  <2>9. Cardinality(pooled) + Cardinality(Weighers) <= MaxTotal + p
    <3>1. Cardinality(Exchanges) - 1 = n
      BY <2>3
    <3> QED
      BY <2>5, <2>7, <3>1 DEF RoomInv, TotalKept
  <2>10. Cardinality(pooled \ {k}) + Cardinality(W) <= MaxTotal + q
    <3>1. CASE k \notin pooled
      <4>1. W \in SUBSET Weighers
        <5>1. \A d \in Callers : TakesOff(d) /\ call[d].conn = k /\ call[d].goal = "slot" => Weighs(d)
          BY <3>1 DEF Weighs
        <5>2. \A d \in Callers : Weighs(d)' => Weighs(d) /\ call'[d].exchange = call[d].exchange
          BY <1>1, <1>2, <1>3, <1>5, <1>7, <1>8, <5>1
        <5> QED
          BY <2>1, <5>2 DEF Weighers
      <4>2. Cardinality(W) <= Cardinality(Weighers) /\ pooled \ {k} = pooled
        BY <2>4, <3>1, <4>1, FS_Subset
      <4> QED
        BY <2>4, <2>8, <2>9, <4>2
    <3>2. CASE k \in pooled /\ \A d \in Callers \ {c} : TakesOff(d) => call[d].conn # k
      <4>1. W \in SUBSET (Weighers \cup {e})
        <5>1. \A d \in Callers : Weighs(d)' => d = c \/ Weighs(d)
          BY <1>7, <3>2
        <5> QED
          BY <1>3, <2>1, <5>1 DEF Weighers
      <4>2. IsFiniteSet(Weighers \cup {e}) /\ Cardinality(Weighers \cup {e}) <= Cardinality(Weighers) + 1
            /\ Cardinality(Weighers \cup {e}) \in Nat
        <5>1. /\ IsFiniteSet(Weighers \cup {e})
              /\ Cardinality(Weighers \cup {e}) = IF e \in Weighers THEN Cardinality(Weighers) ELSE Cardinality(Weighers) + 1
          BY <2>4, FS_AddElement
        <5> QED
          BY <2>4, <5>1
      <4>3. Cardinality(W) <= Cardinality(Weighers \cup {e})
        BY <4>1, <4>2, FS_Subset
      <4>4. Cardinality(pooled \ {k}) = Cardinality(pooled) - 1
        BY <2>6, <3>2, FS_RemoveElement
      <4> QED
        BY <2>4, <2>8, <2>9, <4>2, <4>3, <4>4
    <3>3. CASE k \in pooled /\ \E d \in Callers \ {c} : TakesOff(d) /\ call[d].conn = k
      <4>1. k \in overtaken
        BY <1>1, <1>5, <3>3 DEF IInv, LInv, Met
      <4>2. H = G \cup {k} /\ k \notin G
        BY <2>5, <3>3, <4>1
      <4>3. Cardinality(H) = Cardinality(G) + 1
        BY <2>6, <4>2, FS_AddElement
      <4>4. q = p + n
        BY <2>6, <2>7, <4>3, ProductStep
      <4>5. Cardinality(pooled \ {k}) = Cardinality(pooled) - 1
        BY <2>6, <3>3, FS_RemoveElement
      <4> QED
        BY <2>4, <2>9, <4>4, <4>5
    <3> QED
      BY <3>1, <3>2, <3>3
  <2>11. Cardinality(Exchanges) - 1 = n
    BY <2>3
  <2> QED
    BY <1>5, <2>1, <2>5, <2>7, <2>10, <2>11 DEF TotalKept
<1> QED
  BY <1>9, <1>10, <1>11 DEF RoomInv

\* Resuming callers or losing a connection gives and takes no room.
LEMMA SameRoom ==
    ASSUME RoomInv, UNCHANGED <<pooled, record, overtaken>>,
           \A d \in Callers : /\ call'[d].conn = call[d].conn /\ call'[d].exchange = call[d].exchange
                              /\ Reserves(d)' <=> Reserves(d)
                              /\ Clears(d)' <=> Clears(d)
                              /\ Weighs(d)' <=> Weighs(d)
    PROVE  RoomInv'
<1>1. \A f : Of(f)' = Of(f)
  BY DEF Of
<1>2. Weighers' = Weighers
  BY DEF Weighers
<1>3. \A d \in Callers : Of(call[d].exchange)' = Of(call[d].exchange)
  BY DEF Of
<1>4. OvertakenMade'
  BY DEF RoomInv, OvertakenMade
<1>5. HasRoom'
  BY <1>1, <1>3 DEF RoomInv, HasRoom
<1>6. TotalKept'
  BY <1>2 DEF RoomInv, TotalKept
<1> QED
  BY <1>4, <1>5, <1>6 DEF RoomInv

LEMMA AnswersKeepsRoom ==
    ASSUME IInv, RoomInv, NEW k \in Conns, Answers(k)
    PROVE  RoomInv'
<1>1. PICK ok \in BOOLEAN : Resumes(k, ok) /\ UNCHANGED <<pooled, record>>
  BY AnswersSettle
<1>2. overtaken' = overtaken
  BY DEF Answers, ConnectResolves, DisconnectResolves
<1>3. ASSUME NEW d \in Callers
      PROVE  /\ call'[d].conn = call[d].conn /\ call'[d].exchange = call[d].exchange /\ call'[d].goal = call[d].goal
             /\ TakesOff(d)' <=> TakesOff(d)
             /\ Holds(d)' <=> Holds(d)
             /\ Rests(d) => call'[d] = call[d]
  BY <1>1, ResumedWork
<1>4. ASSUME NEW d \in Callers
      PROVE  /\ At(d, "creating")' <=> At(d, "creating")
             /\ At(d, "evicted")' <=> At(d, "evicted")
  <2>1. CASE Rests(d)
    BY <1>3, <2>1 DEF At
  <2>2. CASE ~Rests(d)
    <3>1. Holds(d) \/ TakesOff(d)
      BY <2>2 DEF Rests
    <3>2. Holds(d)' \/ TakesOff(d)'
      BY <1>3, <3>1
    <3> QED
      BY <3>1, <3>2 DEF At, Holds, TakesOff, HoldPcs, OffPcs
  <2> QED
    BY <2>1, <2>2
<1>5. ASSUME NEW d \in Callers
      PROVE  /\ Reserves(d)' <=> Reserves(d)
             /\ Clears(d)' <=> Clears(d)
             /\ Weighs(d)' <=> Weighs(d)
  BY <1>1, <1>3, <1>4 DEF Reserves, Clears, Weighs
<1> QED
  BY <1>1, <1>2, <1>3, <1>5, SameRoom

LEMMA EndsKeepsRoom ==
    ASSUME IInv, IInv', RoomInv, NEW c \in Callers, Ends(c)
    PROVE  RoomInv'
<1>t. call[c] \in Calls /\ disconnectOnRelease' = disconnectOnRelease
  BY DEF Ends, IInv, TypeOK
<1>1. CASE FactoryResolves(c, TRUE)
  BY <1>1, MadeKeepsRoom
<1>2. CASE FactoryResolves(c, FALSE)
  <2> DEFINE y == [call[c] EXCEPT !.pc = "acquireFailed"]
  <2>1. y \in Calls /\ y.pc = "acquireFailed" /\ y.pc \notin HoldPcs \cup OffPcs
    BY <1>t DEF Calls, Pcs, Resumable, HoldPcs, OffPcs
  <2>2. Rests(c)
    BY <1>2 DEF FactoryResolves, At, Rests, Holds, TakesOff, HoldPcs, OffPcs
  <2>3. CallStep(c)
    BY <1>2, <1>t, <2>1, <2>2, RestingStep DEF FactoryResolves, Goes, manager
  <2>4. call'[c].pc = "acquireFailed" /\ overtaken' = overtaken
    BY <1>2, <2>1 DEF FactoryResolves, Goes, IInv, TypeOK
  <2> QED
    BY <2>3, <2>4, NoRoomNeeded, CallStepKeepsRoom DEF OffPcs
<1>3. CASE Disposes(c, TRUE)
  BY <1>3, DisposedKeepsRoom
<1>4. CASE Disposes(c, FALSE)
  <2>1. /\ At(c, "disposing") /\ Becomes(call[c].conn, "FAILED") /\ UNCHANGED <<pooled, leases, manager, overtaken>>
        /\ Goes(c, [call[c] EXCEPT !.pc = "evictFailed"]) /\ faulty' = faulty \cup {call[c].conn}
    BY <1>4 DEF Disposes, Judges, manager
  <2>2. call'[c].pc = "evictFailed" /\ \A d \in Callers \ {c} : call'[d] = call[d]
    BY <1>t, <2>1 DEF Goes, Calls, IInv, TypeOK
  <2>3. Rests(c)' /\ ManagerMoves(c)
    BY <2>1, <2>2, UnchangedMoves DEF Rests, Holds, TakesOff, HoldPcs, OffPcs
  <2>4. EndsNow(c, call[c].conn) /\ call[c].conn \in Conns
    BY <2>1, <2>3 DEF EndsNow, At, Rests, TakesOff, OffPcs, IInv, LInv, AtWork
  <2>5. CallStep(c)
    BY <1>t, <2>1, <2>2, <2>3, <2>4 DEF CallStep, Others, ChangesRecord, At
  <2> QED
    BY <2>1, <2>2, <2>5, NoRoomNeeded, CallStepKeepsRoom DEF OffPcs
<1> QED
  BY <1>1, <1>2, <1>3, <1>4 DEF Ends

LEMMA RoomStep ==
    ASSUME IInv, SInv, RoomInv, [Next]_vars
    PROVE  RoomInv'
<1>0. IInv' /\ HasRoom
  BY NextStep DEF RoomInv
<1>1. ASSUME NEW c \in Callers, Asks(c) PROVE RoomInv'
  BY <1>0, <1>1, AsksIsCallStep, AsksNeedsRoom, CallStepKeepsRoom
<1>2. ASSUME NEW c \in Callers, GoesOn(c) PROVE RoomInv'
  BY <1>0, <1>2, GoesOnIsCallStep, GoesOnNeedsRoom, CallStepKeepsRoom
<1>3. ASSUME NEW c \in Callers, Ends(c) PROVE RoomInv'
  BY <1>0, <1>3, EndsKeepsRoom
<1>4. ASSUME NEW k \in Conns, Answers(k) PROVE RoomInv'
  BY <1>4, AnswersKeepsRoom
<1>5. CASE UNCHANGED <<pooled, record, overtaken, call>>
  BY <1>5, SameRoom DEF Reserves, Clears, Weighs, At, TakesOff
<1>6. ASSUME NEW k \in Conns, Tells(k) PROVE RoomInv'
  BY <1>5, <1>6 DEF Tells, Reports
<1>7. CASE UNCHANGED vars
  BY <1>5, <1>7 DEF vars
<1> QED
  BY <1>1, <1>2, <1>3, <1>4, <1>6, <1>7 DEF Next

LEMMA RoomInit == Init => RoomInv
<1> SUFFICES ASSUME Init PROVE RoomInv
  OBVIOUS
<1>1. \A c \in Callers : ~Reserves(c) /\ ~Clears(c) /\ ~Weighs(c)
  BY DEF Init, Idle, Reserves, Clears, Weighs, At, TakesOff, OffPcs
<1>2. \A e : Of(e) = {}
  BY DEF Init, Of
<1>3. Weighers = {} /\ pooled = {} /\ overtaken = {} /\ overtaken \ pooled = {}
  BY <1>1 DEF Init, Weighers
<1>4. Cardinality({}) = 0
  BY FS_EmptySet
<1>5. HasRoom
  <2>1. ASSUME NEW e \in Exchanges PROVE Cardinality(Of(e)) =< MaxPerExchange
    <3>1. Cardinality(Of(e)) = 0
      BY <1>2, <1>4
    <3>2. MaxPerExchange \in Nat
      BY ExchangesCount
    <3> QED
      BY <3>1, <3>2
  <2> QED
    BY <1>1, <2>1 DEF HasRoom
<1>6. TotalKept
  <2>1. PICK n \in Nat : Cardinality(Exchanges) - 1 = n
    BY ExchangesCount
  <2> QED
    BY <1>3, <1>4, <2>1, ExchangesCount DEF TotalKept
<1> QED
  BY <1>3, <1>5, <1>6 DEF RoomInv, OvertakenMade

LEMMA RoomHolds == Spec => []RoomInv
  BY InvariantHolds, SInvHolds, RoomInit, RoomStep, PTL DEF Spec

\* What is being created has room in its exchange, and weighs on the pool.
LEMMA LimitsFollow == IInv /\ RoomInv => LimitsKept
<1> SUFFICES ASSUME IInv, RoomInv PROVE LimitsKept
  OBVIOUS
<1> DEFINE Creating(e) == {c \in Callers : At(c, "creating") /\ call[c].exchange = e}
           All == UNION {Creating(e) : e \in Exchanges}
<1>1. ASSUME NEW e \in Exchanges
      PROVE  Cardinality(Of(e)) + Cardinality(Creating(e)) <= MaxPerExchange
  <2>1. Cardinality(Of(e)) \in Nat /\ MaxPerExchange \in Nat /\ Cardinality(Of(e)) <= MaxPerExchange
    BY PoolCounts, ExchangesCount DEF RoomInv, HasRoom
  <2>2. CASE Creating(e) = {}
    <3>1. Cardinality(Creating(e)) = 0
      BY <2>2, FS_EmptySet
    <3> QED
      BY <2>1, <3>1
  <2>3. CASE Creating(e) # {}
    <3>1. PICK c \in Callers : At(c, "creating") /\ call[c].exchange = e
      BY <2>3
    <3>2. Reserves(c) /\ \A d \in Callers : At(d, "creating") => Reserves(d)
      BY <3>1 DEF Reserves
    <3>3. Creating(e) = {c}
      BY <3>1, <3>2, Alone
    <3>4. Cardinality(Creating(e)) = 1
      BY <3>3, FS_Singleton
    <3>5. Cardinality(Of(e)) < MaxPerExchange
      BY <3>1, <3>2 DEF RoomInv, HasRoom
    <3> QED
      BY <2>1, <3>4, <3>5
  <2> QED
    BY <2>2, <2>3
<1>2. Cardinality(All) \in Nat /\ Cardinality(All) <= Cardinality(Weighers)
  <2> DEFINE f == [c \in All |-> call[c].exchange]
  <2>1. \A c \in All : c \in Callers /\ At(c, "creating") /\ Weighs(c) /\ call[c].exchange \in Exchanges
    BY DEF Weighs
  <2>2. \A c, d \in All : call[c].exchange = call[d].exchange => c = d
    BY <2>1, Alone
  <2>3. \A c \in All : call[c].exchange \in Weighers
    BY <2>1 DEF Weighers
  <2>4. f \in Injection(All, Weighers)
    BY <2>2, <2>3 DEF Injection, IsInjective
  <2>5. IsFiniteSet(Weighers)
    BY ExchangesCount DEF Weighers
  <2>6. IsFiniteSet(All) /\ Cardinality(All) <= Cardinality(Weighers)
    BY <2>4, <2>5, FS_Injection
  <2> QED
    BY <2>6, FS_CardinalityType
<1>3. Cardinality(pooled) + Cardinality(All)
         < MaxTotal + Cardinality(Exchanges) + (Cardinality(Exchanges) - 1) * Cardinality(overtaken)
  <2>1. PICK n \in Nat : Cardinality(Exchanges) = n + 1
    BY ExchangesCount
  <2>2. Cardinality(Exchanges) - 1 = n
    BY <2>1
  <2>3. PICK g \in Nat, h \in Nat : g = Cardinality(overtaken \ pooled) /\ h = Cardinality(overtaken) /\ g <= h
    <3>1. overtaken \in SUBSET Conns /\ overtaken \ pooled \in SUBSET overtaken
      BY DEF IInv, TypeOK
    <3>2. IsFiniteSet(overtaken) /\ Cardinality(overtaken) \in Nat
      BY <3>1, ConnsCount
    <3>3. Cardinality(overtaken \ pooled) <= Cardinality(overtaken)
      BY <3>1, <3>2, FS_Subset
    <3> QED
      BY <3>2, <3>3, PoolCounts
  <2>4. Cardinality(pooled) + Cardinality(Weighers) <= MaxTotal + n * (1 + g)
    BY <2>2, <2>3 DEF RoomInv, TotalKept
  <2>5. n * (1 + g) = n * g + n /\ n * g \in Nat
    BY <2>3, ProductStep
  <2>6. n * g <= n * h /\ n * h \in Nat
    BY <2>3, ProductGrows, ProductStep
  <2>7. Cardinality(pooled) \in Nat /\ Cardinality(Weighers) \in Nat /\ MaxTotal \in Nat
    BY PoolCounts, ExchangesCount DEF Weighers
  <2>8. Cardinality(pooled) + Cardinality(All) < MaxTotal + (n + 1) + n * h
    BY <1>2, <2>4, <2>5, <2>6, <2>7
  <2> QED
    BY <2>1, <2>2, <2>3, <2>8
<1> QED
  BY <1>1, <1>3 DEF LimitsKept

\* No exchange exceeds its limit, and the pool exceeds its own by no more than what the
\* acquisitions of other exchanges and the evictions that met can add.
THEOREM LimitsAreKept == Spec => []LimitsKept
  BY LimitsFollow, InvariantHolds, RoomHolds, PTL
=============================================================================
