----------------------- MODULE WebSocketConnectionPool -----------------------
(***************************************************************************)
(* WebSocketConnectionPool over WebSocketManager: acquire, release,        *)
(* evictConnection and cleanupIdleConnections, cut at their awaits, with   *)
(* the manager's shared operations (connect, disconnect) and its           *)
(* unregister. A caller has at most one lease, which carries its name.     *)
(*                                                                         *)
(* Left out: dispose, ensureCapacity (a sweep that stops early) and        *)
(* releaseConnection (several releases); endpoints, requests that do not   *)
(* connect, self-reconnecting connections, timestamps, snapshots and       *)
(* events. The order in which idle connections are chosen depends on       *)
(* timestamps: any may be chosen.                                          *)
(*                                                                         *)
(* External: the factory, and the connections, which connect, disconnect   *)
(* and dispose sooner or later, may fail to, may report at any time that   *)
(* they are open, closed or in error, and are in the state the manager has *)
(* of them. What a promise resumes runs before a connection's next event.  *)
(***************************************************************************)
EXTENDS Naturals, FiniteSets

CONSTANTS Callers, Exchanges,
          MaxConns,     \* bound: the connections ever created
          None,         \* no caller, no exchange
          MaxTotal, MaxPerExchange,
          EvictFailed,  \* evictFailedConnections
          MaxCalls      \* bound: calls made

ASSUME PoolAssumption ==
    /\ None \notin Callers \cup Exchanges
    /\ Exchanges # {} /\ IsFiniteSet(Exchanges)
    /\ MaxTotal \in Nat \ {0} /\ MaxPerExchange \in 1..MaxTotal
    /\ {MaxConns, MaxCalls} \subseteq Nat
    /\ EvictFailed \in BOOLEAN

VARIABLES disconnectOnRelease,
          pooled,       \* connections: the keys of the map
          record,       \* the pool's record of each connection, in the map or not
          leases,       \* the connection of each caller's lease
          pending,      \* pendingAcquisitions: who is in performAcquire
          state,        \* the manager's state of each connection
          operation,    \* activeOperations
          call,         \* what each caller waits for
          calls,        \* calls made
          overtaken,    \* connections an eviction and another call have worked on at once
          faulty        \* connections whose last operation to settle has failed

vars == <<disconnectOnRelease, pooled, record, leases, pending, state, operation, call, calls, overtaken, faulty>>
manager == <<state, operation>>

\* A connection is the number it gets when registered; 0 is none.
Conns == 1..MaxConns
Statuses == {"NONE", "IDLE", "LEASED", "CONNECTING", "EVICTING", "FAILED", "DISPOSED"}
States == {"UNREGISTERED", "REGISTERED", "CONNECTING", "CONNECTED", "DISCONNECTING", "DISCONNECTED", "FAILED"}

\* What a caller is resumed with, before anything else happens.
Resumable == {"again", "created", "connected", "connectFailed", "granted", "acquireFailed",
              "off", "offFailed", "offRetry", "evicted", "evictFailed"}
Pcs == Resumable \cup {"idle", "waiting", "creating", "connecting", "disconnecting", "queuedOff", "disposing"}

\* conn is the connection a caller works on, exchange the one it asked for. goal
\* is what an eviction or disconnection is for; forced is set in unregister.
Calls == [pc : Pcs, exchange : Exchanges \cup {None}, reuseOnly : BOOLEAN, conn : Conns \cup {0},
          goal : {"none", "room", "slot", "failure", "release", "manual", "sweep"}, forced : BOOLEAN,
          todo : SUBSET Conns]
Idle == [pc |-> "idle", exchange |-> None, reuseOnly |-> FALSE, conn |-> 0, goal |-> "none",
         forced |-> FALSE, todo |-> {}]

TypeOK ==
    /\ disconnectOnRelease \in BOOLEAN /\ pooled \subseteq Conns
    /\ record \in [Conns -> [exchange : Exchanges \cup {None}, status : Statuses, leases : SUBSET Callers]]
    /\ leases \in [Callers -> Conns \cup {0}]
    /\ pending \in [Exchanges -> Callers \cup {None}]
    /\ state \in [Conns -> States]
    /\ operation \in [Conns -> {"none", "connect", "disconnect"}]
    /\ call \in [Callers -> Calls] /\ calls \in 0..MaxCalls /\ overtaken \subseteq Conns /\ faulty \subseteq Conns

Init ==
    /\ disconnectOnRelease \in BOOLEAN
    /\ pooled = {} /\ leases = [c \in Callers |-> 0]
    /\ record = [k \in Conns |-> [exchange |-> None, status |-> "NONE", leases |-> {}]]
    /\ pending = [e \in Exchanges |-> None]
    /\ state = [k \in Conns |-> "UNREGISTERED"] /\ operation = [k \in Conns |-> "none"]
    /\ call = [c \in Callers |-> Idle] /\ calls = 0 /\ overtaken = {} /\ faulty = {}

At(c, pc) == call[c].pc = pc
Quiet == \A c \in Callers : call[c].pc \notin Resumable
Of(e) == {k \in pooled : record[k].exchange = e}
\* getIdleEvictionCandidates
Unused == {k \in pooled : record[k].status = "IDLE" /\ record[k].leases = {}}
\* The failed ones come first.
Candidates(S) == IF \E k \in S : state[k] = "FAILED" THEN {k \in S : state[k] = "FAILED"} ELSE S
Reusable(e) == {k \in Unused \cap Of(e) : state[k] \notin {"FAILED", "UNREGISTERED"}}
RequiresDisconnection(k) == state[k] \in {"CONNECTING", "CONNECTED", "DISCONNECTING", "FAILED"}
Active(k) == state[k] # "UNREGISTERED" /\ operation[k] # "none"

Becomes(k, status) == record' = [record EXCEPT ![k].status = status]
Goes(c, x) == call' = [call EXCEPT ![c] = x]
Returns(c) == Goes(c, Idle)

\* Somebody else works on k: an eviction, or a call that an eviction overtakes.
Busy(k, c) == \E d \in Callers \ {c} : call[d].conn = k
Meets(k, c) == overtaken' = IF Busy(k, c) THEN overtaken \cup {k} ELSE overtaken
\* What k was asked to do has settled.
Judges(k, ok) == faulty' = IF ok THEN faulty \ {k} ELSE faulty \cup {k}

-----------------------------------------------------------------------------
(* The manager: each operator says how caller c, whose call becomes x, goes on. *)

\* disconnect waits for an active operation and then starts over.
Disconnects(c, k, x) ==
    IF Active(k) THEN Goes(c, [x EXCEPT !.pc = "queuedOff"]) /\ UNCHANGED manager
    ELSE IF state[k] = "UNREGISTERED" THEN Goes(c, [x EXCEPT !.pc = "offFailed"]) /\ UNCHANGED manager
    ELSE IF state[k] \in {"REGISTERED", "DISCONNECTED"}
    THEN /\ state' = [state EXCEPT ![k] = "DISCONNECTED"]
         /\ Goes(c, [x EXCEPT !.pc = "off"]) /\ UNCHANGED operation
    ELSE /\ state' = [state EXCEPT ![k] = "DISCONNECTING"]
         /\ operation' = [operation EXCEPT ![k] = "disconnect"]
         /\ Goes(c, [x EXCEPT !.pc = "disconnecting"])

\* connect shares whatever operation is active, be it a disconnection.
Connects(c, k, x) ==
    IF Active(k) THEN Goes(c, [x EXCEPT !.pc = "connecting"]) /\ UNCHANGED manager
    ELSE IF state[k] \in {"UNREGISTERED", "DISCONNECTING"}
    THEN Goes(c, [x EXCEPT !.pc = "connectFailed"]) /\ UNCHANGED manager
    ELSE IF state[k] = "CONNECTED" THEN Goes(c, [x EXCEPT !.pc = "connected"]) /\ UNCHANGED manager
    ELSE /\ state' = [state EXCEPT ![k] = "CONNECTING"]
         /\ operation' = [operation EXCEPT ![k] = "connect"]
         /\ Goes(c, [x EXCEPT !.pc = "connecting"])

\* unregister, forced and with dispose.
Unregisters(c, k, x) ==
    IF state[k] = "UNREGISTERED" THEN Goes(c, [x EXCEPT !.pc = "offFailed"]) /\ UNCHANGED manager
    ELSE IF RequiresDisconnection(k) THEN Disconnects(c, k, [x EXCEPT !.forced = TRUE])
    ELSE Goes(c, [x EXCEPT !.pc = "disposing"]) /\ UNCHANGED manager

-----------------------------------------------------------------------------
(* Evictions *)

\* Mutant: a leased connection is not refused.
EvictsLeased(c, k, x) ==
    LET y == [x EXCEPT !.conn = k, !.forced = FALSE] IN
    /\ Becomes(k, "EVICTING")
    /\ Meets(k, c)
    /\ IF RequiresDisconnection(k) THEN Disconnects(c, k, y) ELSE Unregisters(c, k, y)

\* performEviction, up to its first await. A leased connection is refused.
Evicts(c, k, x) ==
    LET y == [x EXCEPT !.conn = k, !.forced = FALSE] IN
    IF record[k].leases # {}
    THEN Goes(c, [y EXCEPT !.pc = "evictFailed"]) /\ UNCHANGED <<record, manager, overtaken>>
    ELSE /\ Becomes(k, "EVICTING")
         /\ Meets(k, c)
         /\ IF RequiresDisconnection(k) THEN Disconnects(c, k, y) ELSE Unregisters(c, k, y)

\* The connection is off, or was not to be disconnected: unregister it.
Off(c) ==
    /\ At(c, "off") /\ call[c].goal # "release"
    /\ IF call[c].forced THEN Goes(c, [call[c] EXCEPT !.pc = "disposing"]) /\ UNCHANGED manager
       ELSE Unregisters(c, call[c].conn, call[c])
    /\ UNCHANGED <<pooled, record, leases, pending, calls, overtaken>>

OffRetry(c) ==
    /\ At(c, "offRetry")
    /\ Disconnects(c, call[c].conn, call[c])
    /\ UNCHANGED <<pooled, record, leases, pending, calls, overtaken>>

\* Mutant: the catch of performEviction does not reset the status.
OffFailedSilently(c) ==
    /\ At(c, "offFailed") /\ call[c].goal # "release"
    /\ Goes(c, [call[c] EXCEPT !.pc = "evictFailed"])
    /\ UNCHANGED <<pooled, record, leases, pending, manager, calls, overtaken>>

OffFailed(c) ==
    /\ At(c, "offFailed") /\ call[c].goal # "release"
    /\ Becomes(call[c].conn, "FAILED")
    /\ Goes(c, [call[c] EXCEPT !.pc = "evictFailed"])
    /\ UNCHANGED <<pooled, leases, pending, manager, calls, overtaken>>

\* connection.dispose(), then the rest of unregister and of performEviction.
Disposes(c, ok) ==
    LET k == call[c].conn IN
    /\ At(c, "disposing") /\ Quiet
    /\ IF ok THEN /\ state' = [state EXCEPT ![k] = "UNREGISTERED"]
                  /\ pooled' = pooled \ {k}
             ELSE UNCHANGED <<state, pooled>>
    /\ Becomes(k, IF ok THEN "DISPOSED" ELSE "FAILED")
    /\ Judges(k, ok)
    /\ Goes(c, [call[c] EXCEPT !.pc = IF ok THEN "evicted" ELSE "evictFailed"])
    /\ UNCHANGED <<leases, pending, operation, calls, overtaken>>

-----------------------------------------------------------------------------
(* acquire *)

\* One of the candidates makes room (goal: "room" in the exchange, a "slot" at all).
MakesRoom(c, x, goal, candidates) ==
    \/ /\ candidates = {}
       /\ Goes(c, [x EXCEPT !.pc = "acquireFailed"])
       /\ UNCHANGED <<record, manager, overtaken>>
    \/ \E k \in candidates : Evicts(c, k, [x EXCEPT !.goal = goal])

\* Mutant: only the limit of the exchange is checked.
CreatesRegardless(c, x) ==
    /\ Goes(c, [x EXCEPT !.pc = "creating", !.goal = "none", !.conn = 0])
    /\ UNCHANGED <<record, manager, overtaken>>

\* ensureCreationCapacity in its two steps, up to the call of the factory.
CreatesAtLimit(c, x) ==
    IF Cardinality(pooled) >= MaxTotal THEN MakesRoom(c, x, "slot", Candidates(Unused))
    ELSE /\ Goes(c, [x EXCEPT !.pc = "creating", !.goal = "none", !.conn = 0])
         /\ UNCHANGED <<record, manager, overtaken>>

Creates(c, x) ==
    IF Cardinality(Of(x.exchange)) >= MaxPerExchange
    THEN MakesRoom(c, x, "room", Candidates(Unused \cap Of(x.exchange)))
    ELSE CreatesAtLimit(c, x)

Grants(c, k, x) ==
    /\ leases' = [leases EXCEPT ![c] = k]
    /\ record' = [record EXCEPT ![k].status = "LEASED", ![k].leases = @ \cup {c}]
    /\ Goes(c, [x EXCEPT !.pc = "granted", !.conn = k])

\* The rest of performAcquire once it has its connection.
Uses(c, k, x) ==
    IF record[k].status = "DISPOSED"
    THEN Goes(c, [x EXCEPT !.pc = "acquireFailed"]) /\ UNCHANGED <<record, leases, manager>>
    ELSE IF state[k] = "CONNECTED" THEN Grants(c, k, x) /\ UNCHANGED manager
    ELSE /\ Becomes(k, "CONNECTING")
         /\ Connects(c, k, [x EXCEPT !.conn = k])
         /\ UNCHANGED leases

\* acquire, called or called again, joins the wait for its exchange or performs.
Acquires(c, x) ==
    LET e == x.exchange IN
    IF pending[e] # None
    THEN Goes(c, [x EXCEPT !.pc = "waiting"]) /\ UNCHANGED <<record, leases, pending, manager, overtaken>>
    ELSE /\ pending' = [pending EXCEPT ![e] = c]
         /\ \/ \E k \in Reusable(e) : Uses(c, k, x) /\ UNCHANGED overtaken
            \/ /\ Reusable(e) = {} /\ UNCHANGED leases
               /\ IF x.reuseOnly
                  THEN Goes(c, [x EXCEPT !.pc = "acquireFailed"]) /\ UNCHANGED <<record, manager, overtaken>>
                  ELSE Creates(c, x)

Acquire(c, e, reuseOnly) ==
    /\ At(c, "idle") /\ leases[c] = 0 /\ calls < MaxCalls
    /\ calls' = calls + 1
    /\ Acquires(c, [Idle EXCEPT !.exchange = e, !.reuseOnly = reuseOnly])
    /\ UNCHANGED pooled

Again(c) ==
    /\ At(c, "again")
    /\ Acquires(c, call[c])
    /\ UNCHANGED <<pooled, calls>>

\* factory.create() settles: register the connection and put it into the pool.
Made(c, k) ==
    /\ pooled' = pooled \cup {k}
    /\ record' = [record EXCEPT ![k].exchange = call[c].exchange, ![k].status = "IDLE"]
    /\ state' = [state EXCEPT ![k] = "REGISTERED"]
    /\ Goes(c, [call[c] EXCEPT !.pc = "created", !.conn = k])

FactoryResolves(c, ok) ==
    LET Fresh == {k \in Conns : record[k].status = "NONE"} IN
    /\ At(c, "creating") /\ Quiet
    /\ IF ok THEN \E k \in Fresh : (\A j \in Fresh : k <= j) /\ Made(c, k)
       ELSE /\ Goes(c, [call[c] EXCEPT !.pc = "acquireFailed"])
            /\ UNCHANGED <<pooled, record, state>>
    /\ UNCHANGED <<leases, pending, operation, calls, overtaken, faulty>>

Created(c) ==
    /\ At(c, "created")
    /\ Uses(c, call[c].conn, call[c])
    /\ UNCHANGED <<pooled, pending, calls, overtaken>>

Connected(c) ==
    /\ At(c, "connected")
    /\ Grants(c, call[c].conn, call[c])
    /\ UNCHANGED <<pooled, pending, manager, calls, overtaken>>

ConnectFailed(c) ==
    LET k == call[c].conn IN
    /\ At(c, "connectFailed")
    /\ IF EvictFailed /\ record[k].leases = {} THEN Evicts(c, k, [call[c] EXCEPT !.goal = "failure"])
       ELSE /\ Becomes(k, "FAILED")
            /\ Goes(c, [call[c] EXCEPT !.pc = "acquireFailed"])
            /\ UNCHANGED <<manager, overtaken>>
    /\ UNCHANGED <<pooled, leases, pending, calls>>

\* Mutant: pendingAcquisitions is cleared in a then instead of a finally.
SettlesInThen(c) ==
    LET e == call[c].exchange IN
    /\ call[c].pc \in {"granted", "acquireFailed"}
    /\ pending' = IF At(c, "granted") THEN [pending EXCEPT ![e] = None] ELSE pending
    /\ call' = [d \in Callers |->
                  IF d = c THEN Idle
                  ELSE IF At(c, "granted") /\ At(d, "waiting") /\ call[d].exchange = e
                  THEN [call[d] EXCEPT !.pc = "again"] ELSE call[d]]
    /\ UNCHANGED <<pooled, record, leases, manager, calls, overtaken>>

\* The promise of performAcquire settles: those that wait for it call acquire
\* again, or fail with it.
Settles(c) ==
    LET e == call[c].exchange IN
    /\ call[c].pc \in {"granted", "acquireFailed"}
    /\ pending' = [pending EXCEPT ![e] = None]
    /\ call' = [d \in Callers |->
                  IF d = c THEN Idle
                  ELSE IF ~(At(d, "waiting") /\ call[d].exchange = e) THEN call[d]
                  ELSE IF At(c, "granted") THEN [call[d] EXCEPT !.pc = "again"] ELSE Idle]
    /\ UNCHANGED <<pooled, record, leases, manager, calls, overtaken>>

-----------------------------------------------------------------------------
(* What follows an eviction *)

Acquiring(c) == call[c].goal \in {"room", "slot", "failure"}

Evicted(c) ==
    LET x == call[c] IN
    /\ At(c, "evicted") /\ Acquiring(c)
    /\ IF x.goal = "room" THEN CreatesAtLimit(c, x)
       ELSE /\ Goes(c, [x EXCEPT !.pc = IF x.goal = "slot" THEN "creating" ELSE "acquireFailed", !.goal = "none", !.conn = 0])
            /\ UNCHANGED <<record, manager, overtaken>>
    /\ UNCHANGED <<pooled, leases, pending, calls>>

EvictionFailed(c) ==
    /\ At(c, "evictFailed") /\ Acquiring(c)
    /\ Goes(c, [call[c] EXCEPT !.pc = "acquireFailed"])
    /\ UNCHANGED <<pooled, record, leases, pending, manager, calls, overtaken>>

\* evictConnection returns; cleanupIdleConnections goes on with its list.
EvictionReturns(c) ==
    /\ call[c].pc \in {"evicted", "evictFailed"} /\ call[c].goal \in {"manual", "sweep"}
    /\ IF call[c].todo = {} THEN Returns(c) /\ UNCHANGED <<record, manager, overtaken>>
       ELSE \E k \in call[c].todo : Evicts(c, k, [call[c] EXCEPT !.todo = @ \ {k}])
    /\ UNCHANGED <<pooled, leases, pending, calls>>

EvictConnection(c, k) ==
    /\ At(c, "idle") /\ calls < MaxCalls
    /\ calls' = calls + 1
    /\ k \in pooled /\ Evicts(c, k, [Idle EXCEPT !.goal = "manual"])
    /\ UNCHANGED <<pooled, leases, pending>>

\* S: the unused connections idle for too long.
CleanupIdleConnections(c, S) ==
    /\ At(c, "idle") /\ calls < MaxCalls
    /\ calls' = calls + 1
    /\ S # {} /\ \E k \in S : Evicts(c, k, [Idle EXCEPT !.goal = "sweep", !.todo = S \ {k}])
    /\ UNCHANGED <<pooled, leases, pending>>

-----------------------------------------------------------------------------
(* release *)

Leaves(c, k, status) == record' = [record EXCEPT ![k].leases = @ \ {c}, ![k].status = status]

Release(c) ==
    LET k == leases[c]
        off(goal) == Disconnects(c, k, [Idle EXCEPT !.conn = k, !.goal = goal])
    IN
    /\ At(c, "idle") /\ k # 0 /\ calls < MaxCalls
    /\ calls' = calls + 1
    /\ leases' = [leases EXCEPT ![c] = 0]
    /\ IF k \notin pooled THEN Returns(c) /\ UNCHANGED <<record, manager, overtaken>>
       ELSE IF record[k].leases \ {c} # {}
       THEN Leaves(c, k, "LEASED") /\ Returns(c) /\ UNCHANGED <<manager, overtaken>>
       ELSE IF EvictFailed /\ state[k] = "FAILED"
       THEN Leaves(c, k, "EVICTING") /\ Meets(k, c) /\ off("manual")
       ELSE IF disconnectOnRelease /\ RequiresDisconnection(k)
       THEN Leaves(c, k, record[k].status) /\ UNCHANGED overtaken /\ off("release")
       ELSE Leaves(c, k, "IDLE") /\ Returns(c) /\ UNCHANGED <<manager, overtaken>>
    /\ UNCHANGED <<pooled, pending>>

\* A failed disconnection is thrown, and leaves the status as it is.
Released(c) ==
    /\ call[c].pc \in {"off", "offFailed"} /\ call[c].goal = "release"
    /\ IF At(c, "off") THEN Becomes(call[c].conn, "IDLE") ELSE UNCHANGED record
    /\ Returns(c)
    /\ UNCHANGED <<pooled, leases, pending, manager, calls, overtaken>>

-----------------------------------------------------------------------------
(* External: the connections *)

\* The promise of k's operation settles, and with it all who share it.
Resumes(k, ok) ==
    call' = [c \in Callers |->
        IF call[c].conn # k THEN call[c]
        ELSE IF At(c, "connecting") THEN [call[c] EXCEPT !.pc = IF ok THEN "connected" ELSE "connectFailed"]
        ELSE IF At(c, "disconnecting") THEN [call[c] EXCEPT !.pc = IF ok THEN "off" ELSE "offFailed"]
        ELSE IF At(c, "queuedOff") THEN [call[c] EXCEPT !.pc = IF ok THEN "offRetry" ELSE "offFailed"]
        ELSE call[c]]

\* performConnect after its await: CONNECTED, unless an event has come in between.
ConnectResolves(k, succeeds) ==
    LET opening == state[k] \in {"CONNECTING", "CONNECTED"}
        ok == succeeds /\ opening
    IN
    /\ operation[k] = "connect" /\ Quiet
    /\ state' = [state EXCEPT ![k] = IF ~opening THEN @ ELSE IF ok THEN "CONNECTED" ELSE "FAILED"]
    /\ operation' = [operation EXCEPT ![k] = "none"]
    /\ Resumes(k, ok) /\ Judges(k, ok)
    /\ UNCHANGED <<pooled, record, leases, pending, calls, overtaken>>

\* performDisconnect after its await: a failure leaves the state as it is.
DisconnectResolves(k, succeeds) ==
    LET ok == succeeds /\ state[k] # "UNREGISTERED" IN
    /\ operation[k] = "disconnect" /\ Quiet
    /\ state' = [state EXCEPT ![k] = IF ok THEN "DISCONNECTED" ELSE @]
    /\ operation' = [operation EXCEPT ![k] = "none"]
    /\ Resumes(k, ok) /\ Judges(k, ok)
    /\ UNCHANGED <<pooled, record, leases, pending, calls, overtaken>>

\* onOpen, onClose and onError: the table of transitions allows these.
Reports(k, to) ==
    /\ Quiet
    /\ \/ to = "CONNECTED" /\ state[k] = "CONNECTING"
       \/ to = "DISCONNECTED" /\ state[k] \notin {"UNREGISTERED", "DISCONNECTED"}
       \/ to = "FAILED" /\ state[k] \in {"CONNECTING", "CONNECTED"}
    /\ state' = [state EXCEPT ![k] = to]
    /\ UNCHANGED <<pooled, record, leases, pending, operation, call, calls, overtaken>>

-----------------------------------------------------------------------------
\* disconnectOnRelease is an option of the constructor.
GoesOn(c) ==
    /\ \/ Again(c) \/ Created(c) \/ Connected(c) \/ ConnectFailed(c) \/ Settles(c)
       \/ Off(c) \/ OffRetry(c) \/ OffFailed(c) \/ Released(c)
       \/ Evicted(c) \/ EvictionFailed(c) \/ EvictionReturns(c)
    /\ UNCHANGED <<disconnectOnRelease, faulty>>

\* What a connection or the factory has been asked to do ends, well or not.
Ends(c) ==
    /\ \E ok \in BOOLEAN : FactoryResolves(c, ok) \/ Disposes(c, ok)
    /\ UNCHANGED disconnectOnRelease

Answers(k) ==
    /\ \E ok \in BOOLEAN : ConnectResolves(k, ok) \/ DisconnectResolves(k, ok)
    /\ UNCHANGED disconnectOnRelease

Asks(c) ==
    /\ \/ \E e \in Exchanges, reuseOnly \in BOOLEAN : Acquire(c, e, reuseOnly)
       \/ \E k \in Conns : EvictConnection(c, k)
       \/ \E S \in SUBSET Unused : CleanupIdleConnections(c, S)
       \/ Release(c)
    /\ UNCHANGED <<disconnectOnRelease, faulty>>

Tells(k) ==
    /\ \E to \in {"CONNECTED", "DISCONNECTED", "FAILED"} : Reports(k, to)
    /\ UNCHANGED <<disconnectOnRelease, faulty>>

Next ==
    \/ \E c \in Callers : Asks(c) \/ GoesOn(c) \/ Ends(c)
    \/ \E k \in Conns : Answers(k) \/ Tells(k)

\* Promises resume, and what has been asked of the connections ends.
Fairness ==
    /\ \A c \in Callers : WF_vars(GoesOn(c)) /\ WF_vars(Ends(c))
    /\ \A k \in Conns : WF_vars(Answers(k))

Spec == Init /\ [][Next]_vars /\ Fairness

-----------------------------------------------------------------------------
(* Properties *)

AllIdle == \A c \in Callers : At(c, "idle")

\* No exchange exceeds maxConnectionsPerExchange, counting what is being created,
\* for its acquisitions follow one another. Those of other exchanges do not: each
\* may add one to the last that maxTotalConnections leaves room for; and where an
\* eviction has met another call on a connection, several of them may each have
\* evicted it to make room for one of their own.
LimitsKept ==
    LET Creating(e) == {c \in Callers : At(c, "creating") /\ call[c].exchange = e} IN
    /\ \A e \in Exchanges : Cardinality(Of(e)) + Cardinality(Creating(e)) <= MaxPerExchange
    /\ Cardinality(pooled) + Cardinality(UNION {Creating(e) : e \in Exchanges})
           < MaxTotal + Cardinality(Exchanges) + (Cardinality(Exchanges) - 1) * Cardinality(overtaken)

\* Two callers never have leases of one connection, whatever acquisitions, evictions
\* and failures overlap. What is leased is in the pool, which knows of the lease,
\* unless an eviction has met another call that was at work on the connection.
LeasesAreSound ==
    \A c \in Callers : LET k == leases[c] IN
        k # 0 => /\ \A d \in Callers \ {c} : leases[d] # k
                 /\ k \in overtaken \/ (k \in pooled /\ record[k].status = "LEASED" /\ record[k].leases = {c})

\* When no call is under way, an unleased connection is IDLE, so that it can be chosen,
\* swept or evicted to make room; calls that overlap strand none. What is not IDLE has
\* failed itself: the last operation asked of it to settle did, which leaves it FAILED,
\* or LEASED if that was its disconnection on release.
NoneStranded ==
    AllIdle => \A k \in pooled : record[k].leases = {} =>
        \/ record[k].status = "IDLE"
        \/ k \in faulty /\ (record[k].status = "FAILED" \/ (record[k].status = "LEASED" /\ disconnectOnRelease))

\* Every call ends, though it waits for others that may fail (pendingAcquisitions,
\* activeOperations).
CallsEnd == \A c \in Callers : ~At(c, "idle") ~> At(c, "idle")
=============================================================================
