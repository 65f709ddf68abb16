------------------- MODULE ExchangeWebSocketClient_proofs -------------------
(***************************************************************************)
(* Proofs about the websocket client, for any number of callers,           *)
(* subscriptions, connections and calls: READY is never a leftover of a    *)
(* socket whose end the client has been told of, and a destroyed client    *)
(* stays destroyed when nothing is in flight.                              *)
(***************************************************************************)
EXTENDS ExchangeWebSocketClient, CollectionLemmas, TLAPS

\* The socket a call of connect works with is one that was made for it.
CallsKnowTheirSocket ==
    \A c \in Callers : call[c].pc \in {"opening", "authenticating"} => call[c].sock \in Sockets

\* The part of the type that ReadyIsLive needs, and ReadyIsLive: inductive.
LiveInv ==
    /\ connects \in Nat
    /\ sock = [k \in Sockets |-> sock[k]]
    /\ call = [c \in Callers |-> [pc |-> call[c].pc, sock |-> call[c].sock, sub |-> call[c].sub]]
    /\ CallsKnowTheirSocket
    /\ ReadyIsLive

LEMMA LiveInit == Init => LiveInv
  BY DEF Init, LiveInv, CallsKnowTheirSocket, ReadyIsLive, Idle

\* What a step does to the calls: one of them returns or goes on.
CallsMove ==
    \/ UNCHANGED call
    \/ \E c \in Callers : \E q :
          /\ call' = [call EXCEPT ![c] = q]
          /\ q = [pc |-> q.pc, sock |-> q.sock, sub |-> q.sub]
          /\ q.pc \in {"opening", "authenticating"} => q.sock \in Sockets

LEMMA CallsKept ==
    ASSUME LiveInv, CallsMove
    PROVE  /\ call' = [k \in Callers |-> [pc |-> call'[k].pc, sock |-> call'[k].sock, sub |-> call'[k].sub]]
           /\ CallsKnowTheirSocket'
<1>1. CASE UNCHANGED call
  BY <1>1 DEF LiveInv, CallsKnowTheirSocket
<1>2. ASSUME NEW c \in Callers, NEW q, call' = [call EXCEPT ![c] = q],
             q = [pc |-> q.pc, sock |-> q.sock, sub |-> q.sub],
             q.pc \in {"opening", "authenticating"} => q.sock \in Sockets
      PROVE  /\ call' = [k \in Callers |-> [pc |-> call'[k].pc, sock |-> call'[k].sock, sub |-> call'[k].sub]]
             /\ CallsKnowTheirSocket'
  <2>1. \A k \in Callers : call'[k] = IF k = c THEN q ELSE call[k]
    BY <1>2 DEF LiveInv
  <2>2. \A k \in Callers : call[k] = [pc |-> call[k].pc, sock |-> call[k].sock, sub |-> call[k].sub]
    BY DEF LiveInv
  <2>3. call' = [k \in Callers |-> call'[k]]
    BY <1>2 DEF LiveInv
  <2> QED
    BY <1>2, <2>1, <2>2, <2>3 DEF LiveInv, CallsKnowTheirSocket
<1> QED
  BY <1>1, <1>2 DEF CallsMove

LEMMA ReturnMoves == ASSUME NEW c \in Callers, Returns(c) PROVE CallsMove
<1>1. /\ Idle = [pc |-> Idle.pc, sock |-> Idle.sock, sub |-> Idle.sub]
      /\ Idle.pc \notin {"opening", "authenticating"}
  BY DEF Idle
<1> QED
  BY <1>1 DEF Returns, CallsMove

LEMMA WaitMoves ==
    ASSUME LiveInv, NEW c \in Callers, NEW pc, WaitsAt(c, pc),
           pc \in {"opening", "authenticating"} => call[c].pc \in {"opening", "authenticating"}
    PROVE  CallsMove
<1> DEFINE q == [call[c] EXCEPT !.pc = pc]
<1>1. call' = [call EXCEPT ![c] = q]
  BY DEF WaitsAt
<1>2. q = [pc |-> pc, sock |-> call[c].sock, sub |-> call[c].sub]
  BY DEF LiveInv
<1> HIDE DEF q
<1>3. q = [pc |-> q.pc, sock |-> q.sock, sub |-> q.sub] /\ q.pc = pc /\ q.sock = call[c].sock
  BY <1>2
<1>4. q.pc \in {"opening", "authenticating"} => q.sock \in Sockets
  BY <1>3 DEF LiveInv, CallsKnowTheirSocket
<1> QED
  BY <1>1, <1>3, <1>4 DEF CallsMove

\* The sockets stay what they are, and no close is reported.
LEMMA SameSockets ==
    ASSUME LiveInv, UNCHANGED <<connects, sock, closeDue>>, CallsMove,
           state' = "READY" /\ ~outlived' =>
               (state = "READY" /\ ~outlived) \/ \E k \in Sockets : Live(k)
    PROVE  LiveInv'
<1>1. ReadyIsLive'
  BY DEF LiveInv, ReadyIsLive, Live
<1> QED
  BY <1>1, CallsKept DEF LiveInv

\* A step after which the client is not READY.
LEMMA NotReady ==
    ASSUME LiveInv, connects' \in Nat, sock' = [k \in Sockets |-> sock'[k]], CallsMove, state' # "READY"
    PROVE  LiveInv'
  BY CallsKept DEF LiveInv, ReadyIsLive

LEMMA LiveNext == LiveInv /\ [Next]_vars => LiveInv'
<1> SUFFICES ASSUME LiveInv, [Next]_vars PROVE LiveInv'
  OBVIOUS
<1> USE DEF transport, logins, client, TransitionState, Starts, At
<1>1. ASSUME NEW c \in Callers, ConnectBegin(c) PROVE LiveInv'
  <2> DEFINE q == [pc |-> "opening", sock |-> connects + 1, sub |-> NoSub]
  <2>1. connects + 1 \in Sockets
    BY <1>1, WebSocketAssumption DEF ConnectBegin, Sockets, LiveInv
  <2>2. CallsMove
    <3>1. call' = [call EXCEPT ![c] = q]
      BY <1>1 DEF ConnectBegin
    <3>2. q = [pc |-> q.pc, sock |-> q.sock, sub |-> q.sub] /\ q.sock \in Sockets
      BY <2>1
    <3> QED
      BY <3>1, <3>2 DEF CallsMove
  <2>3. state' # "READY" /\ connects' \in Nat
    BY <1>1 DEF ConnectBegin, LiveInv
  <2>4. sock' = [k \in Sockets |-> sock'[k]]
    BY <1>1 DEF ConnectBegin, LiveInv
  <2> QED
    BY <2>2, <2>3, <2>4, NotReady
<1>2. ASSUME NEW c \in Callers, ConnectResolves(c) PROVE LiveInv'
  <2>1. CallsMove
    BY <1>2, ReturnMoves, WaitMoves DEF ConnectResolves
  <2>2. UNCHANGED <<connects, sock, closeDue>>
    BY <1>2 DEF ConnectResolves
  <2>3. \E k \in Sockets : Live(k)
    BY <1>2 DEF ConnectResolves, LiveInv, CallsKnowTheirSocket, Live
  <2> QED
    BY <2>1, <2>2, <2>3, SameSockets
<1>3. ASSUME NEW c \in Callers, AuthenticateResolves(c) PROVE LiveInv'
  <2>1. CallsMove
    BY <1>3, ReturnMoves DEF AuthenticateResolves
  <2>2. UNCHANGED <<connects, sock, closeDue>>
    BY <1>3 DEF AuthenticateResolves
  <2>3. ~outlived' => \E k \in Sockets : Live(k)
    BY <1>3 DEF AuthenticateResolves, LiveInv, CallsKnowTheirSocket
  <2> QED
    BY <2>1, <2>2, <2>3, SameSockets
<1>4. ASSUME NEW c \in Callers, ConnectFails(c) PROVE LiveInv'
  <2>1. CallsMove
    BY <1>4, ReturnMoves DEF ConnectFails
  <2>2. state' # "READY" /\ connects' \in Nat /\ sock' = [k \in Sockets |-> sock'[k]]
    BY <1>4 DEF ConnectFails, LiveInv
  <2> QED
    BY <2>1, <2>2, NotReady
<1>5. ASSUME NEW c \in Callers, NEW s \in Subs, SubscribeBegin(c, s) \/ UnsubscribeBegin(c, s) PROVE LiveInv'
  <2>1. PICK pc \in {"announcing", "retracting"} : call' = [call EXCEPT ![c] = [pc |-> pc, sock |-> 0, sub |-> s]]
    BY <1>5 DEF SubscribeBegin, UnsubscribeBegin
  <2>2. CallsMove
    <3> DEFINE q == [pc |-> pc, sock |-> 0, sub |-> s]
    <3>1. q = [pc |-> q.pc, sock |-> q.sock, sub |-> q.sub] /\ q.pc \notin {"opening", "authenticating"}
      OBVIOUS
    <3> QED
      BY <2>1, <3>1 DEF CallsMove
  <2> QED
    BY <1>5, <2>2, SameSockets DEF SubscribeBegin, UnsubscribeBegin
<1>6. ASSUME NEW c \in Callers, Send(c) PROVE LiveInv'
  <2>1. PICK pc \in {"subscribing", "unsubscribing"} :
            call' = [call EXCEPT ![c] = [pc |-> pc, sock |-> Current, sub |-> call[c].sub]]
    BY <1>6 DEF Send
  <2>2. CallsMove
    <3> DEFINE q == [pc |-> pc, sock |-> Current, sub |-> call[c].sub]
    <3>1. q = [pc |-> q.pc, sock |-> q.sock, sub |-> q.sub] /\ q.pc \notin {"opening", "authenticating"}
      OBVIOUS
    <3> QED
      BY <2>1, <3>1 DEF CallsMove
  <2> QED
    BY <1>6, <2>2, SameSockets DEF Send
<1>7. ASSUME NEW c \in Callers, Sent(c) \/ SendFails(c) PROVE LiveInv'
  <2>1. CallsMove
    BY <1>7, ReturnMoves DEF Sent, SendFails
  <2> QED
    BY <1>7, <2>1, SameSockets DEF Sent, SendFails
<1>8. ASSUME NEW c \in Callers, DisconnectResolves(c) PROVE LiveInv'
  <2>1. CallsMove
    BY <1>8, ReturnMoves, WaitMoves DEF DisconnectResolves
  <2>2. state' # "READY" /\ connects' \in Nat /\ sock' = [k \in Sockets |-> sock'[k]]
    BY <1>8 DEF DisconnectResolves, TransportCloses, LiveInv
  <2> QED
    BY <2>1, <2>2, NotReady
<1>9. ASSUME NEW c \in Callers, DisconnectFails(c) \/ DestroyFails(c) PROVE LiveInv'
  <2>1. CallsMove
    BY <1>9, ReturnMoves DEF DisconnectFails, DestroyFails
  <2>2. state' # "READY" /\ connects' \in Nat /\ sock' = [k \in Sockets |-> sock'[k]]
    BY <1>9 DEF DisconnectFails, DestroyFails, LiveInv
  <2> QED
    BY <2>1, <2>2, NotReady
<1>10. ASSUME NEW c \in Callers, DestroyResolves(c) PROVE LiveInv'
  <2>1. CallsMove
    BY <1>10, ReturnMoves DEF DestroyResolves
  <2>2. state' # "READY" /\ connects' \in Nat /\ sock' = [k \in Sockets |-> sock'[k]]
    BY <1>10 DEF DestroyResolves, TransportCloses, LiveInv
  <2> QED
    BY <2>1, <2>2, NotReady
<1>11. ASSUME NEW c \in Callers, DisconnectCreated(c) \/ DisconnectBegin(c) \/ DestroyBegin(c) PROVE LiveInv'
  <2>1. CallsMove
    BY <1>11, WaitMoves DEF DisconnectCreated, DisconnectBegin, DestroyBegin, CallsMove
  <2> QED
    BY <1>11, <2>1, SameSockets DEF DisconnectCreated, DisconnectBegin, DestroyBegin
<1>12. ASSUME NEW k \in Sockets, OnOpen(k) PROVE LiveInv'
  <2>1. ReadyIsLive'
    BY <1>12 DEF OnOpen, LiveInv, ReadyIsLive, Live
  <2> QED
    BY <1>12, <2>1 DEF OnOpen, LiveInv, CallsKnowTheirSocket
<1>13. ASSUME NEW k \in Sockets, RemoteClose(k) PROVE LiveInv'
  <2>1. ReadyIsLive'
    BY <1>13 DEF RemoteClose, LiveInv, ReadyIsLive, Live
  <2> QED
    BY <1>13, <2>1 DEF RemoteClose, LiveInv, CallsKnowTheirSocket
<1>14. ASSUME NEW k \in Sockets, OnClose(k) PROVE LiveInv'
  BY <1>14, NotReady DEF OnClose, LiveInv, CallsMove
<1>15. CASE UNCHANGED vars
  BY <1>15, SameSockets DEF vars, CallsMove
<1> QED
  BY <1>1, <1>2, <1>3, <1>4, <1>5, <1>6, <1>7, <1>8, <1>9, <1>10, <1>11, <1>12, <1>13, <1>14, <1>15
     DEF Next, Calls, Resumes

\* ReadyIsLive: a client that shows READY has a socket that is open, or one whose
\* close it has not been told of, however connects, disconnects and closes overlap,
\* unless READY was made by a login that ended after its socket was gone.
THEOREM ReadyNeedsASocket == Spec => []ReadyIsLive
<1>1. LiveInv => ReadyIsLive
  BY DEF LiveInv
<1> QED
  BY <1>1, LiveInit, LiveNext, PTL DEF Spec

\* DestroyedIsFinal: without a call in flight, DESTROYED is never left.
THEOREM DestroyedStays == Spec => DestroyedIsFinal
<1>1. [Next]_vars => (state = "DESTROYED" /\ Quiet => state' = "DESTROYED")
  <2> SUFFICES ASSUME [Next]_vars, state = "DESTROYED", Quiet PROVE state' = "DESTROYED"
    OBVIOUS
  <2>1. ASSUME NEW c \in Callers, Calls(c) PROVE state' = "DESTROYED"
    BY <2>1 DEF Calls, ConnectBegin, SubscribeBegin, UnsubscribeBegin, DisconnectCreated, DisconnectBegin, DestroyBegin
  <2>2. ASSUME NEW c \in Callers, Resumes(c) PROVE state' = "DESTROYED"
    <3>1. call[c].pc = "idle"
      BY DEF Quiet, At
    <3> QED
      BY <2>2, <3>1 DEF Resumes, ConnectResolves, AuthenticateResolves, ConnectFails, Send, Sent, SendFails,
           DisconnectResolves, DisconnectFails, DestroyResolves, DestroyFails, At, client
  <2>3. ASSUME NEW k \in Sockets, OnOpen(k) \/ RemoteClose(k) \/ OnClose(k) PROVE state' = "DESTROYED"
    BY <2>3 DEF OnOpen, RemoteClose, OnClose, client
  <2>4. CASE UNCHANGED vars
    BY <2>4 DEF vars
  <2> QED
    BY <2>1, <2>2, <2>3, <2>4 DEF Next
<1> QED
  BY <1>1, PTL DEF Spec, DestroyedIsFinal

-----------------------------------------------------------------------------
(* What a settled client shows is what the exchange does *)

Using(k) == sock[k] \in {"opening", "open"}
Calling(c) == call[c].pc \in {"opening", "authenticating"}
Announcing(c) == call[c].pc \in {"announcing", "retracting"}
Pending(c) == call[c].pc \in {"subscribing", "unsubscribing"}

\* The calls work with what was made for them.
CallsWellFormed ==
    \A c \in Callers :
        /\ Calling(c) => call[c].sock \in 1..connects
        /\ Announcing(c) \/ Pending(c) => call[c].sub \in Subs
        /\ Pending(c) => call[c].sock \in Sockets /\ sock[call[c].sock] \in {"open", "closed"}

TypeInv == TypeOK /\ CallsWellFormed

\* The transport holds one socket at most; a new one serves nothing, and, unless
\* a login outlived its socket, a client that shows READY does not use it until
\* its connect has returned.
OneSocket == \A k \in Sockets : Using(k) => busy /\ \A j \in Sockets : Using(j) => j = k
UnusedSockets == \A k \in Sockets : k > connects => sock[k] = "none"
OwnSocket == \A c, d \in Callers : Calling(c) /\ Calling(d) /\ call[c].sock = call[d].sock => c = d
NotReadyYet ==
    lateLogin \/ \A c \in Callers : Calling(c) /\ Using(call[c].sock) => state # "READY"
NothingBeforeOpen == \A k \in Sockets : sock[k] \in {"none", "opening"} => remote[k] = {}
NothingBeforeReady ==
    lateLogin \/ \A c \in Callers :
        Calling(c) /\ sock[call[c].sock] = "open" => remote[call[c].sock] = {}

SocketInv ==
    /\ OneSocket
    /\ UnusedSockets
    /\ OwnSocket
    /\ NotReadyYet
    /\ NothingBeforeOpen
    /\ NothingBeforeReady

\* The messages that are not confirmed, oldest first. On a socket that is open
\* the newest of them about a subscription says what the exchange does about it.
Positions == DOMAIN outbox
OnceEach == \A i, j \in Positions : outbox[i] = outbox[j] => i = j
PendingQueued == \A c \in Callers : Pending(c) <=> \E i \in Positions : outbox[i] = c
SocketOf(i) == call[outbox[i]].sock
SubOf(i) == call[outbox[i]].sub
NewerSameSocket ==
    \A i, j \in Positions : i < j /\ sock[SocketOf(i)] = "open" => SocketOf(j) = SocketOf(i)
Latest(i) == \A j \in Positions : i < j => SubOf(j) # SubOf(i)
LatestHolds ==
    \A i \in Positions :
        sock[SocketOf(i)] = "open" /\ Latest(i) =>
            IF At(outbox[i], "subscribing")
            THEN SubOf(i) \in remote[SocketOf(i)] \cup refused
            ELSE SubOf(i) \notin remote[SocketOf(i)] \ refused

OutboxInv == OnceEach /\ PendingQueued /\ NewerSameSocket /\ LatestHolds

\* A subscription shown ACTIVE is served, or the client will hear that it is not;
\* one shown INACTIVE on a READY client is not served, or a message is under way.
AboutIt(s) == \E c \in Callers : Pending(c) /\ call[c].sub = s
ActiveExplained ==
    \A s \in Subs : subscriptions[s] = "ACTIVE" =>
        \/ closeDue # {} \/ teardownFailed \/ s \in refused \/ AboutIt(s)
        \/ \E k \in Sockets : sock[k] = "open" /\ s \in remote[k]
InactiveExplained ==
    \A s \in Subs : state = "READY" /\ ~lateLogin /\ subscriptions[s] = "INACTIVE" =>
        \/ AboutIt(s)
        \/ \A k \in Sockets : sock[k] = "open" => s \notin remote[k] \ refused

ClientInv == TypeInv /\ SocketInv /\ OutboxInv /\ ActiveExplained /\ InactiveExplained

-----------------------------------------------------------------------------
(* How calls move *)

CallRecords == [pc : {"idle", "opening", "authenticating", "announcing", "subscribing",
                      "retracting", "unsubscribing", "closing", "closingFirst", "destroying"},
                sock : 0..MaxConnects, sub : Subs \cup {NoSub}]

\* Caller c comes to q, the others stay where they are.
CallIs(c, q) ==
    /\ call' \in [Callers -> CallRecords]
    /\ \A d \in Callers : call'[d] = IF d = c THEN q ELSE call[d]

LEMMA CallsTyped == TypeOK => call \in [Callers -> CallRecords]
  BY DEF TypeOK, CallRecords

LEMMA CallTyped ==
    ASSUME TypeOK, NEW c \in Callers
    PROVE  /\ call[c] \in CallRecords
           /\ call[c] = [pc |-> call[c].pc, sock |-> call[c].sock, sub |-> call[c].sub]
           /\ call[c].sock \in 0..MaxConnects /\ call[c].sub \in Subs \cup {NoSub}
<1>1. call[c] \in CallRecords
  BY CallsTyped
<1> QED
  BY <1>1 DEF CallRecords

LEMMA CallSet ==
    ASSUME TypeOK, NEW c \in Callers, NEW q \in CallRecords, call' = [call EXCEPT ![c] = q]
    PROVE  CallIs(c, q)
<1>1. call \in [Callers -> CallRecords]
  BY CallsTyped
<1> QED
  BY <1>1 DEF CallIs

LEMMA CallReturns ==
    ASSUME TypeOK, NEW c \in Callers, Returns(c)
    PROVE  CallIs(c, Idle)
<1>1. Idle \in CallRecords
  BY WebSocketAssumption DEF Idle, CallRecords
<1> QED
  BY <1>1, CallSet DEF Returns

LEMMA CallWaits ==
    ASSUME TypeOK, NEW c \in Callers,
           NEW pc \in {"authenticating", "closing", "closingFirst", "destroying"}, WaitsAt(c, pc)
    PROVE  CallIs(c, [pc |-> pc, sock |-> call[c].sock, sub |-> call[c].sub])
<1> DEFINE q == [call[c] EXCEPT !.pc = pc]
<1>1. call' = [call EXCEPT ![c] = q]
  BY DEF WaitsAt
<1>2. q = [pc |-> pc, sock |-> call[c].sock, sub |-> call[c].sub]
  <2>1. call[c] = [pc |-> call[c].pc, sock |-> call[c].sock, sub |-> call[c].sub]
    BY CallTyped
  <2> QED
    BY <2>1
<1>3. q \in CallRecords
  BY CallTyped, <1>2 DEF CallRecords
<1> HIDE DEF q
<1>4. CallIs(c, q)
  BY <1>1, <1>3, CallSet
<1> QED
  BY <1>2, <1>4

\* What the other calls wait for is not disturbed by a call that has no message
\* under way, and a call that takes no socket leaves the sockets to their owners.
PendingKept ==
    \A d \in Callers : (Pending(d)' <=> Pending(d)) /\ (Pending(d) => call'[d] = call[d])
CallingKept ==
    \A d \in Callers : Calling(d)' => Calling(d) /\ call'[d].sock = call[d].sock

LEMMA KeptBy ==
    ASSUME NEW c \in Callers, NEW q, CallIs(c, q)
    PROVE  /\ ~Pending(c) /\ q.pc \notin {"subscribing", "unsubscribing"} => PendingKept
           /\ \/ q.pc \notin {"opening", "authenticating"}
              \/ Calling(c) /\ q.sock = call[c].sock
              => CallingKept
  BY DEF CallIs, PendingKept, CallingKept, Pending, Calling

LEMMA KeptByNone == UNCHANGED call => PendingKept /\ CallingKept
  BY DEF PendingKept, CallingKept, Pending, Calling

\* The types of the calls after a step of one of them.
LEMMA CallsStayWellFormed ==
    ASSUME TypeInv, NEW c \in Callers, NEW q, CallIs(c, q),
           \A k \in Sockets : sock[k] \in {"open", "closed"} => sock'[k] \in {"open", "closed"},
           connects' = connects, connects \in Nat,
           q.pc \in {"opening", "authenticating"} => q.sock \in 1..connects,
           q.pc \in {"announcing", "retracting", "subscribing", "unsubscribing"} => q.sub \in Subs,
           q.pc \in {"subscribing", "unsubscribing"} => q.sock \in Sockets /\ sock'[q.sock] \in {"open", "closed"}
    PROVE  CallsWellFormed'
  BY DEF TypeInv, CallsWellFormed, CallIs, Calling, Announcing, Pending

LEMMA CallsStayUnmoved ==
    ASSUME TypeInv, UNCHANGED call, connects' = connects,
           \A k \in Sockets : sock[k] \in {"open", "closed"} => sock'[k] \in {"open", "closed"}
    PROVE  CallsWellFormed'
  BY DEF TypeInv, CallsWellFormed, Calling, Announcing, Pending

-----------------------------------------------------------------------------
(* Steps that send and confirm nothing *)

LEMMA OutboxFrame ==
    ASSUME TypeInv, OutboxInv, PendingKept, UNCHANGED <<outbox, remote, refused>>,
           \A k \in Sockets : sock'[k] = "open" => sock[k] \in {"opening", "open"}
    PROVE  OutboxInv'
<1>1. \A i \in Positions : outbox[i] \in Callers
  BY LenProperties DEF TypeInv, TypeOK, Positions
<1>2. \A i \in Positions : Pending(outbox[i])
  BY <1>1 DEF OutboxInv, PendingQueued
<1>3. \A i \in Positions : call'[outbox[i]] = call[outbox[i]]
  BY <1>1, <1>2 DEF PendingKept
<1>4. \A i \in Positions : sock'[SocketOf(i)] = "open" => sock[SocketOf(i)] = "open"
  BY <1>1, <1>2 DEF TypeInv, CallsWellFormed, SocketOf
<1>5. Positions' = Positions /\ \A i \in Positions : SocketOf(i)' = SocketOf(i) /\ SubOf(i)' = SubOf(i)
  BY <1>3 DEF Positions, SocketOf, SubOf
<1>6. OnceEach' /\ PendingQueued'
  BY <1>5 DEF OutboxInv, OnceEach, PendingQueued, PendingKept
<1>7. NewerSameSocket'
  BY <1>4, <1>5 DEF OutboxInv, NewerSameSocket
<1>8. \A i \in Positions : Latest(i)' => Latest(i)
  BY <1>5 DEF Latest
<1>9. LatestHolds'
  BY <1>3, <1>4, <1>5, <1>8 DEF OutboxInv, LatestHolds, At
<1> QED
  BY <1>6, <1>7, <1>9 DEF OutboxInv

\* Steps that open no socket and serve nothing.
LEMMA SocketFrame ==
    ASSUME TypeInv, SocketInv, CallingKept, UNCHANGED <<connects, remote>>, lateLogin => lateLogin',
           \A k \in Sockets : sock'[k] = sock[k] \/ (Using(k) /\ sock'[k] = "closed"),
           \A k \in Sockets : Using(k)' => busy',
           \/ state' # "READY"
           \/ state = "READY"
           \/ lateLogin'
           \/ \A d \in Callers : Calling(d)' => ~Using(call[d].sock)
    PROVE  SocketInv'
<1>1. \A k \in Sockets : Using(k)' => Using(k) /\ sock'[k] = sock[k]
  BY DEF Using
<1>2. OneSocket' /\ UnusedSockets'
  BY <1>1 DEF SocketInv, OneSocket, UnusedSockets, Using
<1>3. OwnSocket'
  BY DEF SocketInv, OwnSocket, CallingKept
<1>4. \A d \in Callers : Calling(d) => call[d].sock \in Sockets
  BY WebSocketAssumption DEF TypeInv, TypeOK, CallsWellFormed, Sockets
<1>5. NotReadyYet'
  BY <1>1, <1>4 DEF SocketInv, NotReadyYet, CallingKept, Using
<1>6. NothingBeforeOpen' /\ NothingBeforeReady'
  BY <1>4 DEF SocketInv, NothingBeforeOpen, NothingBeforeReady, CallingKept, Using
<1> QED
  BY <1>2, <1>3, <1>5, <1>6 DEF SocketInv

\* What is shown ACTIVE stays explained.
LEMMA ActiveFrame ==
    ASSUME ActiveExplained, PendingKept, UNCHANGED <<remote, refused>>,
           \/ \A s \in Subs : subscriptions'[s] # "ACTIVE"
           \/ closeDue' # {}
           \/ teardownFailed'
           \/ /\ \A s \in Subs : subscriptions'[s] = "ACTIVE" => subscriptions[s] = "ACTIVE"
              /\ closeDue = {} /\ ~teardownFailed
              /\ \A k \in Sockets : sock[k] = "open" => sock'[k] = "open"
    PROVE  ActiveExplained'
  BY DEF ActiveExplained, AboutIt, PendingKept

\* What is shown INACTIVE stays explained.
LEMMA InactiveFrame ==
    ASSUME InactiveExplained, PendingKept, UNCHANGED <<remote, refused>>, lateLogin => lateLogin',
           \/ state' # "READY"
           \/ lateLogin'
           \/ \A k \in Sockets : sock'[k] = "open" => remote[k] = {}
           \/ /\ state = "READY"
              /\ \A s \in Subs : subscriptions'[s] = "INACTIVE" => subscriptions[s] = "INACTIVE"
              /\ \A k \in Sockets : sock'[k] = "open" => sock[k] = "open" \/ remote[k] = {}
    PROVE  InactiveExplained'
  BY DEF InactiveExplained, AboutIt, PendingKept

-----------------------------------------------------------------------------
(* connect *)

LEMMA ConnectsInSockets ==
    ASSUME TypeInv, NEW c \in Callers, Calling(c)
    PROVE  call[c].sock \in Sockets /\ call[c].sock <= connects /\ connects \in 0..MaxConnects
  BY WebSocketAssumption DEF TypeInv, TypeOK, CallsWellFormed, Sockets

LEMMA ConnectBeginKeeps ==
    ASSUME ClientInv, NEW c \in Callers, ConnectBegin(c)
    PROVE  ClientInv'
<1> DEFINE k == connects + 1
           q == [pc |-> "opening", sock |-> k, sub |-> NoSub]
<1> USE DEF transport, logins, client, TransitionState, At
<1>1. TypeOK /\ connects \in 0..MaxConnects /\ k \in Sockets /\ k \in 0..MaxConnects /\ k \in 1..k
  BY WebSocketAssumption DEF ClientInv, TypeInv, TypeOK, ConnectBegin, Sockets
<1>2. q \in CallRecords
  BY <1>1 DEF CallRecords
<1>3. CallIs(c, q)
  BY <1>1, <1>2, CallSet DEF ConnectBegin
<1>4. sock[k] = "none" /\ remote[k] = {}
  BY <1>1 DEF ClientInv, SocketInv, UnusedSockets, NothingBeforeOpen
<1>5. /\ \A j \in Sockets : sock'[j] = IF j = k THEN (IF busy THEN "closed" ELSE "opening") ELSE sock[j]
      /\ sock' \in [Sockets -> {"none", "opening", "open", "closed"}]
  BY <1>1 DEF TypeOK, ConnectBegin
<1>6. TypeOK'
  BY <1>1, <1>3, <1>5 DEF TypeOK, ConnectBegin, CallIs, CallRecords, States
<1>7. CallsWellFormed'
  BY <1>1, <1>3, <1>4, <1>5 DEF ClientInv, TypeInv, CallsWellFormed, CallIs, Calling, Announcing, Pending, ConnectBegin
<1>8. PendingKept
  <2>1. call[c].pc = "idle"
    BY DEF ConnectBegin
  <2> QED
    BY <1>3, <2>1, KeptBy DEF Pending
<1>9. \A d \in Callers : Calling(d) => call[d].sock \in Sockets /\ call[d].sock # k
  BY <1>1, ConnectsInSockets DEF ClientInv
<1>10. SocketInv'
  <2>1. OneSocket' /\ UnusedSockets'
    BY <1>1, <1>4, <1>5 DEF ClientInv, SocketInv, OneSocket, UnusedSockets, Using, ConnectBegin, Sockets
  <2>2. OwnSocket'
    BY <1>3, <1>9 DEF ClientInv, SocketInv, OwnSocket, CallIs, Calling
  <2>3. NotReadyYet'
    BY DEF ConnectBegin, NotReadyYet
  <2>4. NothingBeforeOpen'
    BY <1>4, <1>5 DEF ClientInv, SocketInv, NothingBeforeOpen, ConnectBegin
  <2>5. NothingBeforeReady'
    BY <1>1, <1>3, <1>5, <1>9 DEF ClientInv, SocketInv, NothingBeforeReady, ConnectBegin, CallIs, Calling
  <2> QED
    BY <2>1, <2>2, <2>3, <2>4, <2>5 DEF SocketInv
<1>11. OutboxInv'
  BY <1>1, <1>5, <1>8, OutboxFrame DEF ClientInv, ConnectBegin
<1>12. ActiveExplained'
  BY <1>4, <1>5, <1>8, ActiveFrame DEF ClientInv, ConnectBegin
<1>13. InactiveExplained'
  BY <1>8, InactiveFrame DEF ClientInv, ConnectBegin
<1> QED
  BY <1>6, <1>7, <1>10, <1>11, <1>12, <1>13 DEF ClientInv, TypeInv

LEMMA ConnectResolvesKeeps ==
    ASSUME ClientInv, NEW c \in Callers, ConnectResolves(c) \/ AuthenticateResolves(c)
    PROVE  ClientInv'
<1> USE DEF transport, logins, client, TransitionState, At
<1>1. TypeOK /\ SocketInv /\ OutboxInv /\ Calling(c) /\ call[c].sock \in Sockets
  BY ConnectsInSockets DEF ClientInv, TypeInv, ConnectResolves, AuthenticateResolves, Calling
<1> DEFINE q == [pc |-> "authenticating", sock |-> call[c].sock, sub |-> call[c].sub]
<1>2. CallIs(c, Idle) \/ (CallIs(c, q) /\ state' # "READY")
  BY <1>1, CallReturns, CallWaits DEF ConnectResolves, AuthenticateResolves
<1>3. UNCHANGED <<subscriptions, connects, calls, sock, busy, closeDue, outbox, remote, refused, teardownFailed>>
  BY DEF ConnectResolves, AuthenticateResolves
<1>0. /\ lateLogin' \in BOOLEAN /\ outlived' \in BOOLEAN /\ (lateLogin => lateLogin')
      /\ lateLogin' \/ (~lateLogin /\ sock[call[c].sock] = "open")
  <2>1. CASE ConnectResolves(c)
    <3>1. /\ UNCHANGED lateLogin /\ sock[call[c].sock] = "open"
          /\ UNCHANGED outlived \/ outlived' = (outlived /\ ~ReadyOnOpen)
      BY <2>1 DEF ConnectResolves
    <3>2. lateLogin \in BOOLEAN /\ outlived \in BOOLEAN
      BY <1>1 DEF TypeOK
    <3> QED
      BY <3>1, <3>2, Zenon
  <2>2. CASE AuthenticateResolves(c)
    <3>1. lateLogin' = (lateLogin \/ sock[call[c].sock] # "open") /\ outlived' = ~Live(call[c].sock)
      BY <2>2 DEF AuthenticateResolves
    <3>2. lateLogin \in BOOLEAN
      BY <1>1 DEF TypeOK
    <3>3. outlived' \in BOOLEAN
      BY <3>1, Zenon DEF Live
    <3>4. lateLogin' \in BOOLEAN /\ (lateLogin => lateLogin')
      BY <3>1, <3>2, Zenon
    <3>5. lateLogin' \/ (~lateLogin /\ sock[call[c].sock] = "open")
      BY <3>1, <3>2, Zenon
    <3> QED
      BY <3>3, <3>4, <3>5
  <2> QED
    BY <2>1, <2>2
<1>4. TypeOK'
  BY <1>0, <1>1, <1>2, <1>3 DEF TypeOK, ConnectResolves, AuthenticateResolves, CallIs, CallRecords, States
<1>5. CallsWellFormed'
  <2>1. CASE CallIs(c, Idle)
    <3>1. Idle.pc = "idle"
      BY DEF Idle
    <3> QED
      BY <1>3, <2>1, <3>1, <1>1, CallsStayWellFormed DEF ClientInv, TypeInv, TypeOK
  <2>2. CASE CallIs(c, q)
    <3>1. q.sock \in 1..connects /\ q.pc = "authenticating"
      BY <1>1 DEF ClientInv, TypeInv, CallsWellFormed
    <3>2. connects \in Nat
      BY <1>1 DEF TypeOK
    <3> HIDE DEF q
    <3> QED
      BY <1>3, <2>2, <3>1, <3>2, <1>1, CallsStayWellFormed DEF ClientInv
  <2> QED
    BY <1>2, <2>1, <2>2
<1>6. ~Pending(c)
  BY <1>1 DEF Calling, Pending
<1>7. PendingKept /\ CallingKept
  <2>1. CASE CallIs(c, Idle)
    BY <2>1, <1>6, KeptBy DEF Idle
  <2>2. CASE CallIs(c, q)
    <3>1. q.sock = call[c].sock /\ q.pc = "authenticating"
      OBVIOUS
    <3> HIDE DEF q
    <3> QED
      BY <1>1, <1>6, <2>2, <3>1, KeptBy
  <2> QED
    BY <1>2, <2>1, <2>2
\* Before the client becomes READY the socket of c was the only one, and no
\* other call of connect had it, unless a login comes late.
<1>8. lateLogin' \/ \A j \in Sockets : Using(j) => j = call[c].sock
  BY <1>0, <1>1 DEF SocketInv, OneSocket, Using
<1>9. lateLogin' \/ remote[call[c].sock] = {}
  BY <1>0, <1>1 DEF SocketInv, NothingBeforeReady
<1>10. state' # "READY" \/ lateLogin' \/ \A d \in Callers : Calling(d)' => ~Using(call[d].sock)
  <2>1. ASSUME state' = "READY", ~lateLogin', NEW d \in Callers, Calling(d)', Using(call[d].sock)
        PROVE  FALSE
    <3>1. CallIs(c, Idle)
      BY <1>2, <2>1
    <3>2. d # c /\ Calling(d)
      BY <2>1, <3>1 DEF CallIs, Calling, Idle
    <3>3. call[d].sock = call[c].sock
      BY <1>8, <2>1, <3>2, ConnectsInSockets DEF ClientInv
    <3> QED
      BY <1>1, <3>2, <3>3 DEF SocketInv, OwnSocket
  <2> QED
    BY <2>1
<1>11. SocketInv'
  <2>1. \A j \in Sockets : sock'[j] = sock[j] /\ (Using(j)' => busy')
    BY <1>1, <1>3 DEF SocketInv, OneSocket, Using
  <2> QED
    BY <1>0, <1>1, <1>3, <1>7, <1>10, <2>1, SocketFrame DEF ClientInv
<1>12. OutboxInv'
  BY <1>1, <1>3, <1>7, OutboxFrame DEF ClientInv
<1>13. ActiveExplained'
  BY <1>3, <1>7, ActiveFrame DEF ClientInv
<1>14. InactiveExplained'
  <2>1. lateLogin' \/ \A j \in Sockets : sock'[j] = "open" => remote[j] = {}
    BY <1>3, <1>8, <1>9 DEF Using
  <2> QED
    BY <1>0, <1>3, <1>7, <2>1, InactiveFrame DEF ClientInv
<1> QED
  BY <1>4, <1>5, <1>11, <1>12, <1>13, <1>14 DEF ClientInv, TypeInv

LEMMA ConnectFailsKeeps ==
    ASSUME ClientInv, NEW c \in Callers, ConnectFails(c)
    PROVE  ClientInv'
<1> DEFINE k == call[c].sock
<1> USE DEF transport, logins, client, TransitionState, At
<1>1. TypeOK /\ SocketInv /\ OutboxInv /\ Calling(c) /\ k \in Sockets /\ connects \in Nat
  BY ConnectsInSockets DEF ClientInv, TypeInv, TypeOK, ConnectFails, Calling
<1> HIDE DEF k
<1>2. CallIs(c, Idle) /\ ~Pending(c) /\ Idle.pc = "idle"
  BY <1>1, CallReturns DEF ConnectFails, Calling, Pending, Idle
<1>3. /\ sock' \in [Sockets -> {"none", "opening", "open", "closed"}]
      /\ \A j \in Sockets : sock'[j] = IF j = k /\ sock[k] = "opening" THEN "closed" ELSE sock[j]
      /\ busy' = (busy /\ sock[k] # "opening")
      /\ state' = "FAILED"
  BY <1>1 DEF ConnectFails, TypeOK, k
<1>4. UNCHANGED <<authenticated, subscriptions, connects, calls, closeDue, outbox, remote, refused, teardownFailed, logins>>
  BY DEF ConnectFails
<1>5. PendingKept /\ CallingKept
  BY <1>2, KeptBy
<1>6. TypeOK'
  BY <1>1, <1>2, <1>3, <1>4 DEF TypeOK, CallIs, CallRecords, States, ConnectFails
<1>7. CallsWellFormed'
  BY <1>1, <1>2, <1>3, <1>4, CallsStayWellFormed DEF ClientInv
<1>8. SocketInv'
  <2>1. \A j \in Sockets : sock'[j] = sock[j] \/ (Using(j) /\ sock'[j] = "closed")
    BY <1>3 DEF Using
  <2>2. \A j \in Sockets : Using(j)' => busy'
    BY <1>1, <1>3 DEF SocketInv, OneSocket, Using
  <2> QED
    BY <1>1, <1>3, <1>4, <1>5, <2>1, <2>2, SocketFrame DEF ClientInv
<1>9. OutboxInv'
  BY <1>1, <1>3, <1>4, <1>5, OutboxFrame DEF ClientInv
<1>10. ActiveExplained'
  BY <1>3, <1>4, <1>5, ActiveFrame DEF ClientInv
<1>11. InactiveExplained'
  BY <1>3, <1>4, <1>5, InactiveFrame DEF ClientInv
<1> QED
  BY <1>6, <1>7, <1>8, <1>9, <1>10, <1>11 DEF ClientInv, TypeInv

-----------------------------------------------------------------------------
(* Calls that begin, and calls of disconnect and destroy that go on *)

LEMMA CallsCounted ==
    ASSUME TypeOK, calls' = calls \/ (calls < MaxCalls /\ calls' = calls + 1)
    PROVE  calls' \in 0..MaxCalls
<1>1. calls \in 0..MaxCalls /\ MaxCalls \in Nat
  BY WebSocketAssumption DEF TypeOK
<1> QED
  BY <1>1

LEMMA SubscriptionBeginKeeps ==
    ASSUME ClientInv, NEW c \in Callers, NEW s \in Subs, SubscribeBegin(c, s) \/ UnsubscribeBegin(c, s)
    PROVE  ClientInv'
<1> USE DEF transport, logins, client, Starts, At
<1>1. TypeOK /\ SocketInv /\ OutboxInv /\ connects \in Nat
  BY DEF ClientInv, TypeInv, TypeOK
<1>2. PICK pc \in {"announcing", "retracting"} :
          call' = [call EXCEPT ![c] = [pc |-> pc, sock |-> 0, sub |-> s]]
  BY DEF SubscribeBegin, UnsubscribeBegin
<1> DEFINE q == [pc |-> pc, sock |-> 0, sub |-> s]
<1>3. q \in CallRecords /\ q.pc = pc /\ q.sub = s
  BY WebSocketAssumption DEF CallRecords
<1>4. call' = [call EXCEPT ![c] = q]
  BY <1>2
<1> HIDE DEF q
<1>5. CallIs(c, q)
  BY <1>1, <1>3, <1>4, CallSet
<1>6. UNCHANGED <<state, authenticated, connects, sock, busy, closeDue, outbox, remote, refused, teardownFailed, logins, moved>>
  BY DEF SubscribeBegin, UnsubscribeBegin
<1>7. /\ subscriptions' \in [Subs -> SubStates]
      /\ \A r \in Subs : subscriptions'[r] \in {"ACTIVE", "INACTIVE"} => subscriptions'[r] = subscriptions[r]
      /\ calls' \in 0..MaxCalls
  <2>1. calls' \in 0..MaxCalls
    BY <1>1, CallsCounted DEF SubscribeBegin, UnsubscribeBegin
  <2>2. subscriptions \in [Subs -> SubStates]
    BY <1>1 DEF TypeOK
  <2> QED
    BY <2>1, <2>2 DEF SubscribeBegin, UnsubscribeBegin, SubStates
<1>8. PendingKept /\ CallingKept
  <2>1. call[c].pc = "idle"
    BY DEF SubscribeBegin, UnsubscribeBegin
  <2> QED
    BY <1>3, <1>5, <2>1, KeptBy DEF Pending
<1>9. TypeOK'
  BY <1>1, <1>5, <1>6, <1>7 DEF TypeOK, CallIs, CallRecords
<1>10. CallsWellFormed'
  BY <1>1, <1>3, <1>5, <1>6, CallsStayWellFormed DEF ClientInv
<1>11. SocketInv'
  <2>1. \A j \in Sockets : sock'[j] = sock[j] /\ (Using(j)' => busy')
    BY <1>1, <1>6 DEF SocketInv, OneSocket, Using
  <2> QED
    BY <1>1, <1>6, <1>8, <2>1, SocketFrame DEF ClientInv
<1>12. OutboxInv'
  BY <1>1, <1>6, <1>8, OutboxFrame DEF ClientInv
<1>13. ActiveExplained'
  BY <1>6, <1>7, <1>8, ActiveFrame DEF ClientInv
<1>14. InactiveExplained'
  BY <1>6, <1>7, <1>8, InactiveFrame DEF ClientInv
<1> QED
  BY <1>9, <1>10, <1>11, <1>12, <1>13, <1>14 DEF ClientInv, TypeInv

\* A call of disconnect or destroy begins, ends in the catch of destroy, or
\* resolves without a socket to close: no socket and no subscription changes.
LEMMA TeardownBeginKeeps ==
    ASSUME ClientInv, NEW c \in Callers,
           DisconnectCreated(c) \/ DisconnectBegin(c) \/ DestroyBegin(c) \/ DestroyFails(c)
    PROVE  ClientInv'
<1> USE DEF transport, logins, client, Starts, At, TransitionState
<1>1. TypeOK /\ SocketInv /\ OutboxInv /\ connects \in Nat
  BY DEF ClientInv, TypeInv, TypeOK
<1>2. UNCHANGED <<authenticated, subscriptions, connects, sock, busy, closeDue, outbox, remote, refused, logins>>
  BY DEF DisconnectCreated, DisconnectBegin, DestroyBegin, DestroyFails
<1>3. /\ state' \in States /\ (state' = "READY" => state = "READY")
      /\ moved' \in BOOLEAN /\ calls' \in 0..MaxCalls
      /\ teardownFailed' \in BOOLEAN /\ (teardownFailed => teardownFailed')
  <2>1. calls' \in 0..MaxCalls
    BY <1>1, CallsCounted DEF DisconnectCreated, DisconnectBegin, DestroyBegin, DestroyFails
  <2>2. teardownFailed \in BOOLEAN /\ state \in States
    BY <1>1 DEF TypeOK
  <2>3. teardownFailed' = teardownFailed \/ teardownFailed' = TRUE
    BY DEF DisconnectCreated, DisconnectBegin, DestroyBegin, DestroyFails
  <2>4. moved' = TRUE \/ moved' = FALSE
    BY DEF DisconnectCreated, DisconnectBegin, DestroyBegin, DestroyFails
  <2>5. state' = state \/ state' \in {"DISCONNECTING", "DISCONNECTED", "FAILED"}
    BY DEF DisconnectCreated, DisconnectBegin, DestroyBegin, DestroyFails
  <2> QED
    BY <2>1, <2>2, <2>3, <2>4, <2>5 DEF States
<1>4. \/ UNCHANGED call
      \/ \E q \in CallRecords : /\ CallIs(c, q) /\ ~Pending(c)
                                /\ q.pc \in {"idle", "closing", "closingFirst", "destroying"}
  <2>1. CASE DisconnectCreated(c)
    BY <2>1 DEF DisconnectCreated
  <2>2. ASSUME NEW pc \in {"closing", "closingFirst", "destroying"}, WaitsAt(c, pc), call[c].pc = "idle"
        PROVE  \E q \in CallRecords : /\ CallIs(c, q) /\ ~Pending(c)
                                      /\ q.pc \in {"idle", "closing", "closingFirst", "destroying"}
    <3> DEFINE q == [pc |-> pc, sock |-> call[c].sock, sub |-> call[c].sub]
    <3>1. CallIs(c, q)
      BY <1>1, <2>2, CallWaits
    <3>2. q \in CallRecords /\ q.pc = pc
      BY <1>1, CallTyped DEF CallRecords
    <3>3. ~Pending(c)
      BY <2>2 DEF Pending
    <3> QED
      BY <3>1, <3>2, <3>3
  <2>3. CASE DestroyFails(c)
    <3>1. CallIs(c, Idle) /\ ~Pending(c)
      BY <1>1, <2>3, CallReturns DEF DestroyFails, Pending
    <3>2. Idle \in CallRecords /\ Idle.pc = "idle"
      BY WebSocketAssumption DEF Idle, CallRecords
    <3> QED
      BY <3>1, <3>2
  <2> QED
    BY <2>1, <2>2, <2>3 DEF DisconnectBegin, DestroyBegin
<1>5. PendingKept /\ CallingKept
  BY <1>4, KeptBy, KeptByNone
<1>6. call' \in [Callers -> CallRecords]
  BY <1>1, <1>4, CallsTyped DEF CallIs
<1>7. TypeOK'
  BY <1>1, <1>2, <1>3, <1>6 DEF TypeOK, CallRecords
<1>8. CallsWellFormed'
  BY <1>1, <1>2, <1>4, CallsStayWellFormed, CallsStayUnmoved DEF ClientInv
<1>9. SocketInv'
  <2>1. \A j \in Sockets : sock'[j] = sock[j] /\ (Using(j)' => busy')
    BY <1>1, <1>2 DEF SocketInv, OneSocket, Using
  <2> QED
    BY <1>1, <1>2, <1>3, <1>5, <2>1, SocketFrame DEF ClientInv
<1>10. OutboxInv'
  BY <1>1, <1>2, <1>5, OutboxFrame DEF ClientInv
<1>11. ActiveExplained'
  BY <1>2, <1>3, <1>5, ActiveFrame DEF ClientInv
<1>12. InactiveExplained'
  BY <1>2, <1>3, <1>5, InactiveFrame DEF ClientInv
<1> QED
  BY <1>7, <1>8, <1>9, <1>10, <1>11, <1>12 DEF ClientInv, TypeInv

\* The transport closes its socket.
LEMMA TeardownEndKeeps ==
    ASSUME ClientInv, NEW c \in Callers,
           DisconnectResolves(c) \/ DisconnectFails(c) \/ DestroyResolves(c)
    PROVE  ClientInv'
<1> USE DEF transport, logins, client, At, TransitionState
<1>1. TypeOK /\ SocketInv /\ OutboxInv /\ connects \in Nat
  BY DEF ClientInv, TypeInv, TypeOK
<1>2. /\ UNCHANGED <<connects, calls, outbox, remote, refused, logins>>
      /\ sock' = [k \in Sockets |-> IF sock[k] \in {"opening", "open"} THEN "closed" ELSE sock[k]]
      /\ busy' = FALSE /\ state' \in {"DISCONNECTED", "FAILED", "DESTROYED"}
  BY DEF DisconnectResolves, DisconnectFails, DestroyResolves, TransportCloses
<1>3. /\ \A s \in Subs : MarkedInactive[s] # "ACTIVE"
      /\ MarkedInactive \in [Subs -> SubStates]
  BY DEF MarkedInactive, SubStates
<1>4. /\ closeDue' \subseteq Sockets
      /\ moved' \in BOOLEAN /\ authenticated' \in BOOLEAN /\ teardownFailed' \in BOOLEAN
      /\ subscriptions' \in [Subs -> SubStates]
      /\ teardownFailed' \/ \A s \in Subs : subscriptions'[s] # "ACTIVE"
  <2>1. CASE DisconnectResolves(c)
    BY <1>1, <1>3, <2>1 DEF DisconnectResolves, TransportCloses, TypeOK
  <2>2. CASE DisconnectFails(c)
    BY <1>1, <2>2 DEF DisconnectFails, TypeOK
  <2>3. CASE DestroyResolves(c)
    BY <1>1, <1>3, <2>3 DEF DestroyResolves, TransportCloses, TypeOK
  <2> QED
    BY <2>1, <2>2, <2>3
<1>5. ~Pending(c)
  BY DEF DisconnectResolves, DisconnectFails, DestroyResolves, Pending
<1>6. \E q \in CallRecords : CallIs(c, q) /\ q.pc \in {"idle", "destroying"}
  <2>1. CASE Returns(c)
    <3>1. Idle \in CallRecords /\ Idle.pc = "idle"
      BY WebSocketAssumption DEF Idle, CallRecords
    <3> QED
      BY <1>1, <2>1, <3>1, CallReturns
  <2>2. CASE WaitsAt(c, "destroying")
    <3> DEFINE q == [pc |-> "destroying", sock |-> call[c].sock, sub |-> call[c].sub]
    <3>1. CallIs(c, q)
      BY <1>1, <2>2, CallWaits
    <3>2. q \in CallRecords /\ q.pc = "destroying"
      BY <1>1, CallTyped DEF CallRecords
    <3> QED
      BY <3>1, <3>2
  <2> QED
    BY <2>1, <2>2 DEF DisconnectResolves, DisconnectFails, DestroyResolves
<1>7. PendingKept /\ CallingKept
  BY <1>5, <1>6, KeptBy
<1>8. TypeOK'
  BY <1>1, <1>2, <1>4, <1>6 DEF TypeOK, CallRecords, CallIs, States
<1>9. CallsWellFormed'
  BY <1>1, <1>2, <1>6, CallsStayWellFormed DEF ClientInv
<1>10. SocketInv'
  <2>1. \A j \in Sockets : ~(Using(j)') /\ (sock'[j] = sock[j] \/ (Using(j) /\ sock'[j] = "closed"))
    BY <1>2 DEF Using
  <2> QED
    BY <1>1, <1>2, <1>7, <2>1, SocketFrame DEF ClientInv
<1>11. OutboxInv'
  BY <1>1, <1>2, <1>7, OutboxFrame DEF ClientInv
<1>12. ActiveExplained'
  BY <1>2, <1>4, <1>7, ActiveFrame DEF ClientInv
<1>13. InactiveExplained'
  BY <1>2, <1>7, InactiveFrame DEF ClientInv
<1> QED
  BY <1>8, <1>9, <1>10, <1>11, <1>12, <1>13 DEF ClientInv, TypeInv

-----------------------------------------------------------------------------
(* The callbacks of the transport *)

LEMMA OnOpenKeeps ==
    ASSUME ClientInv, NEW k \in Sockets, OnOpen(k)
    PROVE  ClientInv'
<1> USE DEF transport, logins, client, TransitionState
<1>1. TypeOK /\ SocketInv /\ OutboxInv
  BY DEF ClientInv, TypeInv
<1>2. /\ \A j \in Sockets : sock'[j] = IF j = k THEN "open" ELSE sock[j]
      /\ sock' \in [Sockets -> {"none", "opening", "open", "closed"}]
      /\ sock[k] = "opening" /\ state' \in States /\ moved' \in BOOLEAN
      /\ (state' = "READY" => state = "READY")
  BY <1>1 DEF TypeOK, OnOpen, States
<1>3. UNCHANGED <<authenticated, subscriptions, call, connects, calls, busy, closeDue, outbox, remote, refused, teardownFailed, logins>>
  BY DEF OnOpen
<1>4. TypeOK'
  BY <1>1, <1>2, <1>3 DEF TypeOK
<1>5. CallsWellFormed'
  BY <1>1, <1>2, <1>3, CallsStayUnmoved DEF ClientInv
<1>6. PendingKept
  BY <1>3, KeptByNone
<1>7. remote[k] = {}
  BY <1>1, <1>2 DEF SocketInv, NothingBeforeOpen
<1>8. SocketInv'
  <2>1. OneSocket' /\ UnusedSockets'
    BY <1>1, <1>2, <1>3 DEF SocketInv, OneSocket, UnusedSockets, Using
  <2>2. OwnSocket'
    BY <1>1, <1>3 DEF SocketInv, OwnSocket, Calling
  <2>3. \A d \in Callers : Calling(d) => call[d].sock \in Sockets
    BY ConnectsInSockets DEF ClientInv
  <2>4. NotReadyYet'
    BY <1>1, <1>2, <1>3, <2>3 DEF SocketInv, NotReadyYet, Calling, Using
  <2>5. NothingBeforeOpen' /\ NothingBeforeReady'
    BY <1>1, <1>2, <1>3, <1>7, <2>3 DEF SocketInv, NothingBeforeOpen, NothingBeforeReady, Calling
  <2> QED
    BY <2>1, <2>2, <2>4, <2>5 DEF SocketInv
<1>9. OutboxInv'
  BY <1>1, <1>2, <1>3, <1>6, OutboxFrame DEF ClientInv
<1>10. ActiveExplained'
  BY <1>2, <1>3, <1>6, ActiveFrame DEF ClientInv
<1>11. InactiveExplained'
  BY <1>2, <1>3, <1>6, <1>7, InactiveFrame DEF ClientInv
<1> QED
  BY <1>4, <1>5, <1>8, <1>9, <1>10, <1>11 DEF ClientInv, TypeInv

LEMMA CloseKeeps ==
    ASSUME ClientInv, NEW k \in Sockets, RemoteClose(k) \/ OnClose(k)
    PROVE  ClientInv'
<1> USE DEF transport, logins, client, TransitionState
<1>1. TypeOK /\ SocketInv /\ OutboxInv
  BY DEF ClientInv, TypeInv
<1>2. UNCHANGED <<call, connects, calls, outbox, remote, refused, teardownFailed, logins>>
  BY DEF RemoteClose, OnClose
<1>3. /\ \A j \in Sockets : sock'[j] = sock[j] \/ (Using(j) /\ sock'[j] = "closed")
      /\ sock' \in [Sockets -> {"none", "opening", "open", "closed"}]
      /\ \A j \in Sockets : Using(j)' => busy'
  <2>1. CASE RemoteClose(k)
    <3>1. /\ \A j \in Sockets : sock'[j] = IF j = k THEN "closed" ELSE sock[j]
          /\ sock' \in [Sockets -> {"none", "opening", "open", "closed"}] /\ Using(k)
      BY <1>1, <2>1 DEF RemoteClose, TypeOK, Using
    <3> QED
      BY <1>1, <3>1 DEF SocketInv, OneSocket, Using
  <2>2. CASE OnClose(k)
    BY <1>1, <2>2 DEF OnClose, TypeOK, SocketInv, OneSocket, Using
  <2> QED
    BY <2>1, <2>2
<1>4. /\ state' \in States /\ (state' = "READY" => state = "READY" /\ subscriptions' = subscriptions)
      /\ moved' \in BOOLEAN /\ authenticated' \in BOOLEAN /\ busy' \in BOOLEAN
      /\ closeDue' \subseteq Sockets /\ subscriptions' \in [Subs -> SubStates]
      /\ closeDue' # {} \/ \A s \in Subs : subscriptions'[s] # "ACTIVE"
  <2>1. CASE RemoteClose(k)
    BY <1>1, <2>1 DEF RemoteClose, TypeOK
  <2>2. CASE OnClose(k)
    BY <1>1, <2>2 DEF OnClose, TypeOK, MarkedInactive, States, SubStates
  <2> QED
    BY <2>1, <2>2
<1>5. TypeOK'
  BY <1>1, <1>2, <1>3, <1>4 DEF TypeOK
<1>6. CallsWellFormed'
  BY <1>1, <1>2, <1>3, CallsStayUnmoved DEF ClientInv
<1>7. PendingKept /\ CallingKept
  BY <1>2, KeptByNone
<1>8. SocketInv'
  BY <1>1, <1>2, <1>3, <1>4, <1>7, SocketFrame DEF ClientInv
<1>9. OutboxInv'
  BY <1>1, <1>2, <1>3, <1>7, OutboxFrame DEF ClientInv, Using
<1>10. ActiveExplained'
  BY <1>2, <1>4, <1>7, ActiveFrame DEF ClientInv
<1>11. InactiveExplained'
  <2>1. \A j \in Sockets : sock'[j] = "open" => sock[j] = "open"
    BY <1>3
  <2> QED
    BY <1>2, <1>4, <1>7, <2>1, InactiveFrame DEF ClientInv
<1> QED
  BY <1>5, <1>6, <1>8, <1>9, <1>10, <1>11 DEF ClientInv, TypeInv

-----------------------------------------------------------------------------
(* Messages *)

LEMMA CurrentIsTheOpenOne ==
    ASSUME SocketInv, NEW k \in Sockets, sock[k] = "open"
    PROVE  Current = k
<1>1. \A j \in Sockets : sock[j] = "open" => j = k
  BY DEF SocketInv, OneSocket, Using
<1>2. k <= k
  BY DEF Sockets
<1> QED
  BY <1>1, <1>2 DEF Current

LEMMA CurrentIsOpen ==
    ASSUME SocketInv, Current # 0
    PROVE  Current \in Sockets /\ sock[Current] = "open"
<1>1. PICK k \in Sockets : sock[k] = "open"
  BY DEF Current
<1> QED
  BY <1>1, CurrentIsTheOpenOne

LEMMA OutboxTyped ==
    ASSUME TypeOK
    PROVE  /\ outbox \in Seq(Callers) /\ Len(outbox) \in Nat /\ Positions = 1..Len(outbox)
           /\ \A i \in Positions : outbox[i] \in Callers
<1>1. outbox \in Seq(Callers)
  BY DEF TypeOK
<1> QED
  BY <1>1, LenProperties DEF Positions

LEMMA SendKeeps ==
    ASSUME ClientInv, NEW c \in Callers, Send(c)
    PROVE  ClientInv'
<1> DEFINE s == call[c].sub
           k == Current
<1> USE DEF transport, logins, client
<1>1. TypeOK /\ SocketInv /\ OutboxInv /\ connects \in Nat /\ s \in Subs /\ Announcing(c) /\ ~Pending(c) /\ ~Calling(c)
  BY DEF ClientInv, TypeInv, TypeOK, CallsWellFormed, Send, Announcing, Pending, Calling
<1>2. k \in Sockets /\ sock[k] = "open" /\ k \in 0..MaxConnects
  BY <1>1, CurrentIsOpen DEF Send, Sockets
<1> HIDE DEF s, k
<1>3. PICK pc \in {"subscribing", "unsubscribing"} :
          /\ call' = [call EXCEPT ![c] = [pc |-> pc, sock |-> k, sub |-> s]]
          /\ pc = IF call[c].pc = "retracting" THEN "unsubscribing" ELSE "subscribing"
  BY DEF Send, s, k
<1> DEFINE q == [pc |-> pc, sock |-> k, sub |-> s]
<1>4. q \in CallRecords /\ q.pc = pc /\ q.sock = k /\ q.sub = s
  BY <1>1, <1>2 DEF CallRecords
<1>5. call' = [call EXCEPT ![c] = q]
  BY <1>3
<1> HIDE DEF q
<1>6. CallIs(c, q)
  BY <1>1, <1>4, <1>5, CallSet
<1>7. /\ UNCHANGED <<state, authenticated, subscriptions, connects, calls, sock, busy, closeDue, teardownFailed, logins, moved>>
      /\ state = "READY" /\ outbox' = Append(outbox, c)
  BY DEF Send
\* What the message does to the exchange, as far as the transport accepts it.
<1>8. /\ remote' \in [Sockets -> SUBSET Subs] /\ refused' \subseteq Subs
      /\ \A j \in Sockets : j # k => remote'[j] = remote[j]
      /\ \A t \in Subs : t # s => (t \in remote'[k] <=> t \in remote[k]) /\ (t \in refused' <=> t \in refused)
      /\ pc = "subscribing" => s \in remote'[k] \cup refused'
      /\ pc = "unsubscribing" => s \notin remote'[k] \ refused'
  <2>1. remote \in [Sockets -> SUBSET Subs] /\ refused \subseteq Subs
    BY <1>1 DEF TypeOK
  <2>2. CASE /\ remote' = [remote EXCEPT ![k] = IF call[c].pc = "retracting" THEN @ \ {s} ELSE @ \cup {s}]
             /\ refused' = refused \ {s}
    BY <1>1, <1>2, <1>3, <2>1, <2>2
  <2>3. CASE refused' = refused \cup {s} /\ UNCHANGED remote
    BY <1>1, <1>2, <1>3, <2>1, <2>3
  <2> QED
    BY <2>2, <2>3 DEF Send, s, k
<1>9. PICK n \in Nat :
      /\ outbox' \in Seq(Callers) /\ Positions' = 1..n + 1 /\ Positions = 1..n
      /\ \A i \in Positions : outbox'[i] = outbox[i] /\ outbox[i] \in Callers
      /\ outbox'[n + 1] = c
  <2>1. /\ outbox \in Seq(Callers) /\ Len(outbox) \in Nat /\ Positions = 1..Len(outbox)
        /\ \A i \in Positions : outbox[i] \in Callers
    BY <1>1, OutboxTyped
  <2>2. /\ outbox' \in Seq(Callers) /\ Len(outbox') = Len(outbox) + 1
        /\ \A i \in 1..Len(outbox) : outbox'[i] = outbox[i]
        /\ outbox'[Len(outbox) + 1] = c
    BY <1>7, <2>1, AppendProperties
  <2>3. Positions' = 1..Len(outbox) + 1
    BY <2>1, <2>2, LenProperties DEF Positions
  <2> QED
    BY <2>1, <2>2, <2>3
<1>10. \A i \in Positions' : i \in Positions \/ i = n + 1
  BY <1>9
<1>11. \A i \in Positions : i < n + 1 /\ i \in Positions' /\ ~(n + 1 < i) /\ ~(n + 1 \in Positions)
  BY <1>9
<1>12. TypeOK'
  BY <1>1, <1>6, <1>7, <1>8, <1>9 DEF TypeOK, CallRecords, CallIs
<1>13. CallsWellFormed'
  <2>1. sock[k] \in {"open", "closed"} /\ q.pc \notin {"opening", "authenticating"}
    BY <1>2, <1>4
  <2> QED
    BY <1>1, <1>2, <1>4, <1>6, <1>7, <2>1, CallsStayWellFormed DEF ClientInv
<1>14. CallingKept /\ \A d \in Callers : Calling(d)' => d # c
  BY <1>4, <1>6, KeptBy DEF CallIs, Calling
<1>15. SocketInv'
  <2>1. OneSocket' /\ UnusedSockets'
    BY <1>1, <1>7 DEF SocketInv, OneSocket, UnusedSockets, Using
  <2>2. OwnSocket'
    BY <1>1, <1>14 DEF SocketInv, OwnSocket, CallingKept
  <2>3. \A d \in Callers : Calling(d) => call[d].sock \in Sockets
    BY ConnectsInSockets DEF ClientInv
  <2>4. NotReadyYet'
    BY <1>1, <1>7, <1>14 DEF SocketInv, NotReadyYet, CallingKept, Using
  <2>5. NothingBeforeOpen'
    BY <1>1, <1>2, <1>7, <1>8 DEF SocketInv, NothingBeforeOpen
  <2>6. NothingBeforeReady'
    BY <1>1, <1>7, <1>14 DEF SocketInv, NotReadyYet, NothingBeforeReady, CallingKept, Using
  <2> QED
    BY <2>1, <2>2, <2>4, <2>5, <2>6 DEF SocketInv
<1>16. \A i \in Positions : Pending(outbox[i]) /\ outbox[i] # c /\ call'[outbox[i]] = call[outbox[i]]
  BY <1>1, <1>6, <1>9 DEF OutboxInv, PendingQueued, CallIs
<1>17. \A i \in Positions : SocketOf(i)' = SocketOf(i) /\ SubOf(i)' = SubOf(i) /\ SocketOf(i) \in Sockets
  BY <1>1, <1>9, <1>16 DEF SocketOf, SubOf, ClientInv, TypeInv, CallsWellFormed
<1>18. SocketOf(n + 1)' = k /\ SubOf(n + 1)' = s /\ call'[c] = q
  BY <1>4, <1>6, <1>9 DEF SocketOf, SubOf, CallIs
<1>19. OutboxInv'
  <2>1. OnceEach'
    BY <1>1, <1>9, <1>10, <1>16 DEF OutboxInv, OnceEach
  <2>2. PendingQueued'
    <3>1. \A d \in Callers : d # c => (Pending(d)' <=> Pending(d))
      BY <1>6 DEF CallIs, Pending
    <3>2. Pending(c)' /\ n + 1 \in Positions'
      BY <1>4, <1>9, <1>18 DEF Pending
    <3>3. ASSUME NEW d \in Callers, d # c
          PROVE  (\E i \in Positions' : outbox'[i] = d) <=> \E i \in Positions : outbox[i] = d
      BY <1>9, <1>10, <1>11, <3>3
    <3> QED
      BY <1>1, <1>9, <3>1, <3>2, <3>3 DEF OutboxInv, PendingQueued
  <2>3. NewerSameSocket'
    <3>1. \A i \in Positions : sock[SocketOf(i)] = "open" => SocketOf(i) = k
      BY <1>1, <1>2, <1>17 DEF SocketInv, OneSocket, Using
    <3> QED
      BY <1>1, <1>7, <1>10, <1>11, <1>17, <1>18, <3>1 DEF OutboxInv, NewerSameSocket
  <2>4. ASSUME NEW i \in Positions', sock'[SocketOf(i)'] = "open", Latest(i)'
        PROVE  IF At(outbox[i], "subscribing")'
               THEN SubOf(i)' \in (remote[SocketOf(i)] \cup refused)'
               ELSE SubOf(i)' \notin (remote[SocketOf(i)] \ refused)'
    <3>1. CASE i = n + 1
      BY <1>4, <1>8, <1>9, <1>18, <3>1 DEF At
    <3>2. CASE i \in Positions
      <4>1. n + 1 \in Positions' /\ i < n + 1
        BY <1>9, <1>11, <3>2
      <4>2. SubOf(i) # s /\ Latest(i)
        BY <1>11, <1>17, <1>18, <2>4, <3>2, <4>1 DEF Latest
      <4>3. SubOf(i) \in Subs
        BY <1>9, <1>16, <3>2 DEF SubOf, ClientInv, TypeInv, CallsWellFormed
      <4>4. sock[SocketOf(i)] = "open"
        BY <1>7, <1>17, <2>4, <3>2
      <4>5. IF At(outbox[i], "subscribing")
            THEN SubOf(i) \in remote[SocketOf(i)] \cup refused
            ELSE SubOf(i) \notin remote[SocketOf(i)] \ refused
        BY <1>1, <3>2, <4>2, <4>4 DEF OutboxInv, LatestHolds
      <4>6. At(outbox[i], "subscribing")' <=> At(outbox[i], "subscribing")
        BY <1>9, <1>16, <3>2 DEF At
      <4>7. /\ SubOf(i) \in remote'[SocketOf(i)] <=> SubOf(i) \in remote[SocketOf(i)]
            /\ SubOf(i) \in refused' <=> SubOf(i) \in refused
        BY <1>8, <1>17, <3>2, <4>2, <4>3
      <4> QED
        BY <1>17, <3>2, <4>5, <4>6, <4>7
    <3> QED
      BY <1>10, <3>1, <3>2
  <2>5. LatestHolds'
    BY <2>4 DEF LatestHolds
  <2> QED
    BY <2>1, <2>2, <2>3, <2>5 DEF OutboxInv
<1>20. \A t \in Subs : (t = s \/ AboutIt(t)) => AboutIt(t)'
  <2>1. Pending(c)' /\ call'[c].sub = s
    BY <1>4, <1>18 DEF Pending
  <2>2. \A d \in Callers : Pending(d) => Pending(d)' /\ call'[d] = call[d]
    BY <1>1, <1>6 DEF CallIs, Pending
  <2> QED
    BY <2>1, <2>2 DEF AboutIt
<1>21. \A t \in Subs : t # s => /\ \A j \in Sockets : t \in remote'[j] <=> t \in remote[j]
                                /\ t \in refused' <=> t \in refused
  BY <1>8
<1>22. ActiveExplained'
  BY <1>7, <1>20, <1>21 DEF ClientInv, ActiveExplained
<1>23. InactiveExplained'
  BY <1>7, <1>20, <1>21 DEF ClientInv, InactiveExplained
<1> QED
  BY <1>12, <1>13, <1>15, <1>19, <1>22, <1>23 DEF ClientInv, TypeInv

\* A message leaves the outbox: the oldest, or one on a socket that is closed.
LEMMA MessageLeaves ==
    ASSUME TypeInv, SocketInv, OutboxInv, NEW c \in Callers, CallIs(c, Idle),
           UNCHANGED <<sock, remote, refused>>,
           NEW m \in Positions, outbox[m] = c, Without(outbox', outbox, m),
           Positions \subseteq Nat, Positions' \subseteq Nat,
           (\A i \in Positions : m <= i) \/ sock[call[c].sock] # "open"
    PROVE  /\ OutboxInv'
           /\ \A d \in Callers : Pending(d) /\ d # c => Pending(d)' /\ call'[d] = call[d]
<1>1. TypeOK /\ OnceEach /\ PendingQueued /\ NewerSameSocket /\ LatestHolds
  BY DEF TypeInv, OutboxInv
<1>2. /\ \A i \in Positions' : WasAt(i, m) \in Positions /\ WasAt(i, m) # m /\ outbox'[i] = outbox[WasAt(i, m)]
      /\ \A i, j \in Positions' : i < j => WasAt(i, m) < WasAt(j, m)
      /\ \A l \in Positions : l # m => \E i \in Positions' : WasAt(i, m) = l
  BY DEF Without, Positions
<1>3. \A i \in Positions' : outbox'[i] # c /\ outbox'[i] \in Callers
  BY <1>1, <1>2, OutboxTyped DEF OnceEach
<1>4. \A d \in Callers : d # c => call'[d] = call[d] /\ (Pending(d)' <=> Pending(d))
  BY DEF CallIs, Pending
<1>5. ~Pending(c)'
  BY DEF CallIs, Pending, Idle
<1>6. \A i \in Positions' : /\ SocketOf(i)' = SocketOf(WasAt(i, m))
                            /\ SubOf(i)' = SubOf(WasAt(i, m))
                            /\ call'[outbox'[i]] = call[outbox[WasAt(i, m)]]
  BY <1>2, <1>3, <1>4 DEF SocketOf, SubOf
<1>7. OnceEach'
  <2>1. ASSUME NEW i \in Positions', NEW j \in Positions', outbox'[i] = outbox'[j], i # j
        PROVE  FALSE
    <3>1. /\ WasAt(i, m) \in Positions /\ outbox'[i] = outbox[WasAt(i, m)]
          /\ WasAt(j, m) \in Positions /\ outbox'[j] = outbox[WasAt(j, m)]
      BY <1>2
    <3>2. WasAt(i, m) = WasAt(j, m)
      <4>1. outbox[WasAt(i, m)] = outbox[WasAt(j, m)]
        BY <2>1, <3>1
      <4> QED
        BY <1>1, <3>1, <4>1 DEF OnceEach
    <3>3. i \in Nat /\ j \in Nat /\ WasAt(i, m) \in Nat
      BY <3>1
    <3>4. i < j \/ j < i
      BY <2>1, <3>3
    <3>5. ~(WasAt(i, m) < WasAt(i, m))
      BY <3>3
    <3> QED
      BY <1>2, <3>2, <3>4, <3>5
  <2> QED
    BY <2>1 DEF OnceEach
<1>8. PendingQueued'
  <2>1. ASSUME NEW d \in Callers, d # c, NEW i \in Positions, outbox[i] = d
        PROVE  \E j \in Positions' : outbox'[j] = d
    <3>1. i # m
      BY <2>1
    <3>2. PICK j \in Positions' : WasAt(j, m) = i
      BY <1>2, <3>1
    <3> QED
      BY <1>2, <2>1, <3>2
  <2>2. ASSUME NEW d \in Callers, NEW j \in Positions', outbox'[j] = d
        PROVE  \E i \in Positions : outbox[i] = d
    <3>1. WasAt(j, m) \in Positions /\ outbox'[j] = outbox[WasAt(j, m)]
      BY <1>2
    <3> QED
      BY <2>2, <3>1
  <2>3. \A d \in Callers : d # c => (Pending(d)' <=> \E i \in Positions' : outbox'[i] = d)
    BY <1>1, <1>4, <2>1, <2>2 DEF PendingQueued
  <2>4. ~\E i \in Positions' : outbox'[i] = c
    BY <1>3
  <2> QED
    BY <1>5, <2>3, <2>4 DEF PendingQueued
<1>9. NewerSameSocket'
  <2>1. ASSUME NEW i \in Positions', NEW j \in Positions', i < j, sock[SocketOf(i)'] = "open"
        PROVE  SocketOf(j)' = SocketOf(i)'
    <3>1. WasAt(i, m) \in Positions /\ WasAt(j, m) \in Positions /\ WasAt(i, m) < WasAt(j, m)
      BY <1>2, <2>1
    <3>2. SocketOf(i)' = SocketOf(WasAt(i, m)) /\ SocketOf(j)' = SocketOf(WasAt(j, m))
      BY <1>6
    <3>3. sock[SocketOf(WasAt(i, m))] = "open"
      BY <2>1, <3>2
    <3>4. SocketOf(WasAt(j, m)) = SocketOf(WasAt(i, m))
      BY <1>1, <3>1, <3>3 DEF NewerSameSocket
    <3> QED
      BY <3>2, <3>4
  <2> QED
    BY <2>1 DEF NewerSameSocket
<1>10. ASSUME NEW i \in Positions', sock[SocketOf(i)'] = "open", Latest(i)'
       PROVE  Latest(WasAt(i, m))
  <2> DEFINE w == WasAt(i, m)
  <2>1. w \in Positions /\ w # m
    BY <1>2
  <2> HIDE DEF w
  <2>2. ASSUME NEW l \in Positions, w < l, SubOf(l) = SubOf(w)
        PROVE  FALSE
    <3>1. CASE l # m
      <4>1. PICK j \in Positions' : WasAt(j, m) = l
        BY <1>2, <3>1
      <4>2. i < j
        <5>1. i \in Nat /\ j \in Nat /\ w \in Nat /\ l \in Nat
          BY <2>1
        <5>2. i # j /\ ~(j < i)
          <6>1. j < i => l < w
            BY <1>2, <4>1 DEF w
          <6>2. ~(l < w) /\ l # w
            BY <2>2, <5>1
          <6> QED
            BY <4>1, <6>1, <6>2 DEF w
        <5> QED
          BY <5>1, <5>2
      <4>3. SubOf(j)' = SubOf(i)'
        BY <1>6, <2>2, <4>1 DEF w
      <4> QED
        BY <1>10, <4>2, <4>3 DEF Latest
    <3>2. CASE l = m
      <4>1. ~(m <= w)
        <5>1. w \in Nat /\ m \in Nat
          BY <2>1
        <5> QED
          BY <2>2, <3>2, <5>1
      <4>2. sock[SocketOf(w)] = "open"
        BY <1>6, <1>10 DEF w
      <4>3. SocketOf(m) = SocketOf(w)
        BY <1>1, <2>1, <2>2, <3>2, <4>2 DEF NewerSameSocket
      <4> QED
        BY <2>1, <4>1, <4>2, <4>3 DEF SocketOf
    <3> QED
      BY <3>1, <3>2
  <2> QED
    BY <2>2 DEF Latest, w
<1>11. LatestHolds'
  BY <1>1, <1>2, <1>6, <1>10 DEF LatestHolds, At
<1> QED
  BY <1>4, <1>7, <1>8, <1>9, <1>11 DEF OutboxInv

\* A call that ends without a socket of its own leaves the sockets as they are.
LEMMA SocketsUndisturbed ==
    ASSUME TypeInv, SocketInv, NEW c \in Callers, CallIs(c, Idle),
           UNCHANGED <<state, connects, sock, busy, remote, lateLogin>>
    PROVE  SocketInv'
<1>1. CallingKept
  BY KeptBy DEF Idle
<1>2. \A j \in Sockets : sock'[j] = sock[j] /\ (Using(j)' => busy')
  BY DEF SocketInv, OneSocket, Using
<1> QED
  BY <1>1, <1>2, SocketFrame

LEMMA SentKeeps ==
    ASSUME ClientInv, NEW c \in Callers, Sent(c)
    PROVE  ClientInv'
<1> USE DEF At, logins
<1>0. PICK k, s : k = call[c].sock /\ s = call[c].sub
  OBVIOUS
<1>1. TypeInv /\ TypeOK /\ SocketInv /\ OutboxInv /\ CallsWellFormed /\ connects \in Nat
  BY DEF ClientInv, TypeInv, TypeOK
<1>2. CallIs(c, Idle)
  BY <1>1, CallReturns DEF Sent
<1>3. UNCHANGED <<state, authenticated, connects, calls, sock, busy, closeDue, remote, refused, teardownFailed, logins, moved>>
  BY DEF Sent
<1>4. outbox # <<>> /\ c = Head(outbox) /\ outbox' = Tail(outbox) /\ sock[k] = "open"
  BY <1>0 DEF Sent
<1>5. /\ outbox' \in Seq(Callers) /\ Without(outbox', outbox, 1) /\ 1 \in Positions
      /\ Positions = 1..Len(outbox) /\ Len(outbox) \in Nat /\ outbox[1] = c
      /\ Positions \subseteq Nat /\ Positions' \subseteq Nat
  <2>1. outbox \in Seq(Callers) /\ Positions = 1..Len(outbox) /\ Len(outbox) \in Nat
    BY <1>1, OutboxTyped
  <2>2. outbox' \in Seq(Callers) /\ Without(outbox', outbox, 1) /\ 1 \in Positions
    BY <1>4, <2>1, TailWithout DEF Positions
  <2>3. Positions' = 1..Len(outbox') /\ Len(outbox') \in Nat
    BY <2>2, LenProperties DEF Positions
  <2>4. outbox[1] = c
    BY <1>4, <2>1, HeadTailProperties
  <2> QED
    BY <2>1, <2>2, <2>3, <2>4
<1>6. Pending(c) /\ k \in Sockets /\ s \in Subs
  BY <1>0, <1>1, <1>5 DEF OutboxInv, PendingQueued, CallsWellFormed
<1>7. \A i \in Positions : 1 <= i
  BY <1>5
<1>8. OutboxInv' /\ \A d \in Callers : Pending(d) /\ d # c => Pending(d)' /\ call'[d] = call[d]
  BY <1>1, <1>2, <1>3, <1>5, <1>7, MessageLeaves
<1>9. /\ subscriptions' \in [Subs -> SubStates]
      /\ \A r \in Subs : r # s => subscriptions'[r] = subscriptions[r]
      /\ subscriptions'[s] = IF call[c].pc = "subscribing" THEN "ACTIVE" ELSE "INACTIVE"
  <2>1. subscriptions \in [Subs -> SubStates]
    BY <1>1 DEF TypeOK
  <2> QED
    BY <1>0, <1>6, <2>1 DEF Sent, SubStates
<1>10. TypeOK'
  BY <1>1, <1>2, <1>3, <1>5, <1>9 DEF TypeOK, CallIs, CallRecords
<1>11. CallsWellFormed'
  <2>1. Idle.pc = "idle"
    BY DEF Idle
  <2> QED
    BY <1>1, <1>2, <1>3, <2>1, CallsStayWellFormed
<1>12. SocketInv'
  BY <1>1, <1>2, <1>3, SocketsUndisturbed
<1>13. \A r \in Subs : r # s /\ AboutIt(r) => AboutIt(r)'
  BY <1>0, <1>8 DEF AboutIt
\* When no message about s is under way any more, this was the last one.
<1>14. \/ AboutIt(s)'
       \/ IF call[c].pc = "subscribing" THEN s \in remote[k] \cup refused ELSE s \notin remote[k] \ refused
  <2>1. CASE Latest(1)
    BY <1>0, <1>1, <1>4, <1>5, <2>1 DEF OutboxInv, LatestHolds, SocketOf, SubOf
  <2>2. CASE ~Latest(1)
    <3>1. PICK j \in Positions : 1 < j /\ SubOf(j) = SubOf(1)
      BY <2>2 DEF Latest
    <3>2. outbox[j] \in Callers /\ outbox[j] # c /\ j # 1
      <4>1. j # 1
        BY <1>5, <3>1
      <4> QED
        BY <1>1, <1>5, <4>1, OutboxTyped DEF OutboxInv, OnceEach
    <3>3. Pending(outbox[j]) /\ call[outbox[j]].sub = s
      BY <1>0, <1>1, <1>5, <3>1, <3>2 DEF OutboxInv, PendingQueued, SubOf
    <3> QED
      BY <1>8, <3>2, <3>3 DEF AboutIt
  <2> QED
    BY <2>1, <2>2
<1>15. ActiveExplained'
  BY <1>3, <1>4, <1>6, <1>9, <1>13, <1>14 DEF ClientInv, ActiveExplained
<1>16. InactiveExplained'
  <2>1. \A j \in Sockets : sock[j] = "open" => j = k
    BY <1>1, <1>4, <1>6 DEF SocketInv, OneSocket, Using
  <2> QED
    BY <1>3, <1>6, <1>9, <1>13, <1>14, <2>1 DEF ClientInv, InactiveExplained
<1> QED
  BY <1>8, <1>10, <1>11, <1>12, <1>15, <1>16 DEF ClientInv, TypeInv

LEMMA SendFailsKeeps ==
    ASSUME ClientInv, NEW c \in Callers, SendFails(c)
    PROVE  ClientInv'
<1> DEFINE s == call[c].sub
<1> USE DEF At, logins
<1>1. TypeInv /\ TypeOK /\ SocketInv /\ OutboxInv /\ CallsWellFormed /\ connects \in Nat
  BY DEF ClientInv, TypeInv, TypeOK
<1>2. CallIs(c, Idle) /\ Idle.pc = "idle"
  BY <1>1, CallReturns DEF SendFails, Idle
<1>3. UNCHANGED <<state, authenticated, connects, calls, sock, busy, closeDue, remote, refused, teardownFailed, logins, moved>>
  BY DEF SendFails
<1>4. /\ s \in Subs /\ subscriptions' \in [Subs -> SubStates]
      /\ \A r \in Subs : r # s => subscriptions'[r] = subscriptions[r]
      /\ subscriptions'[s] = "FAILED"
  <2>1. subscriptions \in [Subs -> SubStates]
    BY <1>1 DEF TypeOK
  <2>2. s \in Subs
    BY <1>1 DEF SendFails, CallsWellFormed, Announcing, Pending
  <2> QED
    BY <2>1, <2>2 DEF SendFails, SubStates
<1>5. /\ outbox' \in Seq(Callers) /\ OutboxInv'
      /\ \A d \in Callers : Pending(d) /\ d # c => Pending(d)' /\ call'[d] = call[d]
  <2>1. CASE ~Pending(c) /\ UNCHANGED outbox
    <3>1. PendingKept
      BY <1>2, <2>1, KeptBy
    <3> QED
      BY <1>1, <1>3, <2>1, <3>1, OutboxFrame DEF TypeOK, PendingKept
  <2>2. CASE /\ Pending(c) /\ sock[call[c].sock] # "open"
             /\ outbox' = RemoveAt(outbox, CHOOSE i \in DOMAIN outbox : outbox[i] = c)
    <3> DEFINE m == CHOOSE i \in DOMAIN outbox : outbox[i] = c
    <3>1. m \in Positions /\ outbox[m] = c
      BY <1>1, <2>2 DEF OutboxInv, PendingQueued, Positions
    <3>2. outbox \in Seq(Callers) /\ Positions = 1..Len(outbox) /\ Len(outbox) \in Nat
      BY <1>1, OutboxTyped
    <3>3. outbox' = RemoveAt(outbox, m)
      BY <2>2
    <3> HIDE DEF m
    <3>4. outbox' \in Seq(Callers) /\ Without(outbox', outbox, m)
      BY <3>1, <3>2, <3>3, RemoveAtWithout DEF Positions
    <3>5. Positions' = 1..Len(outbox') /\ Len(outbox') \in Nat
      BY <3>4, LenProperties DEF Positions
    <3>6. Positions \subseteq Nat /\ Positions' \subseteq Nat
      BY <3>2, <3>5
    <3> QED
      BY <1>1, <1>2, <1>3, <2>2, <3>1, <3>4, <3>6, MessageLeaves
  <2> QED
    BY <2>1, <2>2 DEF SendFails, Pending
<1> HIDE DEF s
<1>6. TypeOK'
  BY <1>1, <1>2, <1>3, <1>4, <1>5 DEF TypeOK, CallIs, CallRecords
<1>7. CallsWellFormed'
  BY <1>1, <1>2, <1>3, CallsStayWellFormed
<1>8. SocketInv'
  BY <1>1, <1>2, <1>3, SocketsUndisturbed
<1>9. \A r \in Subs : r # s /\ AboutIt(r) => AboutIt(r)'
  BY <1>5 DEF AboutIt, s
<1>10. ActiveExplained'
  BY <1>3, <1>4, <1>9 DEF ClientInv, ActiveExplained
<1>11. InactiveExplained'
  BY <1>3, <1>4, <1>9 DEF ClientInv, InactiveExplained
<1> QED
  BY <1>5, <1>6, <1>7, <1>8, <1>10, <1>11 DEF ClientInv, TypeInv

-----------------------------------------------------------------------------
(* The invariant, and what it says of a client that has settled *)

LEMMA ClientInit == Init => ClientInv
<1> SUFFICES ASSUME Init PROVE ClientInv
  OBVIOUS
<1> USE DEF Init
<1>1. call \in [Callers -> CallRecords] /\ \A c \in Callers : call[c].pc = "idle"
  BY WebSocketAssumption DEF Idle, CallRecords
<1>2. \A c \in Callers : ~Calling(c) /\ ~Announcing(c) /\ ~Pending(c)
  BY <1>1 DEF Calling, Announcing, Pending
<1>3. outbox \in Seq(Callers) /\ Positions = {}
  BY DEF Positions
<1>4. TypeInv
  <2>1. connects \in 0..MaxConnects /\ calls \in 0..MaxCalls
    BY WebSocketAssumption
  <2>2. TypeOK
    BY <1>1, <1>3, <2>1 DEF TypeOK, CallRecords, States, SubStates
  <2>3. CallsWellFormed
    BY <1>2 DEF CallsWellFormed
  <2> QED
    BY <2>2, <2>3 DEF TypeInv
<1>5. SocketInv
  BY <1>2 DEF SocketInv, OneSocket, UnusedSockets, OwnSocket, NotReadyYet, NothingBeforeOpen,
              NothingBeforeReady, Using, Sockets
<1>6. OutboxInv
  BY <1>2, <1>3 DEF OutboxInv, OnceEach, PendingQueued, NewerSameSocket, LatestHolds
<1>7. ActiveExplained /\ InactiveExplained
  BY DEF ActiveExplained, InactiveExplained
<1> QED
  BY <1>4, <1>5, <1>6, <1>7 DEF ClientInv

LEMMA ClientStutters == ASSUME ClientInv, UNCHANGED vars PROVE ClientInv'
<1> USE DEF vars
<1>1. TypeInv'
  BY DEF ClientInv, TypeInv, TypeOK, CallsWellFormed, Calling, Announcing, Pending
<1>2. SocketInv'
  BY DEF ClientInv, SocketInv, OneSocket, UnusedSockets, OwnSocket, NotReadyYet, NothingBeforeOpen,
         NothingBeforeReady, Using, Calling
<1>3. OutboxInv'
  BY DEF ClientInv, OutboxInv, OnceEach, PendingQueued, NewerSameSocket, LatestHolds, Latest,
         Positions, SocketOf, SubOf, Pending, At
<1>4. ActiveExplained' /\ InactiveExplained'
  BY DEF ClientInv, ActiveExplained, InactiveExplained, AboutIt, Pending
<1> QED
  BY <1>1, <1>2, <1>3, <1>4 DEF ClientInv

LEMMA ClientNext == ClientInv /\ [Next]_vars => ClientInv'
<1> SUFFICES ASSUME ClientInv, [Next]_vars PROVE ClientInv'
  OBVIOUS
<1>1. ASSUME NEW c \in Callers, Calls(c) PROVE ClientInv'
  BY <1>1, ConnectBeginKeeps, SubscriptionBeginKeeps, TeardownBeginKeeps DEF Calls
<1>2. ASSUME NEW c \in Callers, Resumes(c) PROVE ClientInv'
  BY <1>2, ConnectResolvesKeeps, ConnectFailsKeeps, SendKeeps, SentKeeps, SendFailsKeeps,
     TeardownEndKeeps, TeardownBeginKeeps DEF Resumes
<1>3. ASSUME NEW k \in Sockets, OnOpen(k) \/ RemoteClose(k) \/ OnClose(k) PROVE ClientInv'
  BY <1>3, OnOpenKeeps, CloseKeeps
<1> QED
  BY <1>1, <1>2, <1>3, ClientStutters DEF Next

LEMMA ClientInvAlways == Spec => []ClientInv
  BY ClientInit, ClientNext, PTL DEF Spec

\* The types of the client, of its calls and of the transport.
THEOREM TypeCorrect == Spec => []TypeOK
<1>1. ClientInv => TypeOK
  BY DEF ClientInv, TypeInv
<1> QED
  BY <1>1, ClientInvAlways, PTL

LEMMA QuietSaysNothing == Quiet => \A s : ~AboutIt(s)
  BY DEF Quiet, At, AboutIt, Pending

\* ActiveIsServed: when a client has settled READY, what it shows as ACTIVE is
\* served on the socket in use, however often sockets came and went before.
THEOREM ActiveOnThisSocket == Spec => []ActiveIsServed
<1>1. ASSUME ClientInv PROVE ActiveIsServed
  <2> SUFFICES ASSUME Settled, ~teardownFailed, NEW s \in Subs, subscriptions[s] = "ACTIVE"
               PROVE  s \in Served \cup refused
    BY DEF ActiveIsServed
  <2>1. s \in refused \/ \E k \in Sockets : sock[k] = "open" /\ s \in remote[k]
    BY <1>1, QuietSaysNothing DEF ClientInv, ActiveExplained, Settled
  <2> QED
    BY <1>1, <2>1, CurrentIsTheOpenOne DEF ClientInv, Served, Sockets
<1> QED
  BY <1>1, ClientInvAlways, PTL

\* InactiveIsSilent: when a client on which no login outlived its socket has
\* settled READY, what it shows as INACTIVE is not served on the socket in use.
THEOREM InactiveOnThisSocket == Spec => []InactiveIsSilent
<1>1. ASSUME ClientInv PROVE InactiveIsSilent
  <2> SUFFICES ASSUME Settled, ~lateLogin, NEW s \in Subs, subscriptions[s] = "INACTIVE"
               PROVE  s \notin Served \ refused
    BY DEF InactiveIsSilent
  <2>1. \A k \in Sockets : sock[k] = "open" => s \notin remote[k] \ refused
    BY <1>1, QuietSaysNothing DEF ClientInv, InactiveExplained, Settled
  <2>2. Current # 0 => Current \in Sockets /\ sock[Current] = "open"
    BY <1>1, CurrentIsOpen DEF ClientInv
  <2> QED
    BY <2>1, <2>2 DEF Served
<1> QED
  BY <1>1, ClientInvAlways, PTL

=============================================================================
