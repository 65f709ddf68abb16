----------------------- MODULE ExchangeWebSocketClient -----------------------
(***************************************************************************)
(* BaseExchangeWebSocketClient: connect, subscribe, unsubscribe,           *)
(* disconnect and destroy as callers run them, cut at the awaits where     *)
(* another call or a callback of the transport may run, and the callbacks  *)
(* themselves. The client keeps one state for all its connections, and the *)
(* callbacks it hands to the transport do not tell them apart.             *)
(*                                                                         *)
(* Left out: message payloads and listeners, counters, revisions,          *)
(* heartbeat and reconnect snapshots (written by protected methods that no *)
(* class calls), and calls that return or throw before they change         *)
(* anything.                                                               *)
(*                                                                         *)
(* External: the transport has at most one connection opening or open;     *)
(* what it is asked to send it confirms in order; a promise of the         *)
(* transport is kept only while its socket is open, and the client resumes *)
(* before the next event of the socket. The authenticator keeps or breaks  *)
(* its promise at any time.                                                *)
(***************************************************************************)
EXTENDS Naturals, Sequences, SequencesExt, FiniteSets

CONSTANTS Callers,      \* concurrent users of the client
          Subs,         \* subscription ids
          NoSub,        \* none of them
          MaxConnects,  \* bound: calls of connect that get to the transport
          MaxCalls,     \* bound: all other calls
          ReadyOnOpen   \* config.readyOnOpen

ASSUME WebSocketAssumption ==
    /\ NoSub \notin Subs
    /\ MaxConnects \in Nat \ {0}
    /\ MaxCalls \in Nat
    /\ ReadyOnOpen \in BOOLEAN

VARIABLES
    state,          \* ExchangeWebSocketClientState
    authenticated,
    subscriptions,  \* the state of each subscription, ABSENT when not in the map
    call,           \* what each caller waits for
    connects, calls,    \* calls made so far
    sock,           \* external: the sockets, one per connect
    busy,           \* external: the transport is connecting or open
    closeDue,       \* external: sockets closed whose onClose has not been called
    outbox,         \* external: callers whose send is not confirmed yet
    remote,         \* external: subscriptions the exchange serves on each socket
    refused,        \* subscriptions whose message the transport did not accept
    teardownFailed,    \* a disconnect or destroy has ended in its catch
    outlived,       \* READY comes from a login that ended after its socket was gone
    lateLogin,      \* some login has ended after its socket was closed
    moved           \* the state changed while transport.destroy() was awaited

vars == <<state, authenticated, subscriptions, call, connects, calls, sock, busy,
          closeDue, outbox, remote, refused, teardownFailed, outlived, lateLogin, moved>>
client == <<state, authenticated, subscriptions>>
transport == <<sock, busy, closeDue, outbox, remote, refused, teardownFailed>>
logins == <<outlived, lateLogin>>

Sockets == 1..MaxConnects
States == {"CREATED", "CONNECTING", "CONNECTED", "AUTHENTICATING", "READY",
           "DISCONNECTING", "DISCONNECTED", "FAILED", "DESTROYED"}
SubStates == {"ABSENT", "PENDING", "ACTIVE", "UNSUBSCRIBING", "INACTIVE", "FAILED"}

Idle == [pc |-> "idle", sock |-> 0, sub |-> NoSub]
At(c, pc) == call[c].pc = pc
\* The socket sends go to: the newest that is open, 0 when there is none.
Current == IF \E k \in Sockets : sock[k] = "open"
           THEN CHOOSE k \in Sockets : sock[k] = "open" /\ \A j \in Sockets : sock[j] = "open" => j <= k
           ELSE 0
Live(k) == sock[k] = "open" \/ k \in closeDue

TypeOK ==
    /\ state \in States
    /\ authenticated \in BOOLEAN
    /\ subscriptions \in [Subs -> SubStates]
    /\ call \in [Callers -> [pc : {"idle", "opening", "authenticating", "announcing", "subscribing",
                                   "retracting", "unsubscribing", "closing", "closingFirst", "destroying"},
                             sock : 0..MaxConnects, sub : Subs \cup {NoSub}]]
    /\ connects \in 0..MaxConnects /\ calls \in 0..MaxCalls
    /\ sock \in [Sockets -> {"none", "opening", "open", "closed"}]
    /\ busy \in BOOLEAN /\ closeDue \subseteq Sockets
    /\ outbox \in Seq(Callers) /\ remote \in [Sockets -> SUBSET Subs]
    /\ refused \subseteq Subs
    /\ {teardownFailed, outlived, lateLogin, moved} \subseteq BOOLEAN

Init ==
    /\ state = "CREATED" /\ authenticated = FALSE
    /\ subscriptions = [s \in Subs |-> "ABSENT"]
    /\ call = [c \in Callers |-> Idle]
    /\ connects = 0 /\ calls = 0
    /\ sock = [k \in Sockets |-> "none"] /\ busy = FALSE /\ closeDue = {}
    /\ outbox = <<>> /\ remote = [k \in Sockets |-> {}]
    /\ refused = {} /\ teardownFailed = FALSE /\ outlived = FALSE /\ lateLogin = FALSE /\ moved = FALSE

-----------------------------------------------------------------------------
\* transitionState: any state may follow any other. destroy() compares the time
\* it took before its await with the time of the last change, of the state or of
\* its reason.
TransitionState(next) == state' = next /\ moved' = TRUE

Returns(c) == call' = [call EXCEPT ![c] = Idle]
WaitsAt(c, pc) == call' = [call EXCEPT ![c].pc = pc]

\* markSubscriptionsInactive
MarkedInactive == [s \in Subs |-> IF subscriptions[s] = "ABSENT" THEN "ABSENT" ELSE "INACTIVE"]

\* A caller starts a call other than connect.
Starts(c) == At(c, "idle") /\ calls < MaxCalls /\ calls' = calls + 1

-----------------------------------------------------------------------------
(* connect *)

\* The transport refuses a second connection: the promise is then rejected.
ConnectBegin(c) ==
    LET k == connects + 1 IN
    /\ At(c, "idle") /\ connects < MaxConnects
    /\ state \notin {"READY", "CONNECTED", "AUTHENTICATING", "DESTROYED", "CONNECTING", "RECONNECTING"}
    /\ authenticated' = FALSE
    /\ TransitionState("CONNECTING")
    /\ connects' = k
    /\ call' = [call EXCEPT ![c] = [pc |-> "opening", sock |-> k, sub |-> NoSub]]
    /\ sock' = [sock EXCEPT ![k] = IF busy THEN "closed" ELSE "opening"]
    /\ busy' = TRUE
    /\ UNCHANGED <<subscriptions, calls, closeDue, outbox, remote, refused, teardownFailed, logins>>

\* transport.connect has resolved. Without authentication READY follows in
\* whatever state the client has come to; with it, the login is awaited first.
ConnectResolves(c) ==
    /\ At(c, "opening") /\ sock[call[c].sock] = "open"
    /\ \/ /\ TransitionState("AUTHENTICATING") /\ WaitsAt(c, "authenticating")
          /\ UNCHANGED logins
       \/ /\ TransitionState(IF ReadyOnOpen THEN "READY"
                             ELSE IF state = "CONNECTING" THEN "CONNECTED" ELSE state)
          /\ outlived' = (outlived /\ ~ReadyOnOpen) /\ UNCHANGED lateLogin
          /\ Returns(c)
    /\ UNCHANGED <<authenticated, subscriptions, connects, calls, transport>>

\* authenticate has resolved. READY follows whatever has become of the socket
\* and of the state since.
AuthenticateResolves(c) ==
    /\ At(c, "authenticating")
    /\ authenticated' = TRUE
    /\ TransitionState("READY") /\ Returns(c)
    /\ outlived' = ~Live(call[c].sock)
    /\ lateLogin' = (lateLogin \/ sock[call[c].sock] # "open")
    /\ UNCHANGED <<subscriptions, connects, calls, transport>>

\* The catch of connect: transport.connect or authenticate was rejected. The
\* socket of a failed login stays open.
ConnectFails(c) ==
    LET k == call[c].sock IN
    /\ \/ At(c, "opening") /\ sock[k] # "open"
       \/ At(c, "authenticating")
    /\ TransitionState("FAILED") /\ Returns(c)
    /\ sock' = [sock EXCEPT ![k] = IF @ = "opening" THEN "closed" ELSE @]
    /\ busy' = (busy /\ sock[k] # "opening")
    /\ UNCHANGED <<authenticated, subscriptions, connects, calls, closeDue, outbox, remote, refused, teardownFailed, logins>>

-----------------------------------------------------------------------------
(* subscribe and unsubscribe *)

\* An ACTIVE subscription is returned as it is.
SubscribeBegin(c, s) ==
    /\ Starts(c) /\ state = "READY" /\ subscriptions[s] # "ACTIVE"
    /\ subscriptions' = [subscriptions EXCEPT ![s] = "PENDING"]
    /\ call' = [call EXCEPT ![c] = [pc |-> "announcing", sock |-> 0, sub |-> s]]
    /\ UNCHANGED <<state, authenticated, connects, transport, logins, moved>>

\* Mutant: the subscription is dropped without telling the exchange.
UnsubscribeLocally(c, s) ==
    /\ Starts(c) /\ subscriptions[s] \notin {"ABSENT", "INACTIVE"}
    /\ subscriptions' = [subscriptions EXCEPT ![s] = "INACTIVE"]
    /\ UNCHANGED <<state, authenticated, call, connects, transport, logins, moved>>

UnsubscribeBegin(c, s) ==
    /\ Starts(c) /\ subscriptions[s] \notin {"ABSENT", "INACTIVE"}
    /\ subscriptions' = [subscriptions EXCEPT ![s] = "UNSUBSCRIBING"]
    /\ call' = [call EXCEPT ![c] = [pc |-> "retracting", sock |-> 0, sub |-> s]]
    /\ UNCHANGED <<state, authenticated, connects, transport, logins, moved>>

\* The listeners of the announcement have returned: send() looks at the state
\* again and hands the message to the transport, which may refuse it.
Send(c) ==
    LET s == call[c].sub
        gone == call[c].pc = "retracting" IN
    /\ call[c].pc \in {"announcing", "retracting"} /\ state = "READY" /\ Current # 0
    /\ outbox' = Append(outbox, c)
    /\ call' = [call EXCEPT ![c] = [pc |-> IF gone THEN "unsubscribing" ELSE "subscribing",
                                   sock |-> Current, sub |-> s]]
    /\ \/ /\ remote' = [remote EXCEPT ![Current] = IF gone THEN @ \ {s} ELSE @ \cup {s}]
          /\ refused' = refused \ {s}
       \/ refused' = refused \cup {s} /\ UNCHANGED remote
    /\ UNCHANGED <<client, connects, calls, sock, busy, closeDue, teardownFailed, logins, moved>>

\* The transport confirms the oldest message; whether it accepted it is not
\* looked at.
Sent(c) ==
    /\ outbox # <<>> /\ c = Head(outbox) /\ sock[call[c].sock] = "open"
    /\ subscriptions' = [subscriptions EXCEPT ![call[c].sub] =
                            IF At(c, "subscribing") THEN "ACTIVE" ELSE "INACTIVE"]
    /\ outbox' = Tail(outbox)
    /\ Returns(c)
    /\ UNCHANGED <<state, authenticated, connects, calls, sock, busy, closeDue, remote, refused, teardownFailed, logins, moved>>

\* send() threw: not READY any more, or the transport rejected the message.
SendFails(c) ==
    /\ \/ call[c].pc \in {"announcing", "retracting"} /\ (state # "READY" \/ Current = 0)
          /\ UNCHANGED outbox
       \/ call[c].pc \in {"subscribing", "unsubscribing"} /\ sock[call[c].sock] # "open"
          /\ outbox' = RemoveAt(outbox, CHOOSE i \in DOMAIN outbox : outbox[i] = c)
    /\ subscriptions' = [subscriptions EXCEPT ![call[c].sub] = "FAILED"]
    /\ Returns(c)
    /\ UNCHANGED <<state, authenticated, connects, calls, sock, busy, closeDue, remote, refused, teardownFailed, logins, moved>>

-----------------------------------------------------------------------------
(* disconnect and destroy *)

DisconnectCreated(c) ==
    /\ Starts(c) /\ state = "CREATED"
    /\ TransitionState("DISCONNECTED")
    /\ UNCHANGED <<authenticated, subscriptions, call, connects, transport, logins>>

DisconnectBegin(c) ==
    /\ Starts(c) /\ state \notin {"DISCONNECTED", "CREATED", "DESTROYED"}
    /\ TransitionState("DISCONNECTING")
    /\ WaitsAt(c, "closing")
    /\ UNCHANGED <<authenticated, subscriptions, connects, transport, logins>>

\* The socket the transport holds is closed; onClose may still be called for it.
TransportCloses ==
    /\ sock' = [k \in Sockets |-> IF sock[k] \in {"opening", "open"} THEN "closed" ELSE sock[k]]
    /\ busy' = FALSE
    /\ \/ UNCHANGED closeDue
       \/ closeDue' = closeDue \cup {k \in Sockets : sock[k] = "open"}
    /\ UNCHANGED <<outbox, remote, refused>>

DisconnectResolves(c) ==
    /\ call[c].pc \in {"closing", "closingFirst"}
    /\ TransportCloses /\ UNCHANGED <<teardownFailed, logins>>
    /\ state' = "DISCONNECTED"
    /\ moved' = At(c, "closing")
    /\ authenticated' = FALSE
    /\ subscriptions' = MarkedInactive
    /\ IF At(c, "closing") THEN Returns(c) ELSE WaitsAt(c, "destroying")
    /\ UNCHANGED <<connects, calls>>

\* The catch of disconnect, which destroy does not handle: subscriptions and
\* authentication stay as they are.
DisconnectFails(c) ==
    /\ call[c].pc \in {"closing", "closingFirst"}
    /\ TransitionState("FAILED") /\ Returns(c)
    /\ teardownFailed' = TRUE /\ busy' = FALSE
    /\ sock' = [k \in Sockets |-> IF sock[k] \in {"opening", "open"} THEN "closed" ELSE sock[k]]
    /\ UNCHANGED <<authenticated, subscriptions, connects, calls, closeDue, outbox, remote, refused, logins>>

\* destroy() disconnects first unless there is nothing to disconnect.
DestroyBegin(c) ==
    /\ Starts(c) /\ state # "DESTROYED"
    /\ IF state \in {"CREATED", "DISCONNECTED"}
       THEN WaitsAt(c, "destroying") /\ moved' = FALSE /\ UNCHANGED state
       ELSE TransitionState("DISCONNECTING") /\ WaitsAt(c, "closingFirst")
    /\ UNCHANGED <<authenticated, subscriptions, connects, transport, logins>>

\* transport.destroy() has resolved. The time of the transition was taken before
\* the await: a change of state since then may make it too old.
DestroyResolves(c) ==
    /\ At(c, "destroying")
    /\ TransportCloses
    /\ \/ /\ state' = "DESTROYED"
          /\ authenticated' = FALSE
          /\ subscriptions' = MarkedInactive
       \/ /\ moved /\ state' = "FAILED"
          /\ UNCHANGED <<authenticated, subscriptions>>
    /\ teardownFailed' = (teardownFailed \/ state' = "FAILED")
    /\ Returns(c)
    /\ UNCHANGED <<connects, calls, logins, moved>>

DestroyFails(c) ==
    /\ At(c, "destroying")
    /\ TransitionState("FAILED") /\ Returns(c)
    /\ teardownFailed' = TRUE
    /\ UNCHANGED <<authenticated, subscriptions, connects, calls, sock, busy, closeDue, outbox, remote, refused, logins>>

-----------------------------------------------------------------------------
(* the transport and its callbacks *)

\* onOpen, called when the socket opens.
OnOpen(k) ==
    /\ sock[k] = "opening"
    /\ sock' = [sock EXCEPT ![k] = "open"]
    /\ IF state = "CONNECTING" THEN TransitionState("CONNECTED") ELSE UNCHANGED <<state, moved>>
    /\ UNCHANGED <<authenticated, subscriptions, call, connects, calls, busy, closeDue, outbox, remote, refused, teardownFailed, logins>>

\* The exchange or the network closes a socket.
RemoteClose(k) ==
    /\ sock[k] = "open"
    /\ sock' = [sock EXCEPT ![k] = "closed"]
    /\ busy' = FALSE
    /\ closeDue' = closeDue \cup {k}
    /\ UNCHANGED <<client, call, connects, calls, outbox, remote, refused, teardownFailed, logins, moved>>

\* Mutant: the callback looks for a handshake only.
OnCloseConnectedOnly(k) ==
    /\ k \in closeDue
    /\ closeDue' = closeDue \ {k}
    /\ IF state = "CONNECTED" THEN TransitionState("DISCONNECTED") ELSE UNCHANGED <<state, moved>>
    /\ authenticated' = FALSE
    /\ subscriptions' = MarkedInactive
    /\ UNCHANGED <<call, connects, calls, sock, busy, outbox, remote, refused, teardownFailed, logins>>

\* Mutant: the callback leaves the subscriptions as they are.
OnCloseKeepsSubscriptions(k) ==
    /\ k \in closeDue
    /\ closeDue' = closeDue \ {k}
    /\ IF state \in {"DISCONNECTING", "DESTROYED"} THEN UNCHANGED <<state, moved>>
       ELSE TransitionState("DISCONNECTED")
    /\ authenticated' = FALSE
    /\ UNCHANGED <<subscriptions, call, connects, calls, sock, busy, outbox, remote, refused, teardownFailed, logins>>

\* Mutant: a destroyed client takes the callback too.
OnCloseRevives(k) ==
    /\ k \in closeDue
    /\ closeDue' = closeDue \ {k}
    /\ IF state = "DISCONNECTING" THEN UNCHANGED <<state, moved>> ELSE TransitionState("DISCONNECTED")
    /\ authenticated' = FALSE
    /\ subscriptions' = MarkedInactive
    /\ UNCHANGED <<call, connects, calls, sock, busy, outbox, remote, refused, teardownFailed, logins>>

\* onClose does not ask which connection has closed.
OnClose(k) ==
    /\ k \in closeDue
    /\ closeDue' = closeDue \ {k}
    /\ IF state \in {"DISCONNECTING", "DESTROYED"} THEN UNCHANGED <<state, moved>>
       ELSE TransitionState("DISCONNECTED")
    /\ authenticated' = FALSE
    /\ subscriptions' = MarkedInactive
    /\ UNCHANGED <<call, connects, calls, sock, busy, outbox, remote, refused, teardownFailed, logins>>

Resumes(c) ==
    \/ ConnectResolves(c) \/ AuthenticateResolves(c) \/ ConnectFails(c)
    \/ Send(c) \/ Sent(c) \/ SendFails(c)
    \/ DisconnectResolves(c) \/ DisconnectFails(c)
    \/ DestroyResolves(c) \/ DestroyFails(c)

Calls(c) ==
    \/ ConnectBegin(c)
    \/ \E s \in Subs : SubscribeBegin(c, s) \/ UnsubscribeBegin(c, s)
    \/ DisconnectCreated(c) \/ DisconnectBegin(c) \/ DestroyBegin(c)

Next ==
    \/ \E c \in Callers : Calls(c) \/ Resumes(c)
    \/ \E k \in Sockets : OnOpen(k) \/ RemoteClose(k) \/ OnClose(k)

Spec == Init /\ [][Next]_vars

-----------------------------------------------------------------------------
(* Properties *)

\* READY is never a leftover: some socket is open, or its close is still to be
\* reported to the client. Excepted is the READY a login makes when it ends after
\* its socket was closed and the client has been told: nothing takes it back.
ReadyIsLive == state = "READY" /\ ~outlived => \E k \in Sockets : Live(k)

\* No call is in flight and no close is to be reported.
Quiet == \A c \in Callers : At(c, "idle")
Settled == Quiet /\ closeDue = {} /\ state = "READY"

\* What the exchange serves on the socket in use.
Served == IF Current = 0 THEN {} ELSE remote[Current]

\* On a client that has settled READY, a subscription shown ACTIVE is served by
\* the exchange on the socket in use: none is left over from an earlier one.
\* Excepted are messages the transport did not accept, which subscribe does not
\* look at, and a disconnect or destroy that failed: it marks nothing INACTIVE.
ActiveIsServed ==
    Settled /\ ~teardownFailed =>
        \A s \in Subs : subscriptions[s] = "ACTIVE" => s \in Served \cup refused

\* On a client that has settled READY, what is INACTIVE is not served any more.
\* Excepted is a client on which a login outlived its socket: callers may then
\* have subscribed on the next socket before connect was done with it, and the
\* late close of the first marks that subscription INACTIVE.
InactiveIsSilent ==
    Settled /\ ~lateLogin =>
        \A s \in Subs : subscriptions[s] = "INACTIVE" => s \notin Served \ refused

\* No callback revives a destroyed client on which no call is in flight.
DestroyedIsFinal == [][state = "DESTROYED" /\ Quiet => state' = "DESTROYED"]_vars

=============================================================================
