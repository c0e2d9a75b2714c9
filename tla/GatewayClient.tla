---------------------------- MODULE GatewayClient ----------------------------
(***************************************************************************)
(* GatewayClient (client.ts): one client object, the sockets it opens one  *)
(* after the other, the challenge handshake of each, the requests it sends *)
(* and the reconnect timer.  Every action is one run of JavaScript to      *)
(* completion: a call by the user, a socket event, a timer, or what        *)
(* follows an await.  Two callbacks are called in the middle of a handler, *)
(* onClose and onReconnectScheduled; while one runs (hook), the user may   *)
(* call the client again and nothing else happens.  The other callbacks    *)
(* end their handler, so what they call is an action of its own.           *)
(*                                                                         *)
(* A socket attempt is named by its generation; this.attempt is always the *)
(* one of the current generation.  Calls that throw 'not connected' change *)
(* nothing and are not steps.                                              *)
(***************************************************************************)
EXTENDS Naturals, FiniteSets

CONSTANTS Call,           \* identities of the user's requests
          MaxGeneration,  \* bound: calls of connect()
          TopBackoff      \* bound: doublings after which the delay is capped

Generation == 1 .. MaxGeneration

ASSUME BoundAssumption == MaxGeneration \in Nat \ {0} /\ TopBackoff \in Nat
ASSUME CallAssumption == Call \cap Generation = {}

\* The connect request of attempt g has the id g.
Id == Call \cup Generation

VARIABLES autoReconnect,  \* the option
          closed,         \* close() was called after the last connect()
          generation,     \* number of connect() calls so far
          ws,             \* generation of the socket in this.ws, or 0
          attempts,       \* the ConnectionAttempt of each generation
          sockets,        \* the socket of each generation
          timers,         \* generations whose reconnect timer is armed
          reconnectTimer, \* the one this.reconnectTimer refers to, or 0
          backoff,        \* how often the delay has grown since its reset
          pending,        \* ids in the pending map
          requests,       \* promise and socket of every request
          notified,       \* how often onAuthenticated was called, by generation
          hook            \* the callback that is running, and its attempt

vars == <<autoReconnect, closed, generation, ws, attempts, sockets, timers,
          reconnectTimer, backoff, pending, requests, notified, hook>>

Attempt == [active: BOOLEAN,
            stage: {"idle", "challenge", "hello", "done"},  \* of sendConnect
            promise: {"none", "waiting", "resolved", "rejected"}]

SocketState == {"none", "connecting", "open", "closing", "closed"}

RequestState == [promise: {"unsent", "waiting", "ok", "failed"},
                 socket: Generation \cup {0}]

NoHook == [name |-> "none", attempt |-> 0]

Init ==
    /\ autoReconnect \in BOOLEAN
    /\ closed = FALSE
    /\ generation = 0
    /\ ws = 0
    /\ attempts = [g \in Generation |-> [active |-> FALSE, stage |-> "idle", promise |-> "none"]]
    /\ sockets = [g \in Generation |-> "none"]
    /\ timers = {}
    /\ reconnectTimer = 0
    /\ backoff = 0
    /\ pending = {}
    /\ requests = [i \in Id |-> [promise |-> "unsent", socket |-> 0]]
    /\ notified = [g \in Generation |-> 0]
    /\ hook = NoHook

-----------------------------------------------------------------------------
(* Helpers *)

\* Mutant: an attempt that failed no longer owns the connection.
OwnsWhileActive(g) == g = generation /\ g # 0 /\ attempts[g].active

OwnsAttempt(g) == g = generation /\ g # 0

IsLiveAttempt(g) == OwnsAttempt(g) /\ attempts[g].active /\ ~closed /\ ws = g

Retired(a) ==
    [a EXCEPT !.active = FALSE, !.promise = IF @ = "waiting" THEN "rejected" ELSE @]

\* Mutant: the map is cleared before its promises are rejected.
ClearPending == pending' = {} /\ UNCHANGED requests

FlushPending ==
    /\ pending' = {}
    /\ requests' = [i \in Id |-> IF i \in pending /\ requests[i].promise = "waiting"
                                 THEN [requests[i] EXCEPT !.promise = "failed"]
                                 ELSE requests[i]]

\* socket.close() starts the closing handshake; the close event comes later.
HungUp(s) == IF s \in {"connecting", "open"} THEN "closing" ELSE s

\* request(): the entry is in the map before ws.send runs.  A send that throws
\* rejects the promise and leaves entry and timer behind.
SendRequest(i, sends) ==
    /\ pending' = pending \cup {i}
    /\ requests' = [requests EXCEPT ![i] =
         [promise |-> IF sends THEN "waiting" ELSE "failed", socket |-> ws]]

FailHandshake(g, stage) ==
    /\ attempts' = [attempts EXCEPT ![g] = [Retired(@) EXCEPT !.stage = stage]]
    /\ FlushPending
    /\ sockets' = [sockets EXCEPT ![g] = HungUp(@)]
    /\ UNCHANGED <<autoReconnect, closed, generation, ws, timers, reconnectTimer,
                   backoff, notified, hook>>

\* connect() after its clearTimeout left the timers in rest.  The WebSocket
\* constructor may throw (refused): the attempt is over before it began.
Dial(rest, refused) ==
    LET g == generation + 1
    IN  /\ g \in Generation
        /\ generation' = g
        /\ closed' = FALSE
        /\ timers' = rest
        /\ reconnectTimer' = 0
        /\ ws' = IF refused THEN 0 ELSE g
        /\ attempts' = [h \in Generation |->
             IF h = generation THEN Retired(attempts[h])
             ELSE IF h = g
             THEN [active |-> ~refused, stage |-> "idle",
                   promise |-> IF refused THEN "rejected" ELSE "waiting"]
             ELSE attempts[h]]
        /\ sockets' = [h \in Generation |->
             IF h = ws THEN HungUp(sockets[h])
             ELSE IF h = g /\ ~refused THEN "connecting" ELSE sockets[h]]
        /\ FlushPending
        /\ UNCHANGED <<autoReconnect, backoff, notified, hook>>

Running == hook = NoHook

-----------------------------------------------------------------------------
(* The user: at any time between handlers, and from inside a hook *)

Connect(refused) == Dial(timers \ {reconnectTimer}, refused)

Close ==
    /\ closed' = TRUE
    /\ timers' = timers \ {reconnectTimer}
    /\ reconnectTimer' = 0
    /\ ws' = 0
    /\ attempts' = [g \in Generation |->
         IF g = generation THEN Retired(attempts[g]) ELSE attempts[g]]
    /\ sockets' = [g \in Generation |-> IF g = ws THEN HungUp(sockets[g]) ELSE sockets[g]]
    /\ FlushPending
    /\ backoff' = 0
    /\ UNCHANGED <<autoReconnect, generation, notified, hook>>

Request(c, sends) ==
    /\ requests[c].promise = "unsent"
    /\ ws # 0 /\ sockets[ws] = "open"
    /\ SendRequest(c, sends)
    /\ UNCHANGED <<autoReconnect, closed, generation, ws, attempts, sockets, timers,
                   reconnectTimer, backoff, notified, hook>>

-----------------------------------------------------------------------------
(* The network *)

SocketOpens(g) ==
    /\ Running
    /\ sockets[g] = "connecting"
    /\ sockets' = [sockets EXCEPT ![g] = "open"]
    /\ UNCHANGED <<autoReconnect, closed, generation, ws, attempts, timers, reconnectTimer,
                   backoff, pending, requests, notified, hook>>

\* The gateway starts the closing handshake: readyState changes, no event yet.
PeerCloses(g) ==
    /\ Running
    /\ sockets[g] = "open"
    /\ sockets' = [sockets EXCEPT ![g] = "closing"]
    /\ UNCHANGED <<autoReconnect, closed, generation, ws, attempts, timers, reconnectTimer,
                   backoff, pending, requests, notified, hook>>

\* A socket may still deliver frames after its close() was called.
Delivers(g) == Running /\ sockets[g] \in {"open", "closing"}

\* The event connect.challenge, up to the first await of sendConnect.
Challenge(g) ==
    /\ Delivers(g)
    /\ IsLiveAttempt(g)
    /\ attempts[g].stage = "idle"
    /\ attempts' = [attempts EXCEPT ![g].stage = "challenge"]
    /\ UNCHANGED <<autoReconnect, closed, generation, ws, sockets, timers, reconnectTimer,
                   backoff, pending, requests, notified, hook>>

\* A response frame, to a request the gateway received on this socket.
Response(g, i, verdict) ==
    /\ Delivers(g)
    /\ IsLiveAttempt(g)
    /\ i \in pending
    /\ requests[i] = [promise |-> "waiting", socket |-> g]
    /\ pending' = pending \ {i}
    /\ requests' = [requests EXCEPT ![i].promise = verdict]
    /\ UNCHANGED <<autoReconnect, closed, generation, ws, attempts, sockets, timers,
                   reconnectTimer, backoff, notified, hook>>

\* The close event, up to the call of onClose.
SocketCloses(g) ==
    /\ Running
    /\ sockets[g] \in {"connecting", "open", "closing"}
    /\ sockets' = [sockets EXCEPT ![g] = "closed"]
    /\ IF OwnsAttempt(g)
       THEN /\ ws' = 0
            /\ attempts' = [attempts EXCEPT ![g] = Retired(@)]
            /\ FlushPending
            /\ hook' = [name |-> "onClose", attempt |-> g]
       ELSE UNCHANGED <<ws, attempts, pending, requests, hook>>
    /\ UNCHANGED <<autoReconnect, closed, generation, timers, reconnectTimer,
                   backoff, notified>>

-----------------------------------------------------------------------------
(* Hooks return *)

NextBackoff == IF backoff < TopBackoff THEN backoff + 1 ELSE backoff

\* The rest of the close handler: scheduleReconnect up to its own hook, unless
\* onClose closed or replaced the connection.
OnCloseReturns ==
    /\ hook.name = "onClose"
    /\ IF OwnsAttempt(hook.attempt) /\ autoReconnect /\ ~closed
       THEN backoff' = NextBackoff /\ hook' = [hook EXCEPT !.name = "onReconnectScheduled"]
       ELSE UNCHANGED backoff /\ hook' = NoHook
    /\ UNCHANGED <<autoReconnect, closed, generation, ws, attempts, sockets, timers,
                   reconnectTimer, pending, requests, notified>>

\* Mutant: scheduleReconnect does not look again after its hook.
ArmBlindly ==
    /\ hook.name = "onReconnectScheduled"
    /\ timers' = timers \cup {hook.attempt}
    /\ reconnectTimer' = hook.attempt
    /\ hook' = NoHook
    /\ UNCHANGED <<autoReconnect, closed, generation, ws, attempts, sockets, backoff,
                   pending, requests, notified>>

OnReconnectScheduledReturns ==
    /\ hook.name = "onReconnectScheduled"
    /\ IF closed \/ generation # hook.attempt
       THEN UNCHANGED <<timers, reconnectTimer>>
       ELSE timers' = timers \cup {hook.attempt} /\ reconnectTimer' = hook.attempt
    /\ hook' = NoHook
    /\ UNCHANGED <<autoReconnect, closed, generation, ws, attempts, sockets, backoff,
                   pending, requests, notified>>

-----------------------------------------------------------------------------
(* Timers *)

ReconnectFires(g, refused) ==
    /\ Running
    /\ g \in timers
    /\ IF closed \/ generation # g
       THEN /\ timers' = timers \ {g}
            /\ reconnectTimer' = 0
            /\ UNCHANGED <<autoReconnect, closed, generation, ws, attempts, sockets,
                           backoff, pending, requests, notified, hook>>
       ELSE Dial(timers \ {g}, refused)

\* The handshake timer runs while the promise of connect() is unsettled.
HandshakeTimesOut(g) ==
    /\ Running
    /\ attempts[g].promise = "waiting"
    /\ IsLiveAttempt(g)
    /\ FailHandshake(g, attempts[g].stage)

\* Mutant: the timer drops the entry and forgets the promise.
RequestTimesOutSilently(i) ==
    /\ Running
    /\ i \in pending
    /\ pending' = pending \ {i}
    /\ UNCHANGED <<autoReconnect, closed, generation, ws, attempts, sockets, timers,
                   reconnectTimer, backoff, requests, notified, hook>>

\* A request's timer runs while its entry is in the map or its promise waits.
RequestTimesOut(i) ==
    /\ Running
    /\ i \in pending \/ requests[i].promise = "waiting"
    /\ pending' = pending \ {i}
    /\ requests' = [requests EXCEPT ![i].promise = IF @ = "waiting" THEN "failed" ELSE @]
    /\ UNCHANGED <<autoReconnect, closed, generation, ws, attempts, sockets, timers,
                   reconnectTimer, backoff, notified, hook>>

-----------------------------------------------------------------------------
(* sendConnect after its awaits *)

GiveUpHandshake(g) ==
    /\ attempts' = [attempts EXCEPT ![g].stage = "done"]
    /\ UNCHANGED <<autoReconnect, closed, generation, ws, sockets, timers, reconnectTimer,
                   backoff, pending, requests, notified, hook>>

\* onChallenge resolved (or, if ~resolved, rejected): send the connect request.
ChallengeAnswered(g, resolved, sends) ==
    /\ Running
    /\ attempts[g].stage = "challenge"
    /\ IF ~IsLiveAttempt(g) THEN GiveUpHandshake(g)
       ELSE IF ~resolved \/ sockets[g] # "open" THEN FailHandshake(g, "done")
       ELSE /\ attempts' = [attempts EXCEPT ![g].stage = "hello"]
            /\ SendRequest(g, sends)
            /\ UNCHANGED <<autoReconnect, closed, generation, ws, sockets, timers,
                           reconnectTimer, backoff, notified, hook>>

\* Mutant: the continuation does not check that the attempt is still live.
HelloSettlesUnfenced(g) ==
    /\ Running
    /\ attempts[g].stage = "hello"
    /\ requests[g].promise = "ok"
    /\ attempts' = [attempts EXCEPT ![g].stage = "done",
                     ![g].promise = IF @ = "waiting" THEN "resolved" ELSE @]
    /\ backoff' = 0
    /\ notified' = [notified EXCEPT ![g] = @ + 1]
    /\ UNCHANGED <<autoReconnect, closed, generation, ws, sockets, timers,
                   reconnectTimer, pending, requests, hook>>

\* The connect request settled: resolve connect() and call onAuthenticated.
HelloSettles(g) ==
    /\ Running
    /\ attempts[g].stage = "hello"
    /\ requests[g].promise \in {"ok", "failed"}
    /\ IF ~IsLiveAttempt(g) THEN GiveUpHandshake(g)
       ELSE IF requests[g].promise = "failed" THEN FailHandshake(g, "done")
       ELSE /\ attempts' = [attempts EXCEPT ![g].stage = "done",
                             ![g].promise = IF @ = "waiting" THEN "resolved" ELSE @]
            /\ backoff' = 0
            /\ notified' = [notified EXCEPT ![g] = @ + 1]
            /\ UNCHANGED <<autoReconnect, closed, generation, ws, sockets, timers,
                           reconnectTimer, pending, requests, hook>>

Network(g) ==
    \/ SocketOpens(g)
    \/ PeerCloses(g)
    \/ Challenge(g)
    \/ \E i \in Id, verdict \in {"ok", "failed"} : Response(g, i, verdict)
    \/ SocketCloses(g)

Next ==
    \/ \E refused \in BOOLEAN : Connect(refused)
    \/ Close
    \/ \E c \in Call, sends \in BOOLEAN : Request(c, sends)
    \/ OnCloseReturns
    \/ OnReconnectScheduledReturns
    \/ \E i \in Id : RequestTimesOut(i)
    \/ \E g \in Generation :
         \/ Network(g)
         \/ \E refused \in BOOLEAN : ReconnectFires(g, refused)
         \/ HandshakeTimesOut(g)
         \/ \E resolved, sends \in BOOLEAN : ChallengeAnswered(g, resolved, sends)
         \/ HelloSettles(g)

Spec == Init /\ [][Next]_vars

\* Timers fire, hooks return, continuations run, and a closing handshake ends
\* (Node's ws and browsers bound it).  Nothing is assumed of the gateway, of
\* the user, or of onChallenge, which may never settle.  One condition for each
\* kind of event is enough: of each kind only so many can happen.
Fairness ==
    /\ WF_vars(OnCloseReturns \/ OnReconnectScheduledReturns)
    /\ WF_vars(\E i \in Id : RequestTimesOut(i))
    /\ WF_vars(\E g \in Generation : sockets[g] = "closing" /\ SocketCloses(g))
    /\ WF_vars(\E g \in Generation : HandshakeTimesOut(g))
    /\ WF_vars(\E g \in Generation : HelloSettles(g))
    /\ WF_vars(\E g \in Generation, refused \in BOOLEAN : ReconnectFires(g, refused))

FairSpec == Spec /\ Fairness

-----------------------------------------------------------------------------
(* Properties *)

\* Every variable has its shape.
TypeOK ==
    /\ autoReconnect \in BOOLEAN
    /\ closed \in BOOLEAN
    /\ generation \in 0 .. MaxGeneration
    /\ ws \in 0 .. MaxGeneration
    /\ attempts \in [Generation -> Attempt]
    /\ sockets \in [Generation -> SocketState]
    /\ timers \subseteq Generation
    /\ reconnectTimer \in 0 .. MaxGeneration
    /\ backoff \in 0 .. TopBackoff
    /\ pending \subseteq Id
    /\ requests \in [Id -> RequestState]
    /\ notified \in [Generation -> Nat]
    /\ hook \in [name: {"none", "onClose", "onReconnectScheduled"},
                 attempt: 0 .. MaxGeneration]

\* No call of connect() is forgotten or answered twice: whatever supersedes,
\* closes or fails an attempt has settled its promise, so an unsettled one
\* belongs to the live attempt, whose timer is still able to fail it; and
\* onAuthenticated is called once for each connect() that resolves and for no
\* other, however late onChallenge and the gateway answer (lines 136-139,
\* 216-219, 284-286, 395-402).
ConnectOwed ==
    \A g \in Generation :
        /\ attempts[g].promise = "waiting" => IsLiveAttempt(g)
        /\ notified[g] = IF attempts[g].promise = "resolved" THEN 1 ELSE 0

\* The pending map never mixes sockets: what is in it was sent on the current
\* socket of a live attempt, and every request still waiting is in it, so no
\* request outlives its connection and no answer reaches another connection's
\* request (flushPending at every turn, lines 140, 220, 285, 386).
PendingOnLiveSocket ==
    /\ \A i \in pending : ws # 0 /\ requests[i].socket = ws /\ IsLiveAttempt(ws)
    /\ \A i \in Id : requests[i].promise = "waiting" => i \in pending

\* Connections never compete, with each other or with the user's close(): every
\* socket that lost its place was told to close, and there is one reconnect
\* timer at most, the one close() and connect() can clear, armed only while
\* there is no socket, for the attempt that was lost (lines 134-142, 206-223,
\* 289-291, 421-434).
OneConnection ==
    /\ \A g \in Generation : sockets[g] \in {"connecting", "open"} => ws = g
    /\ timers = {reconnectTimer} \ {0}
    /\ timers # {} => autoReconnect /\ ~closed /\ ws = 0 /\ timers = {generation}

\* A client that reconnects by itself always has a way back: unless it was closed
\* or the WebSocket constructor threw, it has a socket whose close event is
\* still to come, or an armed timer, or its close handler is still running.
NeverStranded ==
    autoReconnect /\ ~closed /\ generation # 0 /\ Running =>
        \/ timers # {}
        \/ ws = generation /\ sockets[ws] # "closed"
        \/ sockets[generation] = "none"

\* The client implements sessions: sockets, handshakes and fences read as one
\* session after the other, each request a call of its session.
Standing ==
    IF generation = 0 \/ ~attempts[generation].active THEN "down"
    ELSE IF attempts[generation].promise = "resolved" THEN "up" ELSE "dialing"

Session == INSTANCE GatewaySession WITH
    session <- generation,
    standing <- Standing,
    call <- [c \in Call |-> [state |-> requests[c].promise, session |-> requests[c].socket]]

ImplementsSession == Session!Spec

\* Every connect() settles, even if the gateway never answers and onChallenge
\* never returns (the handshake timer, lines 158-162), and so does every request
\* (its timer, the response, or a flush; lines 187-194).
PromisesSettle ==
    /\ \A g \in Generation : []<>(attempts[g].promise # "waiting")
    /\ \A i \in Id : []<>(requests[i].promise # "waiting")

\* A client that reconnects by itself dials again after every failed or lost
\* attempt, unless it is closed, its constructor threw, or the bound is reached.
Redials ==
    \A g \in Generation \ {MaxGeneration} :
        (autoReconnect /\ generation = g /\ ~attempts[g].active)
            ~> (closed \/ generation > g \/ sockets[g] = "none")
=============================================================================
