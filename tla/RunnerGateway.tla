--------------------------- MODULE RunnerGateway ----------------------------
(***************************************************************************)
(* The gateway client of the flow runner (langgraph-server,                *)
(* gateway/client.ts): one module-wide socket that redials for ever, a     *)
(* handshake that is an entry of the pending map like any request, and     *)
(* requests that only their own timer takes out when the socket closes.    *)
(***************************************************************************)
EXTENDS Naturals, FiniteSets

CONSTANTS Socket,        \* WebSocket objects, reused once nothing refers to them
          Request,       \* requests the flows have under way at one time
          MaxChallenge,  \* bound: challenges the gateway sends on one socket
          MaxDelay,      \* longest reconnect delay, in seconds
          None

NoneAssumption == None \notin Socket

VARIABLES ws, status,
          authed,
          delay,     \* reconnectDelay, in seconds
          timers,    \* armed reconnect timers
          asked,     \* connect requests sent on each socket and not answered
          asks,      \* challenges received on each socket
          greeted,   \* the last handshake of each socket succeeded (history)
          pending    \* the socket each request was sent on, or None

vars == <<ws, status, authed, delay, timers, asked, asks, greeted, pending>>
link == <<ws, status, delay, timers>>
shakes == <<asked, asks, greeted>>

Init ==
    /\ \E s \in Socket :
         /\ ws = s
         /\ status = [x \in Socket |-> IF x = s THEN "connecting" ELSE "closed"]
    /\ authed = FALSE
    /\ delay = 1
    /\ timers = 0
    /\ asked = [s \in Socket |-> 0]
    /\ asks = [s \in Socket |-> 0]
    /\ greeted = [s \in Socket |-> FALSE]
    /\ pending = [r \in Request |-> None]

-----------------------------------------------------------------------------
\* The reconnect timer fires: connect().  (The connect requests of the socket
\* object that is reused were never answered and stay in the pending map for
\* good; nothing refers to them.)
Reconnect ==
    /\ timers > 0
    /\ timers' = timers - 1
    /\ authed' = FALSE
    /\ \E s \in Socket :
         /\ status[s] = "closed" /\ \A r \in Request : pending[r] # s
         /\ ws' = s
         /\ status' = [status EXCEPT ![s] = "connecting"]
         /\ asked' = [asked EXCEPT ![s] = 0]
         /\ asks' = [asks EXCEPT ![s] = 0]
         /\ greeted' = [greeted EXCEPT ![s] = FALSE]
    /\ UNCHANGED <<delay, pending>>

SocketOpens(s) ==
    /\ status[s] = "connecting"
    /\ status' = [status EXCEPT ![s] = "open"]
    /\ delay' = 1
    /\ UNCHANGED <<ws, authed, timers, shakes, pending>>

\* Mutant: the flag survives its socket.
SocketClosesAuthed(s) ==
    /\ status[s] # "closed"
    /\ status' = [status EXCEPT ![s] = "closed"]
    /\ ws' = None
    /\ delay' = IF 2 * delay < MaxDelay THEN 2 * delay ELSE MaxDelay
    /\ timers' = timers + 1
    /\ UNCHANGED <<authed, shakes, pending>>

\* "close", of whatever socket: redial.  The pending map is left alone.
SocketCloses(s) ==
    /\ status[s] # "closed"
    /\ status' = [status EXCEPT ![s] = "closed"]
    /\ ws' = None
    /\ authed' = FALSE
    /\ delay' = IF 2 * delay < MaxDelay THEN 2 * delay ELSE MaxDelay
    /\ timers' = timers + 1
    /\ UNCHANGED <<shakes, pending>>

\* Messages are read until the socket is closed, on an open one or a closing one.
Reads(s) == status[s] \in {"open", "closing"}

\* connect.challenge: a signed connect request goes out on the module's socket.
\* On a closing one it is lost.
Challenge(s) ==
    /\ Reads(s)
    /\ asks[s] < MaxChallenge
    /\ asks' = [asks EXCEPT ![s] = @ + 1]
    /\ asked' = IF status[ws] = "open" THEN [asked EXCEPT ![ws] = @ + 1] ELSE asked
    /\ UNCHANGED <<link, authed, greeted, pending>>

HelloOk(s) ==
    /\ Reads(s) /\ asked[s] > 0
    /\ asked' = [asked EXCEPT ![s] = @ - 1]
    /\ greeted' = [greeted EXCEPT ![s] = TRUE]
    /\ authed' = TRUE
    /\ UNCHANGED <<link, asks, pending>>

\* The handshake is refused: ws?.close(1008).
HelloRefused(s) ==
    /\ Reads(s) /\ asked[s] > 0
    /\ asked' = [asked EXCEPT ![s] = @ - 1]
    /\ greeted' = [greeted EXCEPT ![s] = FALSE]
    /\ authed' = FALSE
    /\ status' = [status EXCEPT ![ws] = "closing"]
    /\ UNCHANGED <<ws, delay, timers, asks, pending>>

-----------------------------------------------------------------------------
isConnected == ws # None /\ status[ws] = "open" /\ authed

\* request(); it throws without a connection.
SendRequest(r) ==
    /\ isConnected
    /\ pending[r] = None
    /\ pending' = [pending EXCEPT ![r] = ws]
    /\ UNCHANGED <<link, authed, shakes>>

\* A response resolves or rejects its request.
Response(r) ==
    /\ pending[r] # None /\ Reads(pending[r])
    /\ pending' = [pending EXCEPT ![r] = None]
    /\ UNCHANGED <<link, authed, shakes>>

\* Mutant: a request whose socket is gone is left to its caller.
RequestTimesOutIfConnected(r) ==
    /\ pending[r] # None /\ pending[r] = ws
    /\ pending' = [pending EXCEPT ![r] = None]
    /\ UNCHANGED <<link, authed, shakes>>

\* The 30 s timer.
RequestTimesOut(r) ==
    /\ pending[r] # None
    /\ pending' = [pending EXCEPT ![r] = None]
    /\ UNCHANGED <<link, authed, shakes>>

-----------------------------------------------------------------------------
Next ==
    \/ Reconnect
    \/ \E s \in Socket :
         SocketOpens(s) \/ SocketCloses(s) \/ Challenge(s) \/ HelloOk(s) \/ HelloRefused(s)
    \/ \E r \in Request : SendRequest(r) \/ Response(r) \/ RequestTimesOut(r)

Spec == Init /\ [][Next]_vars

-----------------------------------------------------------------------------
(* Properties *)

\* Every variable has its shape.
TypeOK ==
    /\ ws \in Socket \cup {None}
    /\ status \in [Socket -> {"connecting", "open", "closing", "closed"}]
    /\ authed \in BOOLEAN
    /\ delay \in 1 .. MaxDelay
    /\ timers \in Nat
    /\ asked \in [Socket -> 0 .. MaxChallenge] /\ asks \in [Socket -> 0 .. MaxChallenge]
    /\ greeted \in [Socket -> BOOLEAN]
    /\ pending \in [Request -> Socket \cup {None}]

\* There is no fence in this client, and none is needed: there is one socket that
\* is not closed, which is ws, or one armed timer, never both and never two, and
\* authed speaks of that socket's own last handshake, so no flow's request goes
\* out on a socket the gateway has not greeted (lines 106-165, 173-185).
OneLink ==
    /\ timers + Cardinality({s \in Socket : status[s] # "closed"}) = 1
    /\ \A s \in Socket : status[s] # "closed" <=> ws = s
    /\ authed => ws # None /\ greeted[ws]

\* A request settles although nothing rejects it when its socket closes (160),
\* and a client without a socket gets one.
SettlesAndRedials ==
    /\ \A r \in Request : pending[r] # None ~> pending[r] = None
    /\ ws = None ~> ws # None
=============================================================================
