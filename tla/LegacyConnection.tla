-------------------------- MODULE LegacyConnection --------------------------
(***************************************************************************)
(* The predecessor of GatewayClient (shared, gateway/connection.ts) with   *)
(* the requests of gateway/protocol.ts that are tracked in its pending     *)
(* map.  One record holds the connection, so that connect() and            *)
(* disconnect() are operators on it: the onDisconnected hook may call      *)
(* either from inside the close handler.                                   *)
(***************************************************************************)
EXTENDS Naturals

CONSTANTS Socket,     \* WebSocket objects, reused once nothing refers to them
          Request,    \* requests the user has under way at one time
          MaxTimers,  \* bound: reconnect timers armed at one time
          None

NoneAssumption == None \notin Socket

VARIABLES conn,    \* ConnectionState, its sockets and its timers
          wanted   \* the user's last word was connect(), not disconnect() (history)

vars == <<conn, wanted>>

\* current is the socket created under the present generation, if any: only its
\* events pass the fence.  armed counts the armed reconnect timers, held says
\* that reconnectTimer is the handle of one of them.  pending maps each request
\* to the socket it was sent on, or None.
Connection ==
    [ws: Socket \cup {None}, current: Socket \cup {None},
     status: [Socket -> {"connecting", "open", "closing", "closed"}],
     armed: 0 .. MaxTimers, held: BOOLEAN, closed: BOOLEAN,
     pending: [Request -> Socket \cup {None}]]

createConnectionState ==
    [ws |-> None, current |-> None, status |-> [s \in Socket |-> "closed"],
     armed |-> 0, held |-> FALSE, closed |-> FALSE, pending |-> [r \in Request |-> None]]

Init == conn = createConnectionState /\ wanted = FALSE

-----------------------------------------------------------------------------
flushPending == [r \in Request |-> None]

\* close() on a socket, if there is one.
Hangup(status, s) ==
    IF s # None /\ status[s] # "closed" THEN [status EXCEPT ![s] = "closing"] ELSE status

\* Sockets the constructor may return; None if it throws.
Fresh(c) ==
    {s \in Socket : c.status[s] = "closed" /\ \A r \in Request : c.pending[r] # s} \cup {None}

\* connect(), which gets socket s from the constructor.  The generation grows
\* before the constructor is called, so no older socket passes the fence even
\* if it throws; an armed timer and the pending requests are left as they are.
connect(c, s) ==
    LET status == Hangup(c.status, c.ws)
    IN  [c EXCEPT !.closed = FALSE, !.ws = s, !.current = s,
                  !.status = IF s = None THEN status ELSE [status EXCEPT ![s] = "connecting"]]

\* disconnect(): only the timer the handle names is cleared.
disconnect(c) ==
    [c EXCEPT !.closed = TRUE,
              !.armed = IF c.held THEN @ - 1 ELSE @, !.held = FALSE,
              !.status = Hangup(@, c.ws), !.ws = None,
              !.pending = flushPending]

\* The handle of a timer that is still armed is overwritten.
scheduleReconnect(c) ==
    IF c.closed THEN c ELSE [c EXCEPT !.armed = @ + 1, !.held = TRUE]

-----------------------------------------------------------------------------
(* The user *)

Connect ==
    /\ \E s \in Fresh(conn) : conn' = connect(conn, s)
    /\ wanted' = TRUE

Disconnect ==
    /\ conn' = disconnect(conn)
    /\ wanted' = FALSE

\* sendRequest; without an open socket it rejects at once.
SendRequest(r) ==
    /\ conn.pending[r] = None
    /\ conn.ws # None /\ conn.status[conn.ws] = "open"
    /\ conn' = [conn EXCEPT !.pending[r] = conn.ws]
    /\ UNCHANGED wanted

-----------------------------------------------------------------------------
(* Events *)

SocketOpens(s) ==
    /\ conn.status[s] = "connecting"
    /\ conn' = [conn EXCEPT !.status[s] = "open"]
    /\ UNCHANGED wanted

\* "close".  Past the fence the requests are rejected, the user is told, who may
\* connect or disconnect, and only then the timer is armed.
SocketCloses(s) ==
    /\ conn.status[s] # "closed"
    /\ conn.armed < MaxTimers
    /\ LET gone == [conn EXCEPT !.status[s] = "closed"]
           told == [gone EXCEPT !.ws = None, !.pending = flushPending]
       IN  IF conn.current # s
           THEN conn' = gone /\ UNCHANGED wanted
           ELSE \/ conn' = scheduleReconnect(told) /\ UNCHANGED wanted
                \/ conn' = scheduleReconnect(disconnect(told)) /\ wanted' = FALSE
                \/ \E n \in Fresh(told) :
                     conn' = scheduleReconnect(connect(told, n)) /\ wanted' = TRUE

\* The timer the handle names fires, or one whose handle was overwritten: either
\* clears the handle and connects.
ReconnectFires ==
    /\ conn.armed > 0
    /\ \E s \in Fresh(conn) :
         conn' = connect([conn EXCEPT !.armed = @ - 1, !.held = FALSE], s)
    /\ UNCHANGED wanted

\* A response, past the fence.
Response(r) ==
    /\ LET s == conn.pending[r]
       IN  s # None /\ conn.current = s /\ conn.status[s] = "open"
    /\ conn' = [conn EXCEPT !.pending[r] = None]
    /\ UNCHANGED wanted

RequestTimesOut(r) ==
    /\ conn.pending[r] # None
    /\ conn' = [conn EXCEPT !.pending[r] = None]
    /\ UNCHANGED wanted

-----------------------------------------------------------------------------
Next ==
    \/ Connect \/ Disconnect \/ ReconnectFires
    \/ \E s \in Socket : SocketOpens(s) \/ SocketCloses(s)
    \/ \E r \in Request : SendRequest(r) \/ Response(r) \/ RequestTimesOut(r)

Spec == Init /\ [][Next]_vars

-----------------------------------------------------------------------------
(* Properties *)

\* Every variable has its shape.
TypeOK == conn \in Connection /\ wanted \in BOOLEAN

\* One link to the gateway: a socket that is not being closed is the one in use,
\* and a connection that is not closed has a socket or a timer that will give it
\* one, unless the constructor threw, whatever the user calls inside the hook
\* and however many timers have been left armed (lines 37-65, 87-96).
OneLink ==
    /\ \A s \in Socket : conn.status[s] \in {"connecting", "open"} => s = conn.ws
    /\ ~conn.closed /\ conn.ws = None /\ conn.current # None => conn.armed > 0

\* A request settles although connect() leaves those of the socket it replaces
\* in the pending map: their own timers end them (protocol.ts:26-29).  And a
\* connection that is open without a socket gets one, or its constructor throws.
SettlesAndRedials ==
    /\ \A r \in Request : conn.pending[r] # None ~> conn.pending[r] = None
    /\ (~conn.closed /\ conn.current # None)
         ~> (conn.closed \/ conn.current = None \/ conn.ws # None)

\*\* "Gracefully disconnect and stop reconnecting" (line 72): after disconnect()
\* there is no socket until the user calls connect() again.
StaysDisconnected == ~wanted => conn.ws = None
=============================================================================
