------------------------- MODULE GatewayClientProofs -------------------------
(***************************************************************************)
(* Proofs about GatewayClient, for any number of connects and requests.    *)
(* Its safety rests on one fact: the attempt that is active is the one of  *)
(* the current generation and holds this.ws, so that every place that ends *)
(* an attempt (superseded, closed, failed, lost) finds all there is to     *)
(* settle in that attempt and in the pending map.                          *)
(***************************************************************************)
EXTENDS GatewayClient, TLAPS

\* One attempt is active at most, the current one, and only its socket is in use.
OneActive ==
    /\ ws \in {0, generation}
    /\ closed => ws = 0
    /\ \A g \in Generation :
         /\ attempts[g].active => g = generation /\ ws = g
         /\ sockets[g] \in {"connecting", "open"} => attempts[g].active
         /\ g > generation => attempts[g].promise = "none" /\ sockets[g] = "none"

\* The promise of an active attempt waits until the handshake is done, and
\* then is resolved; the promise of any other is settled.
Handshakes ==
    \A g \in Generation :
        /\ attempts[g].promise = "waiting" => attempts[g].active
        /\ attempts[g].active => attempts[g].promise \in {"waiting", "resolved"}
        /\ attempts[g].active /\ attempts[g].stage # "done" => attempts[g].promise = "waiting"
        /\ notified[g] = IF attempts[g].promise = "resolved" THEN 1 ELSE 0

\* A timer is armed, or about to be, only for the socket that was lost last.
OneTimer ==
    /\ timers = {reconnectTimer} \ {0}
    /\ timers # {} => autoReconnect /\ ~closed /\ ws = 0 /\ timers = {generation}
    /\ \A g \in timers : sockets[g] = "closed"
    /\ hook.name # "none" =>
         /\ hook.attempt \in Generation
         /\ sockets[hook.attempt] = "closed"
         /\ hook.attempt = generation => timers = {} /\ ws = 0
    /\ hook.name = "onReconnectScheduled" => autoReconnect

\* NeverStranded, with the handlers that will arm the timer.
WayBack ==
    autoReconnect /\ ~closed /\ generation # 0 =>
        \/ timers # {}
        \/ ws = generation /\ sockets[ws] # "closed"
        \/ sockets[generation] = "none"
        \/ hook.name # "none" /\ hook.attempt = generation

\* The inductive invariant.
IInv ==
    /\ TypeOK
    /\ OneActive
    /\ Handshakes
    /\ PendingOnLiveSocket
    /\ OneTimer
    /\ WayBack

-----------------------------------------------------------------------------
\* Generations are positive numbers.
LEMMA Generations == Generation \subseteq 1 .. MaxGeneration /\ Generation \subseteq Nat \ {0}
BY BoundAssumption DEF Generation

\* Nothing is pending and nobody waits once the map is flushed.
LEMMA Flushed ==
  ASSUME IInv, FlushPending
  PROVE  /\ pending' = {}
         /\ requests' \in [Id -> RequestState]
         /\ \A i \in Id : requests'[i].promise # "waiting"
<1>1. requests \in [Id -> RequestState]
  BY DEF IInv, TypeOK
<1>2. \A i \in Id : requests[i].promise = "waiting" => i \in pending
  BY DEF IInv, PendingOnLiveSocket
<1> QED
  BY <1>1, <1>2 DEF FlushPending, RequestState

\* An attempt that is retired is over, and answered.
LEMMA RetiredType ==
  ASSUME NEW a \in Attempt
  PROVE  /\ Retired(a) \in Attempt
         /\ ~Retired(a).active
         /\ Retired(a).stage = a.stage
         /\ Retired(a).promise = IF a.promise = "waiting" THEN "rejected" ELSE a.promise
BY DEF Attempt, Retired

\* The constructor of a client.
LEMMA InitInvariant == Init => IInv
<1> SUFFICES ASSUME Init PROVE IInv
  OBVIOUS
<1> USE DEF Init, NoHook
<1>1. TypeOK
  <2>1. attempts \in [Generation -> Attempt] /\ requests \in [Id -> RequestState]
    BY DEF Attempt, RequestState
  <2>2. 0 \in 0 .. MaxGeneration /\ 0 \in 0 .. TopBackoff
    BY BoundAssumption
  <2> QED
    BY <2>1, <2>2 DEF TypeOK, SocketState
<1>2. OneActive /\ Handshakes /\ PendingOnLiveSocket
  BY DEF OneActive, Handshakes, PendingOnLiveSocket
<1>3. OneTimer /\ WayBack
  BY DEF OneTimer, WayBack
<1> QED
  BY <1>1, <1>2, <1>3 DEF IInv

\* connect(), from the user or from the reconnect timer.
LEMMA DialInvariant ==
  ASSUME IInv, NEW rest, NEW refused \in BOOLEAN, rest = {}, Dial(rest, refused)
  PROVE  IInv'
<1> DEFINE g == generation + 1
<1>1. /\ g \in Generation /\ generation' = g /\ ~closed' /\ closed' \in BOOLEAN
      /\ timers' = {} /\ reconnectTimer' = 0
      /\ ws' = IF refused THEN 0 ELSE g
      /\ UNCHANGED <<autoReconnect, backoff, notified, hook>>
      /\ FlushPending
  BY DEF Dial
<1>2. TypeOK /\ OneActive /\ Handshakes /\ OneTimer /\ generation \in Nat /\ g # generation /\ g > generation
  BY DEF IInv, TypeOK, Generation
<1>3. /\ attempts' \in [Generation -> Attempt]
      /\ attempts'[g].active = ~refused
      /\ attempts'[g].stage = "idle"
      /\ attempts'[g].promise = IF refused THEN "rejected" ELSE "waiting"
      /\ \A h \in Generation : h # g =>
           /\ attempts'[h].active => attempts[h].active
           /\ h = generation => ~attempts'[h].active
           /\ attempts'[h].stage = attempts[h].stage
           /\ attempts'[h].promise = IF h = generation /\ attempts[h].promise = "waiting"
                                     THEN "rejected" ELSE attempts[h].promise
  BY <1>1, <1>2, RetiredType DEF Dial, TypeOK, Attempt
<1>4. /\ sockets' \in [Generation -> SocketState]
      /\ sockets'[g] = IF refused THEN "none" ELSE "connecting"
      /\ \A h \in Generation : h # g =>
           /\ sockets'[h] \notin {"connecting", "open"}
           /\ sockets[h] \in {"none", "closed"} => sockets'[h] = sockets[h]
  BY <1>1, <1>2 DEF Dial, TypeOK, OneActive, SocketState, HungUp, Generation
<1>5. /\ pending' = {} /\ requests' \in [Id -> RequestState]
      /\ \A i \in Id : requests'[i].promise # "waiting"
  BY <1>1, Flushed
<1>6. TypeOK'
  <2>1. g \in 0 .. MaxGeneration /\ 0 \in 0 .. MaxGeneration
    BY <1>1, BoundAssumption DEF Generation
  <2> QED
    BY <1>1, <1>2, <1>3, <1>4, <1>5, <2>1 DEF TypeOK
<1>7. OneActive'
  <2>1. \A h \in Generation : h > g => h # g /\ h # generation /\ h > generation
    BY <1>2, Generations
  <2>2. \A h \in Generation : h # g => ~attempts'[h].active
    BY <1>2, <1>3 DEF OneActive
  <2>3. ws' \in {0, generation'} /\ (closed' => ws' = 0)
    BY <1>1
  <2> SUFFICES ASSUME NEW h \in Generation
               PROVE  /\ attempts'[h].active => h = generation' /\ ws' = h
                      /\ sockets'[h] \in {"connecting", "open"} => attempts'[h].active
                      /\ h > generation' => attempts'[h].promise = "none" /\ sockets'[h] = "none"
    BY <2>3 DEF OneActive
  <2>4. CASE h = g
    <3>1. ~(h > generation')
      BY <1>1, <2>4, Generations
    <3>2. attempts'[h].active => ~refused
      BY <1>3, <2>4
    <3> QED
      BY <1>1, <1>3, <1>4, <2>4, <3>1, <3>2
  <2>5. CASE h # g
    <3>1. ~attempts'[h].active /\ sockets'[h] \notin {"connecting", "open"}
      BY <1>4, <2>2, <2>5
    <3>2. ASSUME h > g
          PROVE  attempts'[h].promise = "none" /\ sockets'[h] = "none"
      <4>1. attempts[h].promise = "none" /\ sockets[h] = "none"
        BY <1>2, <2>1, <3>2 DEF OneActive
      <4> QED
        BY <1>3, <1>4, <2>5, <4>1
    <3> QED
      BY <1>1, <3>1, <3>2
  <2> QED
    BY <2>4, <2>5
<1>8. Handshakes'
  <2> SUFFICES ASSUME NEW h \in Generation
               PROVE  /\ attempts'[h].promise = "waiting" => attempts'[h].active
                      /\ attempts'[h].active => attempts'[h].promise \in {"waiting", "resolved"}
                      /\ attempts'[h].active /\ attempts'[h].stage # "done" =>
                            attempts'[h].promise = "waiting"
                      /\ notified'[h] = IF attempts'[h].promise = "resolved" THEN 1 ELSE 0
    BY DEF Handshakes
  <2>1. CASE h = g
    BY <1>1, <1>2, <1>3, <2>1 DEF Handshakes, OneActive
  <2>2. CASE h # g
    BY <1>1, <1>2, <1>3, <2>2 DEF Handshakes, OneActive
  <2> QED
    BY <2>1, <2>2
<1>9. PendingOnLiveSocket'
  BY <1>5 DEF PendingOnLiveSocket
<1>10. OneTimer'
  BY <1>1, <1>2, <1>4 DEF OneTimer, OneActive
<1>11. WayBack'
  BY <1>1, <1>4 DEF WayBack
<1> QED
  BY <1>6, <1>7, <1>8, <1>9, <1>10, <1>11 DEF IInv

LEMMA ConnectInvariant ==
  ASSUME IInv, NEW refused \in BOOLEAN, Connect(refused)
  PROVE  IInv'
<1>1. timers \ {reconnectTimer} = {}
  BY DEF IInv, OneTimer
<1> QED
  BY <1>1, DialInvariant DEF Connect

LEMMA ReconnectFiresInvariant ==
  ASSUME IInv, NEW g \in Generation, NEW refused \in BOOLEAN, ReconnectFires(g, refused)
  PROVE  IInv'
<1>1. timers \ {g} = {} /\ ~closed /\ generation = g
  BY DEF IInv, OneTimer, ReconnectFires
<1> QED
  BY <1>1, DialInvariant DEF ReconnectFires

\* close().
LEMMA CloseInvariant ==
  ASSUME IInv, Close
  PROVE  IInv'
<1>1. /\ closed' = TRUE /\ timers' = timers \ {reconnectTimer} /\ reconnectTimer' = 0
      /\ ws' = 0 /\ backoff' = 0 /\ FlushPending
      /\ UNCHANGED <<autoReconnect, generation, notified, hook>>
  BY DEF Close
<1>2. TypeOK /\ OneActive /\ Handshakes /\ OneTimer
  BY DEF IInv
<1>3. timers' = {}
  BY <1>1, <1>2 DEF OneTimer
<1>4. /\ attempts' \in [Generation -> Attempt]
      /\ \A g \in Generation :
           /\ ~attempts'[g].active
           /\ attempts'[g].promise # "waiting"
           /\ attempts[g].promise # "waiting" => attempts'[g].promise = attempts[g].promise
           /\ attempts[g].promise = "waiting" => attempts'[g].promise = "rejected"
  BY <1>2, RetiredType DEF Close, TypeOK, OneActive, Handshakes, Attempt
<1>5. /\ sockets' \in [Generation -> SocketState]
      /\ \A g \in Generation :
           /\ sockets'[g] \notin {"connecting", "open"}
           /\ sockets[g] \in {"none", "closed"} => sockets'[g] = sockets[g]
  BY <1>2 DEF Close, TypeOK, OneActive, SocketState, HungUp
<1>6. /\ pending' = {} /\ requests' \in [Id -> RequestState]
      /\ \A i \in Id : requests'[i].promise # "waiting"
  BY <1>1, Flushed
<1>7. TypeOK'
  BY <1>1, <1>2, <1>3, <1>4, <1>5, <1>6, BoundAssumption DEF TypeOK
<1>8. OneActive' /\ WayBack'
  BY <1>1, <1>2, <1>4, <1>5 DEF OneActive, WayBack
<1>9. Handshakes'
  BY <1>1, <1>2, <1>4 DEF Handshakes
<1>10. PendingOnLiveSocket'
  BY <1>6 DEF PendingOnLiveSocket
<1>11. OneTimer'
  BY <1>1, <1>2, <1>3, <1>5 DEF OneTimer
<1> QED
  BY <1>7, <1>8, <1>9, <1>10, <1>11 DEF IInv

\* A request that is entered on the live socket, whether it can be sent or not.
LEMMA SendRequestInvariant ==
  ASSUME IInv, NEW i \in Id, NEW sends \in BOOLEAN, SendRequest(i, sends),
         ws \in Generation, IsLiveAttempt(ws)
  PROVE  /\ pending' \subseteq Id /\ requests' \in [Id -> RequestState]
         /\ \A k \in pending' : requests'[k].socket = ws
         /\ \A k \in Id : requests'[k].promise = "waiting" => k \in pending'
BY DEF IInv, TypeOK, PendingOnLiveSocket, SendRequest, RequestState

LEMMA RequestInvariant ==
  ASSUME IInv, NEW c \in Call, NEW sends \in BOOLEAN, Request(c, sends)
  PROVE  IInv'
<1>1. ws \in Generation /\ IsLiveAttempt(ws)
  BY BoundAssumption DEF IInv, TypeOK, OneActive, Request, IsLiveAttempt, OwnsAttempt, Generation
<1>2. /\ pending' \subseteq Id /\ requests' \in [Id -> RequestState]
      /\ \A k \in pending' : requests'[k].socket = ws
      /\ \A k \in Id : requests'[k].promise = "waiting" => k \in pending'
  BY <1>1, SendRequestInvariant DEF Request, Id
<1>3. UNCHANGED <<autoReconnect, closed, generation, ws, attempts, sockets, timers,
                  reconnectTimer, backoff, notified, hook>>
  BY DEF Request
<1>4. TypeOK'
  BY <1>2, <1>3 DEF IInv, TypeOK
<1>5. PendingOnLiveSocket'
  BY <1>1, <1>2, <1>3 DEF PendingOnLiveSocket, IsLiveAttempt, OwnsAttempt, Generation
<1>6. OneActive' /\ Handshakes' /\ OneTimer' /\ WayBack'
  BY <1>3 DEF IInv, OneActive, Handshakes, OneTimer, WayBack
<1> QED
  BY <1>4, <1>5, <1>6 DEF IInv

\* Events that only move a socket on: it opens, or its peer begins to close it.
LEMMA SocketMoves ==
  ASSUME IInv, NEW g \in Generation, NEW s \in {"open", "closing"},
         sockets[g] \in {"connecting", "open"},
         sockets' = [sockets EXCEPT ![g] = s],
         UNCHANGED <<autoReconnect, closed, generation, ws, attempts, timers, reconnectTimer,
                     backoff, pending, requests, notified, hook>>
  PROVE  IInv'
<1>1. TypeOK'
  BY DEF IInv, TypeOK, SocketState
<1>2. \A h \in Generation : sockets'[h] = IF h = g THEN s ELSE sockets[h]
  BY DEF IInv, TypeOK
<1>3. OneActive'
  BY <1>2 DEF IInv, OneActive
<1>4. Handshakes' /\ PendingOnLiveSocket'
  BY DEF IInv, Handshakes, PendingOnLiveSocket, IsLiveAttempt, OwnsAttempt
<1>5. OneTimer'
  BY <1>2 DEF IInv, OneTimer, TypeOK
<1>6. WayBack'
  <2>1. generation # 0 => generation \in Generation
    BY DEF IInv, TypeOK, Generation
  <2> QED
    BY <1>2, <2>1 DEF IInv, WayBack
<1> QED
  BY <1>1, <1>3, <1>4, <1>5, <1>6 DEF IInv

LEMMA ChallengeInvariant ==
  ASSUME IInv, NEW g \in Generation, Challenge(g)
  PROVE  IInv'
<1>1. /\ attempts' \in [Generation -> Attempt]
      /\ \A h \in Generation :
           /\ attempts'[h].active = attempts[h].active
           /\ attempts'[h].promise = attempts[h].promise
           /\ attempts'[h].stage = IF h = g THEN "challenge" ELSE attempts[h].stage
  BY DEF IInv, TypeOK, Challenge, Attempt
<1>2. UNCHANGED <<autoReconnect, closed, generation, ws, sockets, timers, reconnectTimer,
                  backoff, pending, requests, notified, hook>>
  BY DEF Challenge
<1>3. attempts[g].stage # "done"
  BY DEF Challenge
<1>4. TypeOK' /\ OneActive'
  BY <1>1, <1>2 DEF IInv, TypeOK, OneActive
<1>5. Handshakes'
  BY <1>1, <1>2, <1>3 DEF IInv, Handshakes
<1>6. PendingOnLiveSocket'
  <2>1. generation # 0 => generation \in Generation
    BY DEF IInv, TypeOK, Generation
  <2> QED
    BY <1>1, <1>2, <2>1 DEF IInv, PendingOnLiveSocket, IsLiveAttempt, OwnsAttempt
<1>7. OneTimer' /\ WayBack'
  BY <1>2 DEF IInv, OneTimer, WayBack
<1> QED
  BY <1>4, <1>5, <1>6, <1>7 DEF IInv

\* One request leaves the map, settled: its answer, or its timer.
LEMMA SettlesInvariant ==
  ASSUME IInv, NEW i \in Id, NEW verdict \in {"ok", "failed"},
         pending' = pending \ {i},
         requests' = [requests EXCEPT ![i].promise = IF @ = "waiting" THEN verdict ELSE @],
         UNCHANGED <<autoReconnect, closed, generation, ws, attempts, sockets, timers,
                     reconnectTimer, backoff, notified, hook>>
  PROVE  IInv'
<1>1. /\ requests' \in [Id -> RequestState]
      /\ \A k \in Id : /\ requests'[k].socket = requests[k].socket
                       /\ requests'[k].promise = "waiting" => requests[k].promise = "waiting" /\ k # i
  BY DEF IInv, TypeOK, RequestState
<1>2. TypeOK'
  BY <1>1 DEF IInv, TypeOK
<1>3. PendingOnLiveSocket'
  BY <1>1 DEF IInv, TypeOK, PendingOnLiveSocket, IsLiveAttempt, OwnsAttempt
<1>4. OneActive' /\ Handshakes' /\ OneTimer' /\ WayBack'
  BY DEF IInv, OneActive, Handshakes, OneTimer, WayBack
<1> QED
  BY <1>2, <1>3, <1>4 DEF IInv

LEMMA ResponseInvariant ==
  ASSUME IInv, NEW g \in Generation, NEW i \in Id, NEW verdict \in {"ok", "failed"},
         Response(g, i, verdict)
  PROVE  IInv'
<1>1. requests[i].promise = "waiting"
  BY DEF Response
<1>2. requests' = [requests EXCEPT ![i].promise = IF @ = "waiting" THEN verdict ELSE @]
  BY <1>1 DEF Response
<1> QED
  BY <1>2, SettlesInvariant DEF Response

LEMMA RequestTimesOutInvariant ==
  ASSUME IInv, NEW i \in Id, RequestTimesOut(i)
  PROVE  IInv'
BY SettlesInvariant DEF RequestTimesOut

\* The close event of a socket that lost its place, or of the current one.
LEMMA SocketClosesInvariant ==
  ASSUME IInv, NEW g \in Generation, SocketCloses(g)
  PROVE  IInv'
<1>1. /\ hook.name = "none" /\ sockets[g] \in {"connecting", "open", "closing"}
      /\ UNCHANGED <<autoReconnect, closed, generation, timers, reconnectTimer, backoff, notified>>
  BY DEF SocketCloses, Running, NoHook
<1>2. /\ sockets' \in [Generation -> SocketState]
      /\ \A h \in Generation : sockets'[h] = IF h = g THEN "closed" ELSE sockets[h]
  BY DEF SocketCloses, IInv, TypeOK, SocketState
<1>3. generation # 0 => generation \in Generation
  BY DEF IInv, TypeOK, Generation
<1>4. g # 0
  BY Generations
<1>5. CASE g = generation
  <2>1. /\ ws' = 0 /\ FlushPending /\ hook' = [name |-> "onClose", attempt |-> g]
        /\ attempts' = [attempts EXCEPT ![g] = Retired(@)]
    BY <1>4, <1>5 DEF SocketCloses, OwnsAttempt
  <2>2. /\ attempts' \in [Generation -> Attempt]
        /\ \A h \in Generation :
             /\ ~attempts'[h].active
             /\ attempts'[h].promise # "waiting"
             /\ attempts[h].promise # "waiting" => attempts'[h].promise = attempts[h].promise
             /\ attempts[h].promise = "waiting" => attempts'[h].promise = "rejected"
    BY <1>5, <2>1, RetiredType DEF IInv, TypeOK, OneActive, Handshakes, Attempt
  <2>3. /\ pending' = {} /\ requests' \in [Id -> RequestState]
        /\ \A i \in Id : requests'[i].promise # "waiting"
    BY <2>1, Flushed
  <2>4. timers = {}
    BY <1>1, <1>5 DEF IInv, OneTimer
  <2>5. TypeOK'
    <3>1. 0 \in 0 .. MaxGeneration /\ g \in 0 .. MaxGeneration
      BY BoundAssumption DEF Generation
    <3> QED
      BY <1>1, <1>2, <2>1, <2>2, <2>3, <3>1 DEF IInv, TypeOK
  <2>6. OneActive'
    <3>1. \A h \in Generation : ~(h > generation /\ h = g)
      BY <1>3, <1>4, <1>5, Generations
    <3> QED
      BY <1>1, <1>2, <2>1, <2>2, <2>4, <3>1 DEF IInv, OneActive, OneTimer
  <2>7. Handshakes'
    BY <1>1, <2>2 DEF IInv, Handshakes
  <2>8. PendingOnLiveSocket'
    BY <2>3 DEF PendingOnLiveSocket
  <2>9. OneTimer'
    BY <1>1, <1>2, <2>1, <2>4 DEF IInv, OneTimer
  <2>10. WayBack'
    BY <1>1, <1>5, <2>1 DEF WayBack
  <2> QED
    BY <2>5, <2>6, <2>7, <2>8, <2>9, <2>10 DEF IInv
<1>6. CASE g # generation
  <2>1. UNCHANGED <<ws, attempts, pending, requests, hook>>
    BY <1>6 DEF SocketCloses, OwnsAttempt
  <2>2. TypeOK'
    BY <1>1, <1>2, <2>1 DEF IInv, TypeOK
  <2>3. OneActive'
    BY <1>1, <1>2, <1>6, <2>1 DEF IInv, OneActive
  <2>4. Handshakes' /\ PendingOnLiveSocket'
    BY <1>1, <2>1 DEF IInv, Handshakes, PendingOnLiveSocket, IsLiveAttempt, OwnsAttempt
  <2>5. OneTimer'
    BY <1>1, <1>2, <2>1 DEF IInv, OneTimer, TypeOK
  <2>6. WayBack'
    BY <1>1, <1>2, <1>3, <1>6, <2>1 DEF IInv, WayBack
  <2> QED
    BY <2>2, <2>3, <2>4, <2>5, <2>6 DEF IInv
<1> QED
  BY <1>5, <1>6

\* The hooks return: the timer is armed, or the connection was taken over.
LEMMA OnCloseReturnsInvariant ==
  ASSUME IInv, OnCloseReturns
  PROVE  IInv'
<1>1. /\ hook.name = "onClose" /\ hook.attempt \in Generation
      /\ UNCHANGED <<autoReconnect, closed, generation, ws, attempts, sockets, timers,
                     reconnectTimer, pending, requests, notified>>
  BY DEF OnCloseReturns, IInv, OneTimer
<1>2. /\ backoff' \in 0 .. TopBackoff
      /\ \/ hook' = [name |-> "onReconnectScheduled", attempt |-> hook.attempt] /\ autoReconnect
         \/ hook' = NoHook /\ (hook.attempt = generation => ~autoReconnect \/ closed)
  <2>1. backoff \in 0 .. TopBackoff /\ NextBackoff \in 0 .. TopBackoff
    BY BoundAssumption DEF IInv, TypeOK, NextBackoff
  <2>2. [hook EXCEPT !.name = "onReconnectScheduled"]
          = [name |-> "onReconnectScheduled", attempt |-> hook.attempt]
    BY DEF IInv, TypeOK
  <2>3. hook.attempt # 0
    BY <1>1, Generations
  <2> QED
    BY <2>1, <2>2, <2>3 DEF OnCloseReturns, OwnsAttempt
<1>3. TypeOK'
  BY <1>1, <1>2, BoundAssumption DEF IInv, TypeOK, NoHook, Generation
<1>4. OneActive' /\ Handshakes' /\ PendingOnLiveSocket'
  BY <1>1 DEF IInv, OneActive, Handshakes, PendingOnLiveSocket, IsLiveAttempt, OwnsAttempt
<1>5. OneTimer'
  BY <1>1, <1>2 DEF IInv, OneTimer, NoHook
<1>6. WayBack'
  BY <1>1, <1>2 DEF IInv, WayBack, NoHook
<1> QED
  BY <1>3, <1>4, <1>5, <1>6 DEF IInv

LEMMA OnReconnectScheduledReturnsInvariant ==
  ASSUME IInv, OnReconnectScheduledReturns
  PROVE  IInv'
<1>1. /\ hook.name = "onReconnectScheduled" /\ hook.attempt \in Generation /\ hook' = NoHook
      /\ UNCHANGED <<autoReconnect, closed, generation, ws, attempts, sockets, backoff,
                     pending, requests, notified>>
  BY DEF OnReconnectScheduledReturns, IInv, OneTimer
<1>2. NoHook \in [name: {"none", "onClose", "onReconnectScheduled"}, attempt: 0 .. MaxGeneration]
  BY BoundAssumption DEF NoHook
<1>3. OneActive' /\ Handshakes' /\ PendingOnLiveSocket'
  BY <1>1 DEF IInv, OneActive, Handshakes, PendingOnLiveSocket, IsLiveAttempt, OwnsAttempt
<1>4. CASE closed \/ generation # hook.attempt
  <2>1. UNCHANGED <<timers, reconnectTimer>>
    BY <1>4 DEF OnReconnectScheduledReturns
  <2>2. TypeOK'
    BY <1>1, <1>2, <2>1 DEF IInv, TypeOK
  <2>3. OneTimer' /\ WayBack'
    BY <1>1, <1>4, <2>1 DEF IInv, OneTimer, WayBack, NoHook
  <2> QED
    BY <1>3, <2>2, <2>3 DEF IInv
<1>5. CASE ~(closed \/ generation # hook.attempt)
  <2>1. timers = {} /\ ws = 0 /\ autoReconnect /\ sockets[hook.attempt] = "closed"
    BY <1>1, <1>5 DEF IInv, OneTimer
  <2>2. timers' = {hook.attempt} /\ reconnectTimer' = hook.attempt /\ hook.attempt # 0
    BY <1>1, <1>5, <2>1, Generations DEF OnReconnectScheduledReturns
  <2>3. TypeOK'
    BY <1>1, <1>2, <2>2 DEF IInv, TypeOK
  <2>4. OneTimer' /\ WayBack'
    BY <1>1, <1>5, <2>1, <2>2 DEF IInv, OneTimer, WayBack, NoHook
  <2> QED
    BY <1>3, <2>3, <2>4 DEF IInv
<1> QED
  BY <1>4, <1>5

\* The current handshake fails, at whatever stage it was.
LEMMA FailHandshakeInvariant ==
  ASSUME IInv, NEW g \in Generation, IsLiveAttempt(g),
         NEW stage \in {"idle", "challenge", "hello", "done"}, FailHandshake(g, stage)
  PROVE  IInv'
<1>1. /\ attempts' = [attempts EXCEPT ![g] = [Retired(@) EXCEPT !.stage = stage]]
      /\ FlushPending
      /\ sockets' = [sockets EXCEPT ![g] = HungUp(@)]
      /\ UNCHANGED <<autoReconnect, closed, generation, ws, timers, reconnectTimer,
                     backoff, notified, hook>>
  BY DEF FailHandshake
<1>2. g = generation /\ ws = g /\ timers = {}
  BY DEF IsLiveAttempt, OwnsAttempt, IInv, OneTimer
<1>3. /\ attempts' \in [Generation -> Attempt]
      /\ \A h \in Generation :
           /\ ~attempts'[h].active
           /\ attempts'[h].promise # "waiting"
           /\ attempts[h].promise # "waiting" => attempts'[h].promise = attempts[h].promise
           /\ attempts[h].promise = "waiting" => attempts'[h].promise = "rejected"
  BY <1>1, <1>2, RetiredType DEF IInv, TypeOK, OneActive, Handshakes, Attempt
<1>4. /\ sockets' \in [Generation -> SocketState]
      /\ \A h \in Generation :
           /\ sockets'[h] \notin {"connecting", "open"}
           /\ sockets[h] \in {"none", "closed"} => sockets'[h] = sockets[h]
           /\ sockets[h] # "closed" => sockets'[h] # "closed"
  BY <1>1, <1>2 DEF IInv, TypeOK, OneActive, SocketState, HungUp
<1>5. /\ pending' = {} /\ requests' \in [Id -> RequestState]
      /\ \A i \in Id : requests'[i].promise # "waiting"
  BY <1>1, Flushed
<1>6. TypeOK' /\ OneActive'
  BY <1>1, <1>3, <1>4, <1>5 DEF IInv, TypeOK, OneActive
<1>7. Handshakes' /\ PendingOnLiveSocket'
  BY <1>1, <1>3, <1>5 DEF IInv, Handshakes, PendingOnLiveSocket
<1>8. OneTimer' /\ WayBack'
  BY <1>1, <1>2, <1>4 DEF IInv, OneTimer, WayBack
<1> QED
  BY <1>6, <1>7, <1>8 DEF IInv

LEMMA HandshakeTimesOutInvariant ==
  ASSUME IInv, NEW g \in Generation, HandshakeTimesOut(g)
  PROVE  IInv'
<1>1. attempts[g].stage \in {"idle", "challenge", "hello", "done"}
  BY DEF IInv, TypeOK, Attempt
<1> QED
  BY <1>1, FailHandshakeInvariant DEF HandshakeTimesOut

\* A step that moves the stage of an attempt, and may settle its promise well.
LEMMA StageInvariant ==
  ASSUME IInv, NEW g \in Generation, NEW stage \in {"hello", "done"}, NEW resolves \in BOOLEAN,
         attempts[g].stage # "done",
         ~resolves => attempts' = [attempts EXCEPT ![g].stage = stage],
         ~resolves /\ stage = "done" => ~attempts[g].active,
         resolves => /\ attempts' = [attempts EXCEPT ![g].stage = "done",
                                       ![g].promise = IF @ = "waiting" THEN "resolved" ELSE @]
                     /\ attempts[g].active,
         notified' = IF resolves THEN [notified EXCEPT ![g] = @ + 1] ELSE notified,
         pending' \subseteq Id, requests' \in [Id -> RequestState],
         \A k \in pending' : requests'[k].socket = ws /\ IsLiveAttempt(ws) /\ ws # 0,
         \A k \in Id : requests'[k].promise = "waiting" => k \in pending',
         backoff' \in {0, backoff},
         UNCHANGED <<autoReconnect, closed, generation, ws, sockets, timers,
                     reconnectTimer, hook>>
  PROVE  IInv'
<1>1. attempts[g].active => attempts[g].promise = "waiting" /\ notified[g] = 0
  BY DEF IInv, Handshakes
<1>2. /\ attempts' \in [Generation -> Attempt]
      /\ \A h \in Generation :
           /\ attempts'[h].active = attempts[h].active
           /\ h # g => attempts'[h] = attempts[h]
      /\ attempts'[g].promise = IF resolves THEN "resolved" ELSE attempts[g].promise
      /\ resolves => attempts'[g].stage = "done"
      /\ ~resolves => attempts'[g].stage = stage
  BY <1>1 DEF IInv, TypeOK, Attempt
<1>3. /\ notified' \in [Generation -> Nat]
      /\ \A h \in Generation : notified'[h] = IF h = g /\ resolves THEN 1 ELSE notified[h]
  BY <1>1 DEF IInv, TypeOK
<1>4. TypeOK'
  <2>1. backoff' \in 0 .. TopBackoff
    BY BoundAssumption DEF IInv, TypeOK
  <2> QED
    BY <1>2, <1>3, <2>1 DEF IInv, TypeOK
<1>5. OneActive'
  <2>1. attempts[g].promise = "none" => attempts'[g].promise = "none"
    BY <1>1, <1>2
  <2> QED
    BY <1>2, <2>1 DEF IInv, OneActive
<1>6. Handshakes'
  <2> SUFFICES ASSUME NEW h \in Generation
               PROVE  /\ attempts'[h].promise = "waiting" => attempts'[h].active
                      /\ attempts'[h].active => attempts'[h].promise \in {"waiting", "resolved"}
                      /\ attempts'[h].active /\ attempts'[h].stage # "done" =>
                            attempts'[h].promise = "waiting"
                      /\ notified'[h] = IF attempts'[h].promise = "resolved" THEN 1 ELSE 0
    BY DEF Handshakes
  <2>1. CASE h = g
    BY <1>1, <1>2, <1>3, <2>1 DEF IInv, Handshakes
  <2>2. CASE h # g
    BY <1>2, <1>3, <2>2 DEF IInv, Handshakes
  <2> QED
    BY <2>1, <2>2
<1>7. PendingOnLiveSocket'
  BY <1>2 DEF IInv, TypeOK, PendingOnLiveSocket, IsLiveAttempt, OwnsAttempt, Generation
<1>8. OneTimer' /\ WayBack'
  BY DEF IInv, OneTimer, WayBack
<1> QED
  BY <1>4, <1>5, <1>6, <1>7, <1>8 DEF IInv

\* An active attempt is live: nothing else ends one without retiring it.
LEMMA ActiveIsLive ==
  ASSUME IInv, NEW g \in Generation, attempts[g].active
  PROVE  IsLiveAttempt(g)
BY Generations DEF IInv, OneActive, IsLiveAttempt, OwnsAttempt

LEMMA GiveUpInvariant ==
  ASSUME IInv, NEW g \in Generation, attempts[g].stage # "done", ~IsLiveAttempt(g),
         GiveUpHandshake(g)
  PROVE  IInv'
<1>1. ~attempts[g].active
  BY ActiveIsLive
<1>2. /\ pending \subseteq Id /\ requests \in [Id -> RequestState]
      /\ \A k \in pending : requests[k].socket = ws /\ IsLiveAttempt(ws) /\ ws # 0
      /\ \A k \in Id : requests[k].promise = "waiting" => k \in pending
  BY DEF IInv, TypeOK, PendingOnLiveSocket
<1> QED
  BY <1>1, <1>2, StageInvariant DEF GiveUpHandshake

LEMMA ChallengeAnsweredInvariant ==
  ASSUME IInv, NEW g \in Generation, NEW resolved \in BOOLEAN, NEW sends \in BOOLEAN,
         ChallengeAnswered(g, resolved, sends)
  PROVE  IInv'
<1>1. attempts[g].stage = "challenge"
  BY DEF ChallengeAnswered
<1>2. CASE ~IsLiveAttempt(g)
  BY <1>1, <1>2, GiveUpInvariant DEF ChallengeAnswered
<1>3. CASE IsLiveAttempt(g) /\ (~resolved \/ sockets[g] # "open")
  BY <1>3, FailHandshakeInvariant DEF ChallengeAnswered
<1>4. CASE IsLiveAttempt(g) /\ ~(~resolved \/ sockets[g] # "open")
  <2>1. /\ attempts' = [attempts EXCEPT ![g].stage = "hello"]
        /\ SendRequest(g, sends)
        /\ UNCHANGED <<autoReconnect, closed, generation, ws, sockets, timers,
                       reconnectTimer, backoff, notified, hook>>
    BY <1>4 DEF ChallengeAnswered
  <2>2. ws = g /\ g # 0
    BY <1>4, Generations DEF IsLiveAttempt
  <2>3. /\ pending' \subseteq Id /\ requests' \in [Id -> RequestState]
        /\ \A k \in pending' : requests'[k].socket = ws
        /\ \A k \in Id : requests'[k].promise = "waiting" => k \in pending'
    BY <1>4, <2>1, <2>2, SendRequestInvariant DEF Id
  <2> QED
    BY <1>1, <1>4, <2>1, <2>2, <2>3, StageInvariant
<1> QED
  BY <1>2, <1>3, <1>4

LEMMA HelloSettlesInvariant ==
  ASSUME IInv, NEW g \in Generation, HelloSettles(g)
  PROVE  IInv'
<1>1. attempts[g].stage = "hello"
  BY DEF HelloSettles
<1>2. CASE ~IsLiveAttempt(g)
  BY <1>1, <1>2, GiveUpInvariant DEF HelloSettles
<1>3. CASE IsLiveAttempt(g) /\ requests[g].promise = "failed"
  BY <1>3, FailHandshakeInvariant DEF HelloSettles
<1>4. CASE IsLiveAttempt(g) /\ requests[g].promise # "failed"
  <2>1. /\ pending \subseteq Id /\ requests \in [Id -> RequestState]
        /\ \A k \in pending : requests[k].socket = ws /\ IsLiveAttempt(ws) /\ ws # 0
        /\ \A k \in Id : requests[k].promise = "waiting" => k \in pending
    BY DEF IInv, TypeOK, PendingOnLiveSocket
  <2>2. attempts[g].active
    BY <1>4 DEF IsLiveAttempt
  <2> QED
    BY <1>1, <1>4, <2>1, <2>2, StageInvariant DEF HelloSettles
<1> QED
  BY <1>2, <1>3, <1>4

-----------------------------------------------------------------------------

\* Every step of the client keeps the inductive invariant.
THEOREM StepInvariant ==
  ASSUME IInv, [Next]_vars
  PROVE  IInv'
<1>1. CASE UNCHANGED vars
  BY <1>1 DEF vars, IInv, TypeOK, OneActive, Handshakes, PendingOnLiveSocket, IsLiveAttempt,
     OwnsAttempt, OneTimer, WayBack
<1>2. CASE \E refused \in BOOLEAN : Connect(refused)
  BY <1>2, ConnectInvariant
<1>3. CASE Close
  BY <1>3, CloseInvariant
<1>4. CASE \E c \in Call, sends \in BOOLEAN : Request(c, sends)
  BY <1>4, RequestInvariant
<1>5. CASE OnCloseReturns \/ OnReconnectScheduledReturns
  BY <1>5, OnCloseReturnsInvariant, OnReconnectScheduledReturnsInvariant
<1>6. CASE \E i \in Id : RequestTimesOut(i)
  BY <1>6, RequestTimesOutInvariant
<1>7. ASSUME NEW g \in Generation, Network(g)
      PROVE  IInv'
  <2>1. CASE SocketOpens(g) \/ PeerCloses(g)
    BY <2>1, SocketMoves DEF SocketOpens, PeerCloses
  <2>2. CASE Challenge(g) \/ SocketCloses(g)
    BY <2>2, ChallengeInvariant, SocketClosesInvariant
  <2>3. CASE \E i \in Id, verdict \in {"ok", "failed"} : Response(g, i, verdict)
    BY <2>3, ResponseInvariant
  <2> QED
    BY <1>7, <2>1, <2>2, <2>3 DEF Network
<1>8. CASE \E g \in Generation, refused \in BOOLEAN : ReconnectFires(g, refused)
  BY <1>8, ReconnectFiresInvariant
<1>9. CASE \E g \in Generation : HandshakeTimesOut(g) \/ HelloSettles(g)
  BY <1>9, HandshakeTimesOutInvariant, HelloSettlesInvariant
<1>10. CASE \E g \in Generation, resolved, sends \in BOOLEAN : ChallengeAnswered(g, resolved, sends)
  BY <1>10, ChallengeAnsweredInvariant
<1> QED
  BY <1>1, <1>2, <1>3, <1>4, <1>5, <1>6, <1>7, <1>8, <1>9, <1>10 DEF Next

\* The inductive invariant holds in every reachable state.
THEOREM Invariant == Spec => []IInv
BY InitInvariant, StepInvariant, PTL DEF Spec

\* Every variable keeps its shape.
THEOREM TypeCorrect == Spec => []TypeOK
<1>1. IInv => TypeOK
  BY DEF IInv
<1> QED
  BY <1>1, Invariant, PTL

\* An unsettled connect() belongs to the live attempt, and onAuthenticated is
\* called once for each that resolves, however many connects, closes and late
\* answers there are.
THEOREM ConnectsOwed == Spec => []ConnectOwed
<1>1. IInv => ConnectOwed
  BY ActiveIsLive DEF IInv, Handshakes, ConnectOwed
<1> QED
  BY <1>1, Invariant, PTL

\* The pending map holds the requests of the live socket and no others.
THEOREM PendingHolds == Spec => []PendingOnLiveSocket
<1>1. IInv => PendingOnLiveSocket
  BY DEF IInv
<1> QED
  BY <1>1, Invariant, PTL

\* No two connections compete, and the one timer is the one close() clears.
THEOREM OneConnectionHolds == Spec => []OneConnection
<1>1. IInv => OneConnection
  BY DEF IInv, OneActive, OneTimer, OneConnection
<1> QED
  BY <1>1, Invariant, PTL

\* A client that reconnects by itself always has a way back.
THEOREM NeverStrandedHolds == Spec => []NeverStranded
<1>1. IInv => NeverStranded
  BY DEF IInv, WayBack, NeverStranded, Running, NoHook
<1> QED
  BY <1>1, Invariant, PTL

-----------------------------------------------------------------------------
(* The refinement *)

\* Generations and calls are different ids.
LEMMA CallIds == Call \subseteq Id /\ \A c \in Call : c \notin Generation
BY CallAssumption DEF Id

\* Flushing the map abandons the calls of the session.
LEMMA Abandoned ==
  ASSUME IInv, FlushPending
  PROVE  Session!Abandon
<1>1. \A c \in Call : /\ c \in Id
                      /\ requests[c] \in RequestState
                      /\ requests[c].promise = "waiting" => c \in pending
  BY CallIds DEF IInv, TypeOK, PendingOnLiveSocket
<1>2. \A c \in Call :
        requests'[c] = IF requests[c].promise = "waiting"
                       THEN [requests[c] EXCEPT !.promise = "failed"] ELSE requests[c]
  BY <1>1 DEF FlushPending
<1>3. \A c \in Call :
        /\ requests'[c].promise = IF requests[c].promise = "waiting" THEN "failed"
                                  ELSE requests[c].promise
        /\ requests'[c].socket = requests[c].socket
  BY <1>1, <1>2 DEF RequestState
<1> QED
  BY <1>3 DEF Session!Abandon

\* A session is up or dialing exactly when an attempt is active.
LEMMA StandingActive ==
  ASSUME IInv, generation # 0, attempts[generation].active
  PROVE  /\ generation \in Generation
         /\ Standing \in {"up", "dialing"}
         /\ ws = generation
BY DEF IInv, TypeOK, OneActive, Generation, Standing

\* The session is as it was while its attempt is.
LEMMA SameStanding ==
  ASSUME generation' = generation,
         generation # 0 =>
           /\ attempts'[generation].active = attempts[generation].active
           /\ attempts'[generation].promise = attempts[generation].promise
  PROVE  Standing' = Standing
BY DEF Standing

\* A session whose attempt ends is lost, unless it was down before.
LEMMA Lost ==
  ASSUME IInv, FlushPending, generation' = generation,
         generation # 0 => ~attempts'[generation].active
  PROVE  Session!Next \/ UNCHANGED Session!sessionVars
<1>1. Standing' = "down" /\ Session!Abandon
  BY Abandoned DEF Standing
<1>2. CASE Standing # "down"
  BY <1>1, <1>2 DEF Session!Next, Session!Lose
<1>3. CASE Standing = "down"
  <2>1. generation = 0 \/ ~attempts[generation].active
    BY <1>3 DEF Standing
  <2>2. \A c \in Call : c \in Id /\ requests[c].promise # "waiting"
    BY <2>1, CallIds DEF IInv, PendingOnLiveSocket, IsLiveAttempt, OwnsAttempt
  <2>3. \A c \in Call : requests'[c] = requests[c]
    BY <2>2 DEF FlushPending
  <2> QED
    BY <1>1, <1>3, <2>3 DEF Session!sessionVars
<1> QED
  BY <1>2, <1>3

\* A dial begins the next session.
LEMMA DialBegins ==
  ASSUME IInv, NEW rest, NEW refused \in BOOLEAN, Dial(rest, refused)
  PROVE  Session!Next
<1> DEFINE g == generation + 1
<1>1. g \in Generation /\ generation' = g /\ FlushPending
  BY DEF Dial
<1>2. attempts'[g].active = ~refused /\ attempts'[g].promise = IF refused THEN "rejected" ELSE "waiting"
  <2>1. g # generation
    BY DEF IInv, TypeOK, Generation
  <2> QED
    BY <1>1, <2>1 DEF Dial
<1>3. Standing' \in {"dialing", "down"}
  BY <1>1, <1>2, Generations DEF Standing
<1> QED
  BY <1>1, <1>3, Abandoned DEF Session!Next, Session!Begin

\* A request that leaves the map is answered, or no call.
LEMMA SettlesAnswers ==
  ASSUME IInv, NEW i \in Id, NEW verdict \in {"ok", "failed"},
         requests' = [requests EXCEPT ![i].promise = IF @ = "waiting" THEN verdict ELSE @],
         UNCHANGED <<generation, attempts>>
  PROVE  Session!Next \/ UNCHANGED Session!sessionVars
<1>1. UNCHANGED <<generation, Standing>>
  BY SameStanding
<1>2. requests \in [Id -> RequestState]
  BY DEF IInv, TypeOK
<1>3. CASE i \in Call /\ requests[i].promise = "waiting"
  <2>1. generation # 0 /\ attempts[generation].active /\ requests[i].socket = generation
    BY <1>3 DEF IInv, PendingOnLiveSocket, IsLiveAttempt, OwnsAttempt
  <2>2. Standing # "down"
    BY <2>1, StandingActive
  <2>3. \A c \in Call : /\ requests'[c].promise = IF c = i THEN verdict ELSE requests[c].promise
                        /\ requests'[c].socket = requests[c].socket
    BY <1>2, <1>3, CallIds DEF RequestState
  <2>4. Session!Answer(i, verdict)
    BY <1>1, <1>3, <2>1, <2>2, <2>3 DEF Session!Answer
  <2> QED
    BY <1>3, <2>4 DEF Session!Next
<1>4. CASE ~(i \in Call /\ requests[i].promise = "waiting")
  <2>1. \A c \in Call : /\ requests'[c].promise = requests[c].promise
                        /\ requests'[c].socket = requests[c].socket
    BY <1>2, <1>4, CallIds DEF RequestState
  <2> QED
    BY <1>1, <2>1 DEF Session!sessionVars
<1> QED
  BY <1>3, <1>4

\* A request of the user is issued in its session.
LEMMA RequestIssues ==
  ASSUME IInv, NEW c \in Call, NEW sends \in BOOLEAN, Request(c, sends)
  PROVE  Session!Next
<1>1. UNCHANGED <<generation, Standing>>
  BY SameStanding DEF Request
<1>2. ws \in Generation /\ ws = generation /\ generation # 0 /\ attempts[generation].active
  BY BoundAssumption DEF IInv, TypeOK, OneActive, Request, Generation
<1>3. requests \in [Id -> RequestState] /\ requests[c].promise = "unsent"
  BY DEF IInv, TypeOK, Request
<1>4. \A k \in Call :
        /\ k # c => requests'[k] = requests[k]
        /\ k = c => requests'[k] = [promise |-> IF sends THEN "waiting" ELSE "failed",
                                    socket |-> generation]
  BY <1>2, <1>3, CallIds DEF Request, SendRequest
<1>5. Standing # "down"
  BY <1>2, StandingActive
<1>6. Session!Issue(c)
  <2>1. \A k \in Call :
          /\ k # c => requests'[k].promise = requests[k].promise
                      /\ requests'[k].socket = requests[k].socket
          /\ k = c => requests'[k].promise = (IF sends THEN "waiting" ELSE "failed")
                      /\ requests'[k].socket = generation
    BY <1>4
  <2>2. CASE sends
    BY <1>1, <1>3, <1>5, <2>1, <2>2 DEF Session!Issue
  <2>3. CASE ~sends
    BY <1>1, <1>3, <1>5, <2>1, <2>3 DEF Session!Issue
  <2> QED
    BY <2>2, <2>3
<1> QED
  BY <1>6 DEF Session!Next

\* The handshake changes no call: its requests are the client's own.
LEMMA HandshakeStep ==
  ASSUME IInv, NEW g \in Generation,
         \/ \E resolved, sends \in BOOLEAN : ChallengeAnswered(g, resolved, sends)
         \/ HelloSettles(g)
  PROVE  Session!Next \/ UNCHANGED Session!sessionVars
<1>1. ASSUME GiveUpHandshake(g) PROVE UNCHANGED Session!sessionVars
  <2>1. UNCHANGED <<generation, requests>>
    BY <1>1 DEF GiveUpHandshake
  <2>2. \A h \in Generation : /\ attempts'[h].active = attempts[h].active
                              /\ attempts'[h].promise = attempts[h].promise
    BY <1>1 DEF GiveUpHandshake, IInv, TypeOK, Attempt
  <2>3. UNCHANGED Standing
    BY <2>1, <2>2, SameStanding DEF IInv, TypeOK, Generation
  <2> QED
    BY <2>1, <2>3 DEF Session!sessionVars
<1>2. ASSUME NEW stage, FailHandshake(g, stage), IsLiveAttempt(g)
      PROVE  Session!Next \/ UNCHANGED Session!sessionVars
  <2>1. FlushPending /\ generation' = generation /\ g = generation
    BY <1>2 DEF FailHandshake, IsLiveAttempt, OwnsAttempt
  <2>2. ~attempts'[g].active
    BY <1>2 DEF FailHandshake, Retired, IInv, TypeOK, Attempt
  <2> QED
    BY <2>1, <2>2, Lost
<1>3. CASE \E resolved, sends \in BOOLEAN : ChallengeAnswered(g, resolved, sends)
  <2> SUFFICES ASSUME NEW resolved \in BOOLEAN, NEW sends \in BOOLEAN,
                      ChallengeAnswered(g, resolved, sends),
                      IsLiveAttempt(g), ~(~resolved \/ sockets[g] # "open")
               PROVE  UNCHANGED Session!sessionVars
    BY <1>1, <1>2, <1>3 DEF ChallengeAnswered
  <2>1. /\ attempts' = [attempts EXCEPT ![g].stage = "hello"]
        /\ SendRequest(g, sends)
        /\ generation' = generation
    BY DEF ChallengeAnswered
  <2>2. \A h \in Generation : /\ attempts'[h].active = attempts[h].active
                              /\ attempts'[h].promise = attempts[h].promise
    BY <2>1 DEF IInv, TypeOK, Attempt
  <2>3. UNCHANGED Standing
    BY <2>1, <2>2, SameStanding DEF IInv, TypeOK, Generation
  <2>4. \A c \in Call : requests'[c] = requests[c]
    BY <2>1, CallIds DEF SendRequest, IInv, TypeOK
  <2> QED
    BY <2>1, <2>3, <2>4 DEF Session!sessionVars
<1>4. CASE HelloSettles(g)
  <2> SUFFICES ASSUME IsLiveAttempt(g), requests[g].promise # "failed"
               PROVE  Session!Next
    BY <1>1, <1>2, <1>4 DEF HelloSettles
  <2>1. g = generation /\ g # 0 /\ attempts[g].active /\ attempts[g].promise = "waiting"
    BY <1>4 DEF HelloSettles, IsLiveAttempt, OwnsAttempt, IInv, Handshakes
  <2>2. UNCHANGED <<generation, requests>>
    BY <1>4 DEF HelloSettles
  <2>3. attempts'[g].active /\ attempts'[g].promise = "resolved"
    BY <1>4, <2>1 DEF HelloSettles, IInv, TypeOK, Attempt
  <2>4. Standing = "dialing" /\ Standing' = "up"
    BY <2>1, <2>2, <2>3 DEF Standing
  <2> QED
    BY <2>2, <2>4 DEF Session!Next, Session!Establish
<1> QED
  BY <1>3, <1>4

\* Every step of the client is one of the sessions, or none of their business.
LEMMA StepRefines ==
  ASSUME IInv, [Next]_vars
  PROVE  Session!Next \/ UNCHANGED Session!sessionVars
<1>1. ASSUME UNCHANGED <<generation, attempts, requests>>
      PROVE  UNCHANGED Session!sessionVars
  BY <1>1, SameStanding DEF Session!sessionVars
<1>2. CASE UNCHANGED vars
  BY <1>1, <1>2 DEF vars
<1>3. CASE \E refused \in BOOLEAN : Connect(refused)
  BY <1>3, DialBegins DEF Connect
<1>4. CASE Close
  <2>1. FlushPending /\ generation' = generation
    BY <1>4 DEF Close
  <2>2. ASSUME generation # 0 PROVE ~attempts'[generation].active
    <3>1. generation \in Generation /\ attempts[generation] \in Attempt
      BY <2>2 DEF IInv, TypeOK, Generation
    <3>2. attempts'[generation] = Retired(attempts[generation])
      BY <1>4, <3>1 DEF Close
    <3> QED
      BY <3>1, <3>2, RetiredType
  <2> QED
    BY <2>1, <2>2, Lost
<1>5. CASE \E c \in Call, sends \in BOOLEAN : Request(c, sends)
  BY <1>5, RequestIssues
<1>6. CASE OnCloseReturns \/ OnReconnectScheduledReturns
  BY <1>1, <1>6 DEF OnCloseReturns, OnReconnectScheduledReturns
<1>7. CASE \E i \in Id : RequestTimesOut(i)
  BY <1>7, SettlesAnswers DEF RequestTimesOut
<1>8. ASSUME NEW g \in Generation, Network(g)
      PROVE  Session!Next \/ UNCHANGED Session!sessionVars
  <2>1. CASE SocketOpens(g) \/ PeerCloses(g)
    BY <1>1, <2>1 DEF SocketOpens, PeerCloses
  <2>2. CASE Challenge(g)
    <3>1. UNCHANGED <<generation, requests>>
      BY <2>2 DEF Challenge
    <3>2. \A h \in Generation : /\ attempts'[h].active = attempts[h].active
                                /\ attempts'[h].promise = attempts[h].promise
      BY <2>2 DEF Challenge, IInv, TypeOK, Attempt
    <3>3. UNCHANGED Standing
      BY <3>1, <3>2, SameStanding DEF IInv, TypeOK, Generation
    <3> QED
      BY <3>1, <3>3 DEF Session!sessionVars
  <2>3. CASE \E i \in Id, verdict \in {"ok", "failed"} : Response(g, i, verdict)
    <3> SUFFICES ASSUME NEW i \in Id, NEW verdict \in {"ok", "failed"}, Response(g, i, verdict)
                 PROVE  Session!Next \/ UNCHANGED Session!sessionVars
      BY <2>3
    <3>1. requests[i].promise = "waiting" /\ UNCHANGED <<generation, attempts>>
      BY DEF Response
    <3>2. requests' = [requests EXCEPT ![i].promise = IF @ = "waiting" THEN verdict ELSE @]
      BY <3>1 DEF Response
    <3> QED
      BY <3>1, <3>2, SettlesAnswers
  <2>4. CASE SocketCloses(g)
    <3>1. CASE OwnsAttempt(g)
      <4>1. FlushPending /\ generation' = generation /\ g = generation
        BY <2>4, <3>1 DEF SocketCloses, OwnsAttempt
      <4>2. attempts \in [Generation -> Attempt] /\ g \in Generation
        BY DEF IInv, TypeOK
      <4>3. attempts' = [attempts EXCEPT ![g] = Retired(@)]
        BY <2>4, <3>1 DEF SocketCloses
      <4>4. ~Retired(attempts[g]).active
        BY <4>2, RetiredType
      <4>5. ~attempts'[g].active
        BY <4>2, <4>3, <4>4
      <4> QED
        BY <4>1, <4>5, Lost
    <3>2. CASE ~OwnsAttempt(g)
      BY <1>1, <2>4, <3>2 DEF SocketCloses
    <3> QED
      BY <3>1, <3>2
  <2> QED
    BY <1>8, <2>1, <2>2, <2>3, <2>4 DEF Network
<1>9. ASSUME NEW g \in Generation, NEW refused \in BOOLEAN, ReconnectFires(g, refused)
      PROVE  Session!Next \/ UNCHANGED Session!sessionVars
  BY <1>1, <1>9, DialBegins DEF ReconnectFires
<1>10. ASSUME NEW g \in Generation, HandshakeTimesOut(g)
       PROVE  Session!Next \/ UNCHANGED Session!sessionVars
  <2>1. FlushPending /\ generation' = generation /\ g = generation
    BY <1>10 DEF HandshakeTimesOut, FailHandshake, IsLiveAttempt, OwnsAttempt
  <2>2. ~attempts'[g].active
    BY <1>10 DEF HandshakeTimesOut, FailHandshake, Retired, IInv, TypeOK, Attempt
  <2> QED
    BY <2>1, <2>2, Lost
<1>11. CASE \E g \in Generation : \/ \E resolved, sends \in BOOLEAN : ChallengeAnswered(g, resolved, sends)
                                  \/ HelloSettles(g)
  BY <1>11, HandshakeStep
<1> QED
  BY <1>2, <1>3, <1>4, <1>5, <1>6, <1>7, <1>8, <1>9, <1>10, <1>11 DEF Next

\* The client implements GatewaySession: a session begins with every dial, is
\* lost with all its calls when its attempt ends, and answers only its own.
THEOREM SessionImplemented == Spec => ImplementsSession
<1>1. Init => Session!Init
  BY DEF Init, Session!Init, Standing, Id
<1>2. IInv /\ [Next]_vars => [Session!Next]_(Session!sessionVars)
  BY StepRefines
<1> QED
  BY <1>1, <1>2, Invariant, PTL DEF Spec, ImplementsSession, Session!Spec

=============================================================================
