------------------------ MODULE SmallComponentsProofs ------------------------
(***************************************************************************)
(* What the two small gateway clients, flows that run flows, and one run   *)
(* of a flow promise, for any sockets and requests, any flows and limits.  *)
(*                                                                         *)
(* The searches of a flow are right because of what their stacks stand     *)
(* for: nodes that can be reached but have not been looked at, and the     *)
(* path of calls.  A run skips nothing because whatever was executed has   *)
(* triggered what is executed or about to be.                              *)
(***************************************************************************)
EXTENDS MCSmallComponents, SequenceTheorems, FiniteSetTheorems, TLAPS

-----------------------------------------------------------------------------
(* The legacy connection *)

Open == {"connecting", "open"}

LegacyConnections ==
    [ws: Socket \cup {None}, current: Socket \cup {None},
     status: [Socket -> {"connecting", "open", "closing", "closed"}],
     armed: Nat, held: BOOLEAN, closed: BOOLEAN, pending: [Request -> Socket \cup {None}]]

\* The socket in use is the one whose events pass the fence, no other is open,
\* and the handle names a timer that is armed.
Linked(x) ==
    /\ x \in LegacyConnections
    /\ x.ws \in {None, x.current}
    /\ \A s \in Socket : x.status[s] \in Open => s = x.ws
    /\ x.held => x.armed > 0

\* A connection that is not closed has a timer, or lost its socket to the
\* constructor.
Redialing(x) == ~x.closed /\ x.ws = None /\ x.current # None => x.armed > 0

LegacyInv == Linked(conn) /\ Redialing(conn)

LEMMA HangupClosing ==
    ASSUME NEW now \in [Socket -> {"connecting", "open", "closing", "closed"}], NEW s
    PROVE  /\ Legacy!Hangup(now, s) \in [Socket -> {"connecting", "open", "closing", "closed"}]
           /\ \A o \in Socket : Legacy!Hangup(now, s)[o] \in Open => now[o] \in Open /\ (s # None => o # s)
BY DEF Legacy!Hangup, Open

LEMMA ConnectLinked ==
    ASSUME NEW x, Linked(x), NEW s \in Socket \cup {None}
    PROVE  Linked(Legacy!connect(x, s)) /\ Redialing(Legacy!connect(x, s))
<1> DEFINE hung == Legacy!Hangup(x.status, x.ws)
           stat == IF s = None THEN hung ELSE [hung EXCEPT ![s] = "connecting"]
           y == Legacy!connect(x, s)
<1>1. /\ hung \in [Socket -> {"connecting", "open", "closing", "closed"}]
      /\ \A o \in Socket : hung[o] \notin Open
  BY HangupClosing, SocketAssumption DEF Linked, LegacyConnections, Legacy!NoneAssumption
<1>2. y = [x EXCEPT !.closed = FALSE, !.ws = s, !.current = s, !.status = stat]
  BY DEF Legacy!connect
<1> HIDE DEF hung, y
<1>3. /\ stat \in [Socket -> {"connecting", "open", "closing", "closed"}]
      /\ \A o \in Socket : stat[o] \in Open => o = s
  BY <1>1
<1> HIDE DEF stat
<1>4. y \in LegacyConnections /\ y.ws = s /\ y.current = s /\ y.status = stat
         /\ y.armed = x.armed /\ y.held = x.held
  BY <1>2, <1>3 DEF Linked, LegacyConnections
<1>5. Linked(y) /\ Redialing(y)
  BY <1>3, <1>4 DEF Linked, Redialing
<1> QED
  BY <1>5 DEF y

LEMMA DisconnectLinked ==
    ASSUME NEW x, Linked(x)
    PROVE  Linked(Legacy!disconnect(x)) /\ Legacy!disconnect(x).closed
<1> DEFINE hung == Legacy!Hangup(x.status, x.ws)
           left == IF x.held THEN x.armed - 1 ELSE x.armed
           none == [r \in Request |-> None]
           y == Legacy!disconnect(x)
<1>1. /\ hung \in [Socket -> {"connecting", "open", "closing", "closed"}]
      /\ \A o \in Socket : hung[o] \notin Open
  BY HangupClosing, SocketAssumption DEF Linked, LegacyConnections, Legacy!NoneAssumption
<1>2. left \in Nat /\ none \in [Request -> Socket \cup {None}]
  BY DEF Linked, LegacyConnections
<1>3. y = [x EXCEPT !.closed = TRUE, !.armed = left, !.held = FALSE, !.status = hung,
                    !.ws = None, !.pending = none]
  BY DEF Legacy!disconnect, Legacy!flushPending
<1> HIDE DEF hung, left, none, y
<1>4. y \in LegacyConnections /\ y.ws = None /\ y.status = hung /\ ~y.held /\ y.closed
  BY <1>1, <1>2, <1>3 DEF Linked, LegacyConnections
<1>5. Linked(y) /\ y.closed
  BY <1>1, <1>4 DEF Linked
<1> QED
  BY <1>5 DEF y

LEMMA ScheduleLinked ==
    ASSUME NEW x, Linked(x)
    PROVE  Linked(Legacy!scheduleReconnect(x)) /\ Redialing(Legacy!scheduleReconnect(x))
<1>1. CASE x.closed
  BY <1>1 DEF Legacy!scheduleReconnect, Redialing
<1>2. CASE ~x.closed
  <2>0. PICK more \in Nat : more = x.armed + 1 /\ more > 0
    BY DEF Linked, LegacyConnections
  <2>1. PICK y : y = [x EXCEPT !.armed = more, !.held = TRUE]
    OBVIOUS
  <2>2. /\ y \in LegacyConnections /\ y.ws = x.ws /\ y.current = x.current
        /\ y.status = x.status /\ y.armed > 0
    BY <2>0, <2>1 DEF Linked, LegacyConnections
  <2>3. Linked(y) /\ Redialing(y)
    BY <2>2 DEF Linked, Redialing
  <2> QED
    BY <1>2, <2>0, <2>1, <2>3 DEF Legacy!scheduleReconnect
<1> QED
  BY <1>1, <1>2

LEMMA LegacyCloses ==
    ASSUME LegacyInv, NEW s \in Socket, Legacy!SocketCloses(s)
    PROVE  LegacyInv'
<1> DEFINE gone == [conn EXCEPT !.status[s] = "closed"]
           told == [gone EXCEPT !.ws = None, !.pending = Legacy!flushPending]
<1>1. PICK stat : stat = [conn.status EXCEPT ![s] = "closed"]
  OBVIOUS
<1>2. PICK none : none = [r \in Request |-> None]
  OBVIOUS
<1>3. gone = [conn EXCEPT !.status = stat]
  BY <1>1 DEF LegacyInv, Linked, LegacyConnections
<1>4. told = [conn EXCEPT !.status = stat, !.ws = None, !.pending = none]
  BY <1>2, <1>3 DEF LegacyInv, Linked, LegacyConnections, Legacy!flushPending
<1>5. /\ stat \in [Socket -> {"connecting", "open", "closing", "closed"}]
      /\ none \in [Request -> Socket \cup {None}]
      /\ \A o \in Socket : stat[o] \in Open => conn.status[o] \in Open /\ o # s
  BY <1>1, <1>2 DEF LegacyInv, Linked, LegacyConnections, Open
<1>6. /\ gone \in LegacyConnections /\ gone.ws = conn.ws /\ gone.current = conn.current
      /\ gone.status = stat /\ gone.armed = conn.armed /\ gone.held = conn.held
      /\ gone.closed = conn.closed
  BY <1>3, <1>5 DEF LegacyInv, Linked, LegacyConnections
<1>7. /\ told \in LegacyConnections /\ told.ws = None /\ told.current = conn.current
      /\ told.status = stat /\ told.armed = conn.armed /\ told.held = conn.held
  BY <1>4, <1>5 DEF LegacyInv, Linked, LegacyConnections
<1>8. \/ conn.current # s /\ conn' = gone
      \/ /\ conn.current = s
         /\ \/ conn' = Legacy!scheduleReconnect(told)
            \/ conn' = Legacy!scheduleReconnect(Legacy!disconnect(told))
            \/ \E n \in Legacy!Fresh(told) :
                  conn' = Legacy!scheduleReconnect(Legacy!connect(told, n))
  BY DEF Legacy!SocketCloses
<1> HIDE DEF gone, told
<1>9. CASE conn.current # s /\ conn' = gone
  BY <1>5, <1>6, <1>9 DEF LegacyInv, Linked, Redialing
<1>10. CASE conn.current = s
  <2>1. Linked(told)
    BY <1>5, <1>7, <1>10 DEF LegacyInv, Linked
  <2>2. \A n \in Legacy!Fresh(told) : n \in Socket \cup {None}
    BY DEF Legacy!Fresh
  <2> QED
    BY <1>8, <1>10, <2>1, <2>2, ScheduleLinked, DisconnectLinked, ConnectLinked DEF LegacyInv
<1> QED
  BY <1>8, <1>9, <1>10

\* What no hook is called for: the other steps of the connection.
LEMMA LegacyStepInvariant ==
    ASSUME LegacyInv, Legacy!Next
    PROVE  LegacyInv'
<1>1. ASSUME NEW x \in LegacyConnections
      PROVE  \A n \in Legacy!Fresh(x) : n \in Socket \cup {None}
  BY DEF Legacy!Fresh
<1>2. CASE Legacy!Connect
  BY <1>1, <1>2, ConnectLinked DEF Legacy!Connect, LegacyInv, Linked
<1>3. CASE Legacy!Disconnect
  BY <1>3, DisconnectLinked DEF Legacy!Disconnect, LegacyInv, Redialing
<1>4. CASE Legacy!ReconnectFires
  <2>0. PICK less \in Nat : less = conn.armed - 1
    BY <1>4 DEF LegacyInv, Linked, LegacyConnections, Legacy!ReconnectFires
  <2>1. PICK x : x = [conn EXCEPT !.armed = less, !.held = FALSE]
    OBVIOUS
  <2>2. /\ x \in LegacyConnections /\ x.ws = conn.ws /\ x.current = conn.current
        /\ x.status = conn.status /\ ~x.held
    BY <2>1 DEF LegacyInv, Linked, LegacyConnections
  <2>3. Linked(x)
    BY <2>2 DEF LegacyInv, Linked
  <2>4. \E s \in Socket \cup {None} : conn' = Legacy!connect(x, s)
    BY <1>4, <2>0, <2>1 DEF Legacy!ReconnectFires, Legacy!Fresh
  <2> QED
    BY <2>3, <2>4, ConnectLinked DEF LegacyInv
<1>5. CASE \E s \in Socket : Legacy!SocketOpens(s)
  <2>1. PICK s \in Socket : Legacy!SocketOpens(s)
    BY <1>5
  <2>2. PICK stat : stat = [conn.status EXCEPT ![s] = "open"]
    OBVIOUS
  <2>3. conn' = [conn EXCEPT !.status = stat]
    BY <2>1, <2>2 DEF Legacy!SocketOpens, LegacyInv, Linked, LegacyConnections
  <2>4. /\ stat \in [Socket -> {"connecting", "open", "closing", "closed"}]
        /\ \A o \in Socket : stat[o] \in Open => conn.status[o] \in Open
    BY <2>1, <2>2 DEF Legacy!SocketOpens, LegacyInv, Linked, LegacyConnections, Open
  <2>5. /\ conn' \in LegacyConnections /\ conn'.ws = conn.ws /\ conn'.current = conn.current
        /\ conn'.status = stat /\ conn'.armed = conn.armed /\ conn'.held = conn.held
        /\ conn'.closed = conn.closed
    BY <2>3, <2>4 DEF LegacyInv, Linked, LegacyConnections
  <2> QED
    BY <2>4, <2>5 DEF LegacyInv, Linked, Redialing
<1>6. CASE \E s \in Socket : Legacy!SocketCloses(s)
  BY <1>6, LegacyCloses
<1>7. CASE \E r \in Request : Legacy!SendRequest(r) \/ Legacy!Response(r) \/ Legacy!RequestTimesOut(r)
  <2>1. PICK r \in Request, s \in Socket \cup {None} :
            conn' = [conn EXCEPT !.pending[r] = s]
    BY <1>7 DEF Legacy!SendRequest, Legacy!Response, Legacy!RequestTimesOut, LegacyInv, Linked,
                LegacyConnections
  <2>2. PICK left : left = [conn.pending EXCEPT ![r] = s]
    OBVIOUS
  <2>3. conn' = [conn EXCEPT !.pending = left] /\ left \in [Request -> Socket \cup {None}]
    BY <2>1, <2>2 DEF LegacyInv, Linked, LegacyConnections
  <2>4. /\ conn' \in LegacyConnections /\ conn'.ws = conn.ws /\ conn'.current = conn.current
        /\ conn'.status = conn.status /\ conn'.armed = conn.armed /\ conn'.held = conn.held
        /\ conn'.closed = conn.closed
    BY <2>3 DEF LegacyInv, Linked, LegacyConnections
  <2> QED
    BY <2>4 DEF LegacyInv, Linked, Redialing
<1> QED
  BY <1>2, <1>3, <1>4, <1>5, <1>6, <1>7 DEF Legacy!Next

LEMMA LegacyInit ==
    ASSUME Legacy!Init
    PROVE  LegacyInv
BY DEF Legacy!Init, Legacy!createConnectionState, LegacyInv, Linked, Redialing,
       LegacyConnections, Open

-----------------------------------------------------------------------------
(* The gateway client of the flow runner *)

\* There is a socket that is not closed, or a timer.
RunnerInv ==
    /\ ws \in Socket \cup {None}
    /\ status \in [Socket -> {"connecting", "open", "closing", "closed"}]
    /\ greeted \in [Socket -> BOOLEAN]
    /\ timers = IF ws = None THEN 1 ELSE 0
    /\ \A s \in Socket : status[s] # "closed" <=> ws = s
    /\ authed => ws # None /\ greeted[ws]

LEMMA RunnerStepInvariant ==
    ASSUME RunnerInv, Runner!Next
    PROVE  RunnerInv'
<1> USE SocketAssumption DEF Runner!NoneAssumption
<1>1. CASE Runner!Reconnect
  BY <1>1 DEF Runner!Reconnect, RunnerInv
<1>2. ASSUME NEW s \in Socket, Runner!SocketOpens(s)
      PROVE  RunnerInv'
  BY <1>2 DEF Runner!SocketOpens, Runner!shakes, RunnerInv
<1>3. ASSUME NEW s \in Socket, Runner!SocketCloses(s)
      PROVE  RunnerInv'
  BY <1>3 DEF Runner!SocketCloses, Runner!shakes, RunnerInv
<1>4. ASSUME NEW s \in Socket, Runner!Challenge(s)
      PROVE  RunnerInv'
  BY <1>4 DEF Runner!Challenge, Runner!link, RunnerInv
<1>5. ASSUME NEW s \in Socket, Runner!HelloOk(s)
      PROVE  RunnerInv'
  BY <1>5 DEF Runner!HelloOk, Runner!Reads, Runner!link, RunnerInv
<1>6. ASSUME NEW s \in Socket, Runner!HelloRefused(s)
      PROVE  RunnerInv'
  BY <1>6 DEF Runner!HelloRefused, Runner!Reads, RunnerInv
<1>7. ASSUME NEW r \in Request, Runner!SendRequest(r) \/ Runner!Response(r) \/ Runner!RequestTimesOut(r)
      PROVE  RunnerInv'
  BY <1>7 DEF Runner!SendRequest, Runner!Response, Runner!RequestTimesOut, Runner!link,
              Runner!shakes, RunnerInv
<1> QED
  BY <1>1, <1>2, <1>3, <1>4, <1>5, <1>6, <1>7 DEF Runner!Next

LEMMA RunnerInit ==
    ASSUME Runner!Init
    PROVE  RunnerInv
BY SocketAssumption DEF Runner!Init, Runner!NoneAssumption, RunnerInv

\* The sets of sockets that are not closed have one element, or none.
LEMMA RunnerOneLink ==
    ASSUME RunnerInv
    PROVE  Runner!OneLink
<1> DEFINE live == {s \in Socket : status[s] # "closed"}
<1>1. \A S : Runner!Cardinality(S) = Cardinality(S)
  BY DEF Runner!Cardinality, Cardinality, Runner!IsFiniteSet, IsFiniteSet
<1>2. CASE ws = None
  <2>1. live = {}
    BY <1>2, SocketAssumption DEF RunnerInv, Runner!NoneAssumption
  <2>2. timers + Cardinality(live) = 1
    BY <1>2, <2>1, FS_EmptySet DEF RunnerInv
  <2> QED
    BY <1>1, <2>2 DEF RunnerInv, Runner!OneLink
<1>3. CASE ws # None
  <2>1. live = {ws}
    BY <1>3 DEF RunnerInv
  <2>2. timers + Cardinality(live) = 1
    BY <1>3, <2>1, FS_Singleton DEF RunnerInv
  <2> QED
    BY <1>1, <2>2 DEF RunnerInv, Runner!OneLink
<1> QED
  BY <1>2, <1>3

(***************************************************************************)
(* Either client keeps one link to the gateway                              *)
(***************************************************************************)
LEMMA LegacyOneLink ==
    ASSUME LegacyInv
    PROVE  Legacy!OneLink
BY DEF LegacyInv, Linked, Redialing, Open, Legacy!OneLink

LEMMA LinksUnchanged ==
    ASSUME LegacyInv, RunnerInv, UNCHANGED <<legacyVars, runnerVars>>
    PROVE  LegacyInv' /\ RunnerInv'
BY DEF legacyVars, runnerVars, LegacyInv, Linked, Redialing, LegacyConnections, RunnerInv

\* Whatever sockets, hooks and timers do, either client has one link to the
\* gateway or a timer that will give it one (legacy-connection.ts:37-96,
\* gateway-client.ts:106-185).
THEOREM OneLinkHolds == SpecAny => []OneLink
<1> DEFINE Inv == LegacyInv /\ RunnerInv
<1>1. InitAny => Inv
  BY LegacyInit, RunnerInit DEF InitAny
<1>2. Inv /\ [NextAny]_allVars => Inv'
  <2> SUFFICES ASSUME Inv, [NextAny]_allVars PROVE Inv'
    OBVIOUS
  <2>1. CASE UNCHANGED <<legacyVars, runnerVars>>
    BY <2>1, LinksUnchanged
  <2>2. CASE Legacy!Next /\ UNCHANGED runnerVars
    BY <2>2, LegacyStepInvariant DEF runnerVars, RunnerInv
  <2>3. CASE Runner!Next /\ UNCHANGED legacyVars
    BY <2>3, RunnerStepInvariant DEF legacyVars, LegacyInv, Linked, Redialing, LegacyConnections
  <2>4. \/ UNCHANGED <<legacyVars, runnerVars>>
        \/ Legacy!Next /\ UNCHANGED runnerVars
        \/ Runner!Next /\ UNCHANGED legacyVars
    BY DEF NextAny, SubflowsStep, SingleStep, LegacyStep, RunnerStep, allVars
  <2> QED
    BY <2>1, <2>2, <2>3, <2>4
<1>3. Inv => OneLink
  BY LegacyOneLink, RunnerOneLink DEF OneLink
<1> QED
  BY <1>1, <1>2, <1>3, PTL DEF SpecAny

-----------------------------------------------------------------------------
(* Flows that run flows *)

\* The calls that lead to a run are those of its caller, and one more.
CallTree(tree) ==
    /\ tree \subseteq Seq(Flow) /\ <<>> \in tree
    /\ \A q \in Seq(Flow), f \in Flow : Child(q, f) \in tree => q \in tree

Runs ==
    /\ runs \in [Paths -> Run]
    /\ \A p \in Paths : runs[p].step <= Len(runs[p].body)

\* Only what was not refused has been loaded.
Stacked(p) ==
    /\ Len(Stack(p)) <= MaxDepth \/ p = <<>>
    /\ \A i, j \in DOMAIN Stack(p) : Stack(p)[i] = Stack(p)[j] => i = j

\* The node that has called a run is at work, or has failed with it.
Awaited ==
    \A q \in Paths, f \in Flow :
        Child(q, f) \in Paths =>
            \/ f \in runs[q].busy
            \/ runs[q].outcome = "failed" /\ runs[Child(q, f)].outcome = "failed"

Working == \A p \in Paths : runs[p].busy # {} => runs[p].outcome # "done"

SubflowsInv ==
    /\ library \in [Flow -> Bodies]
    /\ seed \in Seq(Flow) /\ Len(seed) <= 1
    /\ CallTree(Paths)
    /\ Runs
    /\ \A p \in Paths : Stacked(p)
    /\ Awaited
    /\ Working

LEMMA ChildPath ==
    ASSUME NEW q \in Seq(Flow), NEW f \in Flow
    PROVE  /\ Child(q, f) \in Seq(Flow) /\ Child(q, f) # <<>> /\ Child(q, f) # q
           /\ \A p \in Seq(Flow), g \in Flow : Child(q, f) = Child(p, g) => q = p /\ f = g
<1>1. Child(q, f) \in Seq(Flow) /\ Child(q, f) # <<>> /\ Len(Child(q, f)) = Len(q) + 1
  BY AppendProperties DEF Child
<1>2. Child(q, f) # q
  BY <1>1, LenProperties
<1>3. \A p \in Seq(Flow), g \in Flow : Child(q, f) = Child(p, g) => q = p /\ f = g
  BY AppendInjective DEF Child
<1> QED
  BY <1>1, <1>2, <1>3

\* A node that calls no flow is at the end of no path.
LEMMA NoPlainPath ==
    ASSUME NEW q \in Seq(Flow), NEW n, Child(q, n) \in Seq(Flow)
    PROVE  n \in Flow
<1>1. Child(q, n)[Len(q) + 1] = n /\ Len(Child(q, n)) = Len(q) + 1 /\ Len(q) \in Nat
  BY LenProperties DEF Child
<1>2. Child(q, n)[Len(q) + 1] \in Flow
  BY <1>1, ElementOfSeq
<1> QED
  BY <1>1, <1>2

LEMMA ChildStack ==
    ASSUME seed \in Seq(Flow), NEW q \in Seq(Flow), NEW f \in Flow
    PROVE  Stack(q) \in Seq(Flow) /\ Stack(Child(q, f)) = Append(Stack(q), f)
<1>1. <<f>> \in Seq(Flow)
  OBVIOUS
<1>2. Stack(q) \in Seq(Flow)
  BY ConcatProperties DEF Stack
<1>3. Stack(Child(q, f)) = seed \o (q \o <<f>>)
  BY AppendIsConcat DEF Stack, Child
<1>4. Stack(Child(q, f)) = Stack(q) \o <<f>>
  BY <1>1, <1>3, ConcatAssociative DEF Stack
<1> QED
  BY <1>2, <1>4, AppendIsConcat

\* What is not refused keeps the stacks short and without repetition ...
LEMMA StackedChild ==
    ASSUME seed \in Seq(Flow), NEW q \in Seq(Flow), NEW f \in Flow, Stacked(q), ~Refused(q, f)
    PROVE  Stacked(Child(q, f))
<1> DEFINE s == Stack(q)
           t == Stack(Child(q, f))
<1>1. s \in Seq(Flow) /\ t = Append(s, f)
  BY ChildStack
<1>2. /\ Len(s) \in Nat /\ DOMAIN s = 1..Len(s)
      /\ Len(t) = Len(s) + 1 /\ DOMAIN t = 1..Len(s) + 1
      /\ \A i \in 1..Len(s) : t[i] = s[i]
      /\ t[Len(s) + 1] = f
  BY <1>1, AppendProperties, LenProperties
<1>3. /\ \A i \in 1..Len(s) : s[i] # f
      /\ ~(Len(s) >= MaxDepth)
  BY <1>2 DEF Refused, Calls
<1>4. \A i, j \in DOMAIN s : s[i] = s[j] => i = j
  BY DEF Stacked
<1> HIDE DEF s, t
<1>5. Len(t) <= MaxDepth
  BY <1>2, <1>3, SubflowAssumption
<1>6. ASSUME NEW i \in DOMAIN t, NEW j \in DOMAIN t, t[i] = t[j]
      PROVE  i = j
  BY <1>2, <1>3, <1>4, <1>6
<1> QED
  BY <1>5, <1>6 DEF Stacked, t

\* ... and what is refused would break that, so it is not there.
LEMMA RefusedUnstacked ==
    ASSUME seed \in Seq(Flow), NEW q \in Seq(Flow), NEW f \in Flow, Refused(q, f)
    PROVE  ~Stacked(Child(q, f))
<1> DEFINE s == Stack(q)
           t == Stack(Child(q, f))
<1>1. s \in Seq(Flow) /\ t = Append(s, f)
  BY ChildStack
<1>2. /\ Len(s) \in Nat /\ DOMAIN s = 1..Len(s)
      /\ Len(t) = Len(s) + 1 /\ DOMAIN t = 1..Len(s) + 1
      /\ \A i \in 1..Len(s) : t[i] = s[i]
      /\ t[Len(s) + 1] = f
  BY <1>1, AppendProperties, LenProperties
<1>3. CASE Len(s) >= MaxDepth
  BY <1>2, <1>3, SubflowAssumption, ChildPath DEF Stacked
<1>4. CASE f \in Calls(q)
  <2>1. PICK i \in 1..Len(s) : s[i] = f
    BY <1>2, <1>4 DEF Calls
  <2>2. t[i] = t[Len(s) + 1] /\ i \in DOMAIN t /\ Len(s) + 1 \in DOMAIN t /\ i # Len(s) + 1
    BY <1>2, <2>1
  <2> QED
    BY <2>2 DEF Stacked
<1> QED
  BY <1>3, <1>4 DEF Refused

LEMMA BegunRun ==
    ASSUME NEW body \in Bodies
    PROVE  /\ Begin(body) \in Run /\ Begin(body).step <= Len(Begin(body).body)
           /\ Begin(body).outcome = "running"
<1>1. body \in Seq(SUBSET Node) /\ body # <<>>
  BY SubflowAssumption
<1>2. Len(body) \in Nat \ {0} /\ 1 \in 1..Len(body)
  BY <1>1, EmptySeq
<1>3. body[1] \in SUBSET Node
  BY <1>1, <1>2, ElementOfSeq
<1> QED
  BY <1>2, <1>3 DEF Begin, Run

LEMMA LoadInvariant ==
    ASSUME SubflowsInv, NEW p \in Paths, NEW f \in Flow, Load(p, f)
    PROVE  SubflowsInv'
<1> DEFINE new == Child(p, f)
<1>1. /\ new \notin Paths /\ ~Refused(p, f) /\ f \in runs[p].busy
      /\ runs' = [q \in Paths \cup {new} |-> IF q = new THEN Begin(library[f]) ELSE runs[q]]
      /\ UNCHANGED <<library, seed>>
  BY DEF Load, Busy
<1>2. p \in Seq(Flow) /\ Paths \subseteq Seq(Flow) /\ <<>> \in Paths
  BY DEF SubflowsInv, CallTree
<1>3. /\ new \in Seq(Flow) /\ new # <<>>
      /\ \A q \in Seq(Flow), g \in Flow : /\ Child(q, g) # q
                                         /\ Child(q, g) = new => q = p /\ g = f
  BY <1>2, ChildPath
<1>4. PICK begun : begun = Begin(library[f])
  OBVIOUS
<1>5. begun \in Run /\ begun.step <= Len(begun.body) /\ begun.outcome = "running"
  BY <1>4, BegunRun DEF SubflowsInv
<1>6. Stacked(new)
  BY <1>1, <1>2, StackedChild DEF SubflowsInv
<1> HIDE DEF new
<1>7. /\ Paths' = Paths \cup {new} /\ runs'[new] = begun
      /\ \A q \in Paths : runs'[q] = runs[q]
  BY <1>1, <1>4 DEF Paths
<1>8. CallTree(Paths')
  <2>1. ASSUME NEW q \in Seq(Flow), NEW g \in Flow, Child(q, g) \in Paths'
        PROVE  q \in Paths'
    BY <1>3, <1>7, <2>1 DEF SubflowsInv, CallTree
  <2> QED
    BY <1>2, <1>3, <1>7, <2>1 DEF CallTree
<1>9. Runs'
  <2>1. runs' \in [Paths' -> Run]
    BY <1>1, <1>4, <1>5, <1>7 DEF SubflowsInv, Runs
  <2> QED
    BY <1>5, <1>7, <2>1 DEF SubflowsInv, Runs
<1>10. \A q \in Paths' : Stacked(q)'
  BY <1>1, <1>6, <1>7 DEF SubflowsInv, Stacked, Stack
<1>11. Awaited'
  <2>1. ASSUME NEW q \in Paths', NEW g \in Flow, Child(q, g) \in Paths'
        PROVE  \/ g \in runs'[q].busy
               \/ runs'[q].outcome = "failed" /\ runs'[Child(q, g)].outcome = "failed"
    <3>0. q \in Seq(Flow)
      BY <1>2, <1>3, <1>7
    <3>1. CASE Child(q, g) = new
      <4>1. q = p /\ g = f
        BY <1>2, <3>0, <3>1, ChildPath DEF new
      <4> QED
        BY <1>1, <1>7, <4>1
    <3>2. CASE Child(q, g) # new
      <4>1. Child(q, g) \in Paths /\ q \in Paths
        BY <1>7, <2>1, <3>0, <3>2 DEF SubflowsInv, CallTree
      <4> QED
        BY <1>7, <4>1 DEF SubflowsInv, Awaited
    <3> QED
      BY <3>1, <3>2
  <2> QED
    BY <2>1 DEF Awaited, Child
<1>12. Working'
  BY <1>5, <1>7 DEF SubflowsInv, Working
<1> QED
  BY <1>1, <1>8, <1>9, <1>10, <1>11, <1>12 DEF SubflowsInv

LEMMA NodeReturnsInvariant ==
    ASSUME SubflowsInv, NEW p \in Paths, NEW n, NodeEnds(p, n)
    PROVE  SubflowsInv'
<1> DEFINE old == Child(p, n)
<1>1. /\ n = Plain \/ Outcome(old) = "done"
      /\ runs' = [q \in Paths \ {old} |->
                    IF q = p THEN [runs[p] EXCEPT !.busy = runs[p].busy \ {n}] ELSE runs[q]]
      /\ UNCHANGED <<library, seed>> /\ n \in runs[p].busy
  BY DEF NodeEnds, Busy
<1>2. p \in Seq(Flow) /\ Paths \subseteq Seq(Flow) /\ <<>> \in Paths /\ runs[p] \in Run
  BY DEF SubflowsInv, CallTree, Runs
<1>3. old # <<>> /\ old # p /\ (old \in Paths => n \in Flow)
  <2>1. Len(old) = Len(p) + 1 /\ Len(p) \in Nat /\ Len(<<>>) = 0
    BY <1>2, LenProperties, EmptySeq DEF Child
  <2> QED
    BY <1>2, <2>1, NoPlainPath
<1>4. \A q \in Seq(Flow), g \in Flow :
          /\ Child(q, g) # q
          /\ old \in Paths /\ Child(q, g) = old => q = p /\ g = n
  BY <1>2, <1>3, ChildPath
<1>5. old \in Paths => runs[old].outcome = "done"
  BY <1>1, <1>3, SubflowAssumption DEF Outcome
<1>6. \A g \in Flow : old \in Paths => Child(old, g) \notin Paths
  BY <1>5 DEF SubflowsInv, Awaited, Working
<1>7. PICK less \in SUBSET Node : less = runs[p].busy \ {n}
  BY <1>2 DEF Run
<1>8. PICK run2 : run2 = [runs[p] EXCEPT !.busy = less]
  OBVIOUS
<1>9. /\ run2 \in Run /\ run2.step = runs[p].step /\ run2.body = runs[p].body
      /\ run2.outcome = runs[p].outcome /\ run2.busy = less
  BY <1>2, <1>8 DEF Run
<1> HIDE DEF old
<1>10. /\ Paths' = Paths \ {old} /\ runs'[p] = run2 /\ p \in Paths'
       /\ \A q \in Paths' : q # p => runs'[q] = runs[q]
  BY <1>1, <1>3, <1>7, <1>8 DEF Paths
<1>11. CallTree(Paths')
  <2>1. ASSUME NEW q \in Seq(Flow), NEW g \in Flow, Child(q, g) \in Paths'
        PROVE  q \in Paths'
    BY <1>6, <1>10, <2>1 DEF SubflowsInv, CallTree
  <2> QED
    BY <1>2, <1>3, <1>10, <2>1 DEF CallTree
<1>12. Runs'
  <2>1. \A q \in Paths' : runs'[q] \in Run /\ runs'[q].step <= Len(runs'[q].body)
    BY <1>9, <1>10 DEF SubflowsInv, Runs
  <2>2. runs' = [q \in Paths' |-> runs'[q]]
    BY <1>1, <1>10
  <2> QED
    BY <2>1, <2>2 DEF Runs
<1>13. \A q \in Paths' : Stacked(q)'
  BY <1>1, <1>10 DEF SubflowsInv, Stacked, Stack
<1>14. Awaited'
  <2>1. ASSUME NEW q \in Paths', NEW g \in Flow, Child(q, g) \in Paths'
        PROVE  \/ g \in runs'[q].busy
               \/ runs'[q].outcome = "failed" /\ runs'[Child(q, g)].outcome = "failed"
    <3>1. q \in Paths /\ Child(q, g) \in Paths /\ Child(q, g) # old /\ q \in Seq(Flow)
      BY <1>2, <1>10, <2>1
    <3>2. \/ g \in runs[q].busy
          \/ runs[q].outcome = "failed" /\ runs[Child(q, g)].outcome = "failed"
      BY <3>1 DEF SubflowsInv, Awaited
    <3>3. \A x \in Paths' : runs'[x].outcome = runs[x].outcome
      BY <1>9, <1>10
    <3>4. g \in runs[q].busy => g \in runs'[q].busy
      BY <1>7, <1>9, <1>10, <3>1 DEF old
    <3> QED
      BY <2>1, <3>2, <3>3, <3>4
  <2> QED
    BY <2>1 DEF Awaited, Child
<1>15. Working'
  BY <1>7, <1>9, <1>10 DEF SubflowsInv, Working
<1> QED
  BY <1>1, <1>11, <1>12, <1>13, <1>14, <1>15 DEF SubflowsInv

LEMMA NodeThrowsInvariant ==
    ASSUME SubflowsInv, NEW p \in Paths, NEW n, NodeFails(p, n)
    PROVE  SubflowsInv'
<1>1. /\ n \in runs[p].busy /\ MayFail(p, n) /\ UNCHANGED <<library, seed>>
      /\ runs' = [runs EXCEPT ![p].busy = runs[p].busy \ {n}, ![p].outcome = "failed"]
  BY DEF NodeFails, Busy, SubflowsInv, Runs, Run
<1>2. /\ p \in Seq(Flow) /\ Paths \subseteq Seq(Flow) /\ <<>> \in Paths /\ runs[p] \in Run
      /\ n \in Node
  BY <1>1 DEF SubflowsInv, CallTree, Runs, Run
<1>3. PICK less \in SUBSET Node : less = runs[p].busy \ {n}
  BY <1>2 DEF Run
<1>4. PICK run2 : run2 = [runs[p] EXCEPT !.busy = less, !.outcome = "failed"]
  OBVIOUS
<1>5. /\ run2 \in Run /\ run2.step = runs[p].step /\ run2.body = runs[p].body
      /\ run2.outcome = "failed" /\ run2.busy = less
  BY <1>2, <1>4 DEF Run
<1>6. runs' = [runs EXCEPT ![p] = run2]
  BY <1>1, <1>3, <1>4 DEF SubflowsInv, Runs
<1>7. /\ Paths' = Paths /\ runs'[p] = run2
      /\ \A q \in Paths : q # p => runs'[q] = runs[q]
  BY <1>6 DEF SubflowsInv, Runs, Paths
<1>8. n \in Flow /\ Child(p, n) \in Paths => runs[Child(p, n)].outcome = "failed"
  <2> SUFFICES ASSUME n \in Flow, Child(p, n) \in Paths
               PROVE  runs[Child(p, n)].outcome = "failed"
    OBVIOUS
  <2>1. ~Refused(p, n)
    BY <1>2, RefusedUnstacked DEF SubflowsInv
  <2>2. runs[Child(p, n)].outcome \in {"running", "done", "failed"}
    BY DEF SubflowsInv, Runs, Run
  <2>3. Outcome(Child(p, n)) = runs[Child(p, n)].outcome
    BY DEF Outcome
  <2>4. n # Plain
    BY SubflowAssumption
  <2> QED
    BY <1>1, <2>1, <2>2, <2>3, <2>4 DEF MayFail
<1>9. CallTree(Paths')
  BY <1>7 DEF SubflowsInv, CallTree
<1>10. Runs'
  <2>1. runs' \in [Paths' -> Run]
    BY <1>5, <1>6, <1>7 DEF SubflowsInv, Runs
  <2> QED
    BY <1>5, <1>7, <2>1 DEF SubflowsInv, Runs
<1>11. \A q \in Paths' : Stacked(q)'
  BY <1>1, <1>7 DEF SubflowsInv, Stacked, Stack
<1>12. Awaited'
  <2>1. ASSUME NEW q \in Paths', NEW g \in Flow, Child(q, g) \in Paths'
        PROVE  \/ g \in runs'[q].busy
               \/ runs'[q].outcome = "failed" /\ runs'[Child(q, g)].outcome = "failed"
    <3>1. q \in Paths /\ Child(q, g) \in Paths /\ Child(q, g) # q
      BY <1>2, <1>7, <2>1, ChildPath
    <3>2. \/ g \in runs[q].busy
          \/ runs[q].outcome = "failed" /\ runs[Child(q, g)].outcome = "failed"
      BY <3>1 DEF SubflowsInv, Awaited
    <3>3. \A x \in Paths : runs[x].outcome = "failed" => runs'[x].outcome = "failed"
      BY <1>5, <1>7
    <3>4. CASE q # p
      BY <1>7, <3>1, <3>2, <3>3, <3>4
    <3>5. CASE q = p /\ g # n
      BY <1>3, <1>5, <1>7, <3>1, <3>2, <3>3, <3>5
    <3>6. CASE q = p /\ g = n
      BY <1>5, <1>7, <1>8, <3>1, <3>3, <3>6
    <3> QED
      BY <3>4, <3>5, <3>6
  <2> QED
    BY <2>1 DEF Awaited, Child
<1>13. Working'
  BY <1>5, <1>7 DEF SubflowsInv, Working
<1> QED
  BY <1>1, <1>9, <1>10, <1>11, <1>12, <1>13 DEF SubflowsInv

LEMMA SuperstepInvariant ==
    ASSUME SubflowsInv, NEW p \in Paths, StepEnds(p)
    PROVE  SubflowsInv'
<1>1. /\ runs[p].outcome = "running" /\ runs[p].busy = {} /\ UNCHANGED <<library, seed>>
      /\ runs[p] \in Run /\ runs[p].step <= Len(runs[p].body)
  BY DEF StepEnds, SubflowsInv, Runs
<1>2. p \in Seq(Flow) /\ Paths \subseteq Seq(Flow) /\ <<>> \in Paths
  BY DEF SubflowsInv, CallTree
<1>3. PICK run2 : /\ runs' = [runs EXCEPT ![p] = run2]
                  /\ run2 \in Run /\ run2.step <= Len(run2.body)
                  /\ run2.busy # {} => run2.outcome # "done"
  <2>1. CASE runs[p].step = Len(runs[p].body)
    <3>1. PICK run2 : run2 = [runs[p] EXCEPT !.outcome = "done"]
      OBVIOUS
    <3>2. runs' = [runs EXCEPT ![p] = run2]
      BY <2>1, <3>1 DEF StepEnds, SubflowsInv, Runs
    <3>3. /\ run2 \in Run /\ run2.step <= Len(run2.body) /\ run2.busy = {}
      BY <1>1, <3>1 DEF Run
    <3> QED
      BY <3>2, <3>3
  <2>2. CASE runs[p].step # Len(runs[p].body)
    <3>0. runs[p].body \in Bodies /\ runs[p].step \in Nat
      BY <1>1 DEF Run
    <3>1. runs[p].body \in Seq(SUBSET Node) /\ Len(runs[p].body) \in Nat
      BY <3>0, SubflowAssumption
    <3>2. PICK next \in Nat : next = runs[p].step + 1 /\ next <= Len(runs[p].body) /\ 1 <= next
      BY <1>1, <2>2, <3>0, <3>1
    <3>3. next \in 1..Len(runs[p].body)
      BY <3>1, <3>2
    <3>4. PICK more \in SUBSET Node : more = runs[p].body[next]
      BY <3>1, <3>3, ElementOfSeq
    <3>5. PICK run2 : run2 = [runs[p] EXCEPT !.step = next, !.busy = more]
      OBVIOUS
    <3>6. runs' = [runs EXCEPT ![p] = run2]
      BY <2>2, <3>2, <3>4, <3>5 DEF StepEnds, SubflowsInv, Runs
    <3>7. /\ run2 \in Run /\ run2.step <= Len(run2.body) /\ run2.outcome = "running"
      BY <1>1, <3>2, <3>5 DEF Run
    <3> QED
      BY <3>6, <3>7
  <2> QED
    BY <2>1, <2>2
<1>4. /\ Paths' = Paths /\ runs'[p] = run2
      /\ \A q \in Paths : q # p => runs'[q] = runs[q]
  BY <1>3 DEF SubflowsInv, Runs, Paths
<1>5. \A g \in Flow : Child(p, g) \notin Paths
  BY <1>1 DEF SubflowsInv, Awaited
<1>6. CallTree(Paths')
  BY <1>4 DEF SubflowsInv, CallTree
<1>7. Runs'
  <2>1. runs' \in [Paths' -> Run]
    BY <1>3, <1>4 DEF SubflowsInv, Runs
  <2> QED
    BY <1>3, <1>4, <2>1 DEF SubflowsInv, Runs
<1>8. \A q \in Paths' : Stacked(q)'
  BY <1>1, <1>4 DEF SubflowsInv, Stacked, Stack
<1>9. Awaited'
  <2>1. ASSUME NEW q \in Paths', NEW g \in Flow, Child(q, g) \in Paths'
        PROVE  \/ g \in runs'[q].busy
               \/ runs'[q].outcome = "failed" /\ runs'[Child(q, g)].outcome = "failed"
    <3>1. q \in Paths /\ Child(q, g) \in Paths /\ q # p
      BY <1>4, <1>5, <2>1
    <3>2. \/ g \in runs[q].busy
          \/ runs[q].outcome = "failed" /\ runs[Child(q, g)].outcome = "failed"
      BY <3>1 DEF SubflowsInv, Awaited
    <3> QED
      BY <1>1, <1>4, <3>1, <3>2
  <2> QED
    BY <2>1 DEF Awaited, Child
<1>10. Working'
  BY <1>3, <1>4 DEF SubflowsInv, Working
<1> QED
  BY <1>1, <1>6, <1>7, <1>8, <1>9, <1>10 DEF SubflowsInv

LEMMA SubflowsInit ==
    ASSUME Init
    PROVE  SubflowsInv
<1>1. PICK body \in Bodies : runs = [p \in {<<>>} |-> Begin(body)]
  BY DEF Init, EditorRequest, TriggeredRequest
<1>2. Paths = {<<>>} /\ runs[<<>>] = Begin(body)
  BY <1>1 DEF Paths
<1>3. library \in [Flow -> Bodies] /\ seed \in Seq(Flow) /\ Len(seed) <= 1 /\ Len(seed) \in Nat
  <2>1. <<>> \in Seq(Flow) /\ Len(<<>>) = 0
    BY EmptySeq
  <2>2. \A f \in Flow : <<f>> \in Seq(Flow) /\ Len(<<f>>) = 1
    OBVIOUS
  <2>3. library \in [Flow -> Bodies] /\ (seed = <<>> \/ \E f \in Flow : seed = <<f>>)
    BY DEF Init, EditorRequest, TriggeredRequest
  <2>4. CASE seed = <<>>
    BY <2>1, <2>3, <2>4
  <2>5. CASE \E f \in Flow : seed = <<f>>
    BY <2>2, <2>3, <2>5
  <2> QED
    BY <2>3, <2>4, <2>5
<1>4. \A q \in Seq(Flow), f \in Flow : Child(q, f) \notin Paths
  BY <1>2, ChildPath
<1>5. CallTree(Paths)
  BY <1>2, <1>4, EmptySeq DEF CallTree
<1>6. Runs
  BY <1>1, <1>2, BegunRun DEF Runs
<1>7. Stacked(<<>>)
  <2>1. Stack(<<>>) = seed
    BY <1>3, ConcatEmptySeq DEF Stack
  <2>2. DOMAIN seed = 1..Len(seed)
    BY <1>3, LenProperties
  <2>3. \A i, j \in DOMAIN seed : i = j
    BY <1>3, <2>2
  <2> QED
    BY <2>1, <2>3 DEF Stacked
<1>8. Awaited /\ Working
  <2>1. Paths \subseteq Seq(Flow)
    BY <1>5 DEF CallTree
  <2> QED
    BY <1>2, <1>4, <2>1, BegunRun DEF Awaited, Working
<1> QED
  BY <1>2, <1>3, <1>5, <1>6, <1>7, <1>8 DEF SubflowsInv

LEMMA SubflowsStepInvariant ==
    ASSUME SubflowsInv, [Next]_vars
    PROVE  SubflowsInv'
<1>1. ASSUME NEW p \in Paths, NEW n \in runs[p].busy, Load(p, n) \/ NodeEnds(p, n) \/ NodeFails(p, n)
      PROVE  SubflowsInv'
  <2>1. Load(p, n) => n \in Flow
    BY DEF Load
  <2> QED
    BY <1>1, <2>1, LoadInvariant, NodeReturnsInvariant, NodeThrowsInvariant
<1>2. ASSUME NEW p \in Paths, StepEnds(p)
      PROVE  SubflowsInv'
  BY <1>2, SuperstepInvariant
<1>3. ASSUME library' \in [Flow -> Bodies], UNCHANGED <<seed, runs>>
      PROVE  SubflowsInv'
  <2>1. Paths' = Paths
    BY <1>3 DEF Paths
  <2>2. Runs' /\ CallTree(Paths') /\ Working' /\ Awaited'
    BY <1>3, <2>1 DEF SubflowsInv, Runs, CallTree, Working, Awaited
  <2>3. \A p \in Paths' : Stacked(p)'
    BY <1>3, <2>1 DEF SubflowsInv, Stacked, Stack
  <2> QED
    BY <1>3, <2>2, <2>3 DEF SubflowsInv
<1>4. ASSUME NEW f \in Flow, NEW body \in Bodies, EditFlow(f, body)
      PROVE  SubflowsInv'
  BY <1>3, <1>4 DEF EditFlow, SubflowsInv
<1>5. CASE UNCHANGED vars
  BY <1>3, <1>5 DEF vars, SubflowsInv
<1> QED
  BY <1>1, <1>2, <1>4, <1>5 DEF Next, Progress

\* However the hub changes flows on the way, no flow is on a call stack twice, no
\* stack outgrows the limit, and every run that goes on is awaited by the node
\* that called it (compile-flow.ts:699-707).
THEOREM CallsAreBounded == Spec => []CallsBounded
<1>1. SubflowsInv => CallsBounded
  <2> SUFFICES ASSUME SubflowsInv PROVE CallsBounded
    OBVIOUS
  <2>1. ASSUME NEW p \in Paths, NEW q \in Paths, NEW f \in Flow, p = Child(q, f)
        PROVE  /\ runs[p].outcome = "running" => f \in runs[q].busy
               /\ runs[q].outcome # "done"
    BY <2>1 DEF SubflowsInv, Awaited, Working
  <2> QED
    BY <2>1 DEF SubflowsInv, Stacked, CallsBounded
<1> QED
  BY <1>1, SubflowsInit, SubflowsStepInvariant, PTL DEF Spec

-----------------------------------------------------------------------------
(* The validation of a flow *)

Anywhere == FlowNode \cup {Entry}
On(s) == {s[i] : i \in DOMAIN s}

Stages == {"reach", "cycle", "rejected", "running", "completed", "failed"}

Shaped ==
    /\ edges \in Flows
    /\ phase \in Stages
    /\ stack \in Seq(Anywhere)
    /\ reachable \subseteq Anywhere
    /\ color \in [Anywhere -> {"white", "gray", "black"}]

\* The first search: what is reachable or on the stack can be reached, and what a
\* reachable node leads to is reachable or on the stack.
Reaching ==
    phase = "reach" =>
        /\ \A n \in Anywhere : color[n] = "white"
        /\ Entry \in reachable \cup On(stack)
        /\ Single!Successors(reachable) \subseteq reachable \cup On(stack)
        /\ \A S \in SUBSET FlowNode :
              Single!Successors(S \cup {Entry}) \subseteq S
                  => reachable \cup On(stack) \subseteq S \cup {Entry}

\* The stack of the second search is a path, and it is gray ...
Path ==
    /\ \A i, j \in DOMAIN stack : stack[i] = stack[j] => i = j
    /\ \A n \in Anywhere : color[n] = "gray" <=> n \in On(stack)
    /\ \A i \in 1..Len(stack) - 1 : stack[i + 1] \in Single!Targets(stack[i])

\* ... and the black nodes lead to black nodes only, without a cycle.
Blackened ==
    /\ \A n \in Anywhere : color[n] = "black" => \A m \in Single!Targets(n) : color[m] = "black"
    /\ \A S \in SUBSET FlowNode :
          S # {} /\ (\A n \in S : color[n] = "black") => \E n \in S : Single!Targets(n) \cap S = {}

Closing == phase = "cycle" => Single!AllReachable /\ Path /\ Blackened

ShapeInv == Shaped /\ Reaching /\ Closing /\ Single!ValidationExact

LEMMA TargetsTyped ==
    ASSUME edges \in Flows, NEW n
    PROVE  Single!Targets(n) \subseteq FlowNode
BY FlowRunAssumption DEF Single!FlowsAssumption, Single!Edge, Single!Targets

LEMMA SameFlow ==
    ASSUME UNCHANGED edges
    PROVE  /\ \A n : Single!Targets(n)' = Single!Targets(n)
           /\ \A S : Single!Successors(S)' = Single!Successors(S)
           /\ Single!AllReachable' = Single!AllReachable
           /\ Single!Cyclic' = Single!Cyclic
<1>1. \A n : Single!Targets(n)' = Single!Targets(n)
  BY DEF Single!Targets
<1>2. \A S : Single!Successors(S)' = Single!Successors(S)
  BY DEF Single!Successors, Single!Targets
<1>3. Single!AllReachable' = Single!AllReachable
  BY <1>2 DEF Single!AllReachable
<1>4. Single!Cyclic' = Single!Cyclic
  BY <1>1 DEF Single!Cyclic
<1> QED
  BY <1>1, <1>2, <1>3, <1>4

LEMMA FrontAndLast ==
    ASSUME NEW S, NEW s \in Seq(S), s # <<>>
    PROVE  /\ Single!Front(s) \in Seq(S) /\ Single!Last(s) \in S
           /\ Len(s) \in Nat /\ Len(s) > 0 /\ DOMAIN s = 1..Len(s)
           /\ Single!Last(s) = s[Len(s)]
           /\ DOMAIN Single!Front(s) = 1..Len(s) - 1 /\ Len(Single!Front(s)) = Len(s) - 1
           /\ \A i \in 1..Len(s) - 1 : Single!Front(s)[i] = s[i]
           /\ On(s) = On(Single!Front(s)) \cup {Single!Last(s)}
<1>1. Len(s) \in Nat /\ Len(s) > 0 /\ DOMAIN s = 1..Len(s)
  BY EmptySeq, LenProperties
<1>2. \A i \in 1..Len(s) : s[i] \in S
  BY ElementOfSeq
<1>3. PICK last : last \in Int /\ last = Len(s) - 1
  BY <1>1
<1>4. /\ SubSeq(s, 1, last) \in Seq(S)
      /\ Len(SubSeq(s, 1, last)) = IF 1 <= last THEN last - 1 + 1 ELSE 0
      /\ \A i \in 1..last - 1 + 1 : SubSeq(s, 1, last)[i] = s[1 + i - 1]
  <2>1. \A i \in 1..last : s[i] \in S
    BY <1>1, <1>2, <1>3
  <2> QED
    BY <1>3, <2>1, SubSeqProperties
<1>5. PICK f : f = SubSeq(s, 1, last)
  OBVIOUS
<1>6. /\ f \in Seq(S) /\ Len(f) = Len(s) - 1 /\ DOMAIN f = 1..Len(s) - 1
      /\ \A i \in 1..Len(s) - 1 : f[i] = s[i]
  <2>1. Len(f) = last
    BY <1>1, <1>3, <1>4, <1>5
  <2>2. DOMAIN f = 1..last
    BY <1>4, <1>5, <2>1, LenProperties
  <2>3. \A i \in 1..last : f[i] = s[i]
    BY <1>3, <1>4, <1>5
  <2> QED
    BY <1>3, <1>4, <1>5, <2>1, <2>2, <2>3
<1>7. Single!Front(s) = f /\ Single!Last(s) = s[Len(s)]
  BY <1>3, <1>5 DEF Single!Front, Single!Last
<1>8. On(s) = On(f) \cup {s[Len(s)]}
  BY <1>1, <1>6 DEF On
<1>9. s[Len(s)] \in S
  BY <1>1, <1>2
<1> QED
  BY <1>1, <1>6, <1>7, <1>8, <1>9

LEMMA ConcatElements ==
    ASSUME NEW S, NEW s \in Seq(S), NEW t \in Seq(S)
    PROVE  s \o t \in Seq(S) /\ On(s \o t) = On(s) \cup On(t)
<1>1. /\ s \o t \in Seq(S) /\ Len(s \o t) = Len(s) + Len(t)
      /\ \A i \in 1..Len(s) + Len(t) :
            (s \o t)[i] = IF i <= Len(s) THEN s[i] ELSE t[i - Len(s)]
  BY ConcatProperties
<1>2. /\ Len(s) \in Nat /\ Len(t) \in Nat /\ DOMAIN s = 1..Len(s) /\ DOMAIN t = 1..Len(t)
      /\ DOMAIN (s \o t) = 1..Len(s) + Len(t)
  BY <1>1, LenProperties
<1>3. PICK u : u = s \o t
  OBVIOUS
<1>4. On(u) \subseteq On(s) \cup On(t)
  <2>1. ASSUME NEW i \in 1..Len(s) + Len(t)
        PROVE  u[i] \in On(s) \cup On(t)
    <3>1. CASE i <= Len(s)
      BY <1>1, <1>2, <1>3, <3>1 DEF On
    <3>2. CASE ~(i <= Len(s))
      <4>1. i - Len(s) \in 1..Len(t)
        BY <1>2, <3>2
      <4> QED
        BY <1>1, <1>2, <1>3, <3>2, <4>1 DEF On
    <3> QED
      BY <3>1, <3>2
  <2> QED
    BY <1>2, <1>3, <2>1 DEF On
<1>5. On(s) \subseteq On(u)
  BY <1>1, <1>2, <1>3 DEF On
<1>6. On(t) \subseteq On(u)
  <2>1. ASSUME NEW i \in 1..Len(t)
        PROVE  t[i] \in On(u)
    <3>1. /\ i + Len(s) \in 1..Len(s) + Len(t) /\ ~(i + Len(s) <= Len(s))
          /\ (i + Len(s)) - Len(s) = i
      BY <1>2
    <3> QED
      BY <1>1, <1>2, <1>3, <3>1 DEF On
  <2> QED
    BY <1>2, <2>1 DEF On
<1> QED
  BY <1>1, <1>3, <1>4, <1>5, <1>6

LEMMA SameCardinality == \A S : Single!Cardinality(S) = Cardinality(S)
BY DEF Single!Cardinality, Cardinality, Single!IsFiniteSet, IsFiniteSet

LEMMA NodesFinite ==
    ASSUME NEW S \in SUBSET FlowNode
    PROVE  IsFiniteSet(S) /\ Cardinality(S) \in Nat /\ Single!Cardinality(S) = Cardinality(S)
<1>1. IsFiniteSet(FlowNode)
  BY FlowRunAssumption DEF Single!NodeAssumption, Single!IsFiniteSet, IsFiniteSet
<1> QED
  BY <1>1, FS_Subset, FS_CardinalityType, SameCardinality

\* The nodes of a set in any order are the elements of a sequence.
LEMMA OrderedElements ==
    ASSUME NEW S \in SUBSET FlowNode, NEW s \in Single!Orders(S)
    PROVE  s \in Seq(S) /\ On(s) = S
<1>1. PICK k \in Nat : k = Single!Cardinality(S)
  BY NodesFinite
<1>2. s \in [1..k -> S] /\ \A n \in S : \E i \in DOMAIN s : s[i] = n
  BY <1>1 DEF Single!Orders
<1>3. s \in Seq(S)
  BY <1>2, SeqDef
<1> QED
  BY <1>2, <1>3 DEF On

(***************************************************************************)
(* The first search finds what can be reached                               *)
(***************************************************************************)
LEMMA ReachPopInvariant ==
    ASSUME ShapeInv, Single!ReachPop
    PROVE  ShapeInv'
<1> DEFINE cur == Single!Last(stack)
           rest == Single!Front(stack)
           next == Single!Targets(cur)
<1>1. /\ phase = "reach" /\ stack # <<>> /\ UNCHANGED <<edges, phase, color>>
      /\ edges \in Flows /\ stack \in Seq(Anywhere)
  BY DEF Single!ReachPop, ShapeInv, Shaped
<1>2. cur \in Anywhere /\ rest \in Seq(Anywhere) /\ On(stack) = On(rest) \cup {cur}
  BY <1>1, FrontAndLast
<1>3. next \subseteq FlowNode
  BY <1>1, TargetsTyped
<1>4. \A S : Single!Successors(S)' = Single!Successors(S)
  BY <1>1, SameFlow
<1>5. /\ Entry \in reachable \cup On(stack)
      /\ Single!Successors(reachable) \subseteq reachable \cup On(stack)
      /\ \A S \in SUBSET FlowNode :
            Single!Successors(S \cup {Entry}) \subseteq S => reachable \cup On(stack) \subseteq S \cup {Entry}
      /\ \A n \in Anywhere : color[n] = "white"
  BY <1>1 DEF ShapeInv, Reaching
<1>6. CASE cur \in reachable
  <2>1. stack' = rest /\ reachable' = reachable
    BY <1>6 DEF Single!ReachPop
  <2>2. reachable \cup On(rest) = reachable \cup On(stack)
    BY <1>2, <1>6
  <2>3. Reaching'
    BY <1>1, <1>4, <1>5, <2>1, <2>2 DEF Reaching
  <2> QED
    BY <1>1, <1>2, <2>1, <2>3 DEF ShapeInv, Shaped, Closing, Single!ValidationExact
<1>7. CASE cur \notin reachable
  <2>1. PICK s \in Single!Orders(next) : stack' = rest \o s /\ reachable' = reachable \cup {cur}
    BY <1>7 DEF Single!ReachPop
  <2>2. s \in Seq(Anywhere) /\ On(s) = next
    BY <1>3, OrderedElements, SeqMonotonic DEF Anywhere
  <2>3. stack' \in Seq(Anywhere) /\ On(stack') = On(rest) \cup next
    BY <1>2, <2>1, <2>2, ConcatElements
  <2>4. reachable' \cup On(stack') = reachable \cup On(stack) \cup next
    BY <1>2, <2>1, <2>3
  <2>5. Single!Successors(reachable \cup {cur}) = Single!Successors(reachable) \cup next
    BY DEF Single!Successors
  <2>6. ASSUME NEW S \in SUBSET FlowNode, Single!Successors(S \cup {Entry}) \subseteq S
        PROVE  reachable' \cup On(stack') \subseteq S \cup {Entry}
    <3>1. cur \in S \cup {Entry}
      BY <1>2, <1>5, <2>6
    <3>2. next \subseteq S
      BY <2>6, <3>1 DEF Single!Successors
    <3> QED
      BY <1>5, <2>4, <2>6, <3>2
  <2> HIDE DEF cur, rest, next
  <2>7. Reaching'
    BY <1>1, <1>4, <1>5, <2>1, <2>4, <2>5, <2>6 DEF Reaching
  <2> QED
    BY <1>1, <1>2, <2>1, <2>3, <2>7 DEF ShapeInv, Shaped, Closing, Single!ValidationExact
<1> QED
  BY <1>6, <1>7

\* A search that has ended has reached everything that can be reached, and
\* nothing else.
LEMMA ReachedAll ==
    ASSUME ShapeInv, phase = "reach", stack = <<>>
    PROVE  FlowNode \subseteq reachable <=> Single!AllReachable
<1> DEFINE found == reachable \ {Entry}
<1>1. On(stack) = {} /\ edges \in Flows
  BY DEF On, ShapeInv, Shaped
<1>2. /\ Entry \in reachable /\ Single!Successors(reachable) \subseteq reachable
      /\ \A S \in SUBSET FlowNode :
            Single!Successors(S \cup {Entry}) \subseteq S => reachable \subseteq S \cup {Entry}
      /\ reachable \subseteq Anywhere /\ Entry \notin FlowNode
  BY <1>1, FlowRunAssumption DEF ShapeInv, Shaped, Reaching, Single!NodeAssumption
<1>3. found \in SUBSET FlowNode /\ found \cup {Entry} = reachable
  BY <1>2 DEF Anywhere
<1>4. Single!Successors(reachable) \subseteq FlowNode
  BY <1>1, TargetsTyped DEF Single!Successors
<1>5. Single!Successors(found \cup {Entry}) \subseteq found
  BY <1>2, <1>3, <1>4
<1>6. Single!AllReachable => found = FlowNode
  BY <1>3, <1>5 DEF Single!AllReachable
<1>7. FlowNode \subseteq reachable => Single!AllReachable
  BY <1>2, ZenonT(60) DEF Single!AllReachable
<1> QED
  BY <1>6, <1>7

LEMMA ReachEndsInvariant ==
    ASSUME ShapeInv, Single!ReachEnds \/ Single!NoWiredEntry
    PROVE  ShapeInv'
<1>1. phase = "reach" /\ UNCHANGED <<edges, stack, reachable, color>>
  BY DEF Single!ReachEnds, Single!NoWiredEntry, Single!Rejected, Single!searches
<1>2. \A n : Single!Targets(n)' = Single!Targets(n)
  BY <1>1, SameFlow
<1>3. Single!AllReachable' = Single!AllReachable /\ Single!Cyclic' = Single!Cyclic
  BY <1>1, SameFlow
<1>4. CASE Single!NoWiredEntry
  <2>1. Single!Successors({} \cup {Entry}) = {} /\ FlowNode # {} /\ phase' = "rejected"
    BY <1>4, FlowRunAssumption
    DEF Single!NoWiredEntry, Single!Rejected, Single!Successors, Single!NodeAssumption
  <2>2. ~Single!AllReachable
    BY <2>1 DEF Single!AllReachable
  <2> QED
    BY <1>1, <1>3, <2>1, <2>2
    DEF ShapeInv, Shaped, Stages, Reaching, Closing, Single!ValidationExact
<1>5. CASE Single!ReachEnds /\ FlowNode \subseteq reachable
  <2>1. stack = <<>> /\ phase' = "cycle" /\ Single!AllReachable
    BY <1>1, <1>5, ReachedAll DEF Single!ReachEnds
  <2>2. On(stack) = {} /\ DOMAIN stack = {} /\ Len(stack) = 0 /\ edges \in Flows
    BY <2>1, EmptySeq DEF On, ShapeInv, Shaped
  <2>3. \A n \in Anywhere : color[n] = "white"
    BY <1>1 DEF ShapeInv, Reaching
  <2>4. Path
    BY <2>1, <2>2, <2>3 DEF Path
  <2>5. Blackened
    BY <2>3 DEF Blackened, Anywhere
  <2>6. Path' /\ Blackened'
    BY <1>1, <1>2, <2>4, <2>5 DEF Path, Blackened
  <2> QED
    BY <1>1, <1>3, <2>1, <2>6
    DEF ShapeInv, Shaped, Stages, Reaching, Closing, Single!ValidationExact
<1>6. CASE Single!ReachEnds /\ ~(FlowNode \subseteq reachable)
  <2>1. phase' = "rejected" /\ ~Single!AllReachable
    BY <1>1, <1>6, ReachedAll DEF Single!ReachEnds
  <2> QED
    BY <1>1, <1>3, <2>1
    DEF ShapeInv, Shaped, Stages, Reaching, Closing, Single!ValidationExact
<1> QED
  BY <1>4, <1>5, <1>6

(***************************************************************************)
(* The second search finds a cycle if there is one                          *)
(***************************************************************************)
LEMMA CycleSteps ==
    ASSUME ShapeInv, phase = "cycle", UNCHANGED <<edges, phase, reachable>>,
           stack' \in Seq(Anywhere), color' \in [Anywhere -> {"white", "gray", "black"}],
           Path', Blackened'
    PROVE  ShapeInv'
BY SameFlow DEF ShapeInv, Shaped, Reaching, Closing, Single!ValidationExact

LEMMA VisitRootInvariant ==
    ASSUME ShapeInv, Single!VisitRoot
    PROVE  ShapeInv'
<1>1. PICK n \in Anywhere :
          /\ phase = "cycle" /\ stack = <<>> /\ color[n] = "white" /\ stack' = <<n>>
          /\ color' = [color EXCEPT ![n] = "gray"] /\ UNCHANGED <<edges, phase, reachable>>
  BY DEF Single!VisitRoot, Single!White, Single!Gray, Anywhere
<1>2. Path /\ Blackened /\ color \in [Anywhere -> {"white", "gray", "black"}] /\ edges \in Flows
  BY <1>1 DEF ShapeInv, Shaped, Closing
<1>3. On(stack) = {} /\ DOMAIN stack' = {1} /\ stack'[1] = n /\ On(stack') = {n} /\ Len(stack') = 1
  BY <1>1 DEF On
<1>4. color'[n] = "gray" /\ \A m \in Anywhere \ {n} : color'[m] = color[m]
  BY <1>1, <1>2
<1>5. Path'
  <2>1. \A m \in Anywhere : color'[m] = "gray" <=> m \in On(stack')
    BY <1>2, <1>3, <1>4 DEF Path
  <2>2. \A i \in 1..Len(stack') - 1 : FALSE
    BY <1>3
  <2> QED
    BY <1>3, <2>1, <2>2 DEF Path
<1>6. \A m \in Anywhere : color'[m] = "black" <=> color[m] = "black"
  BY <1>1, <1>4
<1>7. Blackened'
  BY <1>1, <1>2, <1>6, SameFlow, TargetsTyped DEF Blackened, Anywhere
<1>8. stack' \in Seq(Anywhere) /\ color' \in [Anywhere -> {"white", "gray", "black"}]
  BY <1>1, <1>2
<1> QED
  BY <1>1, <1>5, <1>7, <1>8, CycleSteps

LEMMA VisitNextInvariant ==
    ASSUME ShapeInv, Single!VisitNext
    PROVE  ShapeInv'
<1>1. PICK n \in Single!Targets(Single!Last(stack)) :
          /\ phase = "cycle" /\ stack # <<>> /\ color[n] = "white" /\ stack' = Append(stack, n)
          /\ color' = [color EXCEPT ![n] = "gray"] /\ UNCHANGED <<edges, phase, reachable>>
  BY DEF Single!VisitNext, Single!White, Single!Gray
<1>2. /\ Path /\ Blackened /\ color \in [Anywhere -> {"white", "gray", "black"}] /\ edges \in Flows
      /\ stack \in Seq(Anywhere)
  BY <1>1 DEF ShapeInv, Shaped, Closing
<1>3. n \in Anywhere
  BY <1>2, TargetsTyped DEF Anywhere
<1>4. PICK k \in Nat : k = Len(stack) /\ k > 0 /\ DOMAIN stack = 1..k /\ Single!Last(stack) = stack[k]
  BY <1>1, <1>2, FrontAndLast
<1>5. PICK longer : longer = Append(stack, n)
  OBVIOUS
<1>6. /\ longer \in Seq(Anywhere) /\ Len(longer) = k + 1 /\ DOMAIN longer = 1..k + 1
      /\ \A i \in 1..k : longer[i] = stack[i]
      /\ longer[k + 1] = n
  BY <1>2, <1>3, <1>4, <1>5, AppendProperties, LenProperties
<1>7. On(longer) = On(stack) \cup {n}
  BY <1>4, <1>6 DEF On
<1>8. n \notin On(stack)
  BY <1>1, <1>2, <1>3 DEF Path
<1>9. color'[n] = "gray" /\ \A m \in Anywhere \ {n} : color'[m] = color[m]
  BY <1>1, <1>2, <1>3
<1>10. Path'
  <2>1. \A m \in Anywhere : color'[m] = "gray" <=> m \in On(longer)
    BY <1>2, <1>7, <1>9 DEF Path
  <2>2. ASSUME NEW i \in 1..k + 1, NEW j \in 1..k + 1, longer[i] = longer[j]
        PROVE  i = j
    <3>1. \A x \in 1..k : stack[x] # n
      BY <1>4, <1>8 DEF On
    <3>2. \A x, y \in 1..k : stack[x] = stack[y] => x = y
      BY <1>2, <1>4 DEF Path
    <3> QED
      BY <1>6, <2>2, <3>1, <3>2
  <2>3. ASSUME NEW i \in 1..k
        PROVE  longer[i + 1] \in Single!Targets(longer[i])
    <3>1. CASE i = k
      BY <1>1, <1>4, <1>6, <3>1
    <3>2. CASE i # k
      <4>1. i \in 1..k - 1 /\ i + 1 \in 1..k
        BY <3>2
      <4> QED
        BY <1>2, <1>4, <1>6, <4>1 DEF Path
    <3> QED
      BY <3>1, <3>2
  <2>4. (k + 1) - 1 = k
    OBVIOUS
  <2>5. \A m : Single!Targets(m)' = Single!Targets(m)
    BY <1>1, SameFlow
  <2>6. stack' = longer
    BY <1>1, <1>5
  <2>7. \A i, j \in DOMAIN stack' : stack'[i] = stack'[j] => i = j
    BY <1>6, <2>2, <2>6
  <2>8. \A i \in 1..Len(longer) - 1 : longer[i + 1] \in Single!Targets(longer[i])
    BY <1>6, <2>3, <2>4
  <2> QED
    BY <2>1, <2>5, <2>6, <2>7, <2>8 DEF Path
<1>11. \A m \in Anywhere : color'[m] = "black" <=> color[m] = "black"
  BY <1>1, <1>9
<1>12. Blackened'
  BY <1>1, <1>2, <1>11, SameFlow, TargetsTyped DEF Blackened, Anywhere
<1>13. stack' \in Seq(Anywhere) /\ color' \in [Anywhere -> {"white", "gray", "black"}]
  BY <1>1, <1>2, <1>5, <1>6
<1> QED
  BY <1>1, <1>10, <1>12, <1>13, CycleSteps

\* A node that is left closes no cycle with the black ones: they lead nowhere
\* but to each other.
LEMMA VisitEndsInvariant ==
    ASSUME ShapeInv, Single!VisitEnds
    PROVE  ShapeInv'
<1>1. PICK n : /\ n = Single!Last(stack) /\ phase = "cycle" /\ stack # <<>>
               /\ \A m \in Single!Targets(n) : color[m] = "black"
               /\ stack' = Single!Front(stack) /\ color' = [color EXCEPT ![n] = "black"]
               /\ UNCHANGED <<edges, phase, reachable>>
  BY DEF Single!VisitEnds, Single!Black
<1>2. /\ Path /\ Blackened /\ color \in [Anywhere -> {"white", "gray", "black"}] /\ edges \in Flows
      /\ stack \in Seq(Anywhere)
  BY <1>1 DEF ShapeInv, Shaped, Closing
<1>3. PICK front : front = Single!Front(stack)
  OBVIOUS
<1>4. PICK k \in Nat : k = Len(stack) /\ k > 0
  BY <1>1, <1>2, FrontAndLast
<1>5. /\ n = stack[k] /\ DOMAIN stack = 1..k /\ n \in Anywhere
      /\ front \in Seq(Anywhere) /\ DOMAIN front = 1..k - 1 /\ Len(front) = k - 1
      /\ \A i \in 1..k - 1 : front[i] = stack[i]
      /\ On(stack) = On(front) \cup {n}
  BY <1>1, <1>2, <1>3, <1>4, FrontAndLast
<1>6. n \notin On(front)
  <2>1. ASSUME NEW i \in 1..k - 1, stack[i] = stack[k]
        PROVE  FALSE
    <3>1. i \in 1..k /\ k \in 1..k /\ i # k
      BY <1>4
    <3> QED
      BY <1>2, <1>5, <2>1, <3>1 DEF Path
  <2> QED
    BY <1>5, <2>1 DEF On
<1>7. color'[n] = "black" /\ color[n] = "gray" /\ \A m \in Anywhere \ {n} : color'[m] = color[m]
  BY <1>1, <1>2, <1>5 DEF Path
<1>8. Path'
  <2>1. \A m \in Anywhere : color'[m] = "gray" <=> m \in On(front)
    BY <1>2, <1>5, <1>6, <1>7 DEF Path
  <2>2. \A i, j \in DOMAIN front : front[i] = front[j] => i = j
    BY <1>2, <1>4, <1>5, SMTT(30) DEF Path
  <2>3. ASSUME NEW i \in 1..(k - 1) - 1
        PROVE  front[i + 1] \in Single!Targets(front[i])
    <3>1. i \in 1..k - 1 /\ i + 1 \in 1..k - 1
      BY <1>4
    <3> QED
      BY <1>2, <1>4, <1>5, <3>1 DEF Path
  <2>4. \A m : Single!Targets(m)' = Single!Targets(m)
    BY <1>1, SameFlow
  <2> QED
    BY <1>1, <1>3, <1>5, <2>1, <2>2, <2>3, <2>4 DEF Path
<1>9. \A m \in Anywhere : color'[m] = "black" <=> color[m] = "black" \/ m = n
  BY <1>5, <1>7
<1>10. Blackened'
  <2>1. \A x \in Anywhere : Single!Targets(x) \subseteq Anywhere /\ Single!Targets(x)' = Single!Targets(x)
    BY <1>1, <1>2, SameFlow, TargetsTyped DEF Anywhere
  <2>2. ASSUME NEW x \in Anywhere, color'[x] = "black", NEW m \in Single!Targets(x)
        PROVE  color'[m] = "black"
    BY <1>1, <1>2, <1>9, <2>1, <2>2 DEF Blackened
  <2>3. ASSUME NEW S \in SUBSET FlowNode, S # {}, \A x \in S : color'[x] = "black"
        PROVE  \E x \in S : Single!Targets(x) \cap S = {}
    <3>1. \A x \in S : color[x] = "black" \/ x = n
      BY <1>9, <2>3 DEF Anywhere
    <3>2. n \notin Single!Targets(n)
      BY <1>1, <1>7
    <3>3. CASE S \ {n} = {}
      BY <2>3, <3>2, <3>3
    <3>4. CASE S \ {n} # {}
      <4>1. \A x \in S \ {n} : color[x] = "black"
        BY <3>1
      <4>2. PICK x \in S \ {n} : Single!Targets(x) \cap (S \ {n}) = {}
        BY <1>2, <2>3, <3>4, <4>1 DEF Blackened
      <4>3. n \notin Single!Targets(x)
        BY <1>2, <1>7, <4>1 DEF Blackened, Anywhere
      <4> QED
        BY <4>2, <4>3
    <3> QED
      BY <3>3, <3>4
  <2> QED
    BY <2>1, <2>2, <2>3 DEF Blackened, Anywhere
<1>11. stack' \in Seq(Anywhere) /\ color' \in [Anywhere -> {"white", "gray", "black"}]
  BY <1>1, <1>2, <1>3, <1>5
<1> QED
  BY <1>1, <1>8, <1>10, <1>11, CycleSteps

LEMMA CycleFoundInvariant ==
    ASSUME ShapeInv, Single!CycleFound
    PROVE  ShapeInv'
<1>1. /\ phase = "cycle" /\ stack # <<>> /\ phase' = "rejected"
      /\ UNCHANGED <<edges, stack, reachable, color>>
  BY DEF Single!CycleFound, Single!Rejected, Single!searches
<1>2. /\ Path /\ edges \in Flows /\ stack \in Seq(Anywhere)
  BY <1>1 DEF ShapeInv, Shaped, Closing
<1>3. PICK k \in Nat : k = Len(stack) /\ k > 0 /\ DOMAIN stack = 1..k /\ Single!Last(stack) = stack[k]
  BY <1>1, <1>2, FrontAndLast
<1>4. PICK n \in Single!Targets(stack[k]) : color[n] = "gray"
  BY <1>3 DEF Single!CycleFound, Single!Gray
<1>5. n \in FlowNode
  BY <1>2, TargetsTyped
<1>6. PICK j \in 1..k : stack[j] = n
  BY <1>2, <1>3, <1>4, <1>5 DEF Path, On, Anywhere
<1> DEFINE S == {stack[i] : i \in j..k}
<1>7. \A i \in j..k : stack[i] \in FlowNode
  <2>1. ASSUME NEW i \in j..k, i # j
        PROVE  stack[i] \in FlowNode
    <3>1. i - 1 \in 1..k - 1 /\ (i - 1) + 1 = i
      BY <2>1
    <3> QED
      BY <1>2, <1>3, <3>1, TargetsTyped DEF Path
  <2> QED
    BY <1>5, <1>6, <2>1
<1>8. ASSUME NEW i \in j..k
      PROVE  Single!Targets(stack[i]) \cap S # {}
  <2>1. CASE i = k
    <3>1. j \in j..k
      OBVIOUS
    <3>2. n \in S
      BY <1>6, <3>1
    <3> QED
      BY <1>4, <2>1, <3>2
  <2>2. CASE i # k
    <3>1. i + 1 \in j..k /\ i \in 1..k - 1
      BY <2>2
    <3>2. stack[i + 1] \in S
      BY <3>1
    <3> QED
      BY <1>2, <1>3, <3>1, <3>2 DEF Path
  <2> QED
    BY <2>1, <2>2
<1>9. S \in SUBSET FlowNode /\ S # {}
  <2>1. j \in j..k
    OBVIOUS
  <2>2. stack[j] \in S
    BY <2>1
  <2>3. S \subseteq FlowNode
    BY <1>7
  <2> QED
    BY <2>2, <2>3
<1>10. \A x \in S : Single!Targets(x) \cap S # {}
  BY <1>8
<1> HIDE DEF S
<1>11. Single!Cyclic
  BY <1>9, <1>10 DEF Single!Cyclic
<1> QED
  BY <1>1, <1>11, SameFlow
  DEF ShapeInv, Shaped, Stages, Reaching, Closing, Single!ValidationExact

LEMMA CompileShape ==
    ASSUME ShapeInv, Single!Compile
    PROVE  ShapeInv'
<1>1. /\ phase = "cycle" /\ phase' = "running" /\ \A n \in Anywhere : color[n] = "black"
      /\ UNCHANGED <<edges, stack, reachable, color>>
  BY DEF Single!Compile, Single!searches, Single!Black, Anywhere
<1>2. Single!AllReachable /\ Blackened
  BY <1>1 DEF ShapeInv, Closing
<1>3. ~Single!Cyclic
  BY <1>1, <1>2 DEF Blackened, Single!Cyclic, Anywhere
<1> QED
  BY <1>1, <1>2, <1>3, SameFlow
  DEF ShapeInv, Shaped, Stages, Reaching, Closing, Single!ValidationExact

LEMMA RunShape ==
    ASSUME ShapeInv, phase \in {"running", "failed"}, phase' \in {"running", "failed", "completed"},
           UNCHANGED <<edges, stack, reachable, color>>
    PROVE  ShapeInv'
BY SameFlow DEF ShapeInv, Shaped, Stages, Reaching, Closing, Single!ValidationExact

LEMMA ShapeStep ==
    ASSUME ShapeInv, [Single!Next]_singleVars
    PROVE  ShapeInv'
<1>1. CASE \E n \in FlowNode : Single!NodeEnds(n) \/ Single!NodeFails(n)
  BY <1>1, RunShape DEF Single!NodeEnds, Single!NodeFails, Single!searches
<1>2. CASE Single!StepEnds
  BY <1>2, RunShape DEF Single!StepEnds, Single!searches
<1>3. CASE UNCHANGED singleVars
  BY <1>3, SameFlow
  DEF singleVars, ShapeInv, Shaped, Reaching, Closing, Path, Blackened, Single!ValidationExact
<1> QED
  BY <1>1, <1>2, <1>3, ReachPopInvariant, ReachEndsInvariant, VisitRootInvariant, VisitNextInvariant,
     VisitEndsInvariant, CycleFoundInvariant, CompileShape DEF Single!Next

LEMMA ShapeInit ==
    ASSUME Single!Init
    PROVE  ShapeInv
<1>1. /\ edges \in Flows /\ phase = "reach" /\ stack = <<Entry>> /\ reachable = {}
      /\ color = [n \in Anywhere |-> "white"]
  BY DEF Single!Init, Single!White, Anywhere
<1>2. DOMAIN stack = {1} /\ stack[1] = Entry
  BY <1>1
<1>3. On(stack) = {Entry} /\ Single!Successors(reachable) = {}
  BY <1>1, <1>2 DEF On, Single!Successors
<1>4. stack \in Seq(Anywhere) /\ reachable \subseteq Anywhere
  BY <1>1 DEF Anywhere
<1>5. Reaching
  BY <1>1, <1>3 DEF Reaching
<1> QED
  BY <1>1, <1>4, <1>5 DEF ShapeInv, Shaped, Stages, Closing, Single!ValidationExact

LEMMA SingleSteps ==
    ASSUME [NextAny]_allVars
    PROVE  [Single!Next]_singleVars
BY DEF NextAny, SubflowsStep, SingleStep, LegacyStep, RunnerStep, allVars

\* Whatever the order of nodes and edges in a request, a flow is rejected exactly
\* if a node cannot be reached or the edges close a cycle (validateFlowShape,
\* compile-flow.ts:68-122).
THEOREM ValidationHolds == SpecAny => []ValidationExact
<1>1. InitAny => ShapeInv
  BY ShapeInit DEF InitAny
<1>2. ShapeInv /\ [NextAny]_allVars => ShapeInv'
  BY SingleSteps, ShapeStep
<1>3. ShapeInv => ValidationExact
  BY DEF ShapeInv, ValidationExact
<1> QED
  BY <1>1, <1>2, <1>3, PTL DEF SpecAny

-----------------------------------------------------------------------------
(* The run of a flow *)

Running == {"running", "completed", "failed"}

RunShaped ==
    /\ pathMap \in [Router -> [Handle -> FlowNode \cup {End}]]
    /\ route \in [Router -> Handle]
    /\ active \subseteq FlowNode /\ ended \subseteq active
    /\ phase \notin Running => active = {} /\ execution = {}
    /\ phase = "completed" => active = {}
    /\ phase \in Running => \A r \in Router : pathMap[r] \in Single!PathMaps(r)

Handles(r) == {e.handle : e \in {f \in edges : f.source = r}}

\* What the entry and the executed nodes trigger has been executed, or is about
\* to be: but for the nodes of this step that have finished.
Triggering ==
    phase \in {"running", "completed"} =>
        /\ ended \subseteq Single!Executed
        /\ Single!Targets(Entry) \subseteq Single!Executed \cup active
        /\ \A n \in Single!Executed \ Router :
              n \in ended \/ Single!Targets(n) \subseteq Single!Executed \cup active
        /\ \A r \in Single!Executed \cap Router :
              Handles(r) = Handle =>
                  r \in ended \/ Single!Targets(r) \cap (Single!Executed \cup active) # {}

RunInv == Shaped /\ RunShaped /\ Triggering

LEMMA FlowConstants ==
    /\ Entry \notin FlowNode /\ End \notin FlowNode
    /\ Router \subseteq FlowNode /\ Speaker \subseteq FlowNode
    /\ default \in Handle
BY FlowRunAssumption DEF Single!NodeAssumption, Single!KindAssumption, Single!HandleAssumption

\* A router triggers one node at most, and one it has an edge to if all handles
\* are connected.
LEMMA TriggeredTyped ==
    ASSUME Shaped, RunShaped, phase = "running", NEW n \in FlowNode
    PROVE  /\ Single!Triggered(n) \subseteq Single!Targets(n) /\ Single!Triggered(n) \subseteq FlowNode
           /\ n \notin Router => Single!Triggered(n) = Single!Targets(n)
           /\ n \in Router => \A x, y \in Single!Triggered(n) : x = y
           /\ n \in Router /\ Handles(n) = Handle => Single!Triggered(n) # {}
<1>1. Single!Targets(n) \subseteq FlowNode
  BY TargetsTyped DEF Shaped
<1>2. CASE n \notin Router
  BY <1>1, <1>2 DEF Single!Triggered
<1>3. CASE n \in Router
  <2>1. PICK h \in Handle : h = route[n]
    BY <1>3 DEF RunShaped
  <2>2. PICK m : m = pathMap[n]
    OBVIOUS
  <2>3. m \in Single!PathMaps(n)
    BY <1>3, <2>2 DEF RunShaped, Running
  <2> DEFINE on == {e.target : e \in {f \in edges : f.source = n /\ f.handle = h}}
  <2>4. IF on = {} THEN m[h] = End ELSE m[h] \in on
    BY <2>1, <2>3 DEF Single!PathMaps
  <2>5. on \subseteq Single!Targets(n)
    BY DEF Single!Targets
  <2>6. Single!Triggered(n) = {m[h]} \ {End}
    BY <1>3, <2>1, <2>2 DEF Single!Triggered
  <2>7. Handles(n) = Handle => on # {}
    BY <2>1 DEF Handles
  <2> HIDE DEF on
  <2> QED
    BY <1>1, <1>3, <2>4, <2>5, <2>6, <2>7, FlowConstants
<1> QED
  BY <1>2, <1>3

LEMMA CompileRun ==
    ASSUME RunInv, ShapeInv', Single!Compile
    PROVE  RunInv'
<1>1. /\ phase = "cycle" /\ phase' = "running" /\ active' = Single!Targets(Entry)
      /\ UNCHANGED <<edges, ended, route, execution>>
      /\ pathMap' \in [Router -> [Handle -> FlowNode \cup {End}]]
      /\ \A r \in Router : pathMap'[r] \in Single!PathMaps(r)
  BY DEF Single!Compile
<1>2. active' \subseteq FlowNode /\ ended = {} /\ execution = {}
  BY <1>1, TargetsTyped DEF RunInv, Shaped, RunShaped, Running
<1>3. \A r \in Router : pathMap'[r] \in Single!PathMaps(r)'
  BY <1>1 DEF Single!PathMaps
<1>4. RunShaped'
  BY <1>1, <1>2, <1>3 DEF RunInv, RunShaped, Running
<1>5. Single!Executed' = {} /\ \A n : Single!Targets(n)' = Single!Targets(n)
  BY <1>1, <1>2, SameFlow DEF Single!Executed
<1>6. Triggering'
  BY <1>1, <1>2, <1>5 DEF Triggering
<1> QED
  BY <1>4, <1>6 DEF RunInv, ShapeInv

LEMMA NodeRuns ==
    ASSUME RunInv, ShapeInv', NEW n \in FlowNode, Single!NodeEnds(n)
    PROVE  RunInv'
<1>1. /\ phase \in {"running", "failed"} /\ n \in active /\ n \notin ended
      /\ ended' = ended \cup {n}
      /\ execution' = execution \cup {[node |-> n, step |-> step, input |-> Single!Input]}
      /\ UNCHANGED <<edges, phase, pathMap, active>>
  BY DEF Single!NodeEnds
<1>2. route' \in [Router -> Handle]
  <2>1. \A h \in Single!Connected(n) : h \in Handle
    BY FlowRunAssumption, FlowConstants
    DEF Single!Connected, Single!FlowsAssumption, Single!Edge, RunInv, Shaped
  <2> QED
    BY <2>1 DEF Single!NodeEnds, RunInv, RunShaped
<1>3. Single!Executed' = Single!Executed \cup {n}
  <2>1. PICK new : new = [node |-> n, step |-> step, input |-> Single!Input]
    OBVIOUS
  <2>2. new.node = n /\ execution' = execution \cup {new}
    BY <1>1, <2>1
  <2> QED
    BY <2>2 DEF Single!Executed
<1>4. \A r : Single!PathMaps(r)' = Single!PathMaps(r) /\ Handles(r)' = Handles(r)
  BY <1>1 DEF Single!PathMaps, Handles
<1>5. RunShaped'
  BY <1>1, <1>2, <1>4 DEF RunInv, RunShaped, Running
<1>6. Triggering'
  <2> SUFFICES ASSUME phase = "running" PROVE Triggering'
    BY <1>1 DEF Triggering
  <2>1. \A x : Single!Targets(x)' = Single!Targets(x)
    BY <1>1, SameFlow
  <2>2. Triggering /\ phase = "running"
    BY DEF RunInv
  <2> QED
    BY <1>1, <1>3, <1>4, <2>1, <2>2 DEF Triggering
<1> QED
  BY <1>5, <1>6 DEF RunInv, ShapeInv

LEMMA StepRuns ==
    ASSUME RunInv, ShapeInv', Single!StepEnds
    PROVE  RunInv'
<1>1. /\ phase = "running" /\ ended = active /\ ended' = {}
      /\ active' = UNION {Single!Triggered(n) : n \in active}
      /\ phase' \in {"running", "completed"} /\ (phase' = "completed" => active' = {})
      /\ UNCHANGED <<edges, pathMap, route, execution>>
  BY DEF Single!StepEnds
<1>2. Shaped /\ RunShaped /\ Triggering /\ active \subseteq FlowNode
  BY DEF RunInv, RunShaped
<1>3. \A n \in active : Single!Triggered(n) \subseteq active' /\ Single!Triggered(n) \subseteq FlowNode
  BY <1>1, <1>2, TriggeredTyped
<1>4. active' \subseteq FlowNode
  BY <1>1, <1>3
<1>5. \A r : /\ Single!PathMaps(r)' = Single!PathMaps(r) /\ Handles(r)' = Handles(r)
             /\ Single!Targets(r)' = Single!Targets(r)
  BY <1>1, SameFlow DEF Single!PathMaps, Handles
<1>6. RunShaped'
  BY <1>1, <1>2, <1>4, <1>5 DEF RunShaped, Running
<1>7. Single!Executed' = Single!Executed /\ active \subseteq Single!Executed
  BY <1>1, <1>2 DEF Single!Executed, Triggering
<1>8. ASSUME NEW n \in Single!Executed \ Router
      PROVE  Single!Targets(n) \subseteq Single!Executed \cup active'
  <2>1. CASE n \in active
    BY <1>1, <1>2, <1>3, <1>8, <2>1, TriggeredTyped
  <2>2. CASE n \notin active
    BY <1>1, <1>2, <1>7, <1>8, <2>2 DEF Triggering
  <2> QED
    BY <2>1, <2>2
<1>9. ASSUME NEW r \in Single!Executed \cap Router, Handles(r) = Handle
      PROVE  Single!Targets(r) \cap (Single!Executed \cup active') # {}
  <2>1. CASE r \in active
    BY <1>1, <1>2, <1>3, <1>9, <2>1, TriggeredTyped
  <2>2. CASE r \notin active
    BY <1>1, <1>2, <1>7, <1>9, <2>2 DEF Triggering
  <2> QED
    BY <2>1, <2>2
<1>10. Single!Targets(Entry) \subseteq Single!Executed \cup active'
  BY <1>1, <1>2, <1>7 DEF Triggering
<1>11. Triggering'
  BY <1>1, <1>5, <1>7, <1>8, <1>9, <1>10 DEF Triggering
<1> QED
  BY <1>6, <1>11 DEF RunInv, ShapeInv

LEMMA RunStep ==
    ASSUME RunInv, ShapeInv', [Single!Next]_singleVars
    PROVE  RunInv'
<1>1. CASE UNCHANGED <<edges, phase, pathMap, route, active, ended, execution>>
  <2>1. RunShaped'
    BY <1>1 DEF RunInv, RunShaped, Single!PathMaps
  <2>2. Triggering'
    BY <1>1, SameFlow DEF RunInv, Triggering, Single!Executed, Handles
  <2> QED
    BY <2>1, <2>2 DEF RunInv, ShapeInv
<1>2. CASE /\ phase \notin Running /\ phase' \notin Running
           /\ UNCHANGED <<pathMap, route, active, ended, execution>>
  BY <1>2 DEF RunInv, ShapeInv, RunShaped, Triggering, Running
<1>3. CASE \E n \in FlowNode : Single!NodeFails(n)
  <2>1. /\ phase' = "failed" /\ active' \subseteq active /\ ended' = ended /\ ended' \subseteq active'
        /\ phase \in Running /\ UNCHANGED <<edges, pathMap, route, execution>>
    BY <1>3 DEF Single!NodeFails, RunInv, RunShaped, Running
  <2>2. \A r : Single!PathMaps(r)' = Single!PathMaps(r)
    BY <2>1 DEF Single!PathMaps
  <2>3. RunShaped'
    BY <2>1, <2>2 DEF RunInv, RunShaped, Running
  <2>4. Triggering'
    BY <2>1 DEF Triggering
  <2> QED
    BY <2>3, <2>4 DEF RunInv, ShapeInv
<1>4. CASE Single!NoWiredEntry \/ Single!ReachEnds \/ Single!CycleFound
  BY <1>2, <1>4
  DEF Single!NoWiredEntry, Single!ReachEnds, Single!CycleFound, Single!Rejected, Single!run, Running
<1>5. CASE Single!ReachPop \/ Single!VisitRoot \/ Single!VisitNext \/ Single!VisitEnds
  BY <1>1, <1>5
  DEF Single!ReachPop, Single!VisitRoot, Single!VisitNext, Single!VisitEnds, Single!run
<1>6. CASE \E n \in FlowNode : Single!NodeEnds(n)
  BY <1>6, NodeRuns
<1>7. CASE UNCHANGED singleVars
  BY <1>1, <1>7 DEF singleVars
<1> QED
  BY <1>3, <1>4, <1>5, <1>6, <1>7, CompileRun, StepRuns DEF Single!Next

LEMMA RunInit ==
    ASSUME Single!Init
    PROVE  RunInv
<1>1. Shaped
  BY ShapeInit DEF ShapeInv
<1> QED
  BY <1>1, FlowConstants DEF Single!Init, RunInv, RunShaped, Triggering, Running

\* A run that completes has executed all that the entry and its executed nodes
\* point to, and a successor of every router that could not choose an
\* unconnected handle (compileFlow, compile-flow.ts).
THEOREM NothingSkipped == SpecAny => []NoNodeSkipped
<1> DEFINE Inv == ShapeInv /\ RunInv
<1>1. InitAny => Inv
  BY ShapeInit, RunInit DEF InitAny
<1>2. Inv /\ [NextAny]_allVars => Inv'
  BY SingleSteps, ShapeStep, RunStep
<1>3. Inv => NoNodeSkipped
  <2> SUFFICES ASSUME RunInv, phase = "completed"
               PROVE  /\ Single!Successors({Entry} \cup (Single!Executed \ Router)) \subseteq Single!Executed
                      /\ \A r \in Router \cap Single!Executed :
                            Handles(r) = Handle => Single!Targets(r) \cap Single!Executed # {}
    BY DEF NoNodeSkipped, Single!NoNodeSkipped, Handles
  <2>1. active = {} /\ ended = {} /\ Triggering
    BY DEF RunInv, RunShaped
  <2> QED
    BY <2>1 DEF Triggering, Single!Successors
<1> QED
  BY <1>1, <1>2, <1>3, PTL DEF SpecAny

-----------------------------------------------------------------------------
(* The path of a flow that does not fork *)

Before(S) == {x \in Anywhere : Single!Targets(x) \cap S # {}}

\* n and all it can be reached from.
Ancestors(n) ==
    {m \in Anywhere : \A S \in SUBSET Anywhere : n \in S /\ Before(S) \subseteq S => m \in S}

\* The least set with n that is closed under what leads to it.
LEMMA AncestorsLeast ==
    ASSUME NEW n \in Anywhere
    PROVE  /\ n \in Ancestors(n) /\ Ancestors(n) \subseteq Anywhere
           /\ Before(Ancestors(n)) \subseteq Ancestors(n)
           /\ \A S \in SUBSET Anywhere : n \in S /\ Before(S) \subseteq S => Ancestors(n) \subseteq S
           /\ \A m \in Ancestors(n) : Ancestors(m) \subseteq Ancestors(n)
           /\ Single!Upstream(n) = Ancestors(n) \ {n}
<1>1. n \in Ancestors(n) /\ Ancestors(n) \subseteq Anywhere
  BY DEF Ancestors
<1>2. \A S \in SUBSET Anywhere : n \in S /\ Before(S) \subseteq S => Ancestors(n) \subseteq S
  BY DEF Ancestors
<1>3. Before(Ancestors(n)) \subseteq Ancestors(n)
  <2>1. ASSUME NEW x \in Anywhere, NEW y \in Ancestors(n), y \in Single!Targets(x),
               NEW S \in SUBSET Anywhere, n \in S, Before(S) \subseteq S
        PROVE  x \in S
    <3>1. y \in S
      BY <1>2, <2>1
    <3>2. x \in Before(S)
      BY <2>1, <3>1 DEF Before
    <3> QED
      BY <2>1, <3>2
  <2>2. ASSUME NEW x \in Before(Ancestors(n))
        PROVE  x \in Ancestors(n)
    <3>1. x \in Anywhere /\ \E y \in Ancestors(n) : y \in Single!Targets(x)
      BY DEF Before
    <3> QED
      BY <2>1, <3>1 DEF Ancestors
  <2> QED
    BY <2>2
<1>4. ASSUME NEW m \in Ancestors(n)
      PROVE  Ancestors(m) \subseteq Ancestors(n)
  BY <1>1, <1>3 DEF Ancestors
<1>5. Single!Upstream(n) = Ancestors(n) \ {n}
  BY DEF Single!Upstream, Ancestors, Before, Anywhere
<1> QED
  BY <1>1, <1>2, <1>3, <1>4, <1>5

\* Without a cycle a node is upstream of what it leads to, with all that is
\* upstream of it.  (Otherwise what lies between the two closes a cycle.)
LEMMA UpstreamGrows ==
    ASSUME edges \in Flows, ~Single!Cyclic, NEW n \in Anywhere, NEW m \in Single!Targets(n)
    PROVE  Single!Upstream(n) \cup {n} \subseteq Single!Upstream(m)
<1>1. m \in FlowNode /\ m \in Anywhere
  BY TargetsTyped DEF Anywhere
<1>2. Ancestors(n) \subseteq Ancestors(m)
  <2>1. n \in Before(Ancestors(m))
    BY <1>1, AncestorsLeast DEF Before
  <2> QED
    BY <1>1, <2>1, AncestorsLeast
<1>3. m \notin Ancestors(n)
  <2> SUFFICES ASSUME m \in Ancestors(n) PROVE FALSE
    OBVIOUS
  <2> DEFINE between == {y \in Ancestors(n) : m \in Ancestors(y)}
  <2>1. m \in between
    BY <1>1, AncestorsLeast
  <2>2. Entry \notin between
    <3>1. Before({Entry}) = {} /\ Entry \in Anywhere
      BY TargetsTyped, FlowConstants DEF Before, Anywhere
    <3>2. Ancestors(Entry) \subseteq {Entry}
      BY <3>1, AncestorsLeast
    <3> QED
      BY <1>1, <3>2, FlowConstants
  <2>3. between \subseteq FlowNode
    BY <2>2, AncestorsLeast DEF Anywhere
  <2>4. ASSUME NEW y \in between
        PROVE  Single!Targets(y) \cap between # {}
    <3>1. CASE y = n
      BY <2>1, <3>1
    <3>2. CASE y # n
      <4> DEFINE S == Ancestors(n) \ {y}
      <4>1. y \in Anywhere /\ y \in Ancestors(n) /\ m \in Ancestors(y)
        BY AncestorsLeast
      <4>2. S \in SUBSET Anywhere /\ n \in S
        BY <3>2, AncestorsLeast
      <4>3. ~(Before(S) \subseteq S)
        BY <4>1, <4>2, AncestorsLeast
      <4>4. PICK x \in Before(S) : x \notin S
        BY <4>3
      <4>5. x \in Before(Ancestors(n))
        BY <4>4 DEF Before
      <4>6. x = y
        BY <4>4, <4>5, AncestorsLeast
      <4>7. PICK z \in S : z \in Single!Targets(y)
        BY <4>4, <4>6 DEF Before
      <4>8. z \in Ancestors(n) /\ z \in Anywhere
        BY <4>7, AncestorsLeast
      <4>9. y \in Before(Ancestors(z))
        BY <4>1, <4>7, <4>8, AncestorsLeast DEF Before
      <4>10. m \in Ancestors(z)
        BY <4>1, <4>8, <4>9, AncestorsLeast
      <4> QED
        BY <4>7, <4>8, <4>10
    <3> QED
      BY <3>1, <3>2
  <2> HIDE DEF between
  <2> QED
    BY <2>1, <2>3, <2>4 DEF Single!Cyclic
<1> QED
  BY <1>1, <1>2, <1>3, AncestorsLeast

\* The message of a lone node is a sequence by itself.
LEMMA SaidAlone ==
    ASSUME active \subseteq FlowNode, \A m, n \in active : m = n
    PROVE  Single!Said \in Seq(FlowNode) /\ On(Single!Said) \subseteq active
<1> DEFINE A == active \cap Speaker
           Sorted(s) == \A i, j \in DOMAIN s : i < j => Single!Position(s[i]) < Single!Position(s[j])
<1>1. A \in SUBSET FlowNode
  OBVIOUS
<1>2. \E s \in Single!Orders(A) : Sorted(s)
  <2>1. CASE A = {}
    <3>1. Single!Cardinality(A) = 0
      BY <1>1, <2>1, NodesFinite, FS_EmptySet
    <3>2. PICK s : s = [i \in 1..0 |-> i]
      OBVIOUS
    <3>3. s \in [1..0 -> A] /\ DOMAIN s = {}
      BY <3>2
    <3> QED
      BY <2>1, <3>1, <3>3 DEF Single!Orders
  <2>2. ASSUME NEW n, A = {n}
        PROVE  \E s \in Single!Orders(A) : Sorted(s)
    <3>1. Single!Cardinality(A) = 1
      BY <1>1, <2>2, NodesFinite, FS_Singleton
    <3>2. PICK s : s = [i \in 1..1 |-> n]
      OBVIOUS
    <3>3. s \in [1..1 -> A] /\ DOMAIN s = {1} /\ s[1] = n
      BY <2>2, <3>2
    <3> QED
      BY <2>2, <3>1, <3>3 DEF Single!Orders
  <2> QED
    BY <2>1, <2>2
<1>3. Single!Said \in Single!Orders(A)
  BY <1>2 DEF Single!Said
<1> HIDE DEF A
<1>4. Single!Said \in Seq(A) /\ On(Single!Said) = A
  BY <1>1, <1>3, OrderedElements
<1> QED
  BY <1>1, <1>4, SeqMonotonic DEF A

\* One node at a time, downstream of all that was executed and said before.
Following ==
    /\ step \in Nat
    /\ messages \in Seq(Anywhere) /\ messages # <<>>
    /\ \A m, n \in active : m = n
    /\ \A n \in active : On(messages) \subseteq Single!Upstream(n)

Ordered ==
    /\ \A x \in execution :
          /\ x.step \in Nat /\ x.step <= step
          /\ phase # "completed" /\ x.step = step => x.node \in ended
          /\ x.input \in Single!Upstream(x.node)
          /\ \A n \in active : x.node \in Single!Upstream(n) \/ (x.node = n /\ n \in ended)
    /\ \A x, y \in execution : x # y => x.node # y.node /\ x.step # y.step

PathInv ==
    /\ phase \notin Running => messages = <<Entry>> /\ step = 0
    /\ phase \in Running /\ Single!Unforked => Following /\ Ordered

LEMMA SameUpstream ==
    ASSUME UNCHANGED edges
    PROVE  /\ \A n : Single!Upstream(n)' = Single!Upstream(n)
           /\ Single!Unforked' = Single!Unforked
<1>1. \A n : Single!Targets(n)' = Single!Targets(n)
  BY SameFlow
<1>2. \A n : Single!Upstream(n)' = Single!Upstream(n)
  BY <1>1 DEF Single!Upstream
<1>3. Single!Unforked' = Single!Unforked
  BY <1>1 DEF Single!Unforked
<1> QED
  BY <1>2, <1>3

\* What does not fork leads to one node at most.
LEMMA UnforkedTargets ==
    ASSUME edges \in Flows, Single!Unforked, NEW n \in Anywhere \ Router
    PROVE  \A x, y \in Single!Targets(n) : x = y
<1>1. Single!Targets(n) \in SUBSET FlowNode
  BY TargetsTyped
<1>2. IsFiniteSet(Single!Targets(n)) /\ Cardinality(Single!Targets(n)) <= 1
  BY <1>1, NodesFinite DEF Single!Unforked, Anywhere
<1>3. ASSUME NEW x \in Single!Targets(n), NEW y \in Single!Targets(n), x # y
      PROVE  FALSE
  <2>1. IsFiniteSet({x}) /\ Cardinality({x}) = 1
    BY FS_Singleton
  <2>2. Cardinality({x, y}) = 2 /\ IsFiniteSet({x, y})
    <3>1. y \notin {x} /\ {x} \cup {y} = {x, y}
      BY <1>3
    <3> QED
      BY <2>1, <3>1, FS_AddElement
  <2>3. Cardinality({x, y}) <= Cardinality(Single!Targets(n))
    BY <1>2, <1>3, FS_Subset
  <2>4. Cardinality(Single!Targets(n)) \in Nat
    BY <1>2, FS_CardinalityType
  <2> QED
    BY <1>2, <2>2, <2>3, <2>4
<1> QED
  BY <1>3

LEMMA CompilePath ==
    ASSUME ShapeInv, RunInv, PathInv, Single!Compile
    PROVE  PathInv'
<1>1. /\ phase = "cycle" /\ phase' = "running" /\ step' = 1 /\ active' = Single!Targets(Entry)
      /\ UNCHANGED <<edges, messages, execution>> /\ edges \in Flows
      /\ messages = <<Entry>> /\ execution = {}
  BY DEF Single!Compile, PathInv, RunInv, RunShaped, Shaped, Running
<1> SUFFICES ASSUME Single!Unforked PROVE Following' /\ Ordered'
  BY <1>1, SameUpstream DEF PathInv, Running
<1>2. Entry \in Anywhere \ Router
  BY FlowConstants DEF Anywhere
<1>3. \A m, n \in active' : m = n
  BY <1>1, <1>2, UnforkedTargets
<1>4. ASSUME NEW n \in active'
      PROVE  Entry \in Single!Upstream(n)
  <2>1. n \in Anywhere /\ n # Entry
    BY <1>1, FlowConstants, TargetsTyped DEF Anywhere
  <2>2. Entry \in Before(Ancestors(n))
    BY <1>1, <1>2, <2>1, AncestorsLeast DEF Before
  <2> QED
    BY <2>1, <2>2, AncestorsLeast
<1>5. /\ messages \in Seq(Anywhere) /\ messages # <<>> /\ On(messages) = {Entry}
  <2>1. messages \in Seq(Anywhere) /\ DOMAIN messages = {1} /\ messages[1] = Entry
    BY <1>1 DEF Anywhere
  <2> QED
    BY <1>1, <2>1 DEF On
<1>6. Following'
  BY <1>1, <1>3, <1>4, <1>5, SameUpstream DEF Following, On
<1>7. Ordered'
  BY <1>1 DEF Ordered
<1> QED
  BY <1>6, <1>7

LEMMA NodeRunsPath ==
    ASSUME ShapeInv, RunInv, PathInv, NEW n \in FlowNode, Single!NodeEnds(n)
    PROVE  PathInv'
<1>1. PICK new : new = [node |-> n, step |-> step, input |-> Single!Input]
  OBVIOUS
<1>2. /\ phase \in {"running", "failed"} /\ n \in active /\ n \notin ended
      /\ ended' = ended \cup {n} /\ execution' = execution \cup {new}
      /\ UNCHANGED <<edges, phase, step, active, messages>>
      /\ new.node = n /\ new.step = step /\ new.input = Single!Input
  BY <1>1 DEF Single!NodeEnds
<1> SUFFICES ASSUME Single!Unforked PROVE Following' /\ Ordered'
  BY <1>2, SameUpstream DEF PathInv, Running
<1>3. Following /\ Ordered /\ ended \subseteq active
  BY <1>2 DEF PathInv, Running, RunInv, RunShaped
<1>4. \A x : Single!Upstream(x)' = Single!Upstream(x)
  BY <1>2, SameUpstream
<1>5. Following'
  BY <1>2, <1>3, <1>4 DEF Following, On
<1>6. Single!Input \in Single!Upstream(n)
  <2>1. Single!Input \in On(messages)
    BY <1>3, FrontAndLast DEF Following, Single!Input
  <2> QED
    BY <1>2, <1>3, <2>1 DEF Following
<1>7. ASSUME NEW x \in execution
      PROVE  x.node # n /\ x.step # step
  <2>1. n \notin Single!Upstream(n)
    BY DEF Single!Upstream
  <2>2. x.node \in Single!Upstream(n)
    BY <1>2, <1>3 DEF Ordered
  <2>3. x.node \notin ended
    BY <1>2, <1>3, <2>1, <2>2 DEF Following
  <2> QED
    BY <1>2, <1>3, <2>1, <2>2, <2>3 DEF Ordered
<1>8. Ordered'
  <2>1. ASSUME NEW x \in execution'
        PROVE  /\ x.step \in Nat /\ x.step <= step'
               /\ phase' # "completed" /\ x.step = step' => x.node \in ended'
               /\ x.input \in Single!Upstream(x.node)
               /\ \A m \in active' : x.node \in Single!Upstream(m) \/ (x.node = m /\ m \in ended')
    <3>1. CASE x \in execution
      BY <1>2, <1>3, <3>1 DEF Ordered
    <3>2. CASE x = new
      BY <1>2, <1>3, <1>6, <3>2 DEF Following
    <3> QED
      BY <1>2, <3>1, <3>2
  <2>2. ASSUME NEW x \in execution', NEW y \in execution', x # y
        PROVE  x.node # y.node /\ x.step # y.step
    <3>1. CASE x = new \/ y = new
      BY <1>2, <1>7, <2>2, <3>1
    <3>2. CASE x # new /\ y # new
      BY <1>2, <1>3, <2>2, <3>2 DEF Ordered
    <3> QED
      BY <3>1, <3>2
  <2> QED
    BY <1>4, <2>1, <2>2 DEF Ordered
<1> QED
  BY <1>5, <1>8

LEMMA StepRunsPath ==
    ASSUME ShapeInv, RunInv, PathInv, Single!StepEnds
    PROVE  PathInv'
<1>1. /\ phase = "running" /\ ended = active /\ ended' = {}
      /\ messages' = messages \o Single!Said
      /\ active' = UNION {Single!Triggered(n) : n \in active}
      /\ UNCHANGED <<edges, execution>>
      /\ \/ active' = {} /\ phase' = "completed" /\ step' = step
         \/ active' # {} /\ phase' = "running" /\ step' = step + 1
  BY DEF Single!StepEnds
<1> SUFFICES ASSUME Single!Unforked PROVE Following' /\ Ordered'
  BY <1>1, SameUpstream DEF PathInv, Running
<1>2. Following /\ Ordered /\ Shaped /\ RunShaped /\ active \subseteq FlowNode /\ edges \in Flows
  BY <1>1 DEF PathInv, Running, RunInv, RunShaped, Shaped
<1>3. ~Single!Cyclic
  BY <1>1 DEF ShapeInv, Single!ValidationExact
<1>4. \A x : Single!Upstream(x)' = Single!Upstream(x)
  BY <1>1, SameUpstream
<1>5. /\ messages' \in Seq(Anywhere) /\ messages' # <<>>
      /\ On(messages') \subseteq On(messages) \cup active
  <2>1. Single!Said \in Seq(FlowNode) /\ On(Single!Said) \subseteq active
    BY <1>2, SaidAlone DEF Following
  <2>2. Single!Said \in Seq(Anywhere)
    BY <2>1, SeqMonotonic DEF Anywhere
  <2>3. messages \in Seq(Anywhere) /\ messages # <<>>
    BY <1>2 DEF Following
  <2>4. messages \o Single!Said # <<>>
    BY <2>2, <2>3, ConcatEqualIffEmpty
  <2> QED
    BY <1>1, <2>1, <2>2, <2>3, <2>4, ConcatElements
<1>6. \A m, n \in active' : m = n
  <2>1. ASSUME NEW n \in active
        PROVE  \A x, y \in Single!Triggered(n) : x = y
    <3>1. CASE n \in Router
      BY <1>1, <1>2, <3>1, TriggeredTyped
    <3>2. CASE n \notin Router
      BY <1>1, <1>2, <3>2, TriggeredTyped, UnforkedTargets DEF Anywhere
    <3> QED
      BY <3>1, <3>2
  <2> QED
    BY <1>1, <1>2, <2>1 DEF Following
<1>7. ASSUME NEW m \in active'
      PROVE  /\ active \subseteq Single!Upstream(m)
             /\ \A n \in active : Single!Upstream(n) \subseteq Single!Upstream(m)
             /\ active # {}
  <2>1. PICK n \in active : m \in Single!Triggered(n)
    BY <1>1
  <2>2. m \in Single!Targets(n) /\ n \in Anywhere
    BY <1>1, <1>2, <2>1, TriggeredTyped DEF Anywhere
  <2>3. Single!Upstream(n) \cup {n} \subseteq Single!Upstream(m)
    BY <1>2, <1>3, <2>2, UpstreamGrows
  <2> QED
    BY <1>2, <2>3 DEF Following
<1>8. \A m \in active' : On(messages') \subseteq Single!Upstream(m)
  BY <1>2, <1>5, <1>7 DEF Following
<1>9. Following'
  <2>1. step' \in Nat
    BY <1>1, <1>2 DEF Following
  <2> QED
    BY <1>4, <1>5, <1>6, <1>8, <2>1 DEF Following, On
<1>10. Ordered'
  <2>1. ASSUME NEW x \in execution
        PROVE  /\ x.step \in Nat /\ x.step <= step' /\ x.input \in Single!Upstream(x.node)
               /\ phase' # "completed" => x.step # step'
               /\ \A m \in active' : x.node \in Single!Upstream(m)
    <3>1. x.step \in Nat /\ x.step <= step /\ step \in Nat /\ x.input \in Single!Upstream(x.node)
      BY <1>2 DEF Ordered, Following
    <3>2. /\ x.step <= step'
          /\ phase' # "completed" => x.step # step'
      BY <1>1, <3>1
    <3>3. ASSUME NEW m \in active'
          PROVE  x.node \in Single!Upstream(m)
      <4>1. PICK n \in active : TRUE
        BY <1>7, <3>3
      <4>2. x.node \in Single!Upstream(n) \/ x.node = n
        BY <1>2, <4>1 DEF Ordered
      <4> QED
        BY <1>7, <3>3, <4>1, <4>2
    <3> QED
      BY <3>1, <3>2, <3>3
  <2>2. \A x, y \in execution : x # y => x.node # y.node /\ x.step # y.step
    BY <1>2 DEF Ordered
  <2> QED
    BY <1>1, <1>4, <2>1, <2>2 DEF Ordered
<1> QED
  BY <1>9, <1>10

LEMMA PathStep ==
    ASSUME ShapeInv, RunInv, PathInv, [Single!Next]_singleVars
    PROVE  PathInv'
<1>1. CASE UNCHANGED <<edges, phase, step, active, ended, messages, execution>>
  BY <1>1, SameUpstream DEF PathInv, Following, Ordered, On
<1>2. CASE phase \notin Running /\ phase' \notin Running /\ UNCHANGED <<messages, step>>
  BY <1>2 DEF PathInv
<1>3. CASE \E n \in FlowNode : Single!NodeFails(n)
  <2>1. /\ phase \in {"running", "failed"} /\ phase' = "failed" /\ active' \subseteq active
        /\ UNCHANGED <<edges, step, ended, messages, execution>>
    BY <1>3 DEF Single!NodeFails
  <2>2. ASSUME Following, Ordered
        PROVE  Following' /\ Ordered'
    BY <2>1, <2>2, SameUpstream DEF Following, Ordered, On
  <2> QED
    BY <2>1, <2>2, SameUpstream DEF PathInv, Running
<1>4. CASE Single!NoWiredEntry \/ Single!ReachEnds \/ Single!CycleFound
  BY <1>2, <1>4
  DEF Single!NoWiredEntry, Single!ReachEnds, Single!CycleFound, Single!Rejected, Single!run, Running
<1>5. CASE Single!ReachPop \/ Single!VisitRoot \/ Single!VisitNext \/ Single!VisitEnds
  BY <1>1, <1>5
  DEF Single!ReachPop, Single!VisitRoot, Single!VisitNext, Single!VisitEnds, Single!run
<1>6. CASE \E n \in FlowNode : Single!NodeEnds(n)
  BY <1>6, NodeRunsPath
<1>7. CASE UNCHANGED singleVars
  BY <1>1, <1>7 DEF singleVars
<1> QED
  BY <1>3, <1>4, <1>5, <1>6, <1>7, CompilePath, StepRunsPath DEF Single!Next

\* A flow that forks only at routers runs one node at a time, none twice, each on
\* a message that was written upstream of it (compileFlow, compile-flow.ts).
THEOREM OnePathHolds == SpecAny => []OnePath
<1> DEFINE Inv == ShapeInv /\ RunInv /\ PathInv
<1>1. InitAny => Inv
  <2>1. Single!Init => PathInv
    BY DEF Single!Init, PathInv, Running
  <2> QED
    BY <2>1, ShapeInit, RunInit DEF InitAny
<1>2. Inv /\ [NextAny]_allVars => Inv'
  BY SingleSteps, ShapeStep, RunStep, PathStep
<1>3. Inv => OnePath
  BY DEF OnePath, Single!OnePath, PathInv, Ordered, RunInv, RunShaped
<1> QED
  BY <1>1, <1>2, <1>3, PTL DEF SpecAny

=============================================================================
