------------------------- MODULE ShellsBridgeProofs -------------------------
(***************************************************************************)
(* Proofs about ShellsBridge, for any number of sessions, sockets, runs    *)
(* and lines.  The slot is consistent because every way out of it is the   *)
(* settling of one prompt call or the end of the process; what is sent     *)
(* about a run is in order because only the run that owns a session gets   *)
(* its updates, and it owns nothing once its prompt has settled.  An       *)
(* update that strays to a later run comes from one that got no result,    *)
(* because a result is the last line the harness writes about a prompt.    *)
(***************************************************************************)
EXTENDS ShellsBridge, TLAPS

\* A process that has exited left no socket and no timer.
Left == phase = "exited" => ws = None /\ ~retry

\* What is sent about a run reads in order: its deltas are numbered upwards and
\* nothing follows a closing frame.
FrameOrder ==
    \A r \in RunId : \A i, j \in 1..Len(out[r]) : i < j =>
        /\ out[r][i].kind = "delta"
        /\ out[r][j].kind = "delta" => out[r][i].seq < out[r][j].seq

\* What it says of one stream.
Ordered(s) ==
    \A i, j \in 1..Len(s) : i < j =>
        /\ s[i].kind = "delta"
        /\ s[j].kind = "delta" => s[i].seq < s[j].seq

\* A stream of deltas, numbered up to n.
DeltasUpTo(s, n) == \A i \in 1..Len(s) : s[i].kind = "delta" /\ s[i].seq <= n

\* Runs are numbered in the order of their admission; a run that is not active
\* has no counter, one that is has sent deltas up to it and nothing else, and
\* one that was never admitted has sent nothing.
Numbered ==
    \A r \in RunId :
        /\ r > made => active[r] = None /\ out[r] = <<>>
        /\ active[r] = None => seq[r] = 0
        /\ active[r] # None => DeltasUpTo(out[r], seq[r])

\* The inductive invariant.
IInv ==
    /\ TypeOK
    /\ SlotConsistent
    /\ OneConnection
    /\ Left
    /\ Numbered
    /\ FrameOrder

-----------------------------------------------------------------------------
(* Shapes *)

\* None names no run and no session; runs are numbers.
LEMMA Names ==
  /\ None \notin RunId /\ None \notin Session /\ None \notin Socket
  /\ RunId \subseteq Nat
BY NoneAssumption, BoundAssumption DEF RunId

\* What a line carries.
LEMMA LineShape ==
  ASSUME NEW l \in Line
  PROVE  /\ l.run \in RunId
         /\ l.kind = "update" => l.session \in Session
         /\ l.kind # "update" => l.kind \in {"result", "failure"}
BY DEF Line

\* A frame appended to a stream of frames.
LEMMA Appended ==
  ASSUME NEW s \in Seq(Frame), NEW f \in Frame
  PROVE  /\ Append(s, f) \in Seq(Frame)
         /\ Len(Append(s, f)) = Len(s) + 1 /\ Len(s) \in Nat
         /\ \A i \in 1..Len(s) : Append(s, f)[i] = s[i]
         /\ Append(s, f)[Len(s) + 1] = f
OBVIOUS

\* A closing frame, or the next delta, after deltas.
LEMMA OrderedAppend ==
  ASSUME NEW s \in Seq(Frame), NEW f \in Frame, NEW n \in Nat, Ordered(s), DeltasUpTo(s, n),
         f.kind = "delta" => f.seq = n + 1
  PROVE  /\ Ordered(Append(s, f))
         /\ f.kind = "delta" => DeltasUpTo(Append(s, f), n + 1)
<1> DEFINE t == Append(s, f)
           m == Len(s)
<1>1. t \in Seq(Frame) /\ Len(t) = m + 1 /\ m \in Nat
  BY Appended
<1>2. \A i \in 1..m : t[i] = s[i]
  BY Appended
<1>3. t[m + 1] = f
  BY Appended
<1>4. \A i \in 1..m : s[i] \in Frame
  OBVIOUS
<1>5. \A i \in 1..m : s[i].kind = "delta" /\ s[i].seq <= n /\ s[i].seq \in Nat
  BY <1>4 DEF DeltasUpTo, Frame
<1> HIDE DEF t, m
<1>6. \A i \in 1..(m + 1) : i \in 1..m \/ i = m + 1
  BY <1>1
<1>7. Ordered(t)
  <2> SUFFICES ASSUME NEW i \in 1..(m + 1), NEW j \in 1..(m + 1), i < j
               PROVE  /\ t[i].kind = "delta"
                      /\ t[j].kind = "delta" => t[i].seq < t[j].seq
    BY <1>1 DEF Ordered
  <2>1. i \in 1..m
    BY <1>1
  <2>2. CASE j = m + 1
    <3>1. t[i].kind = "delta" /\ t[i].seq <= n /\ t[i].seq \in Nat
      BY <1>2, <1>5, <2>1
    <3>2. t[j] = f
      BY <1>3, <2>2
    <3> QED
      BY <3>1, <3>2
  <2>3. CASE j \in 1..m
    <3>1. s[i].kind = "delta" /\ (s[j].kind = "delta" => s[i].seq < s[j].seq)
      BY <2>1, <2>3 DEF Ordered, m
    <3> QED
      BY <1>2, <2>1, <2>3, <3>1
  <2> QED
    BY <1>6, <2>2, <2>3
<1>8. ASSUME f.kind = "delta" PROVE DeltasUpTo(t, n + 1)
  <2> SUFFICES ASSUME NEW i \in 1..(m + 1)
               PROVE  t[i].kind = "delta" /\ t[i].seq <= n + 1
    BY <1>1 DEF DeltasUpTo
  <2>1. CASE i \in 1..m
    <3>1. t[i].kind = "delta" /\ t[i].seq <= n /\ t[i].seq \in Nat
      BY <1>2, <1>5, <2>1
    <3> QED
      BY <3>1
  <2>2. CASE i = m + 1
    BY <1>3, <1>8, <2>2
  <2> QED
    BY <1>6, <2>1, <2>2
<1> QED
  BY <1>7, <1>8 DEF t

\* FrameOrder is about each stream on its own.
LEMMA FrameOrderOrdered == FrameOrder <=> \A r \in RunId : Ordered(out[r])
BY DEF FrameOrder, Ordered

\* The constructor and start().
LEMMA InitInvariant == Init => IInv
<1> SUFFICES ASSUME Init PROVE IInv
  OBVIOUS
<1> USE DEF Init, Nobody
<1>1. TypeOK
  <2>1. <<>> \in Seq(Line) /\ <<>> \in Seq(Frame) /\ 0 \in 0..MaxRuns
    BY BoundAssumption
  <2>2. /\ ws \in Socket \cup {None} /\ readyState \in [Socket -> ReadyState]
        /\ active \in [RunId -> Session \cup {None}]
        /\ sessionRun \in [Session -> RunId \cup {None}]
        /\ executing \in [RunId -> Session \cup {None}]
    BY DEF ReadyState
  <2> QED
    BY <2>1, <2>2 DEF TypeOK
<1>2. SlotConsistent
  BY Names DEF SlotConsistent, Active
<1>3. OneConnection /\ Left
  BY Names DEF OneConnection, Left, Up
<1>4. Numbered /\ FrameOrder
  BY DEF Numbered, FrameOrder, DeltasUpTo
<1> QED
  BY <1>1, <1>2, <1>3, <1>4 DEF IInv

-----------------------------------------------------------------------------
(* The connection *)

\* What only moves the connection leaves the runs alone.
LEMMA ConnectionOnly ==
  ASSUME IInv, UNCHANGED <<made, active, sessionRun, seq, prompts, out>>
  PROVE  SlotConsistent' /\ Numbered' /\ FrameOrder'
BY DEF IInv, SlotConsistent, Active, Numbered, FrameOrder

LEMMA ReconnectInvariant ==
  ASSUME IInv, Reconnect
  PROVE  IInv'
<1>1. UNCHANGED <<procVars, registering, beating, runVars, cancels, hostVars, out, strays>> /\ retry' = FALSE /\ retry
  BY DEF Reconnect
<1>2. SlotConsistent' /\ Numbered' /\ FrameOrder'
  BY <1>1, ConnectionOnly DEF runVars
<1>3. TypeOK'
  BY <1>1 DEF Reconnect, IInv, TypeOK, ReadyState, procVars, runVars, hostVars
<1>4. OneConnection' /\ Left'
  BY <1>1, Names DEF Reconnect, IInv, TypeOK, OneConnection, Left, Up, Alive, procVars
<1> QED
  BY <1>2, <1>3, <1>4 DEF IInv

LEMMA SocketInvariant ==
  ASSUME IInv, NEW s \in Socket,
         SocketOpens(s) \/ SocketCloses(s) \/ RegisterAccepted(s) \/ RegisterFails(s)
  PROVE  IInv'
<1>1. UNCHANGED <<procVars, runVars, cancels, hostVars, out, strays>>
  BY DEF SocketOpens, SocketCloses, RegisterAccepted, RegisterFails
<1>2. SlotConsistent' /\ Numbered' /\ FrameOrder'
  BY <1>1, ConnectionOnly DEF runVars
<1> USE DEF Closing
<1>3. TypeOK'
  <2>1. /\ ws' \in Socket \cup {None} /\ readyState' \in [Socket -> ReadyState]
        /\ retry' \in BOOLEAN /\ beating' \in BOOLEAN /\ registering' \subseteq Socket
    <3>1. CASE SocketOpens(s)
      BY <3>1 DEF SocketOpens, IInv, TypeOK, ReadyState
    <3>2. CASE SocketCloses(s)
      BY <3>2 DEF SocketCloses, IInv, TypeOK, ReadyState
    <3>3. CASE RegisterAccepted(s)
      BY <3>3 DEF RegisterAccepted, IInv, TypeOK, ReadyState
    <3>4. CASE RegisterFails(s)
      BY <3>4 DEF RegisterFails, IInv, TypeOK, ReadyState
    <3> QED
      BY <3>1, <3>2, <3>3, <3>4
  <2> QED
    BY <1>1, <2>1 DEF IInv, TypeOK, procVars, runVars, hostVars
<1>4. OneConnection' /\ Left'
  <2> USE DEF IInv, TypeOK, OneConnection, Left, Up, Alive, procVars
  <2>1. CASE SocketOpens(s)
    BY <2>1, Names DEF SocketOpens
  <2>2. CASE SocketCloses(s)
    BY <2>2, Names DEF SocketCloses
  <2>3. CASE RegisterAccepted(s)
    BY <2>3, Names DEF RegisterAccepted
  <2>4. CASE RegisterFails(s)
    BY <2>4, Names DEF RegisterFails
  <2> QED
    BY <2>1, <2>2, <2>3, <2>4
<1> QED
  BY <1>2, <1>3, <1>4 DEF IInv

-----------------------------------------------------------------------------
(* The runs *)

\* The run in the slot owns its session.
LEMMA Owns ==
  ASSUME IInv, NEW r \in Active
  PROVE  /\ r \in RunId /\ r \in prompts /\ active[r] \in Session
         /\ sessionRun[active[r]] = r
         /\ r <= made
         /\ Active = {r}
<1>1. r \in RunId /\ active[r] \in Session
  BY DEF Active, IInv, TypeOK
<1>2. made \in Nat /\ r \in Nat
  BY <1>1, Names, BoundAssumption DEF IInv, TypeOK
<1>3. ~(r > made)
  BY <1>1, Names DEF IInv, Numbered
<1>4. r \in prompts /\ Active = {r} /\ sessionRun[active[r]] = r
  BY <1>1 DEF IInv, SlotConsistent
<1> QED
  BY <1>1, <1>2, <1>3, <1>4

\* A session that is taken belongs to an active run.
LEMMA Owned ==
  ASSUME IInv, NEW s \in Session, sessionRun[s] # None
  PROVE  sessionRun[s] \in RunId /\ active[sessionRun[s]] = s /\ active[sessionRun[s]] # None
<1>1. sessionRun[s] \in RunId
  BY DEF IInv, TypeOK
<1>2. active[sessionRun[s]] = s
  BY <1>1 DEF IInv, SlotConsistent
<1> QED
  BY <1>1, <1>2, Names

\* What Settle, and the way a stream is closed, do to the runs in rs.
LEMMA SettleInvariant ==
  ASSUME IInv, NEW rs \in SUBSET prompts, NEW kind \in Terminal, Settle(rs, kind)
  PROVE  /\ prompts' \subseteq RunId /\ active' \in [RunId -> Session \cup {None}]
         /\ sessionRun' \in [Session -> RunId \cup {None}]
         /\ seq' \in [RunId -> Nat] /\ out' \in [RunId -> Seq(Frame)]
         /\ made' = made /\ strays' = strays
         /\ SlotConsistent' /\ Numbered' /\ FrameOrder'
         /\ \A r \in rs : out'[r] = IF Connected THEN Append(out[r], [kind |-> kind, seq |-> 0])
                                    ELSE out[r]
<1>1. rs \subseteq Active /\ Active \subseteq RunId /\ prompts = Active
  BY DEF IInv, SlotConsistent, Active
<1>2. /\ prompts' = prompts \ rs /\ made' = made /\ strays' = strays
      /\ \A r \in RunId : active'[r] = IF r \in rs THEN None ELSE active[r]
      /\ \A s \in Session : sessionRun'[s] = IF sessionRun[s] \in rs THEN None ELSE sessionRun[s]
      /\ \A r \in RunId : seq'[r] = IF r \in rs THEN 0 ELSE seq[r]
  BY DEF Settle, Release
<1>3. \A r \in RunId : out'[r] = IF r \in rs THEN Emitted(r, kind, 0) ELSE out[r]
  BY <1>1, Owns DEF Settle
<1>4. /\ prompts' \subseteq RunId /\ active' \in [RunId -> Session \cup {None}]
      /\ sessionRun' \in [Session -> RunId \cup {None}] /\ seq' \in [RunId -> Nat]
  BY <1>1 DEF IInv, TypeOK, Settle, Release
<1>5. [kind |-> kind, seq |-> 0] \in Frame
  BY DEF Frame
<1>6. out' \in [RunId -> Seq(Frame)]
  BY <1>3, <1>5 DEF Settle, Emitted, IInv, TypeOK
<1>7. SlotConsistent'
  <2>1. Active' = Active \ rs
    BY <1>2 DEF Active
  <2>2. \A r, q \in Active' : r = q
    BY <2>1 DEF IInv, SlotConsistent
  <2>3. ASSUME NEW r \in RunId, NEW s \in Session
        PROVE  active'[r] = s <=> sessionRun'[s] = r
    BY <1>2, Names DEF IInv, SlotConsistent
  <2> QED
    BY <1>1, <1>2, <2>1, <2>2, <2>3 DEF SlotConsistent
<1>8. Numbered'
  <2> SUFFICES ASSUME NEW r \in RunId
               PROVE  /\ r > made => active'[r] = None /\ out'[r] = <<>>
                      /\ active'[r] = None => seq'[r] = 0
                      /\ active'[r] # None => DeltasUpTo(out'[r], seq'[r])
    BY <1>2 DEF Numbered
  <2>1. CASE r \in rs
    <3>1. r <= made /\ made \in Nat /\ r \in Nat
      BY <1>1, <2>1, Owns, Names, BoundAssumption DEF IInv, TypeOK
    <3> QED
      BY <1>2, <2>1, <3>1
  <2>2. CASE r \notin rs
    BY <1>2, <1>3, <2>2 DEF IInv, Numbered
  <2> QED
    BY <2>1, <2>2
<1>9. FrameOrder'
  <2>1. ASSUME NEW r \in RunId PROVE Ordered(out'[r])
    <3>1. Ordered(out[r]) /\ out[r] \in Seq(Frame) /\ seq[r] \in Nat
      BY FrameOrderOrdered DEF IInv, TypeOK
    <3>2. CASE out'[r] = out[r]
      BY <3>1, <3>2
    <3>3. CASE out'[r] # out[r]
      <4>1. r \in rs /\ out'[r] = Append(out[r], [kind |-> kind, seq |-> 0])
        BY <1>3, <3>3 DEF Emitted
      <4>2. DeltasUpTo(out[r], seq[r])
        BY <1>1, <4>1 DEF IInv, Numbered, Active
      <4> QED
        BY <1>5, <3>1, <4>1, <4>2, OrderedAppend DEF Terminal
    <3> QED
      BY <3>2, <3>3
  <2> QED
    BY <2>1 DEF FrameOrder, Ordered
<1> QED
  BY <1>1, <1>2, <1>3, <1>4, <1>6, <1>7, <1>8, <1>9 DEF Emitted

\* Settling calls, with nothing about the connection or the process changed.
LEMMA SettlesOnly ==
  ASSUME IInv, NEW rs \in SUBSET prompts, NEW kind \in Terminal, Settle(rs, kind),
         UNCHANGED <<phase, connVars, harness, executing, updates>>,
         harnessRunning' \in BOOLEAN, fatal' \in BOOLEAN, cancels' \subseteq RunId,
         stdout' \in Seq(Line)
  PROVE  IInv'
<1>1. /\ prompts' \subseteq RunId /\ active' \in [RunId -> Session \cup {None}]
      /\ sessionRun' \in [Session -> RunId \cup {None}]
      /\ seq' \in [RunId -> Nat] /\ out' \in [RunId -> Seq(Frame)]
      /\ made' = made /\ strays' = strays
      /\ SlotConsistent' /\ Numbered' /\ FrameOrder'
  BY SettleInvariant
<1>2. TypeOK'
  BY <1>1 DEF IInv, TypeOK, connVars
<1>3. OneConnection' /\ Left'
  BY DEF IInv, OneConnection, Left, Up, connVars
<1> QED
  BY <1>1, <1>2, <1>3 DEF IInv

\* Only calls, the harness and what it wrote change: the slot and the
\* connection do not.
LEMMA SlotOnly ==
  ASSUME IInv, UNCHANGED <<procVars, connVars, runVars, out, strays>>,
         cancels' \subseteq RunId, harness' \in {"running", "dead"},
         executing' \in [RunId -> Session \cup {None}], stdout' \in Seq(Line),
         updates' \in [RunId -> Nat]
  PROVE  IInv'
<1>1. SlotConsistent' /\ Numbered' /\ FrameOrder'
  BY ConnectionOnly DEF runVars
<1>2. TypeOK'
  BY DEF IInv, TypeOK, procVars, connVars, runVars
<1>3. OneConnection' /\ Left'
  BY DEF IInv, OneConnection, Left, Up, procVars, connVars
<1> QED
  BY <1>1, <1>2, <1>3 DEF IInv

LEMMA InvokeInvariant ==
  ASSUME IInv, NEW s \in Session, Invoke(s)
  PROVE  IInv'
<1> DEFINE r == made + 1
<1>1. /\ Active = {} /\ made' = r /\ active' = [active EXCEPT ![r] = s]
      /\ sessionRun' = [sessionRun EXCEPT ![s] = r]
      /\ prompts' = prompts \cup {r}
      /\ executing' = IF harness = "running" THEN [executing EXCEPT ![r] = s] ELSE executing
      /\ UNCHANGED <<procVars, connVars, seq, cancels, harness, stdout, updates, out, strays>>
  BY DEF Invoke
<1>2. r \in RunId /\ r \in 0..MaxRuns /\ made \in Nat
  BY BoundAssumption DEF Invoke, IInv, TypeOK, RunId
<1>3. TypeOK'
  BY <1>1, <1>2 DEF IInv, TypeOK, procVars, connVars
<1>4. \A q \in RunId : active[q] = None
  BY <1>1 DEF Active
<1>5. prompts = {} /\ \A t \in Session : sessionRun[t] = None
  <2>1. prompts = {}
    BY <1>1 DEF IInv, SlotConsistent
  <2> QED
    BY <1>4, <2>1, Owned
<1>6. /\ \A q \in RunId : active'[q] = IF q = r THEN s ELSE None
      /\ \A t \in Session : sessionRun'[t] = IF t = s THEN r ELSE None
  BY <1>1, <1>4, <1>5 DEF IInv, TypeOK
<1>7. SlotConsistent'
  <2>1. Active' = {r}
    BY <1>2, <1>6, Names DEF Active
  <2> QED
    BY <1>1, <1>2, <1>5, <1>6, <2>1, Names DEF SlotConsistent
<1>8. out[r] = <<>>
  BY <1>2 DEF IInv, Numbered
<1>9. Numbered'
  <2> SUFFICES ASSUME NEW q \in RunId
               PROVE  /\ q > made' => active'[q] = None /\ out'[q] = <<>>
                      /\ active'[q] = None => seq'[q] = 0
                      /\ active'[q] # None => DeltasUpTo(out'[q], seq'[q])
    BY DEF Numbered
  <2>1. q \in Nat /\ UNCHANGED <<seq, out>>
    BY <1>1, Names
  <2>2. CASE q = r
    BY <1>1, <1>2, <1>6, <1>8, <2>1, <2>2, Names DEF DeltasUpTo
  <2>3. CASE q # r
    <3>1. q > made' => q > made
      BY <1>1, <1>2, <2>1
    <3> QED
      BY <1>4, <1>6, <2>1, <2>3, <3>1 DEF IInv, Numbered
  <2> QED
    BY <2>2, <2>3
<1>10. FrameOrder' /\ OneConnection' /\ Left'
  BY <1>1 DEF IInv, FrameOrder, OneConnection, Left, Up, procVars, connVars
<1> QED
  BY <1>3, <1>7, <1>9, <1>10 DEF IInv

LEMMA PromptTimeoutInvariant ==
  ASSUME IInv, NEW r \in RunId, PromptTimeout(r)
  PROVE  IInv'
BY SettlesOnly DEF PromptTimeout, procVars, hostVars, IInv, TypeOK, Terminal

LEMMA ReadResponseInvariant ==
  ASSUME IInv, ReadResponse
  PROVE  IInv'
<1> DEFINE l == Head(stdout)
<1>1. l \in Line /\ stdout' \in Seq(Line)
  BY DEF ReadResponse, IInv, TypeOK
<1>2. CASE l.run \in prompts
  BY <1>1, <1>2, SettlesOnly DEF ReadResponse, procVars, IInv, TypeOK, Terminal
<1>3. CASE l.run \notin prompts
  BY <1>1, <1>3, SlotOnly DEF ReadResponse, IInv, TypeOK
<1> QED
  BY <1>2, <1>3

\* An active run gets its next delta, or it is lost.
LEMMA DeltaInvariant ==
  ASSUME IInv, NEW r \in RunId, active[r] # None,
         seq' = [seq EXCEPT ![r] = @ + 1],
         out' = [out EXCEPT ![r] = IF Connected THEN Append(@, [kind |-> "delta", seq |-> seq[r] + 1])
                                   ELSE @],
         UNCHANGED <<procVars, connVars, made, active, sessionRun, prompts, cancels,
                     harness, executing, updates>>,
         stdout' \in Seq(Line), strays' \subseteq RunId \X RunId
  PROVE  IInv'
<1> DEFINE f == [kind |-> "delta", seq |-> seq[r] + 1]
<1>1. seq[r] \in Nat /\ out[r] \in Seq(Frame) /\ made \in Nat /\ r \in Nat
  BY Names, BoundAssumption DEF IInv, TypeOK
<1>2. f \in Frame /\ f.kind = "delta" /\ f.seq = seq[r] + 1
  BY <1>1 DEF Frame
<1>3. /\ \A q \in RunId : q # r => seq'[q] = seq[q] /\ out'[q] = out[q]
      /\ seq'[r] = seq[r] + 1
      /\ out'[r] = IF Connected THEN Append(out[r], f) ELSE out[r]
  BY DEF IInv, TypeOK
<1>4. TypeOK'
  <2>1. Append(out[r], f) \in Seq(Frame)
    BY <1>1, <1>2, Appended
  <2>2. seq' \in [RunId -> Nat] /\ out' \in [RunId -> Seq(Frame)]
    BY <1>1, <2>1 DEF IInv, TypeOK
  <2> QED
    BY <2>2 DEF IInv, TypeOK, procVars, connVars
<1>5. SlotConsistent' /\ OneConnection' /\ Left'
  BY DEF IInv, SlotConsistent, Active, OneConnection, Left, Up, procVars, connVars
<1>6. Ordered(out[r]) /\ DeltasUpTo(out[r], seq[r])
  BY FrameOrderOrdered DEF IInv, Numbered
<1>7. Ordered(out'[r]) /\ DeltasUpTo(out'[r], seq'[r])
  <2>1. CASE Connected
    BY <1>1, <1>2, <1>3, <1>6, <2>1, OrderedAppend
  <2>2. CASE ~Connected
    <3>1. \A i \in 1..Len(out[r]) : out[r][i] \in Frame
      BY <1>1
    <3>2. \A i \in 1..Len(out[r]) : out[r][i].seq \in Nat
      BY <3>1 DEF Frame
    <3>3. out'[r] = out[r] /\ seq'[r] = seq[r] + 1
      BY <1>3, <2>2
    <3> QED
      BY <1>1, <1>6, <3>2, <3>3 DEF DeltasUpTo
  <2> QED
    BY <2>1, <2>2
<1>8. Numbered'
  <2>1. ~(r > made)
    BY DEF IInv, Numbered
  <2> SUFFICES ASSUME NEW q \in RunId
               PROVE  /\ q > made => active[q] = None /\ out'[q] = <<>>
                      /\ active[q] = None => seq'[q] = 0
                      /\ active[q] # None => DeltasUpTo(out'[q], seq'[q])
    BY DEF Numbered
  <2>2. CASE q = r
    BY <1>7, <2>1, <2>2
  <2>3. CASE q # r
    BY <1>3, <2>3 DEF IInv, Numbered
  <2> QED
    BY <2>2, <2>3
<1>9. FrameOrder'
  <2>1. ASSUME NEW q \in RunId PROVE Ordered(out'[q])
    BY <1>3, <1>7, FrameOrderOrdered DEF IInv
  <2> QED
    BY <2>1 DEF FrameOrder, Ordered
<1> QED
  BY <1>4, <1>5, <1>8, <1>9 DEF IInv

\* An update goes to the run that owns the session, which is active.
LEMMA ReadUpdateInvariant ==
  ASSUME IInv, ReadUpdate
  PROVE  IInv'
<1>1. Head(stdout) \in Line /\ stdout' \in Seq(Line) /\ Head(stdout).kind = "update"
  BY DEF ReadUpdate, IInv, TypeOK
<1>2. PICK s \in Session : s = Head(stdout).session
  BY <1>1, LineShape
<1>3. UNCHANGED <<procVars, connVars, made, active, sessionRun, prompts, cancels,
                  harness, executing, updates>>
  BY DEF ReadUpdate
<1>4. CASE sessionRun[s] = None
  BY <1>1, <1>2, <1>3, <1>4, SlotOnly DEF ReadUpdate, runVars, IInv, TypeOK
<1>5. CASE sessionRun[s] # None
  <2>1. PICK r \in RunId : r = sessionRun[s] /\ active[r] # None
    BY <1>5, Owned
  <2>2. /\ seq' = [seq EXCEPT ![r] = @ + 1]
        /\ out' = [out EXCEPT ![r] = Emitted(r, "delta", seq[r] + 1)]
    BY <1>2, <1>5, <2>1 DEF ReadUpdate
  <2>3. out' = [out EXCEPT ![r] = IF Connected
                                  THEN Append(@, [kind |-> "delta", seq |-> seq[r] + 1]) ELSE @]
    BY <2>2 DEF Emitted, IInv, TypeOK
  <2>4. strays' \subseteq RunId \X RunId
    <3>1. strays' \subseteq strays \cup {<<Head(stdout).run, r>>}
      BY <1>2, <1>5, <2>1 DEF ReadUpdate
    <3>2. Head(stdout).run \in RunId
      BY <1>1, LineShape
    <3> QED
      BY <3>1, <3>2 DEF IInv, TypeOK
  <2> QED
    BY <1>1, <1>3, <2>1, <2>2, <2>3, <2>4, DeltaInvariant
<1> QED
  BY <1>4, <1>5

-----------------------------------------------------------------------------
(* The harness and the process *)

LEMMA HarnessInvariant ==
  ASSUME IInv, HarnessDies \/ \E r \in RunId : HarnessUpdates(r) \/ HarnessAnswers(r)
  PROVE  IInv'
<1>1. CASE HarnessDies
  <2>1. Nobody \in [RunId -> Session \cup {None}]
    BY DEF Nobody
  <2> QED
    BY <1>1, <2>1, SlotOnly DEF HarnessDies, IInv, TypeOK
<1>2. ASSUME NEW r \in RunId, HarnessUpdates(r)
      PROVE  IInv'
  <2>1. executing[r] \in Session
    BY <1>2 DEF HarnessUpdates, Executing, IInv, TypeOK
  <2>2. [kind |-> "update", run |-> r, session |-> executing[r]] \in Line
    BY <2>1 DEF Line
  <2>3. stdout' \in Seq(Line)
    BY <1>2, <2>2 DEF HarnessUpdates, IInv, TypeOK
  <2>4. updates' \in [RunId -> Nat]
    BY <1>2 DEF HarnessUpdates, IInv, TypeOK
  <2>5. UNCHANGED <<procVars, connVars, runVars, cancels, harness, executing, out, strays>>
    BY <1>2 DEF HarnessUpdates
  <2> QED
    BY <2>3, <2>4, <2>5, SlotOnly DEF IInv, TypeOK
<1>3. ASSUME NEW r \in RunId, HarnessAnswers(r)
      PROVE  IInv'
  <2>1. \A k \in {"result", "failure"} : [kind |-> k, run |-> r] \in Line
    BY DEF Line
  <2> QED
    BY <1>3, <2>1, SlotOnly, SMTT(30) DEF HarnessAnswers, IInv, TypeOK
<1> QED
  BY <1>1, <1>2, <1>3

LEMMA CancelInvariant ==
  ASSUME IInv, NEW r \in RunId, Cancel(r) \/ CancelSettles(r)
  PROVE  IInv'
BY SlotOnly DEF Cancel, CancelSettles, hostVars, IInv, TypeOK

\* The process is gone, whatever it was doing.
LEMMA GoneInvariant ==
  ASSUME IInv, Gone
  PROVE  IInv'
<1> USE DEF Gone, Nobody
<1>1. TypeOK'
  <2>1. <<>> \in Seq(Line)
    OBVIOUS
  <2> QED
    BY <2>1 DEF IInv, TypeOK, ReadyState
<1>2. SlotConsistent'
  BY Names DEF SlotConsistent, Active
<1>3. OneConnection' /\ Left'
  BY DEF OneConnection, Left, Up
<1>4. Numbered' /\ FrameOrder'
  BY DEF IInv, Numbered, FrameOrder
<1> QED
  BY <1>1, <1>2, <1>3, <1>4 DEF IInv

LEMMA HarnessExitSeenInvariant ==
  ASSUME IInv, HarnessExitSeen
  PROVE  IInv'
<1>1. CASE Up /\ ~Connected
  BY <1>1, GoneInvariant DEF HarnessExitSeen
<1>2. CASE ~(Up /\ ~Connected)
  <2>1. /\ harnessRunning' = FALSE /\ fatal' = Up /\ Settle(prompts, "error") /\ cancels' = {}
        /\ UNCHANGED <<phase, connVars, hostVars>>
    BY <1>2 DEF HarnessExitSeen
  <2>2. fatal' \in BOOLEAN
    BY <2>1 DEF Up
  <2> QED
    BY <2>1, <2>2, SettlesOnly DEF hostVars, IInv, TypeOK, Terminal
<1> QED
  BY <1>1, <1>2

LEMMA ShutdownInvariant ==
  ASSUME IInv, Shutdown
  PROVE  IInv'
<1>1. SlotConsistent' /\ Numbered' /\ FrameOrder'
  BY ConnectionOnly DEF Shutdown, runVars
<1>2. TypeOK'
  BY DEF Shutdown, Closing, runVars, hostVars, IInv, TypeOK, ReadyState
<1>3. OneConnection' /\ Left'
  BY DEF Shutdown, Closing, Up, IInv, TypeOK, OneConnection, Left
<1> QED
  BY <1>1, <1>2, <1>3 DEF IInv

LEMMA RestartInvariant ==
  ASSUME IInv, Restart
  PROVE  IInv'
<1>1. SlotConsistent' /\ Numbered' /\ FrameOrder'
  BY ConnectionOnly DEF Restart, runVars
<1>2. TypeOK'
  BY DEF Restart, runVars, IInv, TypeOK, ReadyState
<1>3. OneConnection' /\ Left'
  BY Names DEF Restart, Up, IInv, TypeOK, OneConnection, Left
<1> QED
  BY <1>1, <1>2, <1>3 DEF IInv

-----------------------------------------------------------------------------

\* Every step of the bridge keeps the inductive invariant.
THEOREM StepInvariant ==
  ASSUME IInv, [Next]_vars
  PROVE  IInv'
<1>1. CASE UNCHANGED vars
  BY <1>1, SlotOnly DEF vars, hostVars, IInv, TypeOK
<1>2. CASE Reconnect
  BY <1>2, ReconnectInvariant
<1>3. CASE \E s \in Socket :
         SocketOpens(s) \/ SocketCloses(s) \/ RegisterAccepted(s) \/ RegisterFails(s)
  BY <1>3, SocketInvariant
<1>4. CASE \E s \in Session : Invoke(s)
  BY <1>4, InvokeInvariant
<1>5. CASE \E r \in RunId : Cancel(r) \/ CancelSettles(r)
  BY <1>5, CancelInvariant
<1>6. CASE \E r \in RunId : PromptTimeout(r)
  BY <1>6, PromptTimeoutInvariant
<1>7. CASE HarnessDies \/ \E r \in RunId : HarnessUpdates(r) \/ HarnessAnswers(r)
  BY <1>7, HarnessInvariant
<1>8. CASE ReadUpdate \/ ReadResponse
  BY <1>8, ReadUpdateInvariant, ReadResponseInvariant
<1>9. CASE HarnessExitSeen
  BY <1>9, HarnessExitSeenInvariant
<1>10. CASE FatalSettles \/ ShutdownDone \/ Crash
  BY <1>10, GoneInvariant DEF FatalSettles, ShutdownDone, Crash
<1>11. CASE Shutdown \/ Restart
  BY <1>11, ShutdownInvariant, RestartInvariant
<1> QED
  BY <1>1, <1>2, <1>3, <1>4, <1>5, <1>6, <1>7, <1>8, <1>9, <1>10, <1>11 DEF Next

\* The inductive invariant holds in every reachable state.
THEOREM Invariant == Spec => []IInv
BY InitInvariant, StepInvariant, PTL DEF Spec

\* Every variable keeps its shape.
THEOREM TypeCorrect == Spec => []TypeOK
<1>1. IInv => TypeOK
  BY DEF IInv
<1> QED
  BY <1>1, Invariant, PTL

\* The slot holds one run at most, exactly while its prompt is pending, and the
\* two maps agree about it.
THEOREM SlotHolds == Spec => []SlotConsistent
<1>1. IInv => SlotConsistent
  BY DEF IInv
<1> QED
  BY <1>1, Invariant, PTL

\* What is sent about a run reads in order and ends with at most one final frame.
THEOREM FramesOrdered == Spec => []FrameOrder
<1>1. IInv => FrameOrder
  BY DEF IInv
<1> QED
  BY <1>1, Invariant, PTL

\* The bridge has one connection, and a timer or a socket while it is up.
THEOREM OneConnectionHolds == Spec => []OneConnection
<1>1. IInv => OneConnection
  BY DEF IInv
<1> QED
  BY <1>1, Invariant, PTL

\* A run leaves the slot by the settling of its prompt, with its closing frame
\* if anybody is connected, or with the process.
LEMMA SettledAnnounced ==
  ASSUME IInv, NEW rs \in SUBSET prompts, NEW kind \in Terminal, Settle(rs, kind),
         NEW r \in Active, active'[r] # active[r]
  PROVE  /\ r \in prompts /\ r \notin prompts'
         /\ Connected => out'[r] = Append(out[r], [kind |-> kind, seq |-> 0])
<1>1. r \in RunId /\ r \in prompts
  BY Owns
<1>2. r \in rs /\ r \notin prompts'
  BY <1>1 DEF Settle, Release
<1> QED
  BY <1>1, <1>2, SettleInvariant, ZenonT(60)

THEOREM ReleasesAnnounced == Spec => ReleaseAnnounced
<1> DEFINE Announced(r) ==
      \/ phase' = "exited"
      \/ /\ r \in prompts /\ r \notin prompts'
         /\ Connected => \E kind \in Terminal :
               out'[r] = Append(out[r], [kind |-> kind, seq |-> 0])
<1>1. ASSUME IInv, Next, NEW r \in Active, active'[r] # active[r]
      PROVE  Announced(r)
  <2>1. ASSUME NEW rs \in SUBSET prompts, NEW kind \in Terminal, Settle(rs, kind)
        PROVE  Announced(r)
    BY <1>1, <2>1, SettledAnnounced
  <2>2. prompts \subseteq prompts /\ "error" \in Terminal /\ "final" \in Terminal
    BY DEF Terminal
  <2>3. CASE \E q \in RunId : PromptTimeout(q)
    BY <2>1, <2>2, <2>3 DEF PromptTimeout
  <2>4. CASE ReadResponse
    <3>1. Head(stdout).run \in prompts
      BY <1>1, <2>4 DEF ReadResponse, runVars
    <3> QED
      BY <2>1, <2>2, <2>4, <3>1 DEF ReadResponse
  <2>5. CASE HarnessExitSeen
    BY <2>1, <2>2, <2>5 DEF HarnessExitSeen, Gone
  <2>6. CASE FatalSettles \/ ShutdownDone \/ Crash
    BY <2>6 DEF FatalSettles, ShutdownDone, Crash, Gone
  <2>7. CASE \E s \in Session : Invoke(s)
    BY <1>1, <2>7 DEF Invoke
  <2>8. active' = active \/ ~( \/ Reconnect
                               \/ \E s \in Socket : \/ SocketOpens(s) \/ SocketCloses(s)
                                                    \/ RegisterAccepted(s) \/ RegisterFails(s)
                               \/ \E q \in RunId : \/ Cancel(q) \/ CancelSettles(q)
                                                   \/ HarnessUpdates(q) \/ HarnessAnswers(q)
                               \/ ReadUpdate \/ HarnessDies \/ Shutdown \/ Restart)
    BY DEF Reconnect, SocketOpens, SocketCloses, RegisterAccepted, RegisterFails, Cancel,
       CancelSettles, HarnessUpdates, HarnessAnswers, ReadUpdate, HarnessDies, Shutdown, Restart,
       runVars
  <2> QED
    BY <1>1, <2>3, <2>4, <2>5, <2>6, <2>7, <2>8 DEF Next
<1>2. IInv /\ [Next]_vars =>
        [\A r \in Active : active'[r] # active[r] => Announced(r)]_vars
  BY <1>1
<1> QED
  BY <1>2, Invariant, PTL DEF Spec, ReleaseAnnounced

-----------------------------------------------------------------------------
(* Updates that stray *)

\* A line that answers the prompt of o.
Response(l, o) == l.kind # "update" /\ l.run = o

\* The run in the slot is the last one admitted.
LastAdmitted == \A r \in Active : r = made

\* A prompt the harness is working on has been admitted, and has no result and
\* no answer.
Unanswered ==
    \A o \in Executing :
        /\ o <= made /\ ~Finished(o)
        /\ \A i \in 1..Len(stdout) : ~Response(stdout[i], o)

\* A line that is not yet read is about a run that has no result, and nothing
\* about a run follows its answer.
LinesPending ==
    /\ \A i \in 1..Len(stdout), o \in RunId :
          stdout[i].run = o => o <= made /\ ~Finished(o)
    /\ \A i, j \in 1..Len(stdout) :
          i < j => ~\E o \in RunId : Response(stdout[i], o) /\ stdout[j].run = o

\* An update strays from an earlier run to one that has been admitted.
Strayed == \A o, r \in RunId : <<o, r>> \in strays => o < r /\ r <= made /\ ~Finished(o)

\* The inductive invariant of StraysUnfinished.
Heard == LastAdmitted /\ Unanswered /\ LinesPending /\ Strayed

\* The streams that a settling extends, and the slot it empties.
LEMMA SettleFrames ==
  ASSUME IInv, NEW rs \in SUBSET prompts, NEW kind \in Terminal, Settle(rs, kind)
  PROVE  /\ Active' = Active \ rs /\ made' = made /\ strays' = strays
         /\ \A o \in RunId : Finished(o)' => Finished(o) \/ (kind = "final" /\ o \in rs)
<1>1. \A r \in RunId : active'[r] = IF r \in rs THEN None ELSE active[r]
  BY DEF Settle, Release
<1>2. rs \subseteq Active
  BY DEF IInv, SlotConsistent
<1>3. \A r \in RunId : out'[r] = IF r \in rs THEN Emitted(r, kind, 0) ELSE out[r]
  BY <1>2, Owns DEF Settle
<1>4. ASSUME NEW o \in RunId, Finished(o)', ~Finished(o)
      PROVE  kind = "final" /\ o \in rs
  <2> DEFINE f == [kind |-> kind, seq |-> 0]
  <2>1. out[o] \in Seq(Frame) /\ f \in Frame
    BY DEF IInv, TypeOK, Frame
  <2>2. o \in rs /\ out'[o] = Append(out[o], f)
    BY <1>3, <1>4 DEF Emitted, Finished
  <2>3. PICK i \in 1..Len(out'[o]) : out'[o][i].kind = "final"
    BY <1>4 DEF Finished
  <2>4. f.kind = kind
    OBVIOUS
  <2> HIDE DEF f
  <2>5. CASE i \in 1..Len(out[o])
    <3>1. out'[o][i] = out[o][i]
      BY <2>1, <2>2, <2>5, Appended
    <3> QED
      BY <1>4, <2>3, <2>5, <3>1 DEF Finished
  <2>6. CASE i \notin 1..Len(out[o])
    <3>1. i = Len(out[o]) + 1
      BY <2>1, <2>2, <2>6, Appended
    <3>2. out'[o][i] = f
      BY <2>1, <2>2, <3>1, Appended
    <3> QED
      BY <2>2, <2>3, <2>4, <3>2
  <2> QED
    BY <2>5, <2>6
<1> QED
  BY <1>1, <1>2, <1>4 DEF Active, Settle

\* A step after which no run is new, no prompt is, no line is, and no result.
LEMMA HeardKept ==
  ASSUME Heard, UNCHANGED <<made, strays>>, Active' \subseteq Active,
         Executing' \subseteq Executing, stdout' = stdout \/ stdout' = <<>>,
         \A o \in RunId : Finished(o)' => Finished(o),
         stdout \in Seq(Line)
  PROVE  Heard'
<1>1. \A i \in 1..Len(stdout') : i \in 1..Len(stdout) /\ stdout'[i] = stdout[i]
  OBVIOUS
<1>2. \A i \in 1..Len(stdout) : stdout[i].run \in RunId
  BY LineShape
<1>3. LastAdmitted'
  BY DEF Heard, LastAdmitted
<1>4. Unanswered'
  BY <1>1 DEF Heard, Unanswered, Executing, Response
<1>5. LinesPending'
  BY <1>1, <1>2 DEF Heard, LinesPending, Response
<1>6. Strayed'
  BY DEF Heard, Strayed
<1> QED
  BY <1>3, <1>4, <1>5, <1>6 DEF Heard

\* What is left to read once the first line has been.
LEMMA TailLine ==
  ASSUME NEW s \in Seq(Line), s # <<>>
  PROVE  /\ Len(s) \in Nat /\ 1 \in 1..Len(s) /\ Head(s) = s[1]
         /\ \A i \in 1..Len(Tail(s)) : i + 1 \in 1..Len(s) /\ Tail(s)[i] = s[i + 1]
OBVIOUS

\* What is there to read once a line has been written.
LEMMA AppendedLine ==
  ASSUME NEW s \in Seq(Line), NEW l \in Line
  PROVE  /\ Len(s) \in Nat
         /\ \A i \in 1..Len(Append(s, l)) :
               \/ i \in 1..Len(s) /\ Append(s, l)[i] = s[i]
               \/ i = Len(s) + 1 /\ Append(s, l)[i] = l
OBVIOUS

\* The first line has been read: of what is left, nothing is new.
LEMMA TailPending ==
  ASSUME IInv, Heard, stdout # <<>>, stdout' = Tail(stdout), made' = made,
         executing' = executing,
         \A o \in RunId : Finished(o)' => Finished(o) \/ Response(Head(stdout), o)
  PROVE  Unanswered' /\ LinesPending'
<1>1. stdout \in Seq(Line)
  BY DEF IInv, TypeOK
<1>2. /\ Len(stdout) \in Nat /\ 1 \in 1..Len(stdout) /\ Head(stdout) = stdout[1]
      /\ \A i \in 1..Len(stdout') : i + 1 \in 1..Len(stdout) /\ stdout'[i] = stdout[i + 1]
  BY <1>1, TailLine
<1>3. \A i \in 1..Len(stdout') : i \in Nat /\ 1 < i + 1
  BY <1>1
<1>4. Unanswered'
  <2> SUFFICES ASSUME NEW o \in Executing
               PROVE  /\ o <= made /\ ~Finished(o)'
                      /\ \A i \in 1..Len(stdout') : ~Response(stdout'[i], o)
    BY DEF Unanswered, Executing, Response
  <2>1. o \in RunId /\ o <= made /\ ~Finished(o)
    BY DEF Heard, Unanswered, Executing
  <2>2. \A i \in 1..Len(stdout) : ~Response(stdout[i], o)
    BY DEF Heard, Unanswered
  <2> QED
    BY <1>2, <2>1, <2>2
<1>5. LinesPending'
  <2>1. ASSUME NEW i \in 1..Len(stdout'), NEW o \in RunId, stdout'[i].run = o
        PROVE  o <= made /\ ~Finished(o)'
    <3>1. i + 1 \in 1..Len(stdout) /\ stdout[i + 1].run = o
      BY <1>2, <2>1
    <3>2. o <= made /\ ~Finished(o)
      BY <3>1 DEF Heard, LinesPending
    <3>3. ~Response(Head(stdout), o)
      BY <1>2, <1>3, <3>1 DEF Heard, LinesPending
    <3> QED
      BY <3>2, <3>3
  <2>2. ASSUME NEW i \in 1..Len(stdout'), NEW j \in 1..Len(stdout'), i < j, NEW o \in RunId,
               Response(stdout'[i], o)
        PROVE  stdout'[j].run # o
    <3>1. i + 1 \in 1..Len(stdout) /\ j + 1 \in 1..Len(stdout) /\ i + 1 < j + 1
      BY <1>2, <1>3, <2>2
    <3>2. stdout'[i] = stdout[i + 1] /\ stdout'[j] = stdout[j + 1]
      BY <1>2
    <3> QED
      BY <2>2, <3>1, <3>2 DEF Heard, LinesPending
  <2> QED
    BY <1>2, <2>1, <2>2 DEF LinesPending, Response
<1> QED
  BY <1>4, <1>5

\* A result is sent when it is the first line: the run in the slot got it, and
\* nothing strays from that run.
LEMMA ReadResponseHeard ==
  ASSUME IInv, Heard, ReadResponse
  PROVE  Heard'
<1> DEFINE l == Head(stdout)
<1>1. /\ stdout \in Seq(Line) /\ stdout # <<>> /\ stdout' = Tail(stdout) /\ l \in Line
      /\ l.kind # "update" /\ executing' = executing
  BY DEF ReadResponse, IInv, TypeOK
<1>2. /\ made' = made /\ strays' = strays /\ Active' \subseteq Active
      /\ \A o \in RunId : Finished(o)' => Finished(o) \/ (o \in prompts /\ Response(l, o))
  <2>1. CASE l.run \in prompts
    <3>1. {l.run} \in SUBSET prompts /\ \E k \in Terminal : Settle({l.run}, k)
      BY <1>1, <2>1 DEF ReadResponse, Terminal
    <3> QED
      BY <1>1, <2>1, <3>1, SettleFrames DEF Response
  <2>2. CASE l.run \notin prompts
    BY <2>2 DEF ReadResponse, runVars, Active, Finished
  <2> QED
    BY <2>1, <2>2
<1>3. LastAdmitted'
  BY <1>2 DEF Heard, LastAdmitted
<1>4. Unanswered' /\ LinesPending'
  BY <1>1, <1>2, TailPending
<1>5. Strayed'
  <2> SUFFICES ASSUME NEW o \in RunId, NEW r \in RunId, <<o, r>> \in strays
               PROVE  o < r /\ r <= made /\ ~Finished(o)'
    BY <1>2 DEF Strayed
  <2>1. o < r /\ r <= made /\ ~Finished(o)
    BY DEF Heard, Strayed
  <2>2. o # made
    BY <2>1, Names, BoundAssumption DEF IInv, TypeOK
  <2>3. o \notin prompts
    BY <2>2 DEF Heard, LastAdmitted, IInv, SlotConsistent
  <2> QED
    BY <1>2, <2>1, <2>3
<1> QED
  BY <1>3, <1>4, <1>5 DEF Heard

\* An update goes to the run in the slot: its own, or a later one than its own.
LEMMA ReadUpdateHeard ==
  ASSUME IInv, Heard, ReadUpdate
  PROVE  Heard'
<1> DEFINE l == Head(stdout)
<1>1. /\ stdout \in Seq(Line) /\ stdout # <<>> /\ stdout' = Tail(stdout) /\ l \in Line
      /\ l.kind = "update" /\ executing' = executing /\ made' = made /\ Active' = Active
  BY DEF ReadUpdate, IInv, TypeOK, Active
<1>2. l.run \in RunId /\ l.session \in Session /\ l = stdout[1] /\ 1 \in 1..Len(stdout)
  BY <1>1, LineShape, TailLine
<1> HIDE DEF l
<1>3. \A o \in RunId : Finished(o)' => Finished(o)
  <2> SUFFICES ASSUME NEW o \in RunId, Finished(o)', ~Finished(o)
               PROVE  FALSE
    OBVIOUS
  <2>1. sessionRun[l.session] = o /\ Connected
    BY <1>2 DEF ReadUpdate, Finished, Emitted, IInv, TypeOK, l
  <2> DEFINE f == [kind |-> "delta", seq |-> seq[o] + 1]
  <2>2. out'[o] = Append(out[o], f)
    BY <2>1, Names DEF ReadUpdate, Emitted, IInv, TypeOK, l
  <2>3. out[o] \in Seq(Frame) /\ f \in Frame /\ f.kind = "delta"
    <3>1. out[o] \in Seq(Frame) /\ seq[o] + 1 \in Nat
      BY DEF IInv, TypeOK
    <3> QED
      BY <3>1 DEF Frame
  <2> HIDE DEF f
  <2>4. PICK i \in 1..Len(out'[o]) : out'[o][i].kind = "final"
    BY DEF Finished
  <2>5. i \in 1..Len(out[o]) \/ i = Len(out[o]) + 1
    BY <2>2, <2>3, Appended
  <2>6. out'[o][i] = out[o][i] \/ out'[o][i] = f
    BY <2>2, <2>3, <2>5, Appended
  <2> QED
    BY <2>2, <2>3, <2>4, <2>5, <2>6, Appended DEF Finished
<1>4. LastAdmitted'
  BY <1>1 DEF Heard, LastAdmitted
<1>5. Unanswered' /\ LinesPending'
  BY <1>1, <1>3, TailPending
<1>6. Strayed'
  <2> SUFFICES ASSUME NEW o \in RunId, NEW r \in RunId, <<o, r>> \in strays'
               PROVE  o < r /\ r <= made /\ ~Finished(o)
    BY <1>1, <1>3 DEF Strayed
  <2>1. CASE <<o, r>> \in strays
    BY <2>1 DEF Heard, Strayed
  <2>2. CASE <<o, r>> \notin strays
    <3>1. o = l.run /\ r = sessionRun[l.session] /\ o # r
      BY <2>2 DEF ReadUpdate, l
    <3>2. active[r] # None
      BY <1>2, <3>1, Names, Owned
    <3>3. r = made
      BY <3>2 DEF Heard, LastAdmitted, Active
    <3>4. o <= made /\ ~Finished(o)
      BY <1>2, <3>1 DEF Heard, LinesPending
    <3> QED
      BY <3>1, <3>3, <3>4, Names
  <2> QED
    BY <2>1, <2>2
<1> QED
  BY <1>4, <1>5, <1>6 DEF Heard

\* A new run has no result and nothing has been written about it.
LEMMA InvokeHeard ==
  ASSUME IInv, Heard, NEW s \in Session, Invoke(s)
  PROVE  Heard'
<1> DEFINE r == made + 1
<1>1. /\ Active = {} /\ made' = r /\ active' = [active EXCEPT ![r] = s]
      /\ executing' = executing \/ executing' = [executing EXCEPT ![r] = s]
      /\ stdout' = stdout /\ out' = out /\ strays' = strays
  BY DEF Invoke
<1>2. r \in RunId /\ made \in Nat /\ RunId \subseteq Nat /\ stdout \in Seq(Line)
  BY BoundAssumption, Names DEF Invoke, IInv, TypeOK, RunId
<1>3. Active' \subseteq {r}
  BY <1>1 DEF Active, IInv, TypeOK
<1>4. Executing' \subseteq Executing \cup {r}
  BY <1>1 DEF Executing, IInv, TypeOK
<1>5. ~Finished(r)
  <2>1. out[r] = <<>>
    BY <1>2 DEF IInv, Numbered
  <2> QED
    BY <2>1 DEF Finished
<1>6. \A o \in RunId : Finished(o)' = Finished(o)
  BY <1>1 DEF Finished
<1>7. \A i \in 1..Len(stdout) : stdout[i].run \in RunId /\ stdout[i].run <= made
  <2>1. \A i \in 1..Len(stdout) : stdout[i].run \in RunId
    BY <1>2, LineShape
  <2> QED
    BY <2>1 DEF Heard, LinesPending
<1>8. LastAdmitted'
  BY <1>1, <1>3 DEF LastAdmitted
<1>9. Unanswered'
  <2> SUFFICES ASSUME NEW o \in Executing'
               PROVE  /\ o <= r /\ ~Finished(o)
                      /\ \A i \in 1..Len(stdout) : ~Response(stdout[i], o)
    <3>1. Executing' \subseteq RunId
      BY DEF Executing
    <3> QED
      BY <1>1, <1>6, <3>1 DEF Unanswered, Response
  <2>1. CASE o = r
    BY <1>2, <1>5, <1>7, <2>1 DEF Response
  <2>2. CASE o \in Executing
    BY <1>2, <2>2 DEF Heard, Unanswered, Executing
  <2> QED
    BY <1>4, <2>1, <2>2
<1>10. LinesPending'
  <2>1. ASSUME NEW i \in 1..Len(stdout), NEW o \in RunId, stdout[i].run = o
        PROVE  o <= r /\ ~Finished(o)
    BY <1>2, <1>7, <2>1 DEF Heard, LinesPending
  <2> QED
    BY <1>1, <1>6, <2>1 DEF Heard, LinesPending, Response
<1>11. Strayed'
  BY <1>1, <1>2, <1>6 DEF Heard, Strayed
<1> QED
  BY <1>8, <1>9, <1>10, <1>11 DEF Heard

\* A line about a prompt the harness is working on is the last about it so far,
\* and no other follows an answer.
LEMMA HarnessHeard ==
  ASSUME IInv, Heard, NEW o \in RunId, NEW l \in Line, o \in Executing, l.run = o,
         stdout' = Append(stdout, l), Executing' \subseteq Executing,
         l.kind # "update" => o \notin Executing',
         UNCHANGED <<made, active, out, strays>>
  PROVE  Heard'
<1>1. stdout \in Seq(Line)
  BY DEF IInv, TypeOK
<1>2. /\ Len(stdout) \in Nat
      /\ \A i \in 1..Len(stdout') : \/ i \in 1..Len(stdout) /\ stdout'[i] = stdout[i]
                                    \/ i = Len(stdout) + 1 /\ stdout'[i] = l
  BY <1>1, AppendedLine
<1>3. \A q \in RunId : Finished(q)' = Finished(q)
  BY DEF Finished
<1>4. o <= made /\ ~Finished(o) /\ \A i \in 1..Len(stdout) : ~Response(stdout[i], o)
  BY DEF Heard, Unanswered
<1>5. LastAdmitted' /\ Strayed'
  BY <1>3 DEF Heard, LastAdmitted, Strayed, Active
<1>6. Unanswered'
  <2> SUFFICES ASSUME NEW q \in Executing'
               PROVE  /\ q <= made /\ ~Finished(q)
                      /\ \A i \in 1..Len(stdout') : ~Response(stdout'[i], q)
    <3>1. Executing' \subseteq RunId
      BY DEF Executing
    <3> QED
      BY <1>3, <3>1 DEF Unanswered, Response
  <2>1. q <= made /\ ~Finished(q) /\ \A i \in 1..Len(stdout) : ~Response(stdout[i], q)
    BY DEF Heard, Unanswered
  <2>2. ~Response(l, q)
    BY DEF Response
  <2> QED
    BY <1>2, <2>1, <2>2
<1>7. LinesPending'
  <2>1. ASSUME NEW i \in 1..Len(stdout'), NEW q \in RunId, stdout'[i].run = q
        PROVE  q <= made /\ ~Finished(q)'
    <3>1. CASE i \in 1..Len(stdout) /\ stdout'[i] = stdout[i]
      BY <1>3, <2>1, <3>1 DEF Heard, LinesPending
    <3>2. CASE stdout'[i] = l
      BY <1>3, <1>4, <2>1, <3>2
    <3> QED
      BY <1>2, <3>1, <3>2
  <2>2. ASSUME NEW i \in 1..Len(stdout'), NEW j \in 1..Len(stdout'), i < j, NEW q \in RunId,
               Response(stdout'[i], q), stdout'[j].run = q
        PROVE  FALSE
    <3>1. i \in 1..Len(stdout) /\ stdout'[i] = stdout[i]
      BY <1>2, <2>2
    <3>2. CASE j \in 1..Len(stdout) /\ stdout'[j] = stdout[j]
      BY <2>2, <3>1, <3>2 DEF Heard, LinesPending
    <3>3. CASE stdout'[j] = l
      BY <1>4, <2>2, <3>1, <3>3
    <3> QED
      BY <1>2, <3>2, <3>3
  <2> QED
    BY <1>2, <2>1, <2>2 DEF LinesPending, Response
<1> QED
  BY <1>5, <1>6, <1>7 DEF Heard

\* The end of the process leaves nothing to read and no prompt to answer.
LEMMA GoneHeard ==
  ASSUME IInv, Heard, Gone
  PROVE  Heard'
<1>1. Active' = {} /\ Executing' = {} /\ stdout' = <<>> /\ made' = made /\ strays' = strays
  BY DEF Gone, Nobody, Active, Executing
<1>2. \A o \in RunId : Finished(o)' => Finished(o)
  BY DEF Gone, Finished
<1> QED
  BY <1>1, <1>2, HeardKept DEF IInv, TypeOK

\* Prompts that fail leave no result behind.
LEMMA FailsHeard ==
  ASSUME IInv, Heard, NEW rs \in SUBSET prompts, Settle(rs, "error"), UNCHANGED hostVars
  PROVE  Heard'
<1>1. "error" \in Terminal
  BY DEF Terminal
<1>2. /\ Active' = Active \ rs /\ made' = made /\ strays' = strays
      /\ \A o \in RunId : Finished(o)' => Finished(o)
  BY <1>1, SettleFrames
<1>3. Executing' = Executing /\ stdout' = stdout
  BY DEF hostVars, Executing
<1> QED
  BY <1>2, <1>3, HeardKept DEF IInv, TypeOK

\* What neither admits, writes nor reads.
LEMMA QuietHeard ==
  ASSUME IInv, Heard, UNCHANGED <<made, active, stdout, out, strays>>,
         Executing' \subseteq Executing
  PROVE  Heard'
<1>1. Active' = Active
  BY DEF Active
<1>2. \A o \in RunId : Finished(o)' => Finished(o)
  BY DEF Finished
<1> QED
  BY <1>1, <1>2, HeardKept DEF IInv, TypeOK

LEMMA HeardStep ==
  ASSUME IInv, Heard, [Next]_vars
  PROVE  Heard'
<1>0. prompts \in SUBSET prompts /\ \A r \in prompts : {r} \in SUBSET prompts
  OBVIOUS
<1>1. CASE \/ UNCHANGED vars
           \/ Reconnect
           \/ \E s \in Socket : \/ SocketOpens(s) \/ SocketCloses(s)
                                \/ RegisterAccepted(s) \/ RegisterFails(s)
           \/ \E q \in RunId : Cancel(q) \/ CancelSettles(q)
           \/ Shutdown \/ Restart
  <2>1. UNCHANGED <<made, active, stdout, out, strays, executing>>
    BY <1>1 DEF vars, Reconnect, SocketOpens, SocketCloses, RegisterAccepted, RegisterFails,
       Cancel, CancelSettles, Shutdown, Restart, runVars, hostVars
  <2>2. Executing' = Executing
    BY <2>1 DEF Executing
  <2> QED
    BY <2>1, <2>2, QuietHeard
<1>2. CASE HarnessDies
  <2>1. Executing' = {}
    BY <1>2 DEF HarnessDies, Executing, Nobody
  <2> QED
    BY <1>2, <2>1, QuietHeard DEF HarnessDies, runVars
<1>3. CASE \E s \in Session : Invoke(s)
  BY <1>3, InvokeHeard
<1>4. CASE \E q \in RunId : PromptTimeout(q)
  BY <1>0, <1>4, FailsHeard DEF PromptTimeout
<1>5. ASSUME NEW q \in RunId, HarnessUpdates(q)
      PROVE  Heard'
  <2> DEFINE l == [kind |-> "update", run |-> q, session |-> executing[q]]
  <2>1. /\ q \in Executing /\ stdout' = Append(stdout, l)
        /\ UNCHANGED <<made, active, out, strays, executing>>
    BY <1>5 DEF HarnessUpdates, runVars
  <2>2. l \in Line /\ l.run = q /\ l.kind = "update" /\ Executing' = Executing
    BY <2>1 DEF Executing, IInv, TypeOK, Line
  <2> QED
    BY <2>1, <2>2, HarnessHeard
<1>6. ASSUME NEW q \in RunId, HarnessAnswers(q)
      PROVE  Heard'
  <2>1. PICK k \in {"result", "failure"} : stdout' = Append(stdout, [kind |-> k, run |-> q])
    BY <1>6 DEF HarnessAnswers
  <2> DEFINE l == [kind |-> k, run |-> q]
  <2>2. l \in Line /\ l.run = q
    BY DEF Line
  <2>3. q \in Executing /\ UNCHANGED <<made, active, out, strays>>
    BY <1>6 DEF HarnessAnswers, runVars
  <2>4. Executing' = Executing \ {q}
    BY <1>6 DEF HarnessAnswers, Executing, IInv, TypeOK
  <2> QED
    BY <2>1, <2>2, <2>3, <2>4, HarnessHeard
<1>7. CASE ReadUpdate \/ ReadResponse
  BY <1>7, ReadUpdateHeard, ReadResponseHeard
<1>8. CASE HarnessExitSeen
  BY <1>0, <1>8, FailsHeard, GoneHeard DEF HarnessExitSeen
<1>9. CASE FatalSettles \/ ShutdownDone \/ Crash
  BY <1>9, GoneHeard DEF FatalSettles, ShutdownDone, Crash
<1> QED
  BY <1>1, <1>2, <1>3, <1>4, <1>5, <1>6, <1>7, <1>8, <1>9 DEF Next

LEMMA HeardInit == Init => Heard
BY DEF Init, Nobody, Heard, LastAdmitted, Unanswered, LinesPending, Strayed, Active, Executing

\* An update that is sent as one of another run comes from an earlier run whose
\* own caller has no result and gets none.
THEOREM StraysHold == Spec => []StraysUnfinished
<1>1. Heard => StraysUnfinished
  BY DEF Heard, Strayed, StraysUnfinished
<1>2. IInv /\ Heard /\ [Next]_vars => Heard'
  BY HeardStep
<1> QED
  BY <1>1, <1>2, HeardInit, Invariant, PTL DEF Spec

-----------------------------------------------------------------------------
(* The stream of runs *)

Over == {r \in 1..made : active[r] = None}

StreamSame == UNCHANGED <<Active, Over, out>>

LEMMA StreamStutters ==
  ASSUME UNCHANGED <<made, active, out>>
  PROVE  StreamSame
BY DEF StreamSame, Active, Over

LEMMA StreamStarts ==
  ASSUME IInv, NEW s \in Session, Invoke(s)
  PROVE  \E r \in RunId : Stream!Start(r)
<1> DEFINE r == made + 1
<1>1. /\ Active = {} /\ made' = r /\ active' = [active EXCEPT ![r] = s] /\ out' = out
  BY DEF Invoke
<1>2. r \in RunId /\ made \in Nat
  BY BoundAssumption DEF Invoke, IInv, TypeOK, RunId
<1>3. /\ \A q \in RunId : active[q] = None
      /\ \A q \in RunId : active'[q] = IF q = r THEN s ELSE None
  BY <1>1 DEF Active, IInv, TypeOK
<1>4. Active' = {r}
  BY <1>2, <1>3, Names DEF Active
<1>5. 1..made \subseteq RunId /\ r \notin 1..made /\ 1..r = (1..made) \cup {r}
  BY <1>2, Names, BoundAssumption DEF RunId
<1>6. Over = 1..made /\ Over' = 1..made
  BY <1>1, <1>2, <1>3, <1>5, Names DEF Over
<1>7. r \notin Over
  BY <1>5, <1>6
<1> QED
  BY <1>1, <1>2, <1>4, <1>6, <1>7 DEF Stream!Start, Over

\* A delta of the run in the slot is numbered above all it has sent.
LEMMA StreamUpdates ==
  ASSUME IInv, ReadUpdate
  PROVE  StreamSame \/ \E r \in RunId : Stream!Update(r)
<1>1. UNCHANGED <<made, active>> /\ Active' = Active /\ Over' = Over
  BY DEF ReadUpdate, Active, Over
<1>2. CASE out' = out
  BY <1>1, <1>2 DEF StreamSame
<1>3. CASE out' # out
  <2>1. PICK s \in Session : s = Head(stdout).session
    <3>1. Head(stdout) \in Line /\ Head(stdout).kind = "update"
      BY DEF ReadUpdate, IInv, TypeOK
    <3> QED
      BY <3>1, LineShape
  <2>2. sessionRun[s] # None
    BY <1>3, <2>1 DEF ReadUpdate
  <2>3. PICK r \in RunId : r = sessionRun[s] /\ active[r] # None
    BY <2>2, Owned
  <2> DEFINE f == [kind |-> "delta", seq |-> seq[r] + 1]
  <2>4. Connected /\ out' = [out EXCEPT ![r] = Append(out[r], f)]
    BY <1>3, <2>1, <2>2, <2>3, ZenonT(60) DEF ReadUpdate, Emitted, IInv, TypeOK
  <2>5. seq[r] \in Nat /\ out[r] \in Seq(Frame) /\ f \in Frame
    <3>1. seq[r] \in Nat /\ out[r] \in Seq(Frame)
      BY DEF IInv, TypeOK
    <3> QED
      BY <3>1 DEF Frame
  <2>6. out'[r] = Append(out[r], f) /\ f.seq = seq[r] + 1
    BY <2>4 DEF IInv, TypeOK
  <2> HIDE DEF f
  <2>7. /\ Len(out[r]) \in Nat /\ Len(out'[r]) = Len(out[r]) + 1
        /\ out'[r][Len(out[r]) + 1] = f /\ out'[r] # <<>>
    BY <2>5, <2>6, Appended
  <2>8. Stream!Last(r)' = seq[r] + 1
    BY <2>6, <2>7 DEF Stream!Last
  <2>9. Stream!Last(r) \in Nat /\ Stream!Last(r) <= seq[r]
    <3>1. CASE out[r] = <<>>
      BY <2>5, <3>1 DEF Stream!Last
    <3>2. CASE out[r] # <<>>
      <4>1. Len(out[r]) \in 1..Len(out[r]) /\ out[r][Len(out[r])] \in Frame
        BY <2>5, <3>2
      <4>2. DeltasUpTo(out[r], seq[r])
        BY <2>3 DEF IInv, Numbered
      <4> QED
        BY <3>2, <4>1, <4>2 DEF Stream!Last, DeltasUpTo, Frame
    <3> QED
      BY <3>1, <3>2
  <2>10. f = [kind |-> "delta", seq |-> Stream!Last(r)']
    BY <2>8 DEF f
  <2>11. r \in Active
    BY <2>3 DEF Active
  <2>12. Stream!Last(r)' > Stream!Last(r)
    BY <2>5, <2>8, <2>9
  <2>13. Stream!Update(r)
    BY <1>1, <2>4, <2>10, <2>11, <2>12 DEF Stream!Update, Over
  <2> QED
    BY <2>13
<1> QED
  BY <1>2, <1>3

\* A run that leaves the slot is over.
LEMMA RunEnds ==
  ASSUME IInv, NEW r \in Active, made' = made,
         \A q \in RunId : active'[q] = IF q = r THEN None ELSE active[q],
         \/ out' = out
         \/ \E k \in Terminal : out' = [out EXCEPT ![r] = Append(@, [kind |-> k, seq |-> 0])]
  PROVE  Stream!End(r)
<1>1. r \in RunId /\ r <= made /\ made \in 0..MaxRuns
  BY Owns DEF IInv, TypeOK
<1>2. Active' = Active \ {r}
  BY DEF Active
<1>3. r \in 1..made /\ 1..made \subseteq RunId
  BY <1>1, BoundAssumption DEF RunId
<1>4. Over' = Over \cup {r}
  BY <1>3 DEF Over
<1> QED
  BY <1>2, <1>4 DEF Stream!End, Over

LEMMA StreamSettles ==
  ASSUME IInv, NEW rs \in SUBSET prompts, NEW kind \in Terminal, Settle(rs, kind)
  PROVE  StreamSame \/ \E r \in RunId : Stream!End(r)
<1>1. /\ rs \subseteq Active /\ made' = made
      /\ \A q \in RunId : active'[q] = IF q \in rs THEN None ELSE active[q]
      /\ active' \in [RunId -> Session \cup {None}] /\ out' \in [RunId -> Seq(Frame)]
  <2>1. rs \subseteq Active
    BY DEF IInv, SlotConsistent
  <2>2. /\ made' = made /\ active' \in [RunId -> Session \cup {None}]
        /\ out' \in [RunId -> Seq(Frame)]
    BY SettleInvariant
  <2>3. \A q \in RunId : active'[q] = IF q \in rs THEN None ELSE active[q]
    BY DEF Settle, Release
  <2> QED
    BY <2>1, <2>2, <2>3
<1>2. \A q \in RunId : out'[q] = IF q \in rs THEN Emitted(q, kind, 0) ELSE out[q]
  BY <1>1, Owns DEF Settle
<1>3. CASE rs = {}
  <2>1. active' = active /\ out' = out
    BY <1>1, <1>2, <1>3 DEF IInv, TypeOK
  <2> QED
    BY <1>1, <2>1, StreamStutters
<1>4. CASE rs # {}
  <2>1. PICK r \in Active : r \in RunId /\ rs = {r}
    BY <1>1, <1>4, Owns
  <2> DEFINE f == [kind |-> kind, seq |-> 0]
  <2>2. \/ out' = out
        \/ out' = [out EXCEPT ![r] = Append(out[r], f)]
    <3>1. out \in [RunId -> Seq(Frame)]
      BY DEF IInv, TypeOK
    <3>2. CASE Connected
      BY <1>1, <1>2, <2>1, <3>1, <3>2 DEF Emitted
    <3>3. CASE ~Connected
      BY <1>1, <1>2, <2>1, <3>1, <3>3 DEF Emitted
    <3> QED
      BY <3>2, <3>3
  <2>3. Stream!End(r)
    BY <1>1, <2>1, <2>2, RunEnds
  <2> QED
    BY <2>1, <2>3
<1> QED
  BY <1>3, <1>4

LEMMA StreamGone ==
  ASSUME IInv, Gone
  PROVE  StreamSame \/ \E r \in RunId : Stream!End(r)
<1>1. /\ made' = made /\ out' = out /\ active' = Nobody
  BY DEF Gone
<1>2. CASE Active = {}
  <2>1. active' = active
    BY <1>1, <1>2 DEF Nobody, Active, IInv, TypeOK
  <2> QED
    BY <1>1, <2>1, StreamStutters
<1>3. CASE Active # {}
  <2>1. PICK r \in Active : r \in RunId /\ Active = {r}
    BY <1>3, Owns
  <2>2. \A q \in RunId : active'[q] = IF q = r THEN None ELSE active[q]
    BY <1>1, <2>1 DEF Nobody, Active
  <2> QED
    BY <1>1, <2>1, <2>2, RunEnds
<1> QED
  BY <1>2, <1>3

LEMMA StreamStep ==
  ASSUME IInv, [Next]_vars
  PROVE  StreamSame \/ Stream!Next
<1> SUFFICES StreamSame \/ \E r \in RunId : Stream!Start(r) \/ Stream!Update(r) \/ Stream!End(r)
  BY DEF Stream!Next
<1>0. prompts \subseteq prompts /\ "error" \in Terminal /\ "final" \in Terminal
  BY DEF Terminal
<1>1. CASE UNCHANGED vars
  BY <1>1, StreamStutters DEF vars, runVars
<1>2. CASE \/ Reconnect
           \/ \E s \in Socket : \/ SocketOpens(s) \/ SocketCloses(s)
                                \/ RegisterAccepted(s) \/ RegisterFails(s)
           \/ \E q \in RunId : \/ Cancel(q) \/ CancelSettles(q)
                               \/ HarnessUpdates(q) \/ HarnessAnswers(q)
           \/ HarnessDies \/ Shutdown \/ Restart
  <2>1. UNCHANGED <<made, active, out>>
    BY <1>2 DEF Reconnect, SocketOpens, SocketCloses, RegisterAccepted, RegisterFails, Cancel,
       CancelSettles, HarnessUpdates, HarnessAnswers, HarnessDies, Shutdown, Restart, runVars
  <2> QED
    BY <2>1, StreamStutters
<1>3. CASE \E s \in Session : Invoke(s)
  BY <1>3, StreamStarts
<1>4. CASE ReadUpdate
  BY <1>4, StreamUpdates
<1>5. CASE \E q \in RunId : PromptTimeout(q)
  BY <1>0, <1>5, StreamSettles DEF PromptTimeout
<1>6. CASE ReadResponse
  <2>1. CASE Head(stdout).run \in prompts
    BY <1>0, <1>6, <2>1, StreamSettles DEF ReadResponse
  <2>2. CASE Head(stdout).run \notin prompts
    BY <1>6, <2>2, StreamStutters DEF ReadResponse, runVars
  <2> QED
    BY <2>1, <2>2
<1>7. CASE HarnessExitSeen
  BY <1>0, <1>7, StreamSettles, StreamGone DEF HarnessExitSeen
<1>8. CASE FatalSettles \/ ShutdownDone \/ Crash
  BY <1>8, StreamGone DEF FatalSettles, ShutdownDone, Crash
<1> QED
  BY <1>1, <1>2, <1>3, <1>4, <1>5, <1>6, <1>7, <1>8 DEF Next

LEMMA StreamInit == Init => Stream!Init
<1> SUFFICES ASSUME Init PROVE Stream!Init
  OBVIOUS
<1>1. Active = {} /\ Over = {}
  BY DEF Init, Nobody, Active, Over
<1> QED
  BY <1>1 DEF Init, Stream!Init, Over

\* The bridge implements RunStream: whoever follows its runs sees one at a
\* time, growing updates while it runs and one closing event at most, and no
\* timeout, late answer, lost connection, restart or death shows otherwise.
THEOREM StreamImplemented == Spec => ImplementsStream
<1>1. IInv /\ [Next]_vars => [Stream!Next]_(Stream!streamVars)
  BY StreamStep DEF StreamSame, Over, Stream!streamVars
<1> QED
  BY <1>1, StreamInit, Invariant, PTL DEF Spec, ImplementsStream, Stream!Spec

=============================================================================
