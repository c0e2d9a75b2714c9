---------------------------- MODULE ShellsBridge ----------------------------
(***************************************************************************)
(* The bridge process of a shell VM (bridge.ts), its ACP client            *)
(* (acp-client.ts) and its entry point (index.ts), between the gateway and *)
(* the agent harness it spawns.  JavaScript runs one event handler with    *)
(* its microtasks at a time, so each action is one event: a socket event,  *)
(* a frame, a line of the harness, a timer, a signal.                      *)
(*                                                                         *)
(* The gateway and the harness are external.  The gateway may send an      *)
(* invoke or a cancel whenever a connection is open; the harness may       *)
(* answer, update or die whenever it has a prompt.  systemd restarts the   *)
(* process after every exit.                                               *)
(***************************************************************************)
EXTENDS Naturals, Sequences, FiniteSets

CONSTANTS Session,     \* ACP sessions
          Socket,      \* WebSocket objects, reused once nothing refers to them
          MaxRuns,     \* bound: runs ever admitted
          MaxLines,    \* bound: harness output lines not yet read
          MaxUpdates,  \* bound: updates the harness writes for one prompt
          None

ASSUME BoundAssumption == /\ MaxRuns \in Nat \ {0} /\ MaxLines \in Nat \ {0}
                          /\ MaxUpdates \in Nat
ASSUME NoneAssumption == None \notin Session \cup Socket \cup (1..MaxRuns)

RunId == 1..MaxRuns
Terminal == {"final", "error"}
ReadyState == {"connecting", "open", "closing", "closed"}
Line == [kind: {"update"}, run: RunId, session: Session]
        \cup [kind: {"result", "failure"}, run: RunId]
Frame == [kind: {"delta"} \cup Terminal, seq: Nat]

VARIABLES
    phase,         \* "up", "stopping" (shuttingDown) or "exited"
    harnessRunning,\* the bridge's flag of that name
    ws,            \* the current socket, or None
    readyState,    \* of each socket
    retry,         \* the reconnect timer is armed
    registering,   \* sockets whose shells.register call is outstanding
    beating,       \* the heartbeat interval is armed
    fatal,         \* the shells.fatal call is outstanding
    made,          \* runs admitted so far
    active,        \* activeRuns: the session of each active run, else None
    sessionRun,    \* acpSessionToRun: the run of each session, else None
    seq,           \* the delta counter of each active run, else 0
    prompts,       \* runs whose session/prompt call is pending in the ACP client
    cancels,       \* runs with a pending session/cancel call
    harness,       \* "running" or "dead", as the operating system sees it
    executing,     \* the session of each prompt the harness is working on, else None
    stdout,        \* harness output not yet read
    updates,       \* updates written for each prompt it is working on, else 0
    out,           \* frames about each run handed to an open socket (history)
    strays         \* <<o, r>>: an update that run o wrote was sent as one of r (history)

procVars == <<phase, harnessRunning, fatal>>
connVars == <<ws, readyState, retry, registering, beating>>
runVars  == <<made, active, sessionRun, seq, prompts>>
hostVars == <<harness, executing, stdout, updates>>
vars == <<procVars, connVars, runVars, cancels, hostVars, out, strays>>

Active == {r \in RunId : active[r] # None}
Executing == {r \in RunId : executing[r] # None}
Nobody == [r \in RunId |-> None]
Up == phase = "up"
Alive == phase # "exited"
Connected == ws # None /\ readyState[ws] = "open"

Init ==
    /\ phase = "up" /\ harnessRunning = TRUE /\ fatal = FALSE
    /\ \E s \in Socket :
         /\ ws = s
         /\ readyState = [x \in Socket |-> IF x = s THEN "connecting" ELSE "closed"]
    /\ retry = FALSE /\ registering = {} /\ beating = FALSE
    /\ made = 0
    /\ active = Nobody
    /\ sessionRun = [s \in Session |-> None]
    /\ seq = [r \in RunId |-> 0]
    /\ prompts = {}
    /\ cancels = {}
    /\ harness = "running"
    /\ executing = Nobody
    /\ stdout = <<>>
    /\ updates = [r \in RunId |-> 0]
    /\ out = [r \in RunId |-> <<>>]
    /\ strays = {}

-----------------------------------------------------------------------------
(* The connection to the gateway *)

\* A socket object nothing in the process refers to any more.
Unreferenced(s) ==
    /\ readyState[s] = "closed"
    /\ s # ws
    /\ s \notin registering

\* The reconnect timer fires: connect().
Reconnect ==
    /\ Alive
    /\ retry
    /\ retry' = FALSE
    /\ IF Up
       THEN \E s \in Socket :
              /\ Unreferenced(s)
              /\ ws' = s
              /\ readyState' = [readyState EXCEPT ![s] = "connecting"]
       ELSE UNCHANGED <<ws, readyState>>
    /\ UNCHANGED <<procVars, registering, beating, runVars, cancels, hostVars, out, strays>>

\* "open": the bridge registers its shell.
SocketOpens(s) ==
    /\ Alive
    /\ readyState[s] = "connecting"
    /\ readyState' = [readyState EXCEPT ![s] = "open"]
    /\ registering' = IF ws = s /\ Up THEN registering \cup {s} ELSE registering
    /\ UNCHANGED <<procVars, ws, retry, beating, runVars, cancels, hostVars, out, strays>>

\* Mutant: the close handler leaves the heartbeat interval armed.
SocketClosesBeating(s) ==
    /\ Alive
    /\ readyState[s] # "closed"
    /\ readyState' = [readyState EXCEPT ![s] = "closed"]
    /\ ws' = IF ws = s THEN None ELSE ws
    /\ retry' = (retry \/ (ws = s /\ Up))
    /\ UNCHANGED <<procVars, registering, beating, runVars, cancels, hostVars, out, strays>>

\* "close", after any failure or a completed closing handshake.
SocketCloses(s) ==
    /\ Alive
    /\ readyState[s] # "closed"
    /\ readyState' = [readyState EXCEPT ![s] = "closed"]
    /\ ws' = IF ws = s THEN None ELSE ws
    /\ beating' = (beating /\ ws # s)
    /\ retry' = (retry \/ (ws = s /\ Up))
    /\ UNCHANGED <<procVars, registering, runVars, cancels, hostVars, out, strays>>

\* close() on a socket: no frame passes it from now on.
Closing(s) == readyState' = [readyState EXCEPT ![s] = "closing"]

\* The gateway accepts the registration; messages of a stale socket are dropped.
RegisterAccepted(s) ==
    /\ Up
    /\ s \in registering /\ s = ws /\ readyState[s] = "open"
    /\ registering' = registering \ {s}
    /\ beating' = TRUE
    /\ UNCHANGED <<procVars, ws, readyState, retry, runVars, cancels, hostVars, out, strays>>

\* It refuses, or the call times out: close the socket that asked, if current.
RegisterFails(s) ==
    /\ Alive
    /\ s \in registering
    /\ registering' = registering \ {s}
    /\ IF ws = s /\ readyState[s] # "closed" THEN Closing(s) ELSE UNCHANGED readyState
    /\ UNCHANGED <<procVars, ws, retry, beating, runVars, cancels, hostVars, out, strays>>

-----------------------------------------------------------------------------
(* Runs *)

\* send: a frame about run r reaches the socket, or is dropped silently.
Emitted(r, kind, n) ==
    IF Connected THEN Append(out[r], [kind |-> kind, seq |-> n]) ELSE out[r]

\* Mutant: the session keeps pointing at the run that ended.
ReleaseRunOnly(rs) ==
    /\ active' = [r \in RunId |-> IF r \in rs THEN None ELSE active[r]]
    /\ seq' = [r \in RunId |-> IF r \in rs THEN 0 ELSE seq[r]]
    /\ UNCHANGED sessionRun

\* releaseRun for each of rs.
Release(rs) ==
    /\ active' = [r \in RunId |-> IF r \in rs THEN None ELSE active[r]]
    /\ sessionRun' = [s \in Session |-> IF sessionRun[s] \in rs THEN None ELSE sessionRun[s]]
    /\ seq' = [r \in RunId |-> IF r \in rs THEN 0 ELSE seq[r]]

\* The prompt calls of rs settle: emitFinal for those that still own their
\* session, then releaseRun.
Settle(rs, kind) ==
    /\ prompts' = prompts \ rs
    /\ out' = [r \in RunId |->
                 IF r \in rs \cap Active /\ sessionRun[active[r]] = r
                 THEN Emitted(r, kind, 0) ELSE out[r]]
    /\ Release(rs)
    /\ UNCHANGED <<made, strays>>

\* Mutant: one run per session instead of one per shell.
InvokePerSession(s) ==
    /\ Up /\ harnessRunning
    /\ Connected
    /\ sessionRun[s] = None
    /\ made < MaxRuns
    /\ LET r == made + 1
       IN  /\ made' = r
           /\ active' = [active EXCEPT ![r] = s]
           /\ sessionRun' = [sessionRun EXCEPT ![s] = r]
           /\ prompts' = prompts \cup {r}
           /\ executing' = IF harness = "running" THEN [executing EXCEPT ![r] = s]
                                                  ELSE executing
    /\ UNCHANGED <<procVars, connVars, seq, cancels, harness, stdout, updates, out, strays>>

\* handleInvoke by a caller on the current connection.  A repetition of the
\* active request is answered from the active run and any other invoke is
\* refused as BUSY or UNAVAILABLE: neither changes state.
Invoke(s) ==
    /\ Up /\ harnessRunning
    /\ Connected
    /\ Active = {}
    /\ sessionRun[s] = None
    /\ made < MaxRuns
    /\ LET r == made + 1
       IN  /\ made' = r
           /\ active' = [active EXCEPT ![r] = s]
           /\ sessionRun' = [sessionRun EXCEPT ![s] = r]
           /\ prompts' = prompts \cup {r}
           /\ executing' = IF harness = "running" THEN [executing EXCEPT ![r] = s]
                                                  ELSE executing
    /\ UNCHANGED <<procVars, connVars, seq, cancels, harness, stdout, updates, out, strays>>

\* handleCancel up to its await: the run is looked up and the session's cancel
\* is written to the harness.  Unknown runs are answered at once.
Cancel(r) ==
    /\ Up /\ Connected
    /\ r \in Active \ cancels
    /\ cancels' = cancels \cup {r}
    /\ UNCHANGED <<procVars, connVars, runVars, hostVars, out, strays>>

\* Mutant: an acknowledged cancellation frees the slot at once.
CancelSettlesRun(r) ==
    /\ Alive
    /\ r \in cancels
    /\ cancels' = cancels \ {r}
    /\ Release({r})
    /\ UNCHANGED <<procVars, connVars, made, prompts, hostVars, out, strays>>

\* The cancel call is answered or times out and the caller, if its connection
\* is still the current one, is told; the run waits for its prompt to settle.
CancelSettles(r) ==
    /\ Alive
    /\ r \in cancels
    /\ cancels' = cancels \ {r}
    /\ UNCHANGED <<procVars, connVars, runVars, hostVars, out, strays>>

\* Mutant: the timeout forgets the call but not the run.
PromptTimeoutLeaks(r) ==
    /\ Alive
    /\ r \in prompts
    /\ prompts' = prompts \ {r}
    /\ UNCHANGED <<procVars, connVars, made, active, sessionRun, seq, cancels, hostVars, out, strays>>

\* Mutant: the timer resolves the call instead of rejecting it.
PromptTimeoutResolves(r) ==
    /\ Alive
    /\ r \in prompts
    /\ Settle({r}, "final")
    /\ UNCHANGED <<procVars, connVars, cancels, hostVars>>

\* The 60 s timer of a prompt fires; the harness is not told.
PromptTimeout(r) ==
    /\ Alive
    /\ r \in prompts
    /\ Settle({r}, "error")
    /\ UNCHANGED <<procVars, connVars, cancels, hostVars>>

\* onAcpNotification: session/update names a session, and goes to the run that
\* owns the session now.
ReadUpdate ==
    /\ Alive
    /\ stdout # <<>> /\ Head(stdout).kind = "update"
    /\ stdout' = Tail(stdout)
    /\ LET r == sessionRun[Head(stdout).session]
           o == Head(stdout).run
       IN  IF r # None
           THEN /\ seq' = [seq EXCEPT ![r] = @ + 1]
                /\ out' = [out EXCEPT ![r] = Emitted(r, "delta", seq[r] + 1)]
                /\ strays' = IF Connected /\ o # r THEN strays \cup {<<o, r>>} ELSE strays
           ELSE UNCHANGED <<seq, out, strays>>
    /\ UNCHANGED <<procVars, connVars, made, active, sessionRun, prompts, cancels,
                   harness, executing, updates>>

\* onStdoutLine with a response: it settles its call, or comes too late.
ReadResponse ==
    /\ Alive
    /\ stdout # <<>> /\ Head(stdout).kind # "update"
    /\ stdout' = Tail(stdout)
    /\ LET l == Head(stdout)
       IN  IF l.run \in prompts
           THEN Settle({l.run}, IF l.kind = "result" THEN "final" ELSE "error")
           ELSE UNCHANGED <<runVars, out, strays>>
    /\ UNCHANGED <<procVars, connVars, cancels, harness, executing, updates>>

-----------------------------------------------------------------------------
(* The harness (external) *)

HarnessUpdates(r) ==
    /\ r \in Executing
    /\ Len(stdout) < MaxLines
    /\ updates[r] < MaxUpdates
    /\ updates' = [updates EXCEPT ![r] = @ + 1]
    /\ stdout' = Append(stdout, [kind |-> "update", run |-> r, session |-> executing[r]])
    /\ UNCHANGED <<procVars, connVars, runVars, cancels, harness, executing, out, strays>>

HarnessAnswers(r) ==
    /\ r \in Executing
    /\ Len(stdout) < MaxLines
    /\ executing' = [executing EXCEPT ![r] = None]
    /\ updates' = [updates EXCEPT ![r] = 0]
    /\ \E k \in {"result", "failure"} : stdout' = Append(stdout, [kind |-> k, run |-> r])
    /\ UNCHANGED <<procVars, connVars, runVars, cancels, harness, out, strays>>

\* It dies; what it wrote before can still be read.
HarnessDies ==
    /\ harness = "running"
    /\ harness' = "dead"
    /\ executing' = Nobody
    /\ updates' = [r \in RunId |-> 0]
    /\ UNCHANGED <<procVars, connVars, runVars, cancels, stdout, out, strays>>

-----------------------------------------------------------------------------
(* The process *)

\* The process is gone and systemd kills what is left of the service: nothing
\* survives but what was sent.
Gone ==
    /\ phase' = "exited"
    /\ harnessRunning' = FALSE /\ fatal' = FALSE
    /\ ws' = None /\ retry' = FALSE /\ registering' = {} /\ beating' = FALSE
    /\ readyState' = [s \in Socket |-> "closed"]
    /\ active' = Nobody
    /\ sessionRun' = [s \in Session |-> None]
    /\ seq' = [r \in RunId |-> 0]
    /\ prompts' = {} /\ cancels' = {}
    /\ harness' = "dead"
    /\ executing' = Nobody /\ stdout' = <<>>
    /\ updates' = [r \in RunId |-> 0]
    /\ UNCHANGED <<made, out, strays>>

\* Mutant: the process exits only once the gateway has been told.
HarnessExitUnreported ==
    /\ Alive
    /\ harness = "dead"
    /\ harnessRunning \/ prompts # {} \/ cancels # {}
    /\ harnessRunning' = FALSE
    /\ fatal' = (Up /\ Connected)
    /\ Settle(prompts, "error")
    /\ cancels' = {}
    /\ UNCHANGED <<phase, connVars, hostVars>>

\* The ACP client's exit event: every pending call is rejected, and unless the
\* process is stopping the bridge reports shells.fatal, or with no connection
\* exits at once.
HarnessExitSeen ==
    /\ Alive
    /\ harness = "dead"
    /\ harnessRunning \/ prompts # {} \/ cancels # {}
    /\ IF Up /\ ~Connected
       THEN Gone
       ELSE /\ harnessRunning' = FALSE
            /\ fatal' = Up
            /\ Settle(prompts, "error")
            /\ cancels' = {}
            /\ UNCHANGED <<phase, connVars, hostVars>>

\* shells.fatal is answered, refused or times out after 30 s: process.exit(1).
\* Closing the socket does not settle the call.
FatalSettles ==
    /\ Alive
    /\ fatal
    /\ Gone

\* SIGTERM or SIGINT: Bridge.shutdown up to its await.
Shutdown ==
    /\ Up
    /\ phase' = "stopping"
    /\ harnessRunning' = FALSE
    /\ beating' = FALSE
    /\ IF ws # None THEN Closing(ws) ELSE UNCHANGED readyState
    /\ UNCHANGED <<fatal, ws, retry, registering, runVars, cancels, hostVars, out, strays>>

\* The harness exited or 5 s passed: process.exit(0).
ShutdownDone ==
    /\ phase = "stopping"
    /\ Gone

\* An uncaught error, the OOM killer, a VM reboot.
Crash ==
    /\ Alive
    /\ Gone

\* systemd starts the service again: start().
Restart ==
    /\ phase = "exited"
    /\ phase' = "up" /\ harnessRunning' = TRUE
    /\ \E s \in Socket :
         /\ ws' = s
         /\ readyState' = [readyState EXCEPT ![s] = "connecting"]
    /\ harness' = "running"
    /\ UNCHANGED <<fatal, retry, registering, beating, runVars, cancels, executing,
                   stdout, updates, out, strays>>

-----------------------------------------------------------------------------
Next ==
    \/ Reconnect
    \/ \E s \in Socket :
         SocketOpens(s) \/ SocketCloses(s) \/ RegisterAccepted(s) \/ RegisterFails(s)
    \/ \E s \in Session : Invoke(s)
    \/ \E r \in RunId :
         \/ Cancel(r) \/ CancelSettles(r) \/ PromptTimeout(r)
         \/ HarnessUpdates(r) \/ HarnessAnswers(r)
    \/ ReadUpdate \/ ReadResponse
    \/ HarnessDies \/ HarnessExitSeen \/ FatalSettles
    \/ Shutdown \/ ShutdownDone \/ Crash \/ Restart

\* Node fires its timers and delivers the exit of a child; systemd restarts.
\* Nothing is assumed of the gateway, the network or the harness.
Fairness ==
    /\ WF_vars(\E r \in RunId : PromptTimeout(r))
    /\ WF_vars(HarnessExitSeen)
    /\ WF_vars(FatalSettles \/ ShutdownDone)
    /\ WF_vars(Restart)

Spec == Init /\ [][Next]_vars
FairSpec == Spec /\ Fairness

-----------------------------------------------------------------------------
(* Properties *)

\* Every variable has its shape.
TypeOK ==
    /\ phase \in {"up", "stopping", "exited"}
    /\ harnessRunning \in BOOLEAN /\ fatal \in BOOLEAN
    /\ ws \in Socket \cup {None}
    /\ readyState \in [Socket -> ReadyState]
    /\ retry \in BOOLEAN /\ beating \in BOOLEAN
    /\ registering \subseteq Socket
    /\ made \in 0..MaxRuns
    /\ active \in [RunId -> Session \cup {None}]
    /\ sessionRun \in [Session -> RunId \cup {None}]
    /\ seq \in [RunId -> Nat]
    /\ prompts \subseteq RunId
    /\ cancels \subseteq RunId
    /\ harness \in {"running", "dead"}
    /\ executing \in [RunId -> Session \cup {None}]
    /\ stdout \in Seq(Line)
    /\ updates \in [RunId -> Nat]
    /\ out \in [RunId -> Seq(Frame)]
    /\ strays \subseteq RunId \X RunId

\* The one slot: activeRuns and acpSessionToRun are inverse to each other,
\* hold at most one run, and hold it exactly while its prompt call is pending,
\* so nothing but the call's settling is needed to free the slot and nothing
\* else keeps it (handleInvoke 312-338, releaseRun 430-434).
SlotConsistent ==
    /\ Active = prompts
    /\ \A r, q \in Active : r = q
    /\ \A r \in RunId, s \in Session : active[r] = s <=> sessionRun[s] = r

Finished(r) == \E i \in 1..Len(out[r]) : out[r][i].kind = "final"

\* An update names a session and no run, so one that is read late goes to the
\* run that has the session by then.  Such updates only come from an earlier run
\* whose own caller was told of no result: whoever got a result got, or missed
\* in a gap of the connection, all the updates before it, and none of them shows
\* up in another run (onAcpNotification 385-404, emitFinal 406-428).
StraysUnfinished ==
    \A o, r \in RunId : <<o, r>> \in strays => o < r /\ ~Finished(o)

\* A run leaves the slot only in the step that settles its prompt or ends the
\* process, and in the first case its closing frame goes out in that very step
\* unless no connection is open: not a cancel, a lost connection, a shutdown or
\* another caller, and never silently while somebody could hear it (147, 322-337).
ReleaseAnnounced ==
    [][ \A r \in Active : active'[r] # active[r] =>
          \/ phase' = "exited"
          \/ /\ r \in prompts /\ r \notin prompts'
             /\ Connected => \E kind \in Terminal :
                   out'[r] = Append(out[r], [kind |-> kind, seq |-> 0]) ]_vars

\* One connection: every socket but the current one is closed, the reconnect
\* timer and a socket exclude each other, the heartbeat beats only while the
\* process is up with a current socket, and a process that is up without a
\* socket has the timer armed.
OneConnection ==
    /\ \A s \in Socket : readyState[s] # "closed" => s = ws
    /\ retry => ws = None
    /\ Up /\ ws = None => retry
    /\ beating => Up /\ ws # None

\* The slot is always freed again: a prompt is answered, times out, or the
\* process exits, whatever the harness and the network do.
SlotFreed == []<>(Active = {})

\* A dead harness is replaced: the exit is seen, reported or not, and the
\* process recycled, even if the connection drops during the report.
HarnessReplaced == []<>(harness = "running")

\* The bridge implements the stream of runs its callers rely on.
Stream == INSTANCE RunStream WITH
    Run <- RunId, Ending <- Terminal,
    running <- Active,
    over <- {r \in 1..made : active[r] = None},
    stream <- out

ImplementsStream == Stream!Spec

-----------------------------------------------------------------------------
(* A claim of the documentation that the code does not keep *)

\* "Match the advertised instance-wide maxConcurrentRuns=1": the harness never
\* works on two prompts at once.
OneExecution == Cardinality(Executing) <= 1
=============================================================================
