------------------------- MODULE MCSmallComponents -------------------------
(***************************************************************************)
(* Four components with small state spaces, one at a time: one run of a     *)
(* flow, flows that run flows, the gateway client of the flow runner, and   *)
(* the legacy connection.  subject says which one a behaviour is about; the *)
(* others stay in one of their initial states.                              *)
(*                                                                         *)
(* The flow has three nodes: a routes on two handles, b answers, c is       *)
(* silent.  There are three flows to call, and both gateway clients have    *)
(* three sockets and two requests.                                          *)
(***************************************************************************)
EXTENDS Subflows

CONSTANTS f1, f2, f3,
          a, b, c, rule, default,
          FlowNode, NameOrder, Router, Speaker, Handle, Flows, Entry, End,
          w1, Socket, Request, MaxTimers, MaxChallenge, MaxDelay, None,
          Subject  \* the components a run is about

VARIABLES subject,
          edges, phase, stack, reachable, color, pathMap, step, active, ended, route,
          messages, execution,
          conn, wanted,
          ws, status, authed, delay, timers, asked, asks, greeted, pending

\* Two calls in parallel, and a plain node before a call.
MCBodies == {<<{f2, f3}>>, <<{Plain}, {f1}>>}

MCNode == {a, b, c}
MCNameOrder == <<a, b, c>>
MCHandle == {rule, default}

\* Every flow over these nodes in which edges without a choice are "default"
\* and only c has an edge to itself.
MCFlows ==
    SUBSET {e \in [source: MCNode \cup {Entry}, handle: MCHandle, target: MCNode] :
               /\ e.source # a => e.handle = default
               /\ e.source = e.target => e.source = c}

Single == INSTANCE FlowRun
            WITH Node <- FlowNode, Default <- default
Legacy == INSTANCE LegacyConnection
Runner == INSTANCE RunnerGateway

ASSUME FlowRunAssumption ==
    /\ Single!NodeAssumption /\ Single!KindAssumption
    /\ Single!HandleAssumption /\ Single!FlowsAssumption

ASSUME SocketAssumption == Legacy!NoneAssumption /\ Runner!NoneAssumption

singleVars == <<edges, phase, stack, reachable, color, pathMap, step, active, ended, route,
                messages, execution>>
legacyVars == <<conn, wanted>>
runnerVars == <<ws, status, authed, delay, timers, asked, asks, greeted, pending>>
allVars == <<subject, vars, singleVars, legacyVars, runnerVars>>

\* What the initial state of the others is does not matter.
Idle ==
    /\ library = [f \in Flow |-> CHOOSE d \in Bodies : TRUE]
    /\ seed = <<>>
    /\ runs = [p \in {<<>>} |-> Begin(CHOOSE d \in Bodies : TRUE)]
    /\ edits = 0

InitAny ==
    /\ subject \in Subject
    /\ IF subject = "subflows" THEN Init ELSE Idle
    /\ Single!Init /\ (subject # "single" => edges = {})
    /\ Legacy!Init
    /\ Runner!Init /\ ws = w1

SubflowsStep(A) ==
    subject = "subflows" /\ A /\ UNCHANGED <<subject, singleVars, legacyVars, runnerVars>>
SingleStep(A) == subject = "single" /\ A /\ UNCHANGED <<subject, vars, legacyVars, runnerVars>>
LegacyStep(A) == subject = "legacy" /\ A /\ UNCHANGED <<subject, vars, singleVars, runnerVars>>
RunnerStep(A) == subject = "runner" /\ A /\ UNCHANGED <<subject, vars, singleVars, legacyVars>>

NextAny ==
    SubflowsStep(Next) \/ SingleStep(Single!Next) \/ LegacyStep(Legacy!Next) \/ RunnerStep(Runner!Next)

\* The runners of nodes return or throw; Node fires its timers.  Nothing is
\* assumed of the network or the gateway.
Fairness ==
    /\ WF_allVars(SubflowsStep(Progress))
    /\ \A r \in Request : WF_allVars(\/ LegacyStep(Legacy!RequestTimesOut(r))
                                     \/ RunnerStep(Runner!RequestTimesOut(r)))
    /\ WF_allVars(LegacyStep(Legacy!ReconnectFires) \/ RunnerStep(Runner!Reconnect))

SpecAny == InitAny /\ [][NextAny]_allVars /\ Fairness

\* The validation accepts the flows it should (FlowRun!ValidationExact).
ValidationExact == Single!ValidationExact

\* A completed run has executed every node that was triggered (FlowRun!NoNodeSkipped).
NoNodeSkipped == Single!NoNodeSkipped

\* Flows without parallel branches follow one path (FlowRun!OnePath).
OnePath == Single!OnePath

\* Calls of flows end (Subflows!CallsEnd).
SubflowsEnd == subject = "subflows" => CallsEnd

\* Either client keeps one link to the gateway (LegacyConnection!OneLink,
\* RunnerGateway!OneLink).
OneLink == Legacy!OneLink /\ Runner!OneLink

\* The requests of either client settle, and both redial
\* (LegacyConnection!SettlesAndRedials, RunnerGateway!SettlesAndRedials).
SettlesAndRedials ==
    /\ Legacy!SettlesAndRedials
    /\ subject = "runner" => Runner!SettlesAndRedials

\* disconnect() is the end of the legacy connection, as its comment says
\* (LegacyConnection!StaysDisconnected).
StaysDisconnected == Legacy!StaysDisconnected
=============================================================================
