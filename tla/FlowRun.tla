------------------------------ MODULE FlowRun ------------------------------
(***************************************************************************)
(* One run of a flow (langgraph-server/src/flow/compile-flow.ts): the      *)
(* shape of the graph is validated by two searches, compiled into a        *)
(* LangGraph StateGraph and executed.  LangGraph runs the graph in         *)
(* supersteps: every node that was triggered in a step reads the messages  *)
(* as they were when the step began, and when all have finished their      *)
(* messages are appended in the order of the node names.  A node that      *)
(* throws fails the run; nodes of the same step are not stopped by it.     *)
(***************************************************************************)
EXTENDS Naturals, Sequences, FiniteSets

CONSTANTS Node,       \* processing nodes, as the sequence NameOrder sorts them
          NameOrder,
          Entry,      \* the wired prompt or trigger node
          Router,     \* nodes with branch configuration ...
          Speaker,    \* ... and nodes that answer with a message
          Handle,     \* source handles, and among them:
          Default,    \* the handle "default", also that of an edge without one
          End,        \* LangGraph's END
          Flows       \* the sets of flow edges a caller may send

Edge == [source: Node \cup {Entry}, handle: Handle, target: Node]

NodeAssumption ==
    /\ IsFiniteSet(Node) /\ Node # {}  \* a flow without one is rejected
    /\ NameOrder \in Seq(Node)
    /\ \A n \in Node : \E i \in DOMAIN NameOrder : NameOrder[i] = n
    /\ \A i, j \in DOMAIN NameOrder : NameOrder[i] = NameOrder[j] => i = j
    /\ Entry \notin Node /\ End \notin Node
KindAssumption == Router \subseteq Node /\ Speaker \subseteq Node
HandleAssumption == Default \in Handle
FlowsAssumption == Flows \subseteq SUBSET Edge

VARIABLES edges,     \* the flow edges of the request
          phase,     \* where compileFlow and the run are
          stack,     \* of the search in progress
          reachable, \* by the first search
          color,     \* of the second search
          pathMap,   \* pathMap[r][h]: where router r goes on handle h
          step,      \* the superstep
          active,    \* the nodes triggered in this step ...
          ended,     \* ... and those of them that have finished
          route,     \* the handle a finished router has chosen
          messages,  \* who wrote each message of the state
          execution  \* the executions so far: node, step, input (history)

searches == <<stack, reachable, color>>
run == <<step, active, ended, route, messages, execution>>
vars == <<edges, phase, stack, reachable, color, pathMap, step, active, ended, route,
          messages, execution>>

White == "white"
Gray == "gray"
Black == "black"

Targets(n) == {e.target : e \in {f \in edges : f.source = n}}

Init ==
    /\ edges \in Flows
    /\ phase = "reach"
    /\ stack = <<Entry>>
    /\ reachable = {}
    /\ color = [n \in Node \cup {Entry} |-> White]
    /\ pathMap = [r \in Router |-> [h \in Handle |-> End]]
    /\ step = 0
    /\ active = {}
    /\ ended = {}
    /\ route = [r \in Router |-> Default]
    /\ messages = <<Entry>>
    /\ execution = {}

-----------------------------------------------------------------------------
(* validateFlowShape *)

Last(s) == s[Len(s)]
Front(s) == SubSeq(s, 1, Len(s) - 1)

Rejected == /\ phase' = "rejected"
            /\ UNCHANGED <<edges, searches, pathMap, run>>

\* An entry is wired if it sources a flow edge; without one there is no entry.
NoWiredEntry ==
    /\ phase = "reach"
    /\ Targets(Entry) = {}
    /\ Rejected

\* The nodes in any order: the search pushes its successors as they come.
Orders(S) == {s \in [1..Cardinality(S) -> S] : \A n \in S : \E i \in DOMAIN s : s[i] = n}

ReachPop ==
    /\ phase = "reach"
    /\ Targets(Entry) # {}
    /\ stack # <<>>
    /\ LET cur == Last(stack)
       IN IF cur \in reachable
          THEN stack' = Front(stack) /\ UNCHANGED reachable
          ELSE /\ reachable' = reachable \cup {cur}
               /\ \E s \in Orders(Targets(cur)) : stack' = Front(stack) \o s
    /\ UNCHANGED <<edges, phase, color, pathMap, run>>

\* Every processing node must have been reached.
ReachEnds ==
    /\ phase = "reach"
    /\ stack = <<>>
    /\ phase' = IF Node \subseteq reachable THEN "cycle" ELSE "rejected"
    /\ UNCHANGED <<edges, searches, pathMap, run>>

\* The second search: stack is the path of calls of visit() ...
VisitRoot ==
    /\ phase = "cycle"
    /\ stack = <<>>
    /\ \E n \in Node \cup {Entry} :
          /\ color[n] = White
          /\ stack' = <<n>>
          /\ color' = [color EXCEPT ![n] = Gray]
    /\ UNCHANGED <<edges, phase, reachable, pathMap, run>>

\* ... a gray successor closes a cycle ...
CycleFound ==
    /\ phase = "cycle"
    /\ stack # <<>>
    /\ \E n \in Targets(Last(stack)) : color[n] = Gray
    /\ Rejected

\* ... a white one is visited ...
VisitNext ==
    /\ phase = "cycle"
    /\ stack # <<>>
    /\ \E n \in Targets(Last(stack)) :
          /\ color[n] = White
          /\ stack' = Append(stack, n)
          /\ color' = [color EXCEPT ![n] = Gray]
    /\ UNCHANGED <<edges, phase, reachable, pathMap, run>>

\* Mutant: a node is left although a successor is still gray.
VisitEndsOnGray ==
    /\ phase = "cycle"
    /\ stack # <<>>
    /\ \A n \in Targets(Last(stack)) : color[n] # White
    /\ stack' = Front(stack)
    /\ color' = [color EXCEPT ![Last(stack)] = Black]
    /\ UNCHANGED <<edges, phase, reachable, pathMap, run>>

\* ... and when all are black so is the node.
VisitEnds ==
    /\ phase = "cycle"
    /\ stack # <<>>
    /\ \A n \in Targets(Last(stack)) : color[n] = Black
    /\ stack' = Front(stack)
    /\ color' = [color EXCEPT ![Last(stack)] = Black]
    /\ UNCHANGED <<edges, phase, reachable, pathMap, run>>

-----------------------------------------------------------------------------
(* compileFlow *)

\* Edges of one handle overwrite each other, in the order of the request; a
\* router without a default edge ends the run there.
PathMaps(r) ==
    {m \in [Handle -> Node \cup {End}] :
        \A h \in Handle :
            LET on == {e.target : e \in {f \in edges : f.source = r /\ f.handle = h}}
            IN IF on = {} THEN m[h] = End ELSE m[h] \in on}

Connected(r) == {e.handle : e \in {f \in edges : f.source = r}} \cup {Default}

\* The graph is built and invoked: the targets of the entry are the first step.
Compile ==
    /\ phase = "cycle"
    /\ stack = <<>>
    /\ \A n \in Node \cup {Entry} : color[n] = Black
    /\ pathMap' \in [Router -> [Handle -> Node \cup {End}]]
    /\ \A r \in Router : pathMap'[r] \in PathMaps(r)
    /\ phase' = "running"
    /\ step' = 1
    /\ active' = Targets(Entry)
    /\ UNCHANGED <<edges, searches, ended, route, messages, execution>>

-----------------------------------------------------------------------------
(* The run *)

\* lastMessageContent: every node of a step reads the same message.
Input == Last(messages)

\* The runner of a node returns; a router also chooses its handle, a handle
\* without an edge being "default".  The run may have failed meanwhile.
NodeEnds(n) ==
    /\ phase \in {"running", "failed"}
    /\ n \in active \ ended
    /\ ended' = ended \cup {n}
    /\ execution' = execution \cup {[node |-> n, step |-> step, input |-> Input]}
    /\ IF n \in Router
       THEN \E h \in Connected(n) : route' = [route EXCEPT ![n] = h]
       ELSE UNCHANGED route
    /\ UNCHANGED <<edges, phase, searches, pathMap, step, active, messages>>

\* The runner throws.
NodeFails(n) ==
    /\ phase \in {"running", "failed"}
    /\ n \in active \ ended
    /\ phase' = "failed"
    /\ active' = active \ {n}
    /\ UNCHANGED <<edges, searches, pathMap, step, ended, route, messages, execution>>

\* Mutant: a router triggers all its edges.
TriggeredAll(n) == Targets(n)

Triggered(n) == IF n \in Router THEN {pathMap[n][route[n]]} \ {End} ELSE Targets(n)

Position(n) == CHOOSE i \in DOMAIN NameOrder : NameOrder[i] = n

Said == CHOOSE s \in Orders(active \cap Speaker) :
            \A i, j \in DOMAIN s : i < j => Position(s[i]) < Position(s[j])

\* Mutant: only what one node of the step triggers is run.
StepEndsFirst ==
    /\ phase = "running"
    /\ ended = active
    /\ messages' = messages \o Said
    /\ ended' = {}
    /\ active' = Triggered(CHOOSE n \in active : TRUE)
    /\ IF active' = {}
       THEN phase' = "completed" /\ UNCHANGED step
       ELSE step' = step + 1 /\ UNCHANGED phase
    /\ UNCHANGED <<edges, searches, pathMap, route, execution>>

\* All nodes of the step have finished: their messages are appended and what
\* they trigger is the next step, each node once.  (The recursion limit of
\* LangGraph, 25 steps, is beyond the flows of the model.)
StepEnds ==
    /\ phase = "running"
    /\ ended = active
    /\ messages' = messages \o Said
    /\ ended' = {}
    /\ active' = UNION {Triggered(n) : n \in active}
    /\ IF active' = {}
       THEN phase' = "completed" /\ UNCHANGED step
       ELSE step' = step + 1 /\ UNCHANGED phase
    /\ UNCHANGED <<edges, searches, pathMap, route, execution>>

Next ==
    \/ NoWiredEntry \/ ReachPop \/ ReachEnds
    \/ VisitRoot \/ CycleFound \/ VisitNext \/ VisitEnds
    \/ Compile
    \/ \E n \in Node : NodeEnds(n) \/ NodeFails(n)
    \/ StepEnds

Spec == Init /\ [][Next]_vars

-----------------------------------------------------------------------------
(* Properties *)

\* The type of the state.
TypeOK ==
    /\ edges \in Flows
    /\ phase \in {"reach", "cycle", "rejected", "running", "completed", "failed"}
    /\ stack \in Seq(Node \cup {Entry})
    /\ reachable \subseteq Node \cup {Entry}
    /\ color \in [Node \cup {Entry} -> {White, Gray, Black}]
    /\ pathMap \in [Router -> [Handle -> Node \cup {End}]]
    /\ step \in 0..Cardinality(Node)
    /\ active \subseteq Node /\ ended \subseteq active
    /\ route \in [Router -> Handle]
    /\ messages \in Seq(Node \cup {Entry}) /\ messages # <<>>
    /\ execution \subseteq [node : Node, step : 1..Cardinality(Node), input : Node \cup {Entry}]

Successors(S) == UNION {Targets(n) : n \in S}

AllReachable == \A S \in SUBSET Node : Successors(S \cup {Entry}) \subseteq S => S = Node
Cyclic == \E S \in SUBSET Node : S # {} /\ \A n \in S : Targets(n) \cap S # {}

\* Validation rejects a flow exactly if a node cannot be reached from the entry
\* or the edges close a cycle, whatever the order of nodes and edges in the
\* request: both searches of validateFlowShape are right.
ValidationExact ==
    /\ phase = "rejected" => ~AllReachable \/ Cyclic
    /\ phase \in {"running", "completed", "failed"} => AllReachable /\ ~Cyclic

Executed == {x.node : x \in execution}

\* A run that completes without reporting an error has executed every node that
\* a connection without a choice leads to: all that the entry or an executed
\* node other than a router points to, and one successor of each router that
\* did not choose an unconnected default.
NoNodeSkipped ==
    phase = "completed" =>
        /\ Successors({Entry} \cup (Executed \ Router)) \subseteq Executed
        /\ \A r \in Router \cap Executed : {e.handle : e \in {f \in edges : f.source = r}} = Handle
                => Targets(r) \cap Executed # {}

Upstream(n) == {m \in Node \cup {Entry} :
    \A S \in SUBSET (Node \cup {Entry}) :
        n \in S /\ {x \in Node \cup {Entry} : Targets(x) \cap S # {}} \subseteq S => m \in S} \ {n}

Unforked == \A n \in (Node \cup {Entry}) \ Router : Cardinality(Targets(n)) <= 1

\* In a flow that forks only at routers a run follows one path: one node at a
\* time, none twice, each on a message that was written upstream of it.  (A flow
\* that forks elsewhere gives a node the last message of any branch, and runs it
\* once for each length of the paths to it.)
OnePath ==
    Unforked =>
        \A x, y \in execution :
            /\ x # y => x.node # y.node /\ x.step # y.step
            /\ x.input \in Upstream(x.node)

=============================================================================
