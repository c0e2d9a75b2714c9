------------------------------ MODULE Subflows ------------------------------
(***************************************************************************)
(* Flows that run other flows (langgraph-server: the subflow runner of     *)
(* compile-flow.ts and the two entries of server.ts).  FlowRun says how    *)
(* one flow is executed; here a flow is the sequence of its supersteps,    *)
(* each a set of nodes, and a node is the flow it calls, or Plain.  The    *)
(* hub may change a flow at any time: a run has the definition it loaded.  *)
(***************************************************************************)
EXTENDS Naturals, Sequences

CONSTANTS Flow,      \* ids of flows
          Plain,     \* a node that calls no flow
          Bodies,    \* the definitions a flow may have
          MaxDepth,  \* maxSubflowDepth
          MaxEdit    \* bound: changes of a flow

Node == Flow \cup {Plain}

ASSUME SubflowAssumption ==
    /\ Plain \notin Flow
    /\ Bodies \subseteq Seq(SUBSET Node) \ {<<>>}
    /\ MaxDepth \in Nat /\ MaxEdit \in Nat

VARIABLES library,  \* what the hub answers for each flow
          seed,     \* the call stack a request starts with
          runs,     \* runs[p]: the run that the calls p lead to; <<>> is the request's
          edits

vars == <<library, seed, runs, edits>>

Run == [body: Bodies, step: Nat, busy: SUBSET Node, outcome: {"running", "done", "failed"}]

\* A compiled graph that is invoked: all nodes of its first step start.
Begin(body) == [body |-> body, step |-> 1, busy |-> body[1], outcome |-> "running"]

\* /flows/run: the editor sends the flow itself, and its id is not known.
EditorRequest == seed = <<>> /\ \E b \in Bodies : runs = [p \in {<<>>} |-> Begin(b)]

\* /flows/run-triggered: the flow is loaded by its id, which starts the stack.
TriggeredRequest ==
    \E f \in Flow : seed = <<f>> /\ runs = [p \in {<<>>} |-> Begin(library[f])]

Init ==
    /\ library \in [Flow -> Bodies]
    /\ EditorRequest \/ TriggeredRequest
    /\ edits = 0

-----------------------------------------------------------------------------
Paths == DOMAIN runs
Busy(p, n) == p \in Paths /\ n \in runs[p].busy
Child(p, f) == Append(p, f)

\* subflowStack of the run at p.
Stack(p) == seed \o p
Calls(p) == {Stack(p)[i] : i \in DOMAIN Stack(p)}

\* Mutant: only the depth is checked.
RefusedTooDeep(p, f) == Len(Stack(p)) >= MaxDepth

\* The runner throws before it loads: a cycle of flows, or too deep.
Refused(p, f) == f \in Calls(p) \/ Len(Stack(p)) >= MaxDepth

\* The hub answers with a flow that compiles, and the child is invoked.
Load(p, f) ==
    /\ Busy(p, f) /\ f \in Flow
    /\ ~Refused(p, f)
    /\ Child(p, f) \notin Paths
    /\ runs' = [q \in Paths \cup {Child(p, f)} |->
                  IF q = Child(p, f) THEN Begin(library[f]) ELSE runs[q]]
    /\ UNCHANGED <<library, seed, edits>>

Outcome(p) == IF p \in Paths THEN runs[p].outcome ELSE "none"

\* A node returns; what a child leaves behind is its last message.  The run of
\* the node may have failed meanwhile.
NodeEnds(p, n) ==
    /\ Busy(p, n)
    /\ n = Plain \/ Outcome(Child(p, n)) = "done"
    /\ runs' = [q \in Paths \ {Child(p, n)} |->
                  IF q = p THEN [runs[p] EXCEPT !.busy = @ \ {n}] ELSE runs[q]]
    /\ UNCHANGED <<library, seed, edits>>

\* Mutant: the failure of a child is not awaited.
MayFailAlone(p, n) == n = Plain \/ Refused(p, n) \/ Child(p, n) \notin Paths

\* What makes a node throw: its own work, a refusal, the hub or the compilation
\* of what it answered, or the child's failure.
MayFail(p, n) ==
    n = Plain \/ Refused(p, n) \/ Outcome(Child(p, n)) \in {"none", "failed"}

\* A node throws and its run fails, at once: the other nodes of the step, with
\* all they have called, are not stopped.
NodeFails(p, n) ==
    /\ Busy(p, n)
    /\ MayFail(p, n)
    /\ runs' = [runs EXCEPT ![p].busy = @ \ {n}, ![p].outcome = "failed"]
    /\ UNCHANGED <<library, seed, edits>>

\* The superstep ends, and with the last one the run.
StepEnds(p) ==
    /\ p \in Paths
    /\ runs[p].outcome = "running" /\ runs[p].busy = {}
    /\ LET r == runs[p]
       IN runs' = [runs EXCEPT ![p] =
             IF r.step = Len(r.body) THEN [r EXCEPT !.outcome = "done"]
             ELSE [r EXCEPT !.step = @ + 1, !.busy = r.body[r.step + 1]]]
    /\ UNCHANGED <<library, seed, edits>>

\* Somebody saves a flow in the hub.
EditFlow(f, b) ==
    /\ edits < MaxEdit
    /\ edits' = edits + 1
    /\ library' = [library EXCEPT ![f] = b]
    /\ UNCHANGED <<seed, runs>>

-----------------------------------------------------------------------------
Progress ==
    \E p \in Paths :
        \/ \E n \in runs[p].busy : Load(p, n) \/ NodeEnds(p, n) \/ NodeFails(p, n)
        \/ StepEnds(p)

Next == Progress \/ \E f \in Flow, b \in Bodies : EditFlow(f, b)

Spec == Init /\ [][Next]_vars

-----------------------------------------------------------------------------
(* Properties *)

\* Every variable has its shape.
TypeOK ==
    /\ library \in [Flow -> Bodies]
    /\ seed \in Seq(Flow)
    /\ Paths \subseteq Seq(Flow) /\ <<>> \in Paths
    /\ runs \in [Paths -> Run]
    /\ edits \in 0 .. MaxEdit

\* Flows that call each other are stopped, however the hub changes them on the
\* way: no flow is on a call stack twice and no stack outgrows the limit (lines
\* 699-707).  Every run that goes on is awaited by the node that called it, and
\* when a run completes nothing it has called is still at work.
CallsBounded ==
    \A p \in Paths :
        /\ Len(Stack(p)) <= MaxDepth \/ p = <<>>
        /\ \A i, j \in DOMAIN Stack(p) : Stack(p)[i] = Stack(p)[j] => i = j
        /\ \A q \in Paths, f \in Flow :
              p = Child(q, f) =>
                  /\ runs[p].outcome = "running" => f \in runs[q].busy
                  /\ runs[q].outcome # "done"

Quiet == \A p \in Paths : runs[p].outcome # "running" /\ runs[p].busy = {}

\* A request ends, with all that it started: no definition, failure or change of
\* a flow leaves a run waiting or calling for ever.
CallsEnd == <>[]Quiet
=============================================================================
