----------------------------- MODULE RunJournal -----------------------------
(***************************************************************************)
(* The durable run journal of the shells bridge (run-journal.ts): a SQLite *)
(* file shared by the processes that open it.  A write runs inside         *)
(* BEGIN IMMEDIATE ... COMMIT, so one process at a time stages changes in  *)
(* a private copy of the tables; COMMIT publishes the copy, a rollback or  *)
(* a crash drops it.  Calls that throw before staging anything leave no    *)
(* trace and are not steps.                                                *)
(***************************************************************************)
EXTENDS Naturals, FiniteSets

CONSTANTS Run, Invocation, Event, \* run, invocation and event identifiers
          Input,        \* what an invocation carries: session and input digest
          Clock,        \* timestamps of observations
          Started,      \* timestamps of admissions
          Result,       \* what an outcome says besides the identities
          Oversized,    \* the results longer than the bytes reserved for a run
          ReceiptId,    \* identifiers of receipts
          Process,      \* processes that open the journal
          Policy,       \* journal policies (shell, maxRuns, byte limits)
          Capacity,     \* Capacity[p] is maxRuns under policy p
          None          \* SQL NULL, an absent row, a closed handle

ASSUME ClockAssumption == Clock \subseteq Nat
ASSUME OversizedAssumption == Oversized \subseteq Result
ASSUME CapacityAssumption == Capacity \in [Policy -> Nat \ {0}]
Admission == [run: Run, invocation: Invocation, input: Input, startedAt: Started]

\* outcomeDigest hashes every other field, so an outcome is its own digest.
Outcome == [run: Run, invocation: Invocation, input: Input, event: Event, result: Result]

Receipt == [run: Run, event: Event, digest: Outcome, id: ReceiptId]

CancelKind == {"cancel_requested", "cancel_acknowledged", "cancel_unconfirmed"}
Uncertainty == [kind: {"unresolved"}, at: Clock]
Cancellation == [kind: CancelKind, at: Clock]

RunRow == [admission: Admission, uncertainty: Uncertainty \cup {None},
           cancellation: Cancellation \cup {None}, outcome: Outcome \cup {None}]
DeliveryRow == [run: Run, digest: Outcome, receipt: Receipt \cup {None}]

VARIABLES policy,     \* the policy in the metadata row, None while the file is empty
          runs,       \* the committed rows of table runs, by run_id
          deliveries, \* the committed rows of table deliveries, by event_id
          tx,         \* the open write transaction, or None
          handle,     \* the policy each process opened the journal with, or None
          told        \* the outcomes and receipts returned to callers (history)

vars == <<policy, runs, deliveries, tx, handle, told>>

Runs == [Run -> RunRow \cup {None}]
Deliveries == [Event -> DeliveryRow \cup {None}]
Answer == [outcome: Outcome \cup {None}, receipt: Receipt \cup {None}]
Transaction == [owner: Process, runs: Runs, deliveries: Deliveries,
                todo: Outcome \cup {None}, answer: Answer]

\* None is no row, no observation, no outcome, nothing else.
ASSUME NoneAssumption ==
    /\ None \notin Policy \cup Process \cup Event
    /\ None \notin Admission /\ None \notin Outcome /\ None \notin Receipt
    /\ None \notin Uncertainty /\ None \notin Cancellation
    /\ None \notin RunRow /\ None \notin DeliveryRow /\ None \notin Transaction

NoAnswer == [outcome |-> None, receipt |-> None]

Admitted(rs) == {r \in Run : rs[r] # None}
Open(rs) == {r \in Admitted(rs) : rs[r].outcome = None}

Init ==
    /\ policy = None
    /\ runs = [r \in Run |-> None]
    /\ deliveries = [e \in Event |-> None]
    /\ tx = None
    /\ handle = [p \in Process |-> None]
    /\ told = [outcomes |-> {}, receipts |-> {}]

-----------------------------------------------------------------------------
(* Handles *)

\* The constructor: an empty file gets the schema and this process's policy,
\* any other file must already carry exactly that policy.  The file is looked
\* at again inside BEGIN IMMEDIATE, so two openers of an empty file serialize.
OpenJournal(p, pol) ==
    /\ handle[p] = None
    /\ tx = None
    /\ policy \in {None, pol}
    /\ policy' = pol
    /\ handle' = [handle EXCEPT ![p] = pol]
    /\ UNCHANGED <<runs, deliveries, tx, told>>

Owns(p) == tx # None /\ tx.owner = p

\* close(), by a process with no transaction of its own.
CloseJournal(p) ==
    /\ handle[p] # None
    /\ ~Owns(p)
    /\ handle' = [handle EXCEPT ![p] = None]
    /\ UNCHANGED <<policy, runs, deliveries, tx, told>>

\* The process dies; SQLite discards what it had not committed.
Crash(p) ==
    /\ handle[p] # None
    /\ handle' = [handle EXCEPT ![p] = None]
    /\ tx' = IF Owns(p) THEN None ELSE tx
    /\ UNCHANGED <<policy, runs, deliveries, told>>

-----------------------------------------------------------------------------
(* Transactions *)

\* BEGIN IMMEDIATE succeeded and validateStore found this process's policy.
CanBegin(p) ==
    /\ tx = None
    /\ handle[p] # None
    /\ policy = handle[p]

\* The statements so far have produced these tables; todo is the outcome
\* whose delivery row is still to be inserted, if any.
Stage(p, rs, ds, todo, answer) ==
    /\ tx' = [owner |-> p, runs |-> rs, deliveries |-> ds, todo |-> todo,
              answer |-> answer]
    /\ UNCHANGED <<policy, runs, deliveries, handle, told>>

\* Mutant: the lookup forgets the invocation.
ClaimantsByRun(a) == {r \in Admitted(runs) : r = a.run}

\* The rows that claim an admission's run or its invocation.
Claimants(a) ==
    {r \in Admitted(runs) : r = a.run \/ runs[r].admission.invocation = a.invocation}

\* admit: a replay of the stored admission returns it ...
AdmitReplay(p, a) ==
    /\ CanBegin(p)
    /\ Claimants(a) # {}
    /\ \A r \in Claimants(a) : runs[r].admission = a
    /\ Stage(p, runs, deliveries, None, NoAnswer)

\* ... and a new one needs a free place and no run in progress.
AdmitNew(p, a) ==
    /\ CanBegin(p)
    /\ Claimants(a) = {}
    /\ Cardinality(Admitted(runs)) < Capacity[policy]
    /\ Open(runs) = {}
    /\ Stage(p, [runs EXCEPT ![a.run] = [admission |-> a, uncertainty |-> None,
                                         cancellation |-> None, outcome |-> None]],
             deliveries, None, NoAnswer)

\* Mutant: only the clock decides.
SupersedesByClock(o, prev) == prev # None => prev # o /\ prev.at <= o.at

\* Whether observe lets an observation replace the previous one of its column.
Supersedes(o, prev) ==
    prev # None =>
        /\ prev # o
        /\ \/ o.kind = "cancel_acknowledged" /\ prev.kind # "cancel_acknowledged"
           \/ /\ prev.kind = "cancel_acknowledged" => o.kind = "cancel_acknowledged"
              /\ prev.at <= o.at

\* Mutant: observe without the early return for a run that has an outcome.
ObserveUncertaintyLate(p, r, o) ==
    /\ CanBegin(p)
    /\ r \in Admitted(runs)
    /\ Supersedes(o, runs[r].uncertainty)
    /\ Stage(p, [runs EXCEPT ![r].uncertainty = o], deliveries, None, NoAnswer)

\* observe, kind unresolved: the column uncertainty.
ObserveUncertainty(p, r, o) ==
    /\ CanBegin(p)
    /\ r \in Open(runs)
    /\ Supersedes(o, runs[r].uncertainty)
    /\ Stage(p, [runs EXCEPT ![r].uncertainty = o], deliveries, None, NoAnswer)

\* observe, any other kind: the column cancellation.
ObserveCancellation(p, r, o) ==
    /\ CanBegin(p)
    /\ r \in Open(runs)
    /\ Supersedes(o, runs[r].cancellation)
    /\ Stage(p, [runs EXCEPT ![r].cancellation = o], deliveries, None, NoAnswer)

SameIdentity(o, a) == o.invocation = a.invocation /\ o.input = a.input

\* commitOutcome: the stored outcome again is answered from the store.
OutcomeReplay(p, o) ==
    /\ CanBegin(p)
    /\ o.run \in Admitted(runs)
    /\ SameIdentity(o, runs[o.run].admission)
    /\ runs[o.run].outcome = o
    /\ Stage(p, runs, deliveries, None, [NoAnswer EXCEPT !.outcome = o])

\* Mutant: commitOutcome overwrites an outcome that is already there.
OutcomeOverwrite(p, o) ==
    /\ CanBegin(p)
    /\ o.run \in Admitted(runs)
    /\ SameIdentity(o, runs[o.run].admission)
    /\ o.result \notin Oversized
    /\ Stage(p, [runs EXCEPT ![o.run].outcome = o], deliveries, None,
             [NoAnswer EXCEPT !.outcome = o])

\* commitOutcome, first statement: the outcome goes into the run's row.
OutcomeUpdate(p, o) ==
    /\ CanBegin(p)
    /\ o.run \in Open(runs)
    /\ SameIdentity(o, runs[o.run].admission)
    /\ o.result \notin Oversized
    /\ Stage(p, [runs EXCEPT ![o.run].outcome = o], deliveries, o,
             [NoAnswer EXCEPT !.outcome = o])

\* commitOutcome, second statement, in the same transaction: the delivery row.
DeliveryInsert(p) ==
    /\ Owns(p)
    /\ tx.todo # None
    /\ tx.deliveries[tx.todo.event] = None
    /\ \A e \in Event : tx.deliveries[e] # None => tx.deliveries[e].run # tx.todo.run
    /\ tx' = [tx EXCEPT !.todo = None,
                !.deliveries[tx.todo.event] =
                    [run |-> tx.todo.run, digest |-> tx.todo, receipt |-> None]]
    /\ UNCHANGED <<policy, runs, deliveries, handle, told>>

\* Mutant: a second receipt replaces the first.
AcknowledgeAgain(p, q) ==
    /\ CanBegin(p)
    /\ deliveries[q.event] # None
    /\ deliveries[q.event].run = q.run
    /\ deliveries[q.event].digest = q.digest
    /\ Stage(p, runs, [deliveries EXCEPT ![q.event].receipt = q], None,
             [NoAnswer EXCEPT !.receipt = q])

\* acknowledge: the receipt must match the delivery's run and digest, and is
\* written once.
Acknowledge(p, q) ==
    /\ CanBegin(p)
    /\ deliveries[q.event] # None
    /\ deliveries[q.event].run = q.run
    /\ deliveries[q.event].digest = q.digest
    /\ deliveries[q.event].receipt \in {None, q}
    /\ Stage(p, runs, [deliveries EXCEPT ![q.event].receipt = q], None,
             [NoAnswer EXCEPT !.receipt = q])

\* The statement just tried violated a UNIQUE constraint, or COMMIT failed:
\* ROLLBACK, and the caller sees the error.
Rollback(p) ==
    /\ Owns(p)
    /\ tx' = None
    /\ UNCHANGED <<policy, runs, deliveries, handle, told>>

\* Mutant: each statement of commitOutcome commits on its own.
CommitEachStatement(p) ==
    /\ Owns(p)
    /\ runs' = tx.runs
    /\ deliveries' = tx.deliveries
    /\ told' = [outcomes |-> told.outcomes \cup ({tx.answer.outcome} \ {None}),
                receipts |-> told.receipts \cup ({tx.answer.receipt} \ {None})]
    /\ tx' = None
    /\ UNCHANGED <<policy, handle>>

\* COMMIT, then the result is returned to the caller.
Commit(p) ==
    /\ Owns(p)
    /\ tx.todo = None
    /\ runs' = tx.runs
    /\ deliveries' = tx.deliveries
    /\ told' = [outcomes |-> told.outcomes \cup ({tx.answer.outcome} \ {None}),
                receipts |-> told.receipts \cup ({tx.answer.receipt} \ {None})]
    /\ tx' = None
    /\ UNCHANGED <<policy, handle>>

Next ==
    \E p \in Process :
        \/ \E pol \in Policy : OpenJournal(p, pol)
        \/ CloseJournal(p)
        \/ Crash(p)
        \/ \E a \in Admission : AdmitReplay(p, a) \/ AdmitNew(p, a)
        \/ \E r \in Run, o \in Uncertainty : ObserveUncertainty(p, r, o)
        \/ \E r \in Run, o \in Cancellation : ObserveCancellation(p, r, o)
        \/ \E o \in Outcome : OutcomeReplay(p, o) \/ OutcomeUpdate(p, o)
        \/ DeliveryInsert(p)
        \/ \E e \in Event, q \in ReceiptId :
             /\ deliveries[e] # None
             /\ Acknowledge(p, [run |-> deliveries[e].run, event |-> e,
                                digest |-> deliveries[e].digest, id |-> q])
        \/ Rollback(p)
        \/ Commit(p)

Spec == Init /\ [][Next]_vars

-----------------------------------------------------------------------------
(* Properties *)

\* Every variable has its shape; a file without a policy has no rows.
TypeOK ==
    /\ policy \in Policy \cup {None}
    /\ runs \in Runs
    /\ deliveries \in Deliveries
    /\ tx \in Transaction \cup {None}
    /\ handle \in [Process -> Policy \cup {None}]
    /\ told \in [outcomes: SUBSET Outcome, receipts: SUBSET Receipt]

\* Whatever processes and crashes do, the journal holds at most one run in
\* progress, gives an invocation to one run only, and keeps to its capacity:
\* a caller retrying admit never starts a second execution (lines 140-147).
AdmissionLimits ==
    /\ \A r, s \in Open(runs) : r = s
    /\ \A r, s \in Admitted(runs) :
         runs[r].admission.invocation = runs[s].admission.invocation => r = s
    /\ policy # None => Cardinality(Admitted(runs)) <= Capacity[policy]

\* The slot of a run is released exactly when its outcome is queued for
\* delivery: an outcome and its delivery row are stored together or not at
\* all, and a delivery's digest and receipt are those of its run's outcome
\* (commitOutcome's two statements in one transaction, lines 187-189).
DeliveryPerOutcome ==
    /\ \A r \in Admitted(runs) \ Open(runs) :
         LET d == deliveries[runs[r].outcome.event]
         IN  d # None /\ d.run = r /\ d.digest = runs[r].outcome
    /\ \A e \in Event : deliveries[e] # None =>
         LET d == deliveries[e]
         IN  /\ d.run \in Admitted(runs) \ Open(runs)
             /\ runs[d.run].outcome.event = e
             /\ d.receipt # None => d.receipt.event = e /\ d.receipt.digest = d.digest

\* What a caller has been told survives: an outcome or a receipt returned to
\* any process is still the stored one after any number of crashes, reopenings
\* and later calls (COMMIT precedes return, lines 119-121).
ToldIsDurable ==
    /\ \A o \in told.outcomes :
         runs[o.run] # None /\ runs[o.run].outcome = o
    /\ \A q \in told.receipts :
         deliveries[q.event] # None /\ deliveries[q.event].receipt = q

\* No step rewrites history: a row never disappears, an admission, an outcome
\* and a receipt are written once, and nothing about a run changes after its
\* outcome (the early return of observe, line 158).
HistoryKept ==
    [][ /\ \A r \in Admitted(runs) :
             /\ runs'[r] # None
             /\ runs'[r].admission = runs[r].admission
             /\ runs[r].outcome # None => runs'[r] = runs[r]
        /\ \A e \in Event : deliveries[e] # None =>
             /\ deliveries'[e] # None
             /\ deliveries'[e].digest = deliveries[e].digest
             /\ deliveries[e].receipt # None => deliveries'[e] = deliveries[e]
      ]_vars

\* An acknowledged cancellation is a fact that no later observation, older or
\* newer, erases, and otherwise observations only move forward in time unless
\* the newcomer is the first acknowledgement (lines 161-165).
ObservationOrder ==
    [][ \A r \in Admitted(runs) : runs[r].cancellation # None =>
          LET was == runs[r].cancellation
              now == runs'[r].cancellation
          IN  /\ now # None
              /\ was.kind = "cancel_acknowledged" =>
                   now.kind = "cancel_acknowledged" /\ was.at <= now.at
              /\ now.kind # "cancel_acknowledged" => was.at <= now.at
      ]_vars

\* The journal implements the ledger: with SQL rows read as facts about runs,
\* every step of it is a step of RunLedger or changes nothing there.
Decided(rs) == Admitted(rs) \ Open(rs)

Ledger == INSTANCE RunLedger WITH
    Verdict <- Outcome, Proof <- Receipt, Nothing <- None,
    admitted <- Admitted(runs),
    verdict <- [r \in Run |-> IF r \in Decided(runs) THEN runs[r].outcome ELSE None],
    proof <- [r \in Run |-> IF r \in Decided(runs)
                            THEN deliveries[runs[r].outcome.event].receipt ELSE None]

ImplementsLedger == Ledger!Spec
=============================================================================
