----------------------------- MODULE RunLedger -----------------------------
(***************************************************************************)
(* What a shell's run journal promises its callers, without SQL,           *)
(* transactions, processes or crashes: a ledger of runs, each of which is  *)
(* admitted once, decided once and acknowledged once, with a single run    *)
(* undecided at any time.  RunJournal is shown to implement it.            *)
(***************************************************************************)
CONSTANTS Run,        \* names of runs
          Verdict,    \* everything a decision on a run records
          Proof,      \* everything an acknowledgement of a verdict records
          Nothing     \* absence of a verdict or a proof

VARIABLES admitted,   \* the runs the ledger knows
          verdict,    \* the verdict on each run, or Nothing
          proof       \* the acknowledgement of each run's verdict, or Nothing

ledgerVars == <<admitted, verdict, proof>>

Init ==
    /\ admitted = {}
    /\ verdict = [r \in Run |-> Nothing]
    /\ proof = [r \in Run |-> Nothing]

\* A run enters the ledger when every earlier one has been decided.
Enter(r) ==
    /\ r \notin admitted
    /\ \A s \in admitted : verdict[s] # Nothing
    /\ admitted' = admitted \cup {r}
    /\ UNCHANGED <<verdict, proof>>

\* The one undecided run is decided, for good.
Decide(r) ==
    /\ r \in admitted
    /\ verdict[r] = Nothing
    /\ UNCHANGED <<admitted, proof>>
    /\ \E v \in Verdict : verdict' = [verdict EXCEPT ![r] = v]

\* A decided run is acknowledged, for good.
Settle(r) ==
    /\ r \in admitted
    /\ verdict[r] # Nothing
    /\ proof[r] = Nothing
    /\ UNCHANGED <<admitted, verdict>>
    /\ \E q \in Proof : proof' = [proof EXCEPT ![r] = q]

Next == \E r \in Run : Enter(r) \/ Decide(r) \/ Settle(r)

Spec == Init /\ [][Next]_ledgerVars
=============================================================================
