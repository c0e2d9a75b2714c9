-------------------------- MODULE RunJournalProofs --------------------------
(***************************************************************************)
(* Proofs about RunJournal, for any number of processes, runs, events and  *)
(* policies.  What makes the safety properties inductive is the open       *)
(* transaction: its staged tables must be as consistent as the committed   *)
(* ones, but for the one delivery row still to be inserted, and must only  *)
(* add to them.  COMMIT then has nothing left to establish.                *)
(***************************************************************************)
EXTENDS RunJournal, FiniteSetTheorems, TLAPS

\* The tables rs2, ds2 keep the history in rs, ds.
Grows(rs, ds, rs2, ds2) ==
    /\ \A r \in Run : rs[r] # None =>
         /\ rs2[r] # None
         /\ rs2[r].admission = rs[r].admission
         /\ rs[r].outcome # None => rs2[r] = rs[r]
    /\ \A e \in Event : ds[e] # None =>
         /\ ds2[e] # None
         /\ ds2[e].digest = ds[e].digest
         /\ ds[e].receipt # None => ds2[e] = ds[e]

\* The limits on admitted and open runs.
WithinLimits(rs) ==
    /\ \A r, s \in Run : rs[r] # None /\ rs[s] # None
                         /\ rs[r].outcome = None /\ rs[s].outcome = None => r = s
    /\ \A r, s \in Run : rs[r] # None /\ rs[s] # None
                         /\ rs[r].admission.invocation = rs[s].admission.invocation => r = s
    /\ IsFiniteSet(Admitted(rs))
    /\ policy # None => Cardinality(Admitted(rs)) <= Capacity[policy]
    /\ policy = None => Admitted(rs) = {}

\* Outcomes and deliveries match, but for the outcome todo.
Matched(rs, ds, todo) ==
    /\ \A r \in Run : rs[r] # None /\ rs[r].outcome # None =>
         /\ rs[r].outcome.run = r
         /\ \/ rs[r].outcome = todo
            \/ LET d == ds[rs[r].outcome.event]
               IN  d # None /\ d.run = r /\ d.digest = rs[r].outcome
    /\ \A e \in Event : ds[e] # None =>
         /\ rs[ds[e].run] # None
         /\ rs[ds[e].run].outcome # None
         /\ rs[ds[e].run].outcome.event = e
         /\ ds[e].digest = rs[ds[e].run].outcome
         /\ ds[e].receipt # None =>
              ds[e].receipt.event = e /\ ds[e].receipt.digest = ds[e].digest

\* What the call will be told is in the tables.
Backed(rs, ds, answer) ==
    /\ answer.outcome # None =>
         rs[answer.outcome.run] # None /\ rs[answer.outcome.run].outcome = answer.outcome
    /\ answer.receipt # None =>
         /\ ds[answer.receipt.event] # None
         /\ ds[answer.receipt.event].receipt = answer.receipt

Staged ==
    tx # None =>
        /\ Grows(runs, deliveries, tx.runs, tx.deliveries)
        /\ WithinLimits(tx.runs)
        /\ Matched(tx.runs, tx.deliveries, tx.todo)
        /\ Backed(tx.runs, tx.deliveries, tx.answer)
        /\ tx.todo # None => tx.answer.outcome = tx.todo

\* The inductive invariant.
IInv ==
    /\ TypeOK
    /\ WithinLimits(runs)
    /\ Matched(runs, deliveries, None)
    /\ ToldIsDurable
    /\ Staged

-----------------------------------------------------------------------------

\* The empty tables are consistent.
LEMMA InitInvariant == Init => IInv
<1> SUFFICES ASSUME Init PROVE IInv
  OBVIOUS
<1> USE DEF Init
<1>1. TypeOK
  BY DEF TypeOK, Runs, Deliveries
<1>2. WithinLimits(runs)
  <2>1. Admitted(runs) = {}
    BY DEF Admitted
  <2> QED
    BY <2>1, FS_EmptySet DEF WithinLimits
<1>3. Matched(runs, deliveries, None)
  BY DEF Matched
<1>4. ToldIsDurable /\ Staged
  BY DEF ToldIsDurable, Staged
<1> QED
  BY <1>1, <1>2, <1>3, <1>4 DEF IInv

\* A call that stages tables which add to the committed ones, and are as
\* consistent, keeps the invariant: whatever follows is COMMIT or nothing.
LEMMA StagePreserves ==
  ASSUME IInv, NEW p \in Process, NEW rs \in Runs, NEW ds \in Deliveries,
         NEW todo \in Outcome \cup {None}, NEW answer \in Answer,
         Stage(p, rs, ds, todo, answer),
         Grows(runs, deliveries, rs, ds), WithinLimits(rs),
         Matched(rs, ds, todo), Backed(rs, ds, answer),
         todo # None => answer.outcome = todo
  PROVE  IInv'
<1> USE DEF Stage
<1> DEFINE t == [owner |-> p, runs |-> rs, deliveries |-> ds, todo |-> todo, answer |-> answer]
<1>1. t \in Transaction /\ t # None
  BY NoneAssumption DEF Transaction
<1>2. tx' = t /\ UNCHANGED <<policy, runs, deliveries, handle, told>>
  OBVIOUS
<1>3. TypeOK'
  BY <1>1, <1>2 DEF IInv, TypeOK
<1>4. WithinLimits(runs)' /\ Matched(runs, deliveries, None)' /\ ToldIsDurable'
  BY <1>2 DEF IInv, WithinLimits, Matched, ToldIsDurable
<1>5. Staged'
  <2>1. t.runs = rs /\ t.deliveries = ds /\ t.todo = todo /\ t.answer = answer
    OBVIOUS
  <2>2. WithinLimits(tx.runs)'
    BY <1>2, <2>1 DEF WithinLimits
  <2> QED
    BY <1>2, <2>1, <2>2 DEF Staged, Grows, Matched, Backed
<1> QED
  BY <1>3, <1>4, <1>5 DEF IInv

\* Every table grows into itself.
LEMMA GrowsItself ==
  ASSUME NEW rs, NEW ds
  PROVE  Grows(rs, ds, rs, ds)
BY DEF Grows

\* Calls that stage nothing new.
LEMMA AdmitReplayInvariant ==
  ASSUME IInv, NEW p \in Process, NEW a \in Admission, AdmitReplay(p, a)
  PROVE  IInv'
<1>1. runs \in Runs /\ deliveries \in Deliveries /\ NoAnswer \in Answer
  BY DEF IInv, TypeOK, NoAnswer, Answer
<1>2. Backed(runs, deliveries, NoAnswer)
  BY DEF Backed, NoAnswer
<1> QED
  BY <1>1, <1>2, GrowsItself, StagePreserves DEF AdmitReplay, IInv

LEMMA OutcomeReplayInvariant ==
  ASSUME IInv, NEW p \in Process, NEW o \in Outcome, OutcomeReplay(p, o)
  PROVE  IInv'
<1> DEFINE answer == [NoAnswer EXCEPT !.outcome = o]
<1>1. runs \in Runs /\ deliveries \in Deliveries
  BY DEF IInv, TypeOK
<1>2. answer \in Answer /\ answer.outcome = o /\ answer.receipt = None
  BY DEF NoAnswer, Answer
<1>3. Backed(runs, deliveries, answer)
  BY <1>2 DEF OutcomeReplay, Admitted, Backed
<1> QED
  BY <1>1, <1>2, <1>3, GrowsItself, StagePreserves DEF OutcomeReplay, IInv

\* A new row: its run and its invocation are new, and no other run is open.
LEMMA AdmitNewInvariant ==
  ASSUME IInv, NEW p \in Process, NEW a \in Admission, AdmitNew(p, a)
  PROVE  IInv'
<1> DEFINE row == [admission |-> a, uncertainty |-> None, cancellation |-> None, outcome |-> None]
           rs == [runs EXCEPT ![a.run] = row]
<1>1. runs \in Runs /\ deliveries \in Deliveries /\ a.run \in Run
  BY DEF IInv, TypeOK, Admission
<1>2. row \in RunRow /\ row # None
  BY NoneAssumption DEF RunRow
<1>3. rs \in Runs /\ rs[a.run] = row /\ \A r \in Run : r # a.run => rs[r] = runs[r]
  BY <1>1, <1>2 DEF Runs
<1>4. runs[a.run] = None
  BY <1>1 DEF AdmitNew, Claimants, Admitted
<1>5. \A r \in Run : runs[r] # None => runs[r].admission.invocation # a.invocation
  BY DEF AdmitNew, Claimants, Admitted
<1>6. \A r \in Run : runs[r] # None => runs[r].outcome # None
  BY DEF AdmitNew, Open, Admitted
<1>7. Grows(runs, deliveries, rs, deliveries)
  BY <1>3, <1>4 DEF Grows
<1>8. WithinLimits(rs)
  <2>1. Admitted(rs) = Admitted(runs) \cup {a.run} /\ a.run \notin Admitted(runs)
    BY <1>1, <1>2, <1>3, <1>4 DEF Admitted
  <2>2. IsFiniteSet(Admitted(runs)) /\ Cardinality(Admitted(runs)) \in Nat
    BY FS_CardinalityType DEF IInv, WithinLimits
  <2>3. IsFiniteSet(Admitted(rs)) /\ Cardinality(Admitted(rs)) = Cardinality(Admitted(runs)) + 1
    <3>1. IsFiniteSet(Admitted(runs) \cup {a.run})
          /\ Cardinality(Admitted(runs) \cup {a.run}) = Cardinality(Admitted(runs)) + 1
      BY <2>1, <2>2, FS_AddElement
    <3> QED
      BY <2>1, <3>1
  <2>4. policy # None /\ policy \in Policy /\ Capacity[policy] \in Nat
    BY NoneAssumption, CapacityAssumption DEF AdmitNew, CanBegin, IInv, TypeOK
  <2>5. Cardinality(Admitted(rs)) <= Capacity[policy]
    BY <2>2, <2>3, <2>4 DEF AdmitNew
  <2>6. \A r, s \in Run : rs[r] # None /\ rs[s] # None
                          /\ rs[r].outcome = None /\ rs[s].outcome = None => r = s
    BY <1>3, <1>6
  <2>7. \A r, s \in Run : rs[r] # None /\ rs[s] # None
             /\ rs[r].admission.invocation = rs[s].admission.invocation => r = s
    BY <1>3, <1>5 DEF IInv, WithinLimits
  <2> QED
    BY <2>3, <2>4, <2>5, <2>6, <2>7 DEF WithinLimits
<1>9. Matched(rs, deliveries, None)
  <2>1. \A r \in Run : rs[r] # None /\ rs[r].outcome # None => rs[r] = runs[r]
    BY <1>3
  <2>2. \A e \in Event : deliveries[e] # None =>
          deliveries[e].run \in Run /\ rs[deliveries[e].run] = runs[deliveries[e].run]
    BY <1>1, <1>3, <1>4 DEF IInv, Matched, Deliveries, DeliveryRow
  <2> QED
    BY <2>1, <2>2 DEF IInv, Matched
<1>10. NoAnswer \in Answer /\ Backed(rs, deliveries, NoAnswer)
  BY DEF Backed, NoAnswer, Answer
<1> QED
  BY <1>1, <1>3, <1>7, <1>8, <1>9, <1>10, StagePreserves DEF AdmitNew

\* An observation changes one column of an open row, which none of the
\* invariant's parts mentions.
LEMMA ObservationInvariant ==
  ASSUME IInv, NEW p \in Process, NEW r \in Open(runs), NEW row \in RunRow,
         row.admission = runs[r].admission, row.outcome = None,
         Stage(p, [runs EXCEPT ![r] = row], deliveries, None, NoAnswer)
  PROVE  IInv'
<1> DEFINE rs == [runs EXCEPT ![r] = row]
<1>1. runs \in Runs /\ deliveries \in Deliveries
  BY DEF IInv, TypeOK
<1>2. r \in Run /\ runs[r] # None /\ runs[r].outcome = None /\ row # None
  BY NoneAssumption DEF Open, Admitted
<1>3. rs \in Runs /\ rs[r] = row /\ \A s \in Run : s # r => rs[s] = runs[s]
  BY <1>1, <1>2 DEF Runs
<1>4. Grows(runs, deliveries, rs, deliveries)
  BY <1>2, <1>3 DEF Grows
<1>5. WithinLimits(rs)
  <2>1. Admitted(rs) = Admitted(runs)
    BY <1>2, <1>3 DEF Admitted
  <2>2. \A s \in Run : rs[s] # None =>
          /\ runs[s] # None
          /\ rs[s].outcome = runs[s].outcome /\ rs[s].admission = runs[s].admission
    BY <1>2, <1>3
  <2> QED
    BY <2>1, <2>2, ZenonT(60) DEF IInv, WithinLimits
<1>6. Matched(rs, deliveries, None)
  <2>1. \A s \in Run : rs[s] # None /\ rs[s].outcome # None => rs[s] = runs[s]
    BY <1>3
  <2>2. \A e \in Event : deliveries[e] # None =>
          deliveries[e].run \in Run /\ rs[deliveries[e].run] = runs[deliveries[e].run]
    BY <1>1, <1>2, <1>3 DEF IInv, Matched, Deliveries, DeliveryRow
  <2> QED
    BY <2>1, <2>2 DEF IInv, Matched
<1>7. NoAnswer \in Answer /\ Backed(rs, deliveries, NoAnswer)
  BY DEF Backed, NoAnswer, Answer
<1> QED
  BY <1>1, <1>3, <1>4, <1>5, <1>6, <1>7, StagePreserves

LEMMA ObserveUncertaintyInvariant ==
  ASSUME IInv, NEW p \in Process, NEW r \in Run, NEW o \in Uncertainty,
         ObserveUncertainty(p, r, o)
  PROVE  IInv'
<1> DEFINE row == [runs[r] EXCEPT !.uncertainty = o]
<1>1. r \in Open(runs) /\ runs \in Runs
  BY DEF ObserveUncertainty, IInv, TypeOK
<1>2. runs[r] \in RunRow /\ runs[r].outcome = None
  BY <1>1 DEF Open, Admitted, Runs
<1>3. row \in RunRow /\ row.admission = runs[r].admission /\ row.outcome = None
  BY <1>2 DEF RunRow
<1>4. [runs EXCEPT ![r].uncertainty = o] = [runs EXCEPT ![r] = row]
  OBVIOUS
<1> QED
  BY <1>1, <1>3, <1>4, ObservationInvariant DEF ObserveUncertainty

LEMMA ObserveCancellationInvariant ==
  ASSUME IInv, NEW p \in Process, NEW r \in Run, NEW o \in Cancellation,
         ObserveCancellation(p, r, o)
  PROVE  IInv'
<1> DEFINE row == [runs[r] EXCEPT !.cancellation = o]
<1>1. r \in Open(runs) /\ runs \in Runs
  BY DEF ObserveCancellation, IInv, TypeOK
<1>2. runs[r] \in RunRow /\ runs[r].outcome = None
  BY <1>1 DEF Open, Admitted, Runs
<1>3. row \in RunRow /\ row.admission = runs[r].admission /\ row.outcome = None
  BY <1>2 DEF RunRow
<1>4. [runs EXCEPT ![r].cancellation = o] = [runs EXCEPT ![r] = row]
  OBVIOUS
<1> QED
  BY <1>1, <1>3, <1>4, ObservationInvariant DEF ObserveCancellation

\* The outcome goes into the row of the one open run; its delivery row is still
\* to come, which is what todo says.
LEMMA OutcomeUpdateInvariant ==
  ASSUME IInv, NEW p \in Process, NEW o \in Outcome, OutcomeUpdate(p, o)
  PROVE  IInv'
<1> DEFINE row == [runs[o.run] EXCEPT !.outcome = o]
           rs == [runs EXCEPT ![o.run] = row]
           answer == [NoAnswer EXCEPT !.outcome = o]
<1>1. runs \in Runs /\ deliveries \in Deliveries
  BY DEF IInv, TypeOK
<1>2. o.run \in Run /\ runs[o.run] # None /\ runs[o.run].outcome = None /\ o # None
  BY NoneAssumption DEF OutcomeUpdate, Open, Admitted
<1>3. runs[o.run] \in RunRow
  BY <1>1, <1>2 DEF Runs
<1>4. row \in RunRow /\ row # None /\ row.admission = runs[o.run].admission /\ row.outcome = o
  BY <1>3, NoneAssumption DEF RunRow
<1>5. rs \in Runs /\ rs[o.run] = row /\ \A s \in Run : s # o.run => rs[s] = runs[s]
  BY <1>1, <1>2, <1>4 DEF Runs
<1>6. Stage(p, rs, deliveries, o, answer)
  <2>1. [runs EXCEPT ![o.run].outcome = o] = rs
    OBVIOUS
  <2> QED
    BY <2>1 DEF OutcomeUpdate
<1>7. answer \in Answer /\ answer.outcome = o /\ answer.receipt = None
  BY DEF NoAnswer, Answer
<1> HIDE DEF row, rs, answer
<1>8. Grows(runs, deliveries, rs, deliveries)
  BY <1>2, <1>4, <1>5 DEF Grows
<1>9. WithinLimits(rs)
  <2>1. Admitted(rs) = Admitted(runs)
    BY <1>2, <1>4, <1>5 DEF Admitted
  <2>2. \A s \in Run : rs[s] # None =>
          /\ runs[s] # None
          /\ rs[s].admission = runs[s].admission
          /\ rs[s].outcome = None => runs[s].outcome = None
    BY <1>2, <1>4, <1>5
  <2> QED
    BY <2>1, <2>2 DEF IInv, WithinLimits
<1>10. Matched(rs, deliveries, o)
  <2>1. \A s \in Run : rs[s] # None /\ rs[s].outcome # None => s = o.run \/ rs[s] = runs[s]
    BY <1>5
  <2>2. \A e \in Event : deliveries[e] # None =>
          deliveries[e].run \in Run /\ rs[deliveries[e].run] = runs[deliveries[e].run]
    BY <1>1, <1>2, <1>5 DEF IInv, Matched, Deliveries, DeliveryRow
  <2> QED
    BY <1>4, <1>5, <2>1, <2>2 DEF IInv, Matched
<1>11. Backed(rs, deliveries, answer)
  BY <1>4, <1>5, <1>7 DEF Backed
<1> QED
  BY <1>1, <1>5, <1>6, <1>7, <1>8, <1>9, <1>10, <1>11, StagePreserves

\* The receipt is new or the stored one, and names the delivery's run and digest.
LEMMA AcknowledgeInvariant ==
  ASSUME IInv, NEW p \in Process, NEW q \in Receipt, Acknowledge(p, q)
  PROVE  IInv'
<1> DEFINE d == [deliveries[q.event] EXCEPT !.receipt = q]
           ds == [deliveries EXCEPT ![q.event] = d]
           answer == [NoAnswer EXCEPT !.receipt = q]
<1>1. runs \in Runs /\ deliveries \in Deliveries /\ q.event \in Event /\ q # None
  BY NoneAssumption DEF IInv, TypeOK, Receipt
<1>2. /\ deliveries[q.event] # None /\ deliveries[q.event].digest = q.digest
      /\ deliveries[q.event].receipt \in {None, q}
  BY DEF Acknowledge
<1>3. deliveries[q.event] \in DeliveryRow
  BY <1>1, <1>2 DEF Deliveries
<1>4. /\ d \in DeliveryRow /\ d # None /\ d.run = deliveries[q.event].run
      /\ d.digest = deliveries[q.event].digest /\ d.receipt = q
      /\ deliveries[q.event].receipt = q => d = deliveries[q.event]
  BY <1>3, NoneAssumption DEF DeliveryRow
<1>5. ds \in Deliveries /\ ds[q.event] = d /\ \A e \in Event : e # q.event => ds[e] = deliveries[e]
  BY <1>1, <1>4 DEF Deliveries
<1>6. Stage(p, runs, ds, None, answer)
  <2>1. [deliveries EXCEPT ![q.event].receipt = q] = ds
    OBVIOUS
  <2> QED
    BY <2>1 DEF Acknowledge
<1>7. answer \in Answer /\ answer.outcome = None /\ answer.receipt = q
  BY DEF NoAnswer, Answer
<1> HIDE DEF d, ds, answer
<1>8. Grows(runs, deliveries, runs, ds)
  BY <1>2, <1>4, <1>5 DEF Grows
<1>9. Matched(runs, ds, None)
  <2>1. \A r \in Run : runs[r] # None /\ runs[r].outcome # None =>
          /\ runs[r].outcome.run = r
          /\ runs[r].outcome.event \in Event
          /\ LET f == deliveries[runs[r].outcome.event]
             IN  f # None /\ f.run = r /\ f.digest = runs[r].outcome
    BY <1>1, NoneAssumption DEF IInv, Matched, Runs, RunRow, Outcome
  <2>2. \A e \in Event : ds[e] # None =>
          /\ deliveries[e] # None /\ ds[e].run = deliveries[e].run
          /\ ds[e].digest = deliveries[e].digest
          /\ ds[e].receipt = deliveries[e].receipt
             \/ (ds[e].receipt.event = e /\ ds[e].receipt.digest = ds[e].digest)
    BY <1>2, <1>4, <1>5
  <2>3. \A e \in Event : deliveries[e] # None =>
          ds[e] # None /\ ds[e].run = deliveries[e].run /\ ds[e].digest = deliveries[e].digest
    BY <1>2, <1>4, <1>5
  <2>4. \A r \in Run : runs[r] # None /\ runs[r].outcome # None =>
          /\ runs[r].outcome.run = r
          /\ LET f == ds[runs[r].outcome.event]
             IN  f # None /\ f.run = r /\ f.digest = runs[r].outcome
    BY <2>1, <2>3
  <2>5. \A e \in Event : ds[e] # None =>
         /\ runs[ds[e].run] # None
         /\ runs[ds[e].run].outcome # None
         /\ runs[ds[e].run].outcome.event = e
         /\ ds[e].digest = runs[ds[e].run].outcome
         /\ ds[e].receipt # None =>
              ds[e].receipt.event = e /\ ds[e].receipt.digest = ds[e].digest
    BY <2>2 DEF IInv, Matched
  <2> QED
    BY <2>4, <2>5 DEF Matched
<1>10. Backed(runs, ds, answer)
  BY <1>4, <1>5, <1>7 DEF Backed
<1>11. WithinLimits(runs)
  BY DEF IInv
<1> QED
  BY <1>1, <1>5, <1>6, <1>7, <1>8, <1>9, <1>10, <1>11, StagePreserves

\* With the delivery row in place, nothing is left to do in the transaction.
LEMMA DeliveryInsertInvariant ==
  ASSUME IInv, NEW p \in Process, DeliveryInsert(p)
  PROVE  IInv'
<1> DEFINE o == tx.todo
           d == [run |-> o.run, digest |-> o, receipt |-> None]
           ds == [tx.deliveries EXCEPT ![o.event] = d]
<1>1. /\ tx # None /\ tx \in Transaction
      /\ o \in Outcome /\ o # None /\ tx.runs \in Runs /\ tx.deliveries \in Deliveries
  BY DEF DeliveryInsert, Owns, IInv, TypeOK, Transaction
<1>2. o.event \in Event /\ o.run \in Run /\ tx.deliveries[o.event] = None
  BY <1>1 DEF DeliveryInsert, Outcome
<1>3. d \in DeliveryRow /\ d # None
  BY <1>1, <1>2, NoneAssumption DEF DeliveryRow
<1>4. ds \in Deliveries /\ ds[o.event] = d /\ \A e \in Event : e # o.event => ds[e] = tx.deliveries[e]
  BY <1>1, <1>2, <1>3 DEF Deliveries
<1>5. /\ tx' = [tx EXCEPT !.todo = None, !.deliveries = ds]
      /\ UNCHANGED <<policy, runs, deliveries, handle, told>>
  BY DEF DeliveryInsert
<1>6. /\ tx' \in Transaction /\ tx'.runs = tx.runs /\ tx'.deliveries = ds
      /\ tx'.todo = None /\ tx'.answer = tx.answer
  BY <1>1, <1>4, <1>5 DEF Transaction
<1>7. /\ Grows(runs, deliveries, tx.runs, tx.deliveries) /\ WithinLimits(tx.runs)
      /\ Matched(tx.runs, tx.deliveries, o) /\ Backed(tx.runs, tx.deliveries, tx.answer)
      /\ tx.answer.outcome = o
  BY <1>1 DEF IInv, Staged
<1> HIDE DEF ds
<1>8. tx.runs[o.run] # None /\ tx.runs[o.run].outcome = o
  BY <1>1, <1>7 DEF Backed
<1>9. Grows(runs, deliveries, tx.runs, ds)
  <2>1. deliveries[o.event] = None
    BY <1>2, <1>7 DEF Grows
  <2> QED
    BY <1>4, <1>7, <2>1 DEF Grows
<1>10. Matched(tx.runs, ds, None)
  <2>1. \A r \in Run : tx.runs[r] # None /\ tx.runs[r].outcome # None =>
          tx.runs[r].outcome \in Outcome /\ tx.runs[r].outcome.event \in Event
    BY <1>1 DEF Runs, RunRow, Outcome
  <2>2. \A r \in Run : tx.runs[r] # None /\ tx.runs[r].outcome # None =>
          /\ tx.runs[r].outcome.run = r
          /\ LET f == ds[tx.runs[r].outcome.event]
             IN  f # None /\ f.run = r /\ f.digest = tx.runs[r].outcome
    <3> SUFFICES ASSUME NEW r \in Run, tx.runs[r] # None, tx.runs[r].outcome # None
                 PROVE  /\ tx.runs[r].outcome.run = r
                        /\ LET f == ds[tx.runs[r].outcome.event]
                           IN  f # None /\ f.run = r /\ f.digest = tx.runs[r].outcome
      BY SMTT(30)
    <3>1. CASE tx.runs[r].outcome = o
      BY <1>3, <1>4, <1>7, <3>1, SMTT(30) DEF Matched
    <3>2. CASE tx.runs[r].outcome # o
      BY <1>2, <1>4, <1>7, <2>1, <3>2, SMTT(30) DEF Matched
    <3> QED
      BY <3>1, <3>2
  <2>3. \A e \in Event : ds[e] # None =>
         /\ tx.runs[ds[e].run] # None
         /\ tx.runs[ds[e].run].outcome # None
         /\ tx.runs[ds[e].run].outcome.event = e
         /\ ds[e].digest = tx.runs[ds[e].run].outcome
         /\ ds[e].receipt # None =>
              ds[e].receipt.event = e /\ ds[e].receipt.digest = ds[e].digest
    BY <1>1, <1>4, <1>7, <1>8 DEF Matched
  <2> QED
    BY <2>2, <2>3 DEF Matched
<1>11. Backed(tx.runs, ds, tx.answer)
  <2>1. tx.answer.receipt # None => tx.answer.receipt.event \in Event
    BY <1>1 DEF Transaction, Answer, Receipt
  <2> QED
    BY <1>2, <1>4, <1>7, <2>1 DEF Backed
<1>12. TypeOK'
  BY <1>5, <1>6 DEF IInv, TypeOK
<1>13. WithinLimits(runs)' /\ Matched(runs, deliveries, None)' /\ ToldIsDurable'
  BY <1>5 DEF IInv, WithinLimits, Matched, ToldIsDurable
<1>14. Staged'
  <2>1. WithinLimits(tx.runs)'
    BY <1>5, <1>6, <1>7 DEF WithinLimits
  <2> QED
    BY <1>5, <1>6, <1>9, <1>10, <1>11, <2>1 DEF Staged, Grows, Matched, Backed
<1> QED
  BY <1>12, <1>13, <1>14 DEF IInv

\* Steps that leave the tables, the policy and what was told alone, and the
\* transaction alone or empty.
LEMMA TablesKept ==
  ASSUME IInv, UNCHANGED <<policy, runs, deliveries, told>>,
         tx' \in {tx, None}, handle' \in [Process -> Policy \cup {None}]
  PROVE  IInv'
<1>1. TypeOK'
  BY DEF IInv, TypeOK
<1>2. WithinLimits(runs)' /\ Matched(runs, deliveries, None)' /\ ToldIsDurable'
  BY DEF IInv, WithinLimits, Matched, ToldIsDurable
<1>3. Staged'
  <2>1. CASE tx' = None
    BY <2>1, SMTT(30) DEF Staged
  <2>2. CASE tx' = tx
    <3>1. WithinLimits(tx.runs)' <=> WithinLimits(tx.runs)
      BY <2>2 DEF WithinLimits
    <3> QED
      BY <2>2, <3>1 DEF IInv, Staged, Grows, Matched, Backed
  <2> QED
    BY <2>1, <2>2
<1> QED
  BY <1>1, <1>2, <1>3 DEF IInv

LEMMA OpenJournalInvariant ==
  ASSUME IInv, NEW p \in Process, NEW pol \in Policy, OpenJournal(p, pol)
  PROVE  IInv'
<1> USE DEF OpenJournal
<1>1. TypeOK'
  BY DEF IInv, TypeOK
<1>2. pol # None /\ Capacity[pol] \in Nat \ {0}
  BY NoneAssumption, CapacityAssumption
<1>3. WithinLimits(runs)'
  <2>1. CASE policy = None
    <3>1. Admitted(runs) = {} /\ IsFiniteSet(Admitted(runs)) /\ Cardinality({}) = 0
      BY <2>1, FS_EmptySet DEF IInv, WithinLimits
    <3>2. Cardinality(Admitted(runs)) <= Capacity[pol]
      BY <1>2, <3>1
    <3> QED
      BY <1>2, <3>1, <3>2 DEF IInv, WithinLimits, Admitted
  <2>2. CASE policy = pol
    BY <2>2 DEF IInv, WithinLimits
  <2> QED
    BY <2>1, <2>2
<1>4. Matched(runs, deliveries, None)' /\ ToldIsDurable' /\ Staged'
  BY DEF IInv, Matched, ToldIsDurable, Staged
<1> QED
  BY <1>1, <1>3, <1>4 DEF IInv

\* COMMIT: the staged tables take the place of the committed ones, which they
\* only add to, so whatever anybody was told before still holds.
LEMMA CommitGrows ==
  ASSUME IInv, NEW p \in Process, Commit(p)
  PROVE  /\ Grows(runs, deliveries, runs', deliveries')
         /\ WithinLimits(runs') /\ Matched(runs', deliveries', None)
         /\ Backed(runs', deliveries', tx.answer)
BY DEF Commit, Owns, IInv, Staged

LEMMA CommitInvariant ==
  ASSUME IInv, NEW p \in Process, Commit(p)
  PROVE  IInv'
<1>1. tx # None /\ tx \in Transaction /\ tx' = None /\ UNCHANGED <<policy, handle>>
  BY DEF Commit, Owns, IInv, TypeOK
<1>2. runs' = tx.runs /\ deliveries' = tx.deliveries
  BY DEF Commit
<1>3. tx.answer \in Answer
  BY <1>1 DEF Transaction
<1>4. /\ told'.outcomes = told.outcomes \cup ({tx.answer.outcome} \ {None})
      /\ told'.receipts = told.receipts \cup ({tx.answer.receipt} \ {None})
      /\ told' \in [outcomes: SUBSET Outcome, receipts: SUBSET Receipt]
  BY <1>3 DEF Commit, Answer, IInv, TypeOK
<1>5. TypeOK'
  BY <1>1, <1>2, <1>4 DEF IInv, TypeOK, Transaction
<1>6. WithinLimits(runs)' /\ Matched(runs, deliveries, None)'
  <2>1. policy' = policy
    BY <1>1
  <2> QED
    BY <2>1, CommitGrows DEF WithinLimits, Matched
<1>7. ToldIsDurable'
  <2>1. \A o \in told.outcomes : runs'[o.run] # None /\ runs'[o.run].outcome = o
    <3> SUFFICES ASSUME NEW o \in told.outcomes
                 PROVE  runs'[o.run] # None /\ runs'[o.run].outcome = o
      OBVIOUS
    <3>1. o \in Outcome /\ o # None /\ o.run \in Run
      BY NoneAssumption DEF IInv, TypeOK, Outcome
    <3>2. runs[o.run] # None /\ runs[o.run].outcome = o
      BY DEF IInv, ToldIsDurable
    <3> QED
      BY <3>1, <3>2, CommitGrows DEF Grows
  <2>2. \A q \in told.receipts : deliveries'[q.event] # None /\ deliveries'[q.event].receipt = q
    <3> SUFFICES ASSUME NEW q \in told.receipts
                 PROVE  deliveries'[q.event] # None /\ deliveries'[q.event].receipt = q
      OBVIOUS
    <3>1. q \in Receipt /\ q # None /\ q.event \in Event
      BY NoneAssumption DEF IInv, TypeOK, Receipt
    <3>2. deliveries[q.event] # None /\ deliveries[q.event].receipt = q
      BY DEF IInv, ToldIsDurable
    <3> QED
      BY <3>1, <3>2, CommitGrows DEF Grows
  <2>3. Backed(runs', deliveries', tx.answer)
    BY CommitGrows
  <2> QED
    BY <1>4, <2>1, <2>2, <2>3 DEF ToldIsDurable, Backed
<1>8. Staged'
  BY <1>1 DEF Staged
<1> QED
  BY <1>5, <1>6, <1>7, <1>8 DEF IInv

-----------------------------------------------------------------------------

\* Every step keeps the invariant.
THEOREM StepInvariant == IInv /\ [Next]_vars => IInv'
<1> SUFFICES ASSUME IInv, [Next]_vars PROVE IInv'
  OBVIOUS
<1>1. handle \in [Process -> Policy \cup {None}]
  BY DEF IInv, TypeOK
<1>2. CASE UNCHANGED vars
  BY <1>1, <1>2, TablesKept DEF vars
<1>3. ASSUME NEW p \in Process, NEW pol \in Policy, OpenJournal(p, pol) PROVE IInv'
  BY <1>3, OpenJournalInvariant
<1>4. ASSUME NEW p \in Process, CloseJournal(p) PROVE IInv'
  BY <1>1, <1>4, TablesKept DEF CloseJournal
<1>5. ASSUME NEW p \in Process, Crash(p) PROVE IInv'
  BY <1>1, <1>5, TablesKept DEF Crash
<1>6. ASSUME NEW p \in Process, Rollback(p) PROVE IInv'
  BY <1>1, <1>6, TablesKept DEF Rollback
<1>7. ASSUME NEW p \in Process, NEW e \in Event, NEW q \in ReceiptId, deliveries[e] # None,
             Acknowledge(p, [run |-> deliveries[e].run, event |-> e,
                             digest |-> deliveries[e].digest, id |-> q])
      PROVE  IInv'
  <2>1. deliveries[e] \in DeliveryRow
    BY <1>7 DEF IInv, TypeOK, Deliveries
  <2>2. [run |-> deliveries[e].run, event |-> e, digest |-> deliveries[e].digest, id |-> q] \in Receipt
    BY <2>1 DEF DeliveryRow, Receipt
  <2> QED
    BY <1>7, <2>2, AcknowledgeInvariant
<1> QED
  BY <1>2, <1>3, <1>4, <1>5, <1>6, <1>7, AdmitReplayInvariant, AdmitNewInvariant,
     ObserveUncertaintyInvariant, ObserveCancellationInvariant, OutcomeReplayInvariant,
     OutcomeUpdateInvariant, DeliveryInsertInvariant, CommitInvariant
  DEF Next

\* The invariant holds in every reachable state.
THEOREM Invariant == Spec => []IInv
BY InitInvariant, StepInvariant, PTL DEF Spec

\* Rows, transactions, handles and answers keep their shape, for any number of
\* processes, runs and events.
THEOREM TypeCorrect == Spec => []TypeOK
<1>1. IInv => TypeOK
  BY DEF IInv
<1> QED
  BY <1>1, Invariant, PTL

\* One run in progress, one run per invocation, no more than maxRuns runs.
THEOREM LimitsHold == Spec => []AdmissionLimits
<1>1. IInv => AdmissionLimits
  BY DEF IInv, WithinLimits, AdmissionLimits, Admitted, Open
<1> QED
  BY <1>1, Invariant, PTL

\* Outcomes and deliveries are stored together.
THEOREM DeliveriesMatch == Spec => []DeliveryPerOutcome
<1>1. IInv => DeliveryPerOutcome
  <2> SUFFICES ASSUME IInv PROVE DeliveryPerOutcome
    OBVIOUS
  <2>1. runs \in Runs /\ deliveries \in Deliveries
    BY DEF IInv, TypeOK
  <2>2. \A e \in Event : deliveries[e] # None => deliveries[e].run \in Run
    BY <2>1 DEF Deliveries, DeliveryRow
  <2> QED
    BY <2>1, <2>2 DEF IInv, Matched, DeliveryPerOutcome, Admitted, Open
<1> QED
  BY <1>1, Invariant, PTL

\* What callers were told stays true, through every crash.
THEOREM ToldHolds == Spec => []ToldIsDurable
<1>1. IInv => ToldIsDurable
  BY DEF IInv
<1> QED
  BY <1>1, Invariant, PTL

-----------------------------------------------------------------------------

\* Only COMMIT changes the committed tables.
LEMMA OnlyCommitWrites ==
  ASSUME [Next]_vars, ~ \E p \in Process : Commit(p)
  PROVE  UNCHANGED <<runs, deliveries>>
<1>1. CASE UNCHANGED vars
  BY <1>1 DEF vars
<1>2. CASE Next
  <2>1. PICK p \in Process :
          \/ \E pol \in Policy : OpenJournal(p, pol)
          \/ CloseJournal(p)
          \/ Crash(p)
          \/ \E a \in Admission : AdmitReplay(p, a) \/ AdmitNew(p, a)
          \/ \E r \in Run, o \in Uncertainty : ObserveUncertainty(p, r, o)
          \/ \E r \in Run, o \in Cancellation : ObserveCancellation(p, r, o)
          \/ \E o \in Outcome : OutcomeReplay(p, o) \/ OutcomeUpdate(p, o)
          \/ DeliveryInsert(p)
          \/ \E e \in Event, q \in ReceiptId :
               Acknowledge(p, [run |-> deliveries[e].run, event |-> e,
                               digest |-> deliveries[e].digest, id |-> q])
          \/ Rollback(p)
    BY <1>2 DEF Next
  <2>2. CASE (\E pol \in Policy : OpenJournal(p, pol)) \/ CloseJournal(p) \/ Crash(p) \/ Rollback(p)
    BY <2>2 DEF OpenJournal, CloseJournal, Crash, Rollback
  <2>3. CASE \E a \in Admission : AdmitReplay(p, a) \/ AdmitNew(p, a)
    BY <2>3 DEF AdmitReplay, AdmitNew, Stage
  <2>4. CASE \/ \E r \in Run, o \in Uncertainty : ObserveUncertainty(p, r, o)
             \/ \E r \in Run, o \in Cancellation : ObserveCancellation(p, r, o)
    BY <2>4 DEF ObserveUncertainty, ObserveCancellation, Stage
  <2>5. CASE \E o \in Outcome : OutcomeReplay(p, o) \/ OutcomeUpdate(p, o)
    BY <2>5 DEF OutcomeReplay, OutcomeUpdate, Stage
  <2>6. CASE \/ DeliveryInsert(p)
             \/ \E e \in Event, q \in ReceiptId :
                  Acknowledge(p, [run |-> deliveries[e].run, event |-> e,
                                  digest |-> deliveries[e].digest, id |-> q])
    BY <2>6 DEF DeliveryInsert, Acknowledge, Stage
  <2> QED
    BY <2>1, <2>2, <2>3, <2>4, <2>5, <2>6
<1> QED
  BY <1>1, <1>2

LEMMA StepGrows ==
  ASSUME IInv, [Next]_vars
  PROVE  Grows(runs, deliveries, runs', deliveries')
<1>1. CASE \E p \in Process : Commit(p)
  BY <1>1, CommitGrows
<1>2. CASE ~ \E p \in Process : Commit(p)
  BY <1>2, OnlyCommitWrites, GrowsItself
<1> QED
  BY <1>1, <1>2

\* No step rewrites an admission, an outcome, a receipt or a decided run.
THEOREM HistoryHolds == Spec => HistoryKept
<1> DEFINE Kept ==
      /\ \A r \in Admitted(runs) :
             /\ runs'[r] # None
             /\ runs'[r].admission = runs[r].admission
             /\ runs[r].outcome # None => runs'[r] = runs[r]
      /\ \A e \in Event : deliveries[e] # None =>
             /\ deliveries'[e] # None
             /\ deliveries'[e].digest = deliveries[e].digest
             /\ deliveries[e].receipt # None => deliveries'[e] = deliveries[e]
<1>1. IInv /\ [Next]_vars => [Kept]_vars
  <2> SUFFICES ASSUME IInv, [Next]_vars PROVE Kept
    OBVIOUS
  <2> QED
    BY StepGrows DEF Grows, Admitted
<1> QED
  BY <1>1, Invariant, PTL DEF Spec, HistoryKept

-----------------------------------------------------------------------------
(* The journal implements RunLedger and keeps observations in order: a        *)
(* transaction stages at most one fact, a run, an outcome with its delivery,  *)
(* or a receipt, which is what makes COMMIT a single step of the ledger.      *)

\* The tables rs2, ds2 differ from rs, ds ...
\* ... in observations only,
NoFact(rs, ds, rs2, ds2, todo) ==
    /\ todo = None /\ ds2 = ds
    /\ \A r \in Run : /\ rs2[r] = None <=> rs[r] = None
                      /\ rs[r] # None => rs2[r].outcome = rs[r].outcome

\* ... by the run r, when all others are decided,
RunFact(rs, ds, rs2, ds2, todo, r) ==
    /\ todo = None /\ ds2 = ds
    /\ rs[r] = None /\ rs2[r] # None /\ rs2[r].outcome = None
    /\ \A s \in Run : s # r => rs2[s] = rs[s]
    /\ \A s \in Run : rs[s] # None => rs[s].outcome # None

\* ... by the outcome o and, unless it is still to do, its delivery,
OutcomeFact(rs, ds, rs2, ds2, todo, o) ==
    /\ rs[o.run] # None /\ rs[o.run].outcome = None
    /\ rs2[o.run] # None /\ rs2[o.run].outcome = o
    /\ \A s \in Run : s # o.run => rs2[s] = rs[s]
    /\ \/ todo = o /\ ds2 = ds
       \/ /\ todo = None /\ ds[o.event] = None
          /\ ds2[o.event] # None /\ ds2[o.event].receipt = None
          /\ \A e \in Event : e # o.event => ds2[e] = ds[e]

\* ... or by the receipt q.
ReceiptFact(rs, ds, rs2, ds2, todo, q) ==
    /\ todo = None /\ rs2 = rs
    /\ ds[q.event] # None /\ ds[q.event].receipt \in {None, q}
    /\ ds2[q.event] # None /\ ds2[q.event].receipt = q
    /\ \A e \in Event : e # q.event => ds2[e] = ds[e]

Fact(rs, ds, rs2, ds2, todo) ==
    \/ NoFact(rs, ds, rs2, ds2, todo)
    \/ \E r \in Run : RunFact(rs, ds, rs2, ds2, todo, r)
    \/ \E o \in Outcome : OutcomeFact(rs, ds, rs2, ds2, todo, o)
    \/ \E q \in Receipt : ReceiptFact(rs, ds, rs2, ds2, todo, q)

\* The order in which one cancellation observation may follow another.
Follows(now, was) ==
    /\ now # None
    /\ was.kind = "cancel_acknowledged" =>
         now.kind = "cancel_acknowledged" /\ was.at <= now.at
    /\ now.kind # "cancel_acknowledged" => was.at <= now.at

Ordered(rs, rs2) ==
    \A r \in Run : rs[r] # None /\ rs[r].cancellation # None =>
        Follows(rs2[r].cancellation, rs[r].cancellation)

OneFact ==
    tx # None => /\ Fact(runs, deliveries, tx.runs, tx.deliveries, tx.todo)
                 /\ Ordered(runs, tx.runs)

-----------------------------------------------------------------------------

\* A row follows itself: its clock is a number.
LEMMA OrderedItself ==
  ASSUME IInv
  PROVE  Ordered(runs, runs)
<1> SUFFICES ASSUME NEW r \in Run, runs[r] # None, runs[r].cancellation # None
             PROVE  Follows(runs[r].cancellation, runs[r].cancellation)
  BY DEF Ordered
<1>1. runs[r].cancellation \in Cancellation
  BY DEF IInv, TypeOK, Runs, RunRow
<1>2. runs[r].cancellation.at \in Nat
  BY <1>1, ClockAssumption DEF Cancellation
<1> QED
  BY <1>2 DEF Follows

\* Tables in which no observation changes are ordered.
LEMMA OrderedIfKept ==
  ASSUME IInv, NEW rs,
         \A r \in Run : runs[r] # None => rs[r].cancellation = runs[r].cancellation
  PROVE  Ordered(runs, rs)
BY OrderedItself DEF Ordered

\* A staging call that adds one fact in order keeps OneFact.
LEMMA StageOneFact ==
  ASSUME NEW p, NEW rs, NEW ds, NEW todo, NEW answer,
         Stage(p, rs, ds, todo, answer),
         Fact(runs, deliveries, rs, ds, todo), Ordered(runs, rs)
  PROVE  OneFact'
<1> DEFINE t == [owner |-> p, runs |-> rs, deliveries |-> ds, todo |-> todo, answer |-> answer]
<1>1. tx' = t /\ runs' = runs /\ deliveries' = deliveries
  BY DEF Stage
<1>2. t.runs = rs /\ t.deliveries = ds /\ t.todo = todo
  OBVIOUS
<1> HIDE DEF t
<1>3. Fact(runs, deliveries, tx.runs, tx.deliveries, tx.todo)'
  BY <1>1, <1>2 DEF Fact, NoFact, RunFact, OutcomeFact, ReceiptFact
<1>4. Ordered(runs, tx.runs)'
  BY <1>1, <1>2 DEF Ordered
<1> QED
  BY <1>3, <1>4 DEF OneFact

LEMMA AdmitReplayOneFact ==
  ASSUME IInv, NEW p, NEW a, AdmitReplay(p, a)
  PROVE  OneFact'
<1>1. NoFact(runs, deliveries, runs, deliveries, None)
  BY DEF NoFact
<1> QED
  BY <1>1, OrderedItself, StageOneFact DEF Fact, AdmitReplay

LEMMA OutcomeReplayOneFact ==
  ASSUME IInv, NEW p, NEW o, OutcomeReplay(p, o)
  PROVE  OneFact'
<1>1. NoFact(runs, deliveries, runs, deliveries, None)
  BY DEF NoFact
<1> QED
  BY <1>1, OrderedItself, StageOneFact DEF Fact, OutcomeReplay

LEMMA AdmitNewOneFact ==
  ASSUME IInv, NEW p \in Process, NEW a \in Admission, AdmitNew(p, a)
  PROVE  OneFact'
<1> DEFINE row == [admission |-> a, uncertainty |-> None, cancellation |-> None, outcome |-> None]
           rs == [runs EXCEPT ![a.run] = row]
<1>1. runs \in Runs /\ a.run \in Run
  BY DEF IInv, TypeOK, Admission
<1>2. row \in RunRow /\ row # None /\ row.outcome = None
  BY NoneAssumption DEF RunRow
<1>3. rs[a.run] = row /\ \A r \in Run : r # a.run => rs[r] = runs[r]
  BY <1>1 DEF Runs
<1>4. runs[a.run] = None
  BY <1>1 DEF AdmitNew, Claimants, Admitted
<1>5. \A r \in Run : runs[r] # None => runs[r].outcome # None
  BY DEF AdmitNew, Open, Admitted
<1>6. Stage(p, rs, deliveries, None, NoAnswer)
  BY DEF AdmitNew
<1> HIDE DEF row, rs
<1>7. RunFact(runs, deliveries, rs, deliveries, None, a.run)
  BY <1>2, <1>3, <1>4, <1>5 DEF RunFact
<1>8. Ordered(runs, rs)
  BY <1>3, <1>4, OrderedIfKept
<1> QED
  BY <1>1, <1>6, <1>7, <1>8, StageOneFact DEF Fact

\* Observations are no facts of the ledger, and come in order.
LEMMA ObservationOneFact ==
  ASSUME IInv, NEW p \in Process, NEW r \in Open(runs), NEW row \in RunRow, row.outcome = None,
         runs[r].cancellation # None => Follows(row.cancellation, runs[r].cancellation),
         Stage(p, [runs EXCEPT ![r] = row], deliveries, None, NoAnswer)
  PROVE  OneFact'
<1> DEFINE rs == [runs EXCEPT ![r] = row]
<1>1. r \in Run /\ runs[r] # None /\ runs[r].outcome = None /\ row # None /\ runs \in Runs
  BY NoneAssumption DEF Open, Admitted, IInv, TypeOK
<1>2. rs[r] = row /\ \A s \in Run : s # r => rs[s] = runs[s]
  BY <1>1 DEF Runs
<1> HIDE DEF rs
<1>3. NoFact(runs, deliveries, rs, deliveries, None)
  BY <1>1, <1>2 DEF NoFact
<1>4. Ordered(runs, rs)
  BY <1>2, OrderedItself DEF Ordered
<1> QED
  BY <1>3, <1>4, StageOneFact DEF Fact, rs

LEMMA ObserveUncertaintyOneFact ==
  ASSUME IInv, NEW p \in Process, NEW r \in Run, NEW o \in Uncertainty,
         ObserveUncertainty(p, r, o)
  PROVE  OneFact'
<1> DEFINE row == [runs[r] EXCEPT !.uncertainty = o]
<1>1. r \in Open(runs) /\ runs \in Runs
  BY DEF ObserveUncertainty, IInv, TypeOK
<1>2. runs[r] \in RunRow /\ runs[r].outcome = None /\ runs[r] # None
  BY <1>1 DEF Open, Admitted, Runs
<1>3. row \in RunRow /\ row.outcome = None /\ row.cancellation = runs[r].cancellation
  BY <1>2 DEF RunRow
<1>4. [runs EXCEPT ![r].uncertainty = o] = [runs EXCEPT ![r] = row]
  OBVIOUS
<1>5. runs[r].cancellation # None => Follows(row.cancellation, runs[r].cancellation)
  BY <1>2, <1>3, OrderedItself DEF Ordered
<1> QED
  BY <1>1, <1>3, <1>4, <1>5, ObservationOneFact DEF ObserveUncertainty

LEMMA ObserveCancellationOneFact ==
  ASSUME IInv, NEW p \in Process, NEW r \in Run, NEW o \in Cancellation,
         ObserveCancellation(p, r, o)
  PROVE  OneFact'
<1> DEFINE row == [runs[r] EXCEPT !.cancellation = o]
<1>1. r \in Open(runs) /\ runs \in Runs
  BY DEF ObserveCancellation, IInv, TypeOK
<1>2. runs[r] \in RunRow /\ runs[r].outcome = None
  BY <1>1 DEF Open, Admitted, Runs
<1>3. row \in RunRow /\ row.outcome = None /\ row.cancellation = o
  BY <1>2 DEF RunRow
<1>4. [runs EXCEPT ![r].cancellation = o] = [runs EXCEPT ![r] = row]
  OBVIOUS
<1>5. runs[r].cancellation # None => Follows(o, runs[r].cancellation)
  BY NoneAssumption DEF ObserveCancellation, Supersedes, Follows
<1> QED
  BY <1>1, <1>3, <1>4, <1>5, ObservationOneFact DEF ObserveCancellation

LEMMA OutcomeUpdateOneFact ==
  ASSUME IInv, NEW p \in Process, NEW o \in Outcome, OutcomeUpdate(p, o)
  PROVE  OneFact'
<1> DEFINE row == [runs[o.run] EXCEPT !.outcome = o]
           rs == [runs EXCEPT ![o.run] = row]
<1>1. o.run \in Run /\ runs[o.run] # None /\ runs[o.run].outcome = None /\ runs \in Runs
  BY DEF OutcomeUpdate, Open, Admitted, IInv, TypeOK
<1>2. runs[o.run] \in RunRow
  BY <1>1 DEF Runs
<1>3. /\ row \in RunRow /\ row # None /\ row.outcome = o
      /\ row.cancellation = runs[o.run].cancellation
  BY <1>2, NoneAssumption DEF RunRow
<1>4. rs[o.run] = row /\ \A s \in Run : s # o.run => rs[s] = runs[s]
  BY <1>1 DEF Runs
<1>5. Stage(p, rs, deliveries, o, [NoAnswer EXCEPT !.outcome = o])
  <2>1. [runs EXCEPT ![o.run].outcome = o] = rs
    OBVIOUS
  <2> QED
    BY <2>1 DEF OutcomeUpdate
<1> HIDE DEF row, rs
<1>6. OutcomeFact(runs, deliveries, rs, deliveries, o, o)
  BY <1>1, <1>3, <1>4 DEF OutcomeFact
<1>7. Ordered(runs, rs)
  BY <1>3, <1>4, OrderedIfKept
<1> QED
  BY <1>5, <1>6, <1>7, StageOneFact DEF Fact

LEMMA AcknowledgeOneFact ==
  ASSUME IInv, NEW p \in Process, NEW q \in Receipt, Acknowledge(p, q)
  PROVE  OneFact'
<1> DEFINE d == [deliveries[q.event] EXCEPT !.receipt = q]
           ds == [deliveries EXCEPT ![q.event] = d]
<1>1. deliveries \in Deliveries /\ q.event \in Event
  BY DEF IInv, TypeOK, Receipt
<1>2. deliveries[q.event] # None /\ deliveries[q.event].receipt \in {None, q}
  BY DEF Acknowledge
<1>3. deliveries[q.event] \in DeliveryRow
  BY <1>1, <1>2 DEF Deliveries
<1>4. d \in DeliveryRow /\ d # None /\ d.receipt = q
  BY <1>3, NoneAssumption DEF DeliveryRow
<1>5. ds[q.event] = d /\ \A e \in Event : e # q.event => ds[e] = deliveries[e]
  BY <1>1 DEF Deliveries
<1>6. Stage(p, runs, ds, None, [NoAnswer EXCEPT !.receipt = q])
  <2>1. [deliveries EXCEPT ![q.event].receipt = q] = ds
    OBVIOUS
  <2> QED
    BY <2>1 DEF Acknowledge
<1> HIDE DEF d, ds
<1>7. ReceiptFact(runs, deliveries, runs, ds, None, q)
  BY <1>2, <1>4, <1>5 DEF ReceiptFact
<1> QED
  BY <1>6, <1>7, OrderedItself, StageOneFact DEF Fact

\* Something is to do only after an outcome was staged; its delivery completes it.
LEMMA DeliveryInsertOneFact ==
  ASSUME IInv, OneFact, NEW p \in Process, DeliveryInsert(p)
  PROVE  OneFact'
<1> DEFINE o == tx.todo
           d == [run |-> o.run, digest |-> o, receipt |-> None]
           ds == [tx.deliveries EXCEPT ![o.event] = d]
<1>1. tx # None /\ tx \in Transaction /\ o # None /\ o \in Outcome
      /\ tx.deliveries \in Deliveries
  BY DEF DeliveryInsert, Owns, IInv, TypeOK, Transaction
<1>2. o.event \in Event /\ tx.deliveries[o.event] = None /\ o.run \in Run
  BY <1>1 DEF DeliveryInsert, Outcome
<1>3. d # None /\ d.receipt = None
  <2>1. d \in DeliveryRow
    BY <1>1, <1>2 DEF DeliveryRow
  <2> QED
    BY <2>1, NoneAssumption
<1>4. ds[o.event] = d /\ \A e \in Event : e # o.event => ds[e] = tx.deliveries[e]
  BY <1>1, <1>2 DEF Deliveries
<1>5. /\ tx' = [tx EXCEPT !.todo = None, !.deliveries = ds]
      /\ runs' = runs /\ deliveries' = deliveries
  BY DEF DeliveryInsert
<1>6. tx'.runs = tx.runs /\ tx'.deliveries = ds /\ tx'.todo = None
  BY <1>1, <1>5 DEF Transaction
<1>7. OutcomeFact(runs, deliveries, tx.runs, tx.deliveries, o, o)
  BY <1>1 DEF OneFact, Fact, NoFact, RunFact, OutcomeFact, ReceiptFact
<1> HIDE DEF d, ds, o
<1>8. OutcomeFact(runs, deliveries, tx.runs, ds, None, o)
  BY <1>1, <1>2, <1>3, <1>4, <1>7 DEF OutcomeFact
<1>9. Ordered(runs, tx.runs)
  BY <1>1 DEF OneFact
<1>10. Fact(runs, deliveries, tx.runs, tx.deliveries, tx.todo)'
  BY <1>1, <1>5, <1>6, <1>8 DEF Fact, OutcomeFact
<1>11. Ordered(runs, tx.runs)'
  BY <1>5, <1>6, <1>9 DEF Ordered
<1> QED
  BY <1>10, <1>11 DEF OneFact

\* Steps that leave the transaction and the tables alone, or end the transaction.
LEMMA OneFactKept ==
  ASSUME OneFact, \/ tx' = None
                  \/ UNCHANGED <<tx, runs, deliveries>>
  PROVE  OneFact'
<1>1. CASE tx' = None
  BY <1>1 DEF OneFact
<1>2. CASE UNCHANGED <<tx, runs, deliveries>>
  BY <1>2 DEF OneFact, Ordered, Fact, NoFact, RunFact, OutcomeFact, ReceiptFact
<1> QED
  BY <1>1, <1>2

LEMMA StepOneFact == IInv /\ OneFact /\ [Next]_vars => OneFact'
<1> SUFFICES ASSUME IInv, OneFact, [Next]_vars PROVE OneFact'
  OBVIOUS
<1>1. CASE UNCHANGED vars
  BY <1>1, OneFactKept DEF vars
<1>2. ASSUME NEW p \in Process, NEW pol \in Policy, OpenJournal(p, pol) PROVE OneFact'
  BY <1>2, OneFactKept DEF OpenJournal
<1>3. ASSUME NEW p \in Process, CloseJournal(p) PROVE OneFact'
  BY <1>3, OneFactKept DEF CloseJournal
<1>4. ASSUME NEW p \in Process, Crash(p) PROVE OneFact'
  BY <1>4, OneFactKept DEF Crash
<1>5. ASSUME NEW p \in Process, Rollback(p) PROVE OneFact'
  BY <1>5, OneFactKept DEF Rollback
<1>6. ASSUME NEW p \in Process, Commit(p) PROVE OneFact'
  BY <1>6, OneFactKept DEF Commit
<1>7. ASSUME NEW p \in Process, NEW e \in Event, NEW q \in ReceiptId, deliveries[e] # None,
             Acknowledge(p, [run |-> deliveries[e].run, event |-> e,
                             digest |-> deliveries[e].digest, id |-> q])
      PROVE  OneFact'
  <2>1. deliveries[e] \in DeliveryRow
    BY <1>7 DEF IInv, TypeOK, Deliveries
  <2>2. [run |-> deliveries[e].run, event |-> e, digest |-> deliveries[e].digest, id |-> q] \in Receipt
    BY <2>1 DEF DeliveryRow, Receipt
  <2> QED
    BY <1>7, <2>2, AcknowledgeOneFact
<1> QED
  BY <1>1, <1>2, <1>3, <1>4, <1>5, <1>6, <1>7, AdmitReplayOneFact, AdmitNewOneFact,
     ObserveUncertaintyOneFact, ObserveCancellationOneFact, OutcomeReplayOneFact,
     OutcomeUpdateOneFact, DeliveryInsertOneFact
  DEF Next

\* In every reachable state an open transaction holds at most one fact.
THEOREM OneFactHolds == Spec => []OneFact
<1>1. Init => OneFact
  BY DEF Init, OneFact
<1> QED
  BY <1>1, Invariant, StepOneFact, PTL DEF Spec

-----------------------------------------------------------------------------

\* An acknowledged cancellation is never erased, and other observations only
\* move forward in time.
THEOREM ObservationsOrdered == Spec => ObservationOrder
<1> DEFINE Forward ==
      \A r \in Admitted(runs) : runs[r].cancellation # None =>
          LET was == runs[r].cancellation
              now == runs'[r].cancellation
          IN  /\ now # None
              /\ was.kind = "cancel_acknowledged" =>
                   now.kind = "cancel_acknowledged" /\ was.at <= now.at
              /\ now.kind # "cancel_acknowledged" => was.at <= now.at
<1>1. IInv /\ OneFact /\ [Next]_vars => [Forward]_vars
  <2> SUFFICES ASSUME IInv, OneFact, [Next]_vars PROVE Forward
    OBVIOUS
  <2>1. Ordered(runs, runs')
    <3>1. CASE \E p \in Process : Commit(p)
      BY <3>1 DEF Commit, Owns, OneFact
    <3>2. CASE ~ \E p \in Process : Commit(p)
      BY <3>2, OnlyCommitWrites, OrderedItself
    <3> QED
      BY <3>1, <3>2
  <2> QED
    BY <2>1 DEF Ordered, Follows, Admitted
<1> QED
  BY <1>1, Invariant, OneFactHolds, PTL DEF Spec, ObservationOrder

-----------------------------------------------------------------------------

\* The ledger's variables, read off tables.
VerdictOf(rs) == [r \in Run |-> IF r \in Decided(rs) THEN rs[r].outcome ELSE None]
ProofOf(rs, ds) ==
    [r \in Run |-> IF r \in Decided(rs) THEN ds[rs[r].outcome.event].receipt ELSE None]

\* A run is decided if it has a row with an outcome.
LEMMA DecidedRows ==
  ASSUME NEW rs, NEW r \in Run
  PROVE  /\ r \in Admitted(rs) <=> rs[r] # None
         /\ r \in Decided(rs) <=> rs[r] # None /\ rs[r].outcome # None
BY DEF Decided, Open, Admitted

\* What a decided run's delivery is called and whose it is.
LEMMA DecidedDelivery ==
  ASSUME IInv, NEW r \in Run, runs[r] # None, runs[r].outcome # None
  PROVE  /\ runs[r].outcome \in Outcome /\ runs[r].outcome.event \in Event
         /\ deliveries[runs[r].outcome.event] # None
         /\ deliveries[runs[r].outcome.event].run = r
<1>1. runs[r].outcome \in Outcome
  BY DEF IInv, TypeOK, Runs, RunRow
<1> QED
  BY <1>1, NoneAssumption DEF IInv, Matched, Outcome

\* COMMIT of a transaction without a fact is no step of the ledger.
LEMMA NoFactStutters ==
  ASSUME IInv, NoFact(runs, deliveries, runs', deliveries', None)
  PROVE  /\ Admitted(runs') = Admitted(runs)
         /\ VerdictOf(runs') = VerdictOf(runs)
         /\ ProofOf(runs', deliveries') = ProofOf(runs, deliveries)
<1>1. Admitted(runs') = Admitted(runs) /\ Decided(runs') = Decided(runs)
  BY DEF NoFact, Decided, Open, Admitted
<1>2. \A r \in Decided(runs) : runs'[r].outcome = runs[r].outcome
  BY DEF NoFact, Decided, Open, Admitted
<1>3. deliveries' = deliveries
  BY DEF NoFact
<1> QED
  BY <1>1, <1>2, <1>3 DEF VerdictOf, ProofOf

LEMMA RunFactEnters ==
  ASSUME IInv, NEW r \in Run, RunFact(runs, deliveries, runs', deliveries', None, r)
  PROVE  Ledger!Enter(r)
<1>1. r \notin Admitted(runs) /\ Admitted(runs') = Admitted(runs) \cup {r}
  BY DEF RunFact, Admitted
<1>2. Decided(runs) = Admitted(runs) /\ Decided(runs') = Admitted(runs)
  BY DEF RunFact, Decided, Open, Admitted
<1>3. \A s \in Decided(runs) : runs[s].outcome # None /\ runs'[s] = runs[s] /\ s \in Run
  BY <1>1 DEF RunFact, Decided, Open, Admitted
<1>4. deliveries' = deliveries
  BY DEF RunFact
<1>5. VerdictOf(runs') = VerdictOf(runs) /\ ProofOf(runs', deliveries') = ProofOf(runs, deliveries)
  BY <1>2, <1>3, <1>4 DEF VerdictOf, ProofOf
<1>6. \A s \in Admitted(runs) : VerdictOf(runs)[s] # None
  BY <1>2, <1>3 DEF VerdictOf
<1> QED
  BY <1>1, <1>5, <1>6 DEF Ledger!Enter, VerdictOf, ProofOf

LEMMA OutcomeFactDecides ==
  ASSUME IInv, NEW o \in Outcome, OutcomeFact(runs, deliveries, runs', deliveries', None, o)
  PROVE  Ledger!Decide(o.run)
<1>1. o # None /\ o.run \in Run /\ o.event \in Event
  BY NoneAssumption DEF Outcome
<1>2. /\ runs[o.run] # None /\ runs[o.run].outcome = None
      /\ runs'[o.run] # None /\ runs'[o.run].outcome = o
      /\ \A s \in Run : s # o.run => runs'[s] = runs[s]
      /\ deliveries[o.event] = None
      /\ deliveries'[o.event] # None /\ deliveries'[o.event].receipt = None
      /\ \A e \in Event : e # o.event => deliveries'[e] = deliveries[e]
  BY <1>1 DEF OutcomeFact
<1>3. Admitted(runs') = Admitted(runs) /\ o.run \in Admitted(runs)
  BY <1>1, <1>2 DEF Admitted
<1>4. o.run \notin Decided(runs) /\ Decided(runs') = Decided(runs) \cup {o.run}
  BY <1>1, <1>2 DEF Decided, Open, Admitted
<1>5. \A s \in Decided(runs) : /\ s \in Run /\ s # o.run /\ runs'[s] = runs[s]
                               /\ deliveries'[runs[s].outcome.event] = deliveries[runs[s].outcome.event]
  BY <1>2, <1>4, DecidedDelivery DEF Decided, Open, Admitted
<1>6. VerdictOf(runs)[o.run] = None /\ VerdictOf(runs') = [VerdictOf(runs) EXCEPT ![o.run] = o]
  BY <1>1, <1>2, <1>4, <1>5 DEF VerdictOf
<1>7. ProofOf(runs', deliveries') = ProofOf(runs, deliveries)
  BY <1>1, <1>2, <1>4, <1>5 DEF ProofOf
<1> QED
  BY <1>3, <1>6, <1>7 DEF Ledger!Decide, VerdictOf, ProofOf

LEMMA ReceiptFactSettles ==
  ASSUME IInv, NEW q \in Receipt, ReceiptFact(runs, deliveries, runs', deliveries', None, q)
  PROVE  \/ Ledger!Next
         \/ /\ Admitted(runs') = Admitted(runs)
            /\ VerdictOf(runs') = VerdictOf(runs)
            /\ ProofOf(runs', deliveries') = ProofOf(runs, deliveries)
<1> DEFINE r == deliveries[q.event].run
<1>1. q.event \in Event /\ deliveries \in Deliveries
  BY DEF Receipt, IInv, TypeOK
<1>2. /\ runs' = runs
      /\ deliveries[q.event] # None /\ deliveries[q.event].receipt \in {None, q}
      /\ deliveries'[q.event].receipt = q
      /\ \A e \in Event : e # q.event => deliveries'[e] = deliveries[e]
  BY DEF ReceiptFact
<1>3. r \in Run
  BY <1>1, <1>2 DEF Deliveries, DeliveryRow
<1>4. runs[r] # None /\ runs[r].outcome # None /\ runs[r].outcome.event = q.event
  BY <1>1, <1>2 DEF IInv, Matched
<1> HIDE DEF r
<1>5. r \in Decided(runs) /\ r \in Admitted(runs)
  BY <1>3, <1>4, DecidedRows
<1>6. \A s \in Decided(runs) : /\ s \in Run
                               /\ runs[s].outcome.event \in Event
                               /\ s # r => runs[s].outcome.event # q.event
  BY DecidedDelivery DEF r, Decided, Open, Admitted
<1>7. \A s \in Decided(runs) \ {r} :
        deliveries'[runs[s].outcome.event] = deliveries[runs[s].outcome.event]
  BY <1>2, <1>6
<1>8. ProofOf(runs', deliveries') = [ProofOf(runs, deliveries) EXCEPT ![r] = q]
  BY <1>2, <1>3, <1>4, <1>5, <1>7 DEF ProofOf
<1>9. ProofOf(runs, deliveries)[r] = deliveries[q.event].receipt
  BY <1>3, <1>4, <1>5 DEF ProofOf
<1>10. VerdictOf(runs)[r] # None /\ VerdictOf(runs') = VerdictOf(runs)
  BY <1>2, <1>3, <1>4, <1>5 DEF VerdictOf
<1>11. CASE deliveries[q.event].receipt = q
  <2>1. ProofOf(runs', deliveries') = ProofOf(runs, deliveries)
    BY <1>8, <1>9, <1>11 DEF ProofOf
  <2> QED
    BY <1>2, <1>10, <2>1
<1>12. CASE deliveries[q.event].receipt = None
  <2>1. PICK s \in Run : s = r
    BY <1>3
  <2>2. Ledger!Settle(s)
    BY <1>2, <1>5, <1>8, <1>9, <1>10, <1>12, <2>1 DEF Ledger!Settle, VerdictOf, ProofOf
  <2> QED
    BY <2>2 DEF Ledger!Next
<1> QED
  BY <1>2, <1>11, <1>12

\* Every step of the journal is a step of the ledger or none.
LEMMA StepRefines ==
  ASSUME IInv, OneFact, [Next]_vars
  PROVE  [Ledger!Next]_(Ledger!ledgerVars)
<1>1. CASE \E p \in Process : Commit(p)
  <2>1. Fact(runs, deliveries, runs', deliveries', None)
    BY <1>1 DEF Commit, Owns, OneFact
  <2>2. CASE NoFact(runs, deliveries, runs', deliveries', None)
    BY <2>2, NoFactStutters DEF Ledger!ledgerVars, VerdictOf, ProofOf
  <2>3. ASSUME NEW r \in Run, RunFact(runs, deliveries, runs', deliveries', None, r)
        PROVE  Ledger!Next
    BY <2>3, RunFactEnters DEF Ledger!Next
  <2>4. ASSUME NEW o \in Outcome, OutcomeFact(runs, deliveries, runs', deliveries', None, o)
        PROVE  Ledger!Next
    <3>1. o.run \in Run
      BY DEF Outcome
    <3> QED
      BY <2>4, <3>1, OutcomeFactDecides DEF Ledger!Next
  <2>5. ASSUME NEW q \in Receipt, ReceiptFact(runs, deliveries, runs', deliveries', None, q)
        PROVE  [Ledger!Next]_(Ledger!ledgerVars)
    BY <2>5, ReceiptFactSettles DEF Ledger!ledgerVars, VerdictOf, ProofOf
  <2> QED
    BY <2>1, <2>2, <2>3, <2>4, <2>5 DEF Fact
<1>2. CASE ~ \E p \in Process : Commit(p)
  <2>1. runs' = runs /\ deliveries' = deliveries
    BY <1>2, OnlyCommitWrites
  <2> QED
    BY <2>1 DEF Ledger!ledgerVars, Admitted, Decided, Open
<1> QED
  BY <1>1, <1>2

LEMMA InitRefines == Init => Ledger!Init
BY DEF Init, Ledger!Init, Admitted, Decided, Open

\* The journal implements the ledger: processes, transactions and crashes are
\* invisible to its callers.
THEOREM LedgerImplemented == Spec => ImplementsLedger
<1>1. IInv /\ OneFact /\ [Next]_vars => [Ledger!Next]_(Ledger!ledgerVars)
  BY StepRefines
<1> QED
  BY <1>1, InitRefines, Invariant, OneFactHolds, PTL DEF Spec, ImplementsLedger, Ledger!Spec

=============================================================================
