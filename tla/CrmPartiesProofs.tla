-------------------------- MODULE CrmPartiesProofs --------------------------
(***************************************************************************)
(* What CrmParties promises, for any parties, documents, registry, keys,   *)
(* jobs, edits and deaths.                                                 *)
(*                                                                         *)
(* None of the properties is inductive.  That leads make one party needs   *)
(* to be known of the jobs between their statements: who holds the lock    *)
(* of a key, and that nobody has its party while the holder is about to    *)
(* insert it.  That claims shard needs to be known of the rows: a claim    *)
(* whose lease has not run out lies in a row that is fresh and that says   *)
(* so.                                                                     *)
(***************************************************************************)
EXTENDS MCClients, SequenceTheorems, TLAPS

Lead == {"lock", "select", "insert"}
Checking == {"validate", "lookup"}

\* A job that is at a lead has its key, one that is at a party has that party,
\* and only the latter hold claims.
Placed ==
    \A j \in Job :
        /\ job[j].at \in Lead => job[j].key \in Key
        /\ job[j].at \in Checking \cup {"enrich"} => job[j].party \in Ids
        /\ job[j].claimed => job[j].at \in Checking \cup {"enrich"}

\* From the select to the end of the transaction the key is locked.
LocksHeld == \A j \in Job : job[j].at \in {"select", "insert"} => lock[job[j].key] = j

\* Whoever is about to insert a party is right that there is none.
StillAbsent ==
    \A j \in Job : At(j, "insert") => \A p \in Ids : parties[p].lead # job[j].key

\* A claim that is not overdue lies in a fresh row that shows an attempt.
Leased(j) ==
    LET r == parties[job[j].party]
    IN  /\ r.fresh
        /\ At(j, "enrich") => r.registry # None
        /\ job[j].at \in Checking => r.validation # None

LeasesHeld == \A j \in Job : job[j].claimed /\ ~job[j].overdue => Leased(j)

IInv == TypeOK /\ Placed /\ LocksHeld /\ StillAbsent /\ LeadOnce /\ LeasesHeld /\ ClaimsShard

Assumptions ==
    /\ NameAssumption /\ RegistryAssumption /\ BoundAssumption /\ NoneAssumption
    /\ CapturedAssumption

-----------------------------------------------------------------------------
(* Rows and jobs *)

JobRec ==
    [at: {"idle"} \cup Lead \cup Checking \cup {"enrich"},
     party: 0 .. MaxParty, key: Key \cup {None}, doc: Doc \cup {None},
     name: Seq(Word), claimed: BOOLEAN, overdue: BOOLEAN]

LEMMA JobTypes ==
    ASSUME TypeOK
    PROVE  job \in [Job -> JobRec]
BY DEF TypeOK, JobRec, Lead, Checking

LEMMA TypesAgain ==
    ASSUME TypeOK, parties' \in Seq(Row), Len(parties') <= MaxParty,
           contacts' \in [Party -> Seq(Word) \cup {None}], lock' \in [Key -> Job \cup {None}],
           job' \in [Job -> JobRec], answers' \subseteq [key: Key, party: Party, created: BOOLEAN],
           edits' \in 0 .. MaxEdit, crashes' \in 0 .. MaxCrash
    PROVE  TypeOK'
BY DEF TypeOK, JobRec, Lead, Checking

LEMMA IdleJob ==
    ASSUME Assumptions
    PROVE  /\ Idle \in JobRec
           /\ Idle.at = "idle" /\ Idle.party = 0 /\ Idle.key = None /\ ~Idle.claimed
           /\ Idle.doc = None /\ Idle.name = <<>> /\ ~Idle.overdue
BY DEF Assumptions, BoundAssumption, Idle, JobRec

LEMMA RowsByIds ==
    ASSUME TypeOK, Assumptions
    PROVE  Ids = 1 .. Len(parties) /\ Ids \subseteq Party /\ \A p \in Ids : parties[p] \in Row
BY DEF TypeOK, Ids, Party, Assumptions, BoundAssumption

\* What an update of one row leaves.
LEMMA RowSet ==
    ASSUME Assumptions, TypeOK, NEW p \in Ids, NEW r \in Row, parties' = [parties EXCEPT ![p] = r]
    PROVE  /\ parties' \in Seq(Row) /\ Len(parties') <= MaxParty /\ Ids' = Ids
           /\ parties'[p] = r
           /\ \A q \in Ids : q # p => parties'[q] = parties[q]
<1>1. p \in 1 .. Len(parties) /\ parties \in Seq(Row) /\ Len(parties) <= MaxParty
  BY RowsByIds DEF TypeOK
<1>2. /\ parties' \in Seq(Row) /\ Len(parties') = Len(parties)
      /\ \A q \in 1 .. Len(parties) : parties'[q] = IF q = p THEN r ELSE parties[q]
  BY <1>1
<1> QED
  BY <1>1, <1>2 DEF Ids

\* What the insertion of a row leaves.
LEMMA RowAdded ==
    ASSUME Assumptions, TypeOK, NEW r \in Row, parties' = Append(parties, r), Len(parties) < MaxParty
    PROVE  /\ parties' \in Seq(Row) /\ Len(parties') <= MaxParty
           /\ Ids' = Ids \cup {Len(parties) + 1} /\ Len(parties) + 1 \in Party \ Ids
           /\ parties'[Len(parties) + 1] = r
           /\ \A q \in Ids : parties'[q] = parties[q]
<1>1. parties \in Seq(Row) /\ Len(parties) \in Nat /\ Ids = 1 .. Len(parties) /\ MaxParty \in Nat
  BY RowsByIds DEF TypeOK, Assumptions, BoundAssumption
<1>2. /\ parties' \in Seq(Row) /\ Len(parties') = Len(parties) + 1
      /\ \A q \in 1 .. Len(parties) : parties'[q] = parties[q]
      /\ parties'[Len(parties) + 1] = r
  BY <1>1, AppendProperties
<1> QED
  BY <1>1, <1>2 DEF Ids, Party

LEMMA JobSet ==
    ASSUME TypeOK, NEW j \in Job, NEW s \in JobRec, job' = [job EXCEPT ![j] = s]
    PROVE  job' \in [Job -> JobRec] /\ job'[j] = s /\ \A i \in Job : i # j => job'[i] = job[i]
BY JobTypes

\* Nothing is taken back that a lead or a claim relies on.
Lasts(r, later) ==
    /\ later.lead = r.lead
    /\ r.fresh => later.fresh
    /\ r.registry # None => later.registry # None
    /\ r.validation # None => later.validation # None

RowsLast == Ids \subseteq Ids' /\ \A p \in Ids : Lasts(parties[p], parties'[p])

LEMMA SameRows ==
    ASSUME parties' = parties
    PROVE  RowsLast
BY DEF RowsLast, Lasts, Ids

LEMMA OneRow ==
    ASSUME Assumptions, TypeOK, NEW p \in Ids, NEW r \in Row, parties' = [parties EXCEPT ![p] = r],
           Lasts(parties[p], r)
    PROVE  RowsLast
BY RowSet DEF RowsLast, Lasts

-----------------------------------------------------------------------------
(* What a step of one job leaves alone *)

LEMMA PlacedMoves ==
    ASSUME TypeOK, Placed, NEW j \in Job, NEW s \in JobRec, job' = [job EXCEPT ![j] = s],
           Ids \subseteq Ids',
           s.at \in Lead => s.key \in Key,
           s.at \in Checking \cup {"enrich"} => s.party \in Ids',
           s.claimed => s.at \in Checking \cup {"enrich"}
    PROVE  Placed'
<1>1. job'[j] = s /\ \A i \in Job : i # j => job'[i] = job[i]
  BY JobSet
<1> QED
  BY <1>1 DEF Placed

\* No claim of the job, or the claim it has had before.
SameClaim(j, s) ==
    s.claimed => /\ job[j].claimed
                 /\ s.party = job[j].party /\ s.overdue = job[j].overdue
                 /\ s.at = "enrich" <=> At(j, "enrich")

LEMMA ClaimsMove ==
    ASSUME TypeOK, Placed, LeasesHeld, ClaimsShard, RowsLast,
           NEW j \in Job, NEW s \in JobRec, job' = [job EXCEPT ![j] = s],
           s.claimed => s.at \in Checking \cup {"enrich"}, SameClaim(j, s)
    PROVE  LeasesHeld' /\ ClaimsShard'
<1>1. job'[j] = s /\ \A i \in Job : i # j => job'[i] = job[i]
  BY JobSet
<1>2. \A i \in Job : job'[i].claimed =>
        /\ job[i].claimed
        /\ job'[i].party = job[i].party /\ job'[i].overdue = job[i].overdue
        /\ At(i, "enrich")' <=> At(i, "enrich")
        /\ job[i].at \in Checking \cup {"enrich"} /\ job'[i].at \in Checking \cup {"enrich"}
        /\ job[i].party \in Ids
  BY <1>1 DEF SameClaim, Placed, At
<1>3. LeasesHeld'
  <2> SUFFICES ASSUME NEW i \in Job, job'[i].claimed, ~job'[i].overdue
               PROVE  Leased(i)'
    BY DEF LeasesHeld
  <2>1. Leased(i) /\ job[i].party \in Ids /\ job'[i].party = job[i].party
    BY <1>2 DEF LeasesHeld
  <2>2. Lasts(parties[job[i].party], parties'[job[i].party])
    BY <2>1 DEF RowsLast
  <2>3. (At(i, "enrich")' => At(i, "enrich")) /\ (job'[i].at \in Checking => job[i].at \in Checking)
    BY <1>2 DEF At, Checking
  <2> QED
    BY <2>1, <2>2, <2>3 DEF Leased, Lasts
<1>4. ClaimsShard'
  <2> SUFFICES ASSUME NEW i \in Job, NEW k \in Job, i # k, job'[i].claimed, job'[k].claimed,
                      job'[i].party = job'[k].party, At(i, "enrich")' = At(k, "enrich")'
               PROVE  job'[i].overdue \/ job'[k].overdue
    BY DEF ClaimsShard
  <2>1. /\ job[i].claimed /\ job[k].claimed /\ job[i].party = job[k].party
        /\ job'[i].overdue = job[i].overdue /\ job'[k].overdue = job[k].overdue
    BY <1>2
  <2>2. At(i, "enrich") = At(k, "enrich")
    BY <1>2 DEF At
  <2> QED
    BY <2>1, <2>2 DEF ClaimsShard
<1> QED
  BY <1>3, <1>4

\* A new claim, on a row that no claim of this kind holds.
LEMMA NewClaim ==
    ASSUME Assumptions, TypeOK, Placed, LeasesHeld, ClaimsShard, RowsLast,
           NEW j \in Job, NEW s \in JobRec, job' = [job EXCEPT ![j] = s], s.claimed, s.party \in Ids,
           \A i \in Job : i # j /\ job[i].claimed /\ job[i].party = s.party
                          /\ (s.at = "enrich" <=> At(i, "enrich")) => job[i].overdue,
           Leased(j)'
    PROVE  LeasesHeld' /\ ClaimsShard'
<1>1. job'[j] = s /\ \A i \in Job : i # j => job'[i] = job[i]
  BY JobSet
<1>2. LeasesHeld'
  <2> SUFFICES ASSUME NEW i \in Job, job'[i].claimed, ~job'[i].overdue, i # j
               PROVE  Leased(i)'
    BY DEF LeasesHeld
  <2>1. job'[i] = job[i] /\ Leased(i) /\ job[i].party \in Ids
    BY <1>1 DEF LeasesHeld, Placed
  <2>2. Lasts(parties[job[i].party], parties'[job[i].party])
    BY <2>1 DEF RowsLast
  <2> QED
    BY <2>1, <2>2 DEF Leased, Lasts, At
<1>3. ClaimsShard'
  <2> SUFFICES ASSUME NEW i \in Job, NEW k \in Job, i # k, job'[i].claimed, job'[k].claimed,
                      job'[i].party = job'[k].party, At(i, "enrich")' = At(k, "enrich")'
               PROVE  job'[i].overdue \/ job'[k].overdue
    BY DEF ClaimsShard
  <2>1. CASE i = j
    BY <2>1, <1>1 DEF At
  <2>2. CASE k = j
    BY <2>2, <1>1 DEF At
  <2>3. CASE i # j /\ k # j
    BY <2>3, <1>1 DEF At, ClaimsShard
  <2> QED
    BY <2>1, <2>2, <2>3
<1> QED
  BY <1>2, <1>3

\* A step that neither inserts a party nor moves a lead past the select.
LEMMA LeadsQuiet ==
    ASSUME TypeOK, LocksHeld, StillAbsent, LeadOnce, RowsLast,
           Ids' = Ids, lock' = lock, answers' = answers,
           \A i \in Job : job'[i].at \in {"select", "insert"} =>
                            job'[i].at = job[i].at /\ job'[i].key = job[i].key
    PROVE  LocksHeld' /\ StillAbsent' /\ LeadOnce'
<1>1. \A p \in Ids : parties'[p].lead = parties[p].lead
  BY DEF RowsLast, Lasts
<1>2. LocksHeld'
  BY DEF LocksHeld
<1>3. StillAbsent'
  <2> SUFFICES ASSUME NEW i \in Job, At(i, "insert")', NEW p \in Ids
               PROVE  parties'[p].lead # job'[i].key
    BY DEF StillAbsent
  <2>1. At(i, "insert") /\ job'[i].key = job[i].key
    BY DEF At
  <2> QED
    BY <2>1, <1>1 DEF StillAbsent
<1>4. LeadOnce'
  BY <1>1 DEF LeadOnce
<1> QED
  BY <1>2, <1>3, <1>4

-----------------------------------------------------------------------------
(* Leads *)

\* A step that writes no row and no contact.
LEMMA QuietRows ==
    ASSUME TypeOK, parties' = parties, contacts' = contacts
    PROVE  /\ parties' \in Seq(Row) /\ Len(parties') <= MaxParty
           /\ contacts' \in [Party -> Seq(Word) \cup {None}]
           /\ RowsLast /\ Ids' = Ids
BY SameRows DEF TypeOK, Ids

LEMMA StepUpsertLead ==
    ASSUME Assumptions, IInv, NEW j \in Job, NEW k \in Key, UpsertLead(j, k)
    PROVE  IInv'
<1> USE DEF IInv
<1> PICK s : s = [Idle EXCEPT !.at = "lock", !.key = k]
  OBVIOUS
<1>1. s \in JobRec /\ s.at = "lock" /\ s.key = k /\ ~s.claimed
  BY IdleJob DEF Idle, JobRec, Lead
<1>2. /\ job' = [job EXCEPT ![j] = s] /\ parties' = parties /\ contacts' = contacts
      /\ lock' = lock /\ answers' = answers /\ edits' = edits /\ crashes' = crashes
  BY DEF UpsertLead, Counters
<1>3. job' \in [Job -> JobRec] /\ job'[j] = s /\ \A i \in Job : i # j => job'[i] = job[i]
  BY <1>1, <1>2, JobSet
<1>4. TypeOK'
  BY <1>2, <1>3, QuietRows, TypesAgain DEF TypeOK
<1>5. Placed'
  BY <1>1, <1>2, QuietRows, PlacedMoves DEF Lead, Checking
<1>6. LeasesHeld' /\ ClaimsShard'
  BY <1>1, <1>2, QuietRows, ClaimsMove DEF SameClaim
<1>7. LocksHeld' /\ StillAbsent' /\ LeadOnce'
  BY <1>1, <1>2, <1>3, QuietRows, LeadsQuiet
<1> QED
  BY <1>4, <1>5, <1>6, <1>7

LEMMA StepLeadLocked ==
    ASSUME Assumptions, IInv, NEW j \in Job, LeadLocked(j)
    PROVE  IInv'
<1> USE DEF IInv
<1> PICK s : s = [job[j] EXCEPT !.at = "select"]
  OBVIOUS
<1>0. job[j] \in JobRec /\ job[j].at = "lock" /\ job[j].key \in Key /\ ~job[j].claimed
  BY JobTypes DEF LeadLocked, At, Placed, Lead, Checking
<1>1. s \in JobRec /\ s.at = "select" /\ s.key = job[j].key /\ ~s.claimed
  BY <1>0 DEF JobRec, Lead
<1>2. /\ job' = [job EXCEPT ![j] = s] /\ parties' = parties /\ contacts' = contacts
      /\ lock[job[j].key] = None /\ lock' = [lock EXCEPT ![job[j].key] = j]
      /\ answers' = answers /\ edits' = edits /\ crashes' = crashes
  BY DEF LeadLocked, Counters
<1>3. job' \in [Job -> JobRec] /\ job'[j] = s /\ \A i \in Job : i # j => job'[i] = job[i]
  BY <1>1, <1>2, JobSet
<1>4. lock' \in [Key -> Job \cup {None}]
  BY <1>0, <1>2 DEF TypeOK
<1>5. TypeOK'
  BY <1>2, <1>3, <1>4, QuietRows, TypesAgain DEF TypeOK
<1>6. Placed'
  BY <1>0, <1>1, <1>2, QuietRows, PlacedMoves DEF Lead, Checking
<1>7. LeasesHeld' /\ ClaimsShard'
  BY <1>1, <1>2, QuietRows, ClaimsMove DEF SameClaim
<1>8. LocksHeld'
  <2> SUFFICES ASSUME NEW i \in Job, job'[i].at \in {"select", "insert"}
               PROVE  lock'[job'[i].key] = i
    BY DEF LocksHeld
  <2>1. lock'[job[j].key] = j
    BY <1>0, <1>2 DEF TypeOK
  <2>2. CASE i = j
    BY <2>1, <2>2, <1>1, <1>3
  <2>3. CASE i # j
    <3>1. lock[job[i].key] = i /\ job'[i] = job[i] /\ job[i].key \in Key
      BY <2>3, <1>3 DEF LocksHeld, Placed, Lead
    <3>2. job[i].key # job[j].key
      BY <3>1, <1>2 DEF Assumptions, NoneAssumption
    <3> QED
      BY <3>1, <3>2, <1>2 DEF TypeOK
  <2> QED
    BY <2>2, <2>3
<1>9. StillAbsent' /\ LeadOnce'
  BY <1>1, <1>2, <1>3, QuietRows DEF StillAbsent, LeadOnce, At
<1> QED
  BY <1>5, <1>6, <1>7, <1>8, <1>9

\* A job that ends gives back what it holds, and nothing else.
LEMMA Ended ==
    ASSUME Assumptions, IInv, NEW j \in Job, lock' = Unlocked(j), End(j)
    PROVE  /\ lock' \in [Key -> Job \cup {None}] /\ LocksHeld'
           /\ job' \in [Job -> JobRec] /\ job'[j] = Idle
           /\ \A i \in Job : i # j => job'[i] = job[i]
<1>1. job' \in [Job -> JobRec] /\ job'[j] = Idle /\ \A i \in Job : i # j => job'[i] = job[i]
  BY IdleJob, JobSet DEF End, IInv
<1>2. lock' \in [Key -> Job \cup {None}]
  BY DEF Unlocked, IInv, TypeOK
<1>3. LocksHeld'
  <2> SUFFICES ASSUME NEW i \in Job, job'[i].at \in {"select", "insert"}
               PROVE  lock'[job'[i].key] = i
    BY DEF LocksHeld
  <2>1. i # j
    BY <1>1, IdleJob
  <2>2. lock[job[i].key] = i /\ job[i].key \in Key /\ job'[i] = job[i]
    BY <1>1, <2>1 DEF IInv, LocksHeld, Placed, Lead
  <2> QED
    BY <2>1, <2>2 DEF Unlocked
<1> QED
  BY <1>1, <1>2, <1>3

LEMMA EndedApart ==
    ASSUME Assumptions, IInv, NEW j \in Job, End(j), RowsLast
    PROVE  Placed' /\ LeasesHeld' /\ ClaimsShard'
<1> USE DEF IInv
<1>1. job' = [job EXCEPT ![j] = Idle]
  BY DEF End
<1>2. Placed'
  BY <1>1, IdleJob, PlacedMoves DEF RowsLast, Lead, Checking
<1>3. LeasesHeld' /\ ClaimsShard'
  BY <1>1, IdleJob, ClaimsMove DEF SameClaim
<1> QED
  BY <1>2, <1>3

\* An answer that is right leaves the answers right.
LEMMA AnswerGiven ==
    ASSUME IInv, NEW k \in Key, NEW p \in Party, NEW created \in BOOLEAN,
           Answered(k, p, created), RowsLast, p \in Ids', parties'[p].lead = k
    PROVE  /\ answers' \subseteq [key: Key, party: Party, created: BOOLEAN]
           /\ \A a \in answers' : a.party \in Ids' /\ parties'[a.party].lead = a.key
<1> PICK new : new = [key |-> k, party |-> p, created |-> created]
  OBVIOUS
<1>1. /\ new \in [key: Key, party: Party, created: BOOLEAN]
      /\ new.key = k /\ new.party = p /\ answers' = answers \cup {new}
  BY DEF Answered
<1>2. \A a \in answers : a.party \in Ids' /\ parties'[a.party].lead = a.key
  BY DEF IInv, LeadOnce, RowsLast, Lasts
<1> QED
  BY <1>1, <1>2 DEF IInv, TypeOK

LEMMA StepLeadSelect ==
    ASSUME Assumptions, IInv, NEW j \in Job, LeadSelect(j)
    PROVE  IInv'
<1> USE DEF IInv
<1> PICK k : k = job[j].key
  OBVIOUS
<1> PICK existing : existing = {p \in Ids : parties[p].lead = k}
  OBVIOUS
<1>0. /\ job[j] \in JobRec /\ job[j].at = "select" /\ k \in Key /\ ~job[j].claimed
      /\ parties' = parties /\ contacts' = contacts /\ edits' = edits /\ crashes' = crashes
  BY JobTypes DEF LeadSelect, At, Placed, Lead, Checking, Counters
<1>1. CASE existing = {}
  <2> PICK s : s = [job[j] EXCEPT !.at = "insert"]
    OBVIOUS
  <2>1. s \in JobRec /\ s.at = "insert" /\ s.key = k /\ ~s.claimed
    BY <1>0 DEF JobRec, Lead
  <2>2. job' = [job EXCEPT ![j] = s] /\ lock' = lock /\ answers' = answers
    BY <1>1 DEF LeadSelect
  <2>3. job' \in [Job -> JobRec] /\ job'[j] = s /\ \A i \in Job : i # j => job'[i] = job[i]
    BY <2>1, <2>2, JobSet
  <2>4. TypeOK'
    BY <1>0, <2>2, <2>3, QuietRows, TypesAgain DEF TypeOK
  <2>5. Placed'
    BY <1>0, <2>1, <2>2, QuietRows, PlacedMoves DEF Lead, Checking
  <2>6. LeasesHeld' /\ ClaimsShard'
    BY <1>0, <2>1, <2>2, QuietRows, ClaimsMove DEF SameClaim
  <2>7. LocksHeld'
    BY <1>0, <2>1, <2>2, <2>3 DEF LocksHeld
  <2>8. StillAbsent' /\ LeadOnce'
    BY <1>0, <1>1, <2>1, <2>2, <2>3, QuietRows DEF StillAbsent, LeadOnce, At
  <2> QED
    BY <2>4, <2>5, <2>6, <2>7, <2>8
<1>2. CASE existing # {}
  <2> PICK oldest : oldest = CHOOSE p \in existing : \A q \in existing : p <= q
    OBVIOUS
  <2>1. oldest \in existing
    <3>1. PICK p \in existing : TRUE
      BY <1>2
    <3>2. \A q \in existing : q = p
      BY <3>1, <1>0 DEF LeadOnce, Assumptions, NoneAssumption
    <3>3. p \in Ids /\ p <= p
      BY <3>1, RowsByIds
    <3> QED
      BY <3>2, <3>3
  <2>2. oldest \in Ids /\ oldest \in Party /\ parties[oldest].lead = k
    BY <2>1, RowsByIds
  <2>3. lock' = Unlocked(j) /\ End(j) /\ Answered(k, oldest, FALSE)
    BY <1>2 DEF LeadSelect
  <2>4. /\ answers' \subseteq [key: Key, party: Party, created: BOOLEAN]
        /\ \A a \in answers' : a.party \in Ids' /\ parties'[a.party].lead = a.key
    BY <1>0, <2>2, <2>3, QuietRows, AnswerGiven
  <2>5. TypeOK'
    BY <1>0, <2>3, <2>4, Ended, QuietRows, TypesAgain DEF TypeOK
  <2>6. Placed' /\ LeasesHeld' /\ ClaimsShard'
    BY <1>0, <2>3, QuietRows, EndedApart
  <2>7. LeadOnce'
    BY <1>0, <2>4, QuietRows DEF LeadOnce
  <2>8. StillAbsent'
    BY <1>0, <2>3, Ended, IdleJob, QuietRows DEF StillAbsent, At
  <2> QED
    BY <2>3, <2>5, <2>6, <2>7, <2>8, Ended
<1> QED
  BY <1>1, <1>2

LEMMA StepLeadInsert ==
    ASSUME Assumptions, IInv, NEW j \in Job, LeadInsert(j)
    PROVE  IInv'
<1> USE DEF IInv
<1> PICK k : k = job[j].key
  OBVIOUS
<1> PICK new : new = Len(parties) + 1
  OBVIOUS
<1>0. /\ job[j].at = "insert" /\ k \in Key /\ lock[k] = j /\ \A p \in Ids : parties[p].lead # k
      /\ contacts' = contacts /\ edits' = edits /\ crashes' = crashes
      /\ lock' = Unlocked(j) /\ End(j) /\ Answered(k, new, TRUE) /\ Len(parties) < MaxParty
  BY DEF LeadInsert, At, Placed, Lead, LocksHeld, StillAbsent, Counters
<1>1. PICK n \in Name : parties' = Append(parties, NewRow(None, n, k))
  BY DEF LeadInsert
<1> PICK r : r = NewRow(None, n, k)
  OBVIOUS
<1>2. r \in Row /\ r.lead = k
  BY <1>0, <1>1 DEF NewRow, Row, Assumptions, NameAssumption
<1>3. /\ parties' \in Seq(Row) /\ Len(parties') <= MaxParty
      /\ Ids' = Ids \cup {new} /\ new \in Party \ Ids /\ parties'[new] = r
      /\ \A q \in Ids : parties'[q] = parties[q]
  BY <1>0, <1>1, <1>2, RowAdded
<1>4. RowsLast
  BY <1>3 DEF RowsLast, Lasts
<1>5. /\ answers' \subseteq [key: Key, party: Party, created: BOOLEAN]
      /\ \A a \in answers' : a.party \in Ids' /\ parties'[a.party].lead = a.key
  BY <1>0, <1>2, <1>3, <1>4, AnswerGiven
<1>6. TypeOK'
  BY <1>0, <1>3, <1>5, Ended, TypesAgain DEF TypeOK
<1>7. Placed' /\ LeasesHeld' /\ ClaimsShard'
  BY <1>0, <1>4, EndedApart
<1>8. StillAbsent'
  <2> SUFFICES ASSUME NEW i \in Job, At(i, "insert")', NEW p \in Ids'
               PROVE  parties'[p].lead # job'[i].key
    BY DEF StillAbsent
  <2>1. i # j /\ job'[i] = job[i] /\ At(i, "insert")
    BY <1>0, Ended, IdleJob DEF At
  <2>2. lock[job[i].key] = i
    BY <2>1 DEF LocksHeld, At
  <2>3. job[i].key # k
    BY <2>1, <2>2, <1>0
  <2> QED
    BY <2>1, <2>3, <1>2, <1>3 DEF StillAbsent
<1>9. LeadOnce'
  BY <1>0, <1>2, <1>3, <1>5 DEF LeadOnce
<1> QED
  BY <1>0, <1>6, <1>7, <1>8, <1>9, Ended

LEMMA StepCrash ==
    ASSUME Assumptions, IInv, NEW j \in Job, Crash(j)
    PROVE  IInv'
<1> USE DEF IInv
<1>1. /\ parties' = parties /\ contacts' = contacts /\ answers' = answers /\ edits' = edits
      /\ crashes < MaxCrash /\ crashes' = crashes + 1 /\ lock' = Unlocked(j) /\ End(j)
  BY DEF Crash
<1>2. crashes' \in 0 .. MaxCrash
  BY <1>1 DEF TypeOK, Assumptions, BoundAssumption
<1>3. TypeOK'
  BY <1>1, <1>2, Ended, QuietRows, TypesAgain DEF TypeOK
<1>4. Placed' /\ LeasesHeld' /\ ClaimsShard'
  BY <1>1, QuietRows, EndedApart
<1>5. StillAbsent' /\ LeadOnce'
  BY <1>1, Ended, IdleJob, QuietRows DEF StillAbsent, LeadOnce, At
<1> QED
  BY <1>1, <1>3, <1>4, <1>5, Ended

-----------------------------------------------------------------------------
(* Validation *)

\* The step of a job that is no lead after it: what it has to say for itself.
LEMMA PartyStep ==
    ASSUME Assumptions, IInv, NEW j \in Job, NEW s \in JobRec, job' = [job EXCEPT ![j] = s],
           parties' \in Seq(Row), Len(parties') <= MaxParty,
           contacts' \in [Party -> Seq(Word) \cup {None}],
           lock' = lock, answers' = answers, edits' = edits, crashes' = crashes,
           RowsLast, Ids' = Ids,
           s.at \notin {"select", "insert"}, s.at \in Lead => s.key \in Key,
           s.at \in Checking \cup {"enrich"} => s.party \in Ids,
           s.claimed => s.at \in Checking \cup {"enrich"},
           LeasesHeld' /\ ClaimsShard'
    PROVE  IInv'
<1> USE DEF IInv
<1>1. job' \in [Job -> JobRec] /\ job'[j] = s /\ \A i \in Job : i # j => job'[i] = job[i]
  BY JobSet
<1>2. TypeOK'
  BY <1>1, TypesAgain DEF TypeOK
<1>3. Placed'
  BY PlacedMoves
<1>4. LocksHeld' /\ StillAbsent' /\ LeadOnce'
  BY <1>1, LeadsQuiet
<1> QED
  BY <1>2, <1>3, <1>4

\* The same, of a step that writes no row.
LEMMA PartyLook ==
    ASSUME Assumptions, IInv, NEW j \in Job, NEW s \in JobRec, job' = [job EXCEPT ![j] = s],
           parties' = parties, contacts' = contacts,
           lock' = lock, answers' = answers, edits' = edits, crashes' = crashes,
           s.at \notin {"select", "insert"}, s.at \in Lead => s.key \in Key,
           s.at \in Checking \cup {"enrich"} => s.party \in Ids,
           s.claimed => s.at \in Checking \cup {"enrich"}, SameClaim(j, s)
    PROVE  IInv'
<1>1. /\ parties' \in Seq(Row) /\ Len(parties') <= MaxParty
      /\ contacts' \in [Party -> Seq(Word) \cup {None}] /\ RowsLast /\ Ids' = Ids
  BY QuietRows DEF IInv
<1>2. LeasesHeld' /\ ClaimsShard'
  BY <1>1, ClaimsMove DEF IInv
<1> QED
  BY <1>1, <1>2, PartyStep

LEMMA StepClaimUnvalidated ==
    ASSUME Assumptions, IInv, NEW j \in Job, NEW p \in Ids, ClaimUnvalidated(j, p)
    PROVE  IInv'
<1> PICK s : s = [Idle EXCEPT !.at = "validate", !.party = p, !.claimed = TRUE]
  OBVIOUS
<1> PICK r : r = [parties[p] EXCEPT !.validation = "processing", !.manual = FALSE, !.fresh = TRUE]
  OBVIOUS
<1>0. TypeOK /\ Placed /\ LeasesHeld /\ ClaimsShard /\ p \in 0 .. MaxParty /\ parties[p] \in Row
  BY RowsByIds DEF IInv, Party
<1>1. /\ s \in JobRec /\ s.at = "validate" /\ s.party = p /\ s.claimed
  BY <1>0, IdleJob DEF Idle, JobRec, Checking
<1>2. /\ r \in Row /\ r.lead = parties[p].lead /\ r.fresh /\ r.registry = parties[p].registry
      /\ r.validation = "processing"
  BY <1>0 DEF Row, Status
<1>3. r.validation # None /\ Lasts(parties[p], r)
  BY <1>2 DEF Lasts, Assumptions, NoneAssumption, Status
<1>4. /\ job' = [job EXCEPT ![j] = s] /\ parties' = [parties EXCEPT ![p] = r]
      /\ contacts' = contacts /\ lock' = lock /\ answers' = answers
      /\ edits' = edits /\ crashes' = crashes
  BY DEF ClaimUnvalidated, Counters
<1>5. /\ parties' \in Seq(Row) /\ Len(parties') <= MaxParty /\ Ids' = Ids /\ parties'[p] = r
      /\ RowsLast
  BY <1>0, <1>2, <1>3, <1>4, RowSet, OneRow
<1>6. \A i \in Job : i # j /\ job[i].claimed /\ job[i].party = s.party
                    /\ (s.at = "enrich" <=> At(i, "enrich")) => job[i].overdue
  <2> SUFFICES ASSUME NEW i \in Job, job[i].claimed, job[i].party = p, ~At(i, "enrich"),
                      ~job[i].overdue
               PROVE  FALSE
    BY <1>0, <1>1, JobTypes DEF JobRec
  <2>1. job[i].at \in Checking
    BY <1>0 DEF Placed, At
  <2>2. parties[p].fresh /\ parties[p].validation # None
    BY <1>0, <2>1 DEF LeasesHeld, Leased
  <2> QED
    BY <2>2 DEF ClaimUnvalidated, Unvalidated, Unattempted
<1>7. Leased(j)'
  <2>1. job'[j] = s
    BY <1>0, <1>1, <1>4, JobSet
  <2> QED
    BY <2>1, <1>1, <1>2, <1>3, <1>5 DEF Leased, At
<1>8. LeasesHeld' /\ ClaimsShard'
  BY <1>0, <1>1, <1>4, <1>5, <1>6, <1>7, NewClaim
<1> QED
  BY <1>0, <1>1, <1>4, <1>5, <1>8, PartyStep, ZenonT(60) DEF TypeOK, Lead, Checking

LEMMA StepValidate ==
    ASSUME Assumptions, IInv, NEW j \in Job, NEW p \in Ids, Validate(j, p)
    PROVE  IInv'
<1> PICK s : s = [Idle EXCEPT !.at = "validate", !.party = p]
  OBVIOUS
<1>0. TypeOK /\ p \in 0 .. MaxParty
  BY RowsByIds DEF IInv, Party
<1>1. s \in JobRec /\ s.at = "validate" /\ s.party = p /\ ~s.claimed
  BY <1>0, IdleJob DEF Idle, JobRec, Checking
<1>2. /\ job' = [job EXCEPT ![j] = s] /\ parties' = parties /\ contacts' = contacts
      /\ lock' = lock /\ answers' = answers /\ edits' = edits /\ crashes' = crashes
  BY DEF Validate, Counters
<1> QED
  BY <1>1, <1>2, PartyLook DEF SameClaim, Lead, Checking

\* A job of which nothing more is to be said ends.
LEMMA EndLook ==
    ASSUME Assumptions, IInv, NEW j \in Job, End(j), parties' = parties, contacts' = contacts,
           lock' = lock, answers' = answers, edits' = edits, crashes' = crashes
    PROVE  IInv'
<1>1. job' = [job EXCEPT ![j] = Idle]
  BY DEF End
<1> QED
  BY <1>1, IdleJob, PartyLook DEF SameClaim, Lead, Checking

\* ... or it ends with a write to its row.
LEMMA EndWrite ==
    ASSUME Assumptions, IInv, NEW j \in Job, End(j), NEW p \in Ids, NEW r \in Row,
           parties' = [parties EXCEPT ![p] = r], Lasts(parties[p], r),
           contacts' \in [Party -> Seq(Word) \cup {None}],
           lock' = lock, answers' = answers, edits' = edits, crashes' = crashes
    PROVE  IInv'
<1>1. job' = [job EXCEPT ![j] = Idle] /\ TypeOK
  BY DEF End, IInv
<1>2. /\ parties' \in Seq(Row) /\ Len(parties') <= MaxParty /\ Ids' = Ids /\ RowsLast
  BY <1>1, RowSet, OneRow
<1>3. LeasesHeld' /\ ClaimsShard'
  BY <1>2, EndedApart
<1> QED
  BY <1>1, <1>2, <1>3, IdleJob, PartyStep DEF Lead, Checking

LEMMA StepReadParty ==
    ASSUME Assumptions, IInv, NEW j \in Job, ReadParty(j)
    PROVE  IInv'
<1> PICK p : p = job[j].party
  OBVIOUS
<1>0. /\ job[j] \in JobRec /\ job[j].at = "validate" /\ p \in Ids /\ parties[p] \in Row
      /\ parties' = parties /\ contacts' = contacts
      /\ lock' = lock /\ answers' = answers /\ edits' = edits /\ crashes' = crashes
  BY JobTypes, RowsByIds DEF IInv, ReadParty, At, Placed, Checking, Counters
<1>1. CASE parties[p].doc \in Doc
  <2> PICK s : s = [job[j] EXCEPT !.at = "lookup", !.doc = parties[p].doc, !.name = parties[p].name]
    OBVIOUS
  <2>1. /\ s \in JobRec /\ s.at = "lookup" /\ s.party = p
        /\ s.claimed = job[j].claimed /\ s.overdue = job[j].overdue
    BY <1>0, <1>1 DEF JobRec, Checking, Row
  <2>2. job' = [job EXCEPT ![j] = s]
    BY <1>0, <1>1, JobTypes DEF ReadParty, IInv
  <2> QED
    BY <1>0, <2>1, <2>2, PartyLook DEF SameClaim, At, Lead, Checking
<1>2. CASE parties[p].doc \notin Doc
  BY <1>0, <1>2, EndLook DEF ReadParty
<1> QED
  BY <1>1, <1>2

LEMMA VerdictStatus ==
    ASSUME NEW j \in Job, NEW result \in lookupDni(job[j].doc)
    PROVE  Verdict(j, result) \in Status
BY DEF Verdict, lookupDni, Status

LEMMA StepWriteValidation ==
    ASSUME Assumptions, IInv, NEW j \in Job, NEW result, WriteValidation(j, result)
    PROVE  IInv'
<1> PICK p : p = job[j].party
  OBVIOUS
<1>0. /\ TypeOK /\ job[j].at = "lookup" /\ p \in Ids /\ parties[p] \in Row
      /\ contacts' = contacts /\ lock' = lock /\ answers' = answers
      /\ edits' = edits /\ crashes' = crashes /\ End(j)
  BY RowsByIds DEF IInv, WriteValidation, At, Placed, Checking, Counters
<1>1. CASE SameIdentity(j)
  <2> PICK v : v = Verdict(j, result)
    OBVIOUS
  <2>1. v \in Status /\ v # None
    BY VerdictStatus DEF WriteValidation, Assumptions, NoneAssumption
  <2> PICK r : r = [parties[p] EXCEPT !.verified = v = "verified", !.validation = v,
                                      !.manual = FALSE, !.fresh = TRUE]
    OBVIOUS
  <2>2. r \in Row /\ Lasts(parties[p], r)
    BY <1>0, <2>1 DEF Row, Lasts
  <2>3. parties' = [parties EXCEPT ![p] = r]
    BY <1>1 DEF WriteValidation
  <2> QED
    BY <1>0, <2>2, <2>3, EndWrite DEF TypeOK
<1>2. CASE ~SameIdentity(j)
  BY <1>0, <1>2, EndLook DEF WriteValidation
<1> QED
  BY <1>1, <1>2

-----------------------------------------------------------------------------
(* Enrichment, overrides and edits *)

\* A row is written beside all jobs.
LEMMA RowWrite ==
    ASSUME Assumptions, IInv, NEW p \in Ids, NEW r \in Row,
           parties' = [parties EXCEPT ![p] = r], Lasts(parties[p], r), edits' \in 0 .. MaxEdit,
           contacts' = contacts, lock' = lock, job' = job, answers' = answers, crashes' = crashes
    PROVE  IInv'
<1> USE DEF IInv
<1>1. /\ parties' \in Seq(Row) /\ Len(parties') <= MaxParty /\ Ids' = Ids /\ RowsLast
  BY RowSet, OneRow
<1>2. TypeOK'
  BY <1>1 DEF TypeOK
<1>3. Placed' /\ ClaimsShard'
  BY <1>1 DEF Placed, ClaimsShard, At
<1>4. LocksHeld' /\ StillAbsent' /\ LeadOnce'
  BY <1>1, LeadsQuiet
<1>5. LeasesHeld'
  <2> SUFFICES ASSUME NEW i \in Job, job[i].claimed, ~job[i].overdue
               PROVE  Leased(i)'
    BY DEF LeasesHeld
  <2>1. Leased(i) /\ Lasts(parties[job[i].party], parties'[job[i].party])
    BY <1>1 DEF LeasesHeld, Placed, RowsLast
  <2> QED
    BY <2>1 DEF Leased, Lasts, At
<1> QED
  BY <1>2, <1>3, <1>4, <1>5

LEMMA StepSetDniVerified ==
    ASSUME Assumptions, IInv, NEW p \in Ids, NEW verified \in BOOLEAN, SetDniVerified(p, verified)
    PROVE  IInv'
<1> PICK v : v = IF verified THEN "verified" ELSE "mismatch"
  OBVIOUS
<1> PICK r : r = [parties[p] EXCEPT !.verified = verified, !.manual = TRUE, !.fresh = TRUE,
                                    !.validation = v]
  OBVIOUS
<1>0. TypeOK /\ parties[p] \in Row /\ edits \in 0 .. MaxEdit
  BY RowsByIds DEF IInv, TypeOK
<1>1. v \in Status /\ v # None
  BY DEF Status, Assumptions, NoneAssumption
<1>2. r \in Row /\ Lasts(parties[p], r)
  BY <1>0, <1>1 DEF Row, Lasts
<1>3. /\ parties' = [parties EXCEPT ![p] = r] /\ contacts' = contacts /\ lock' = lock /\ job' = job
      /\ answers' = answers /\ edits' = edits /\ crashes' = crashes
  BY DEF SetDniVerified, Counters
<1> QED
  BY <1>0, <1>2, <1>3, RowWrite

LEMMA StepEditIdentity ==
    ASSUME Assumptions, IInv, NEW p \in Ids, NEW doc \in Doc \cup {None}, NEW name \in Name,
           EditIdentity(p, doc, name)
    PROVE  IInv'
<1>0. TypeOK /\ parties[p] \in Row
  BY RowsByIds DEF IInv
<1>1. PICK touched \in BOOLEAN : parties' = [parties EXCEPT ![p] =
                 [parties[p] EXCEPT !.doc = doc, !.name = name,
                                    !.fresh = parties[p].fresh \/ touched]]
  BY DEF EditIdentity
<1> DEFINE r == [parties[p] EXCEPT !.doc = doc, !.name = name,
                                     !.fresh = parties[p].fresh \/ touched]
<1>2. /\ r.fresh = (parties[p].fresh \/ touched) /\ r.lead = parties[p].lead
      /\ r.registry = parties[p].registry /\ r.validation = parties[p].validation
  BY <1>0 DEF Row
<1>3. r \in Row /\ Lasts(parties[p], r)
  BY <1>0, <1>2 DEF Row, Lasts, Assumptions, NameAssumption
<1>4. parties' = [parties EXCEPT ![p] = r]
  BY <1>1
<1>5. edits' \in 0 .. MaxEdit
  BY <1>0 DEF EditIdentity, TypeOK, Assumptions, BoundAssumption
<1> QED
  BY <1>3, <1>4, <1>5, RowWrite DEF EditIdentity

LEMMA StepClaimUnenriched ==
    ASSUME Assumptions, IInv, NEW j \in Job, NEW p \in Ids, ClaimUnenriched(j, p)
    PROVE  IInv'
<1> PICK s : s = [Idle EXCEPT !.at = "enrich", !.party = p, !.claimed = TRUE, !.doc = parties[p].doc]
  OBVIOUS
<1> PICK r : r = [parties[p] EXCEPT !.registry = j, !.fresh = TRUE]
  OBVIOUS
<1>0. TypeOK /\ Placed /\ LeasesHeld /\ ClaimsShard /\ p \in 0 .. MaxParty /\ parties[p] \in Row
  BY RowsByIds DEF IInv, Party
<1>1. /\ s \in JobRec /\ s.at = "enrich" /\ s.party = p /\ s.claimed
  BY <1>0, IdleJob DEF Idle, JobRec, Checking, Row
<1>2. /\ r \in Row /\ r.lead = parties[p].lead /\ r.fresh /\ r.registry = j
      /\ r.validation = parties[p].validation
  BY <1>0 DEF Row
<1>3. r.registry # None /\ Lasts(parties[p], r)
  BY <1>2 DEF Lasts, Assumptions, NoneAssumption
<1>4. /\ job' = [job EXCEPT ![j] = s] /\ parties' = [parties EXCEPT ![p] = r]
      /\ contacts' = contacts /\ lock' = lock /\ answers' = answers
      /\ edits' = edits /\ crashes' = crashes
  BY DEF ClaimUnenriched, Counters
<1>5. /\ parties' \in Seq(Row) /\ Len(parties') <= MaxParty /\ Ids' = Ids /\ parties'[p] = r
      /\ RowsLast
  BY <1>0, <1>2, <1>3, <1>4, RowSet, OneRow
<1>6. \A i \in Job : i # j /\ job[i].claimed /\ job[i].party = s.party
                    /\ (s.at = "enrich" <=> At(i, "enrich")) => job[i].overdue
  <2> SUFFICES ASSUME NEW i \in Job, job[i].claimed, job[i].party = p, At(i, "enrich"),
                      ~job[i].overdue
               PROVE  FALSE
    BY <1>0, <1>1, JobTypes DEF JobRec
  <2>1. parties[p].fresh /\ parties[p].registry # None
    BY <1>0 DEF LeasesHeld, Leased
  <2> QED
    BY <2>1 DEF ClaimUnenriched, Unenriched
<1>7. Leased(j)'
  <2>1. job'[j] = s
    BY <1>0, <1>1, <1>4, JobSet
  <2> QED
    BY <2>1, <1>1, <1>2, <1>3, <1>5 DEF Leased, At, Checking
<1>8. LeasesHeld' /\ ClaimsShard'
  BY <1>0, <1>1, <1>4, <1>5, <1>6, <1>7, NewClaim, ZenonT(60)
<1> QED
  BY <1>0, <1>1, <1>4, <1>5, <1>8, PartyStep, ZenonT(60) DEF TypeOK, Lead, Checking

LEMMA NameFormatted ==
    ASSUME Assumptions, NEW d \in DOMAIN Registry
    PROVE  formatRegistryName(Registry[d]) \in Seq(Word)
<1>1. Registry[d] \in Person
  BY DEF Assumptions, RegistryAssumption
<1> QED
  BY <1>1 DEF Person, formatRegistryName

LEMMA StepEnrichParty ==
    ASSUME Assumptions, IInv, NEW j \in Job, EnrichParty(j)
    PROVE  IInv'
<1> DEFINE p == job[j].party
           name == formatRegistryName(Registry[job[j].doc])
<1>0. /\ TypeOK /\ p \in Ids /\ p \in Party /\ parties[p] \in Row /\ name \in Seq(Word)
      /\ lock' = lock /\ answers' = answers /\ edits' = edits /\ crashes' = crashes /\ End(j)
  BY RowsByIds, NameFormatted DEF IInv, EnrichParty, At, Placed, Counters
<1>1. CASE MayEnrich(j)
  <2> DEFINE r == [parties[p] EXCEPT !.registry = Captured, !.fresh = TRUE,
                                     !.name = IF name # <<>> THEN name ELSE parties[p].name]
  <2>2. r \in Row /\ Lasts(parties[p], r)
    BY <1>0 DEF Row, Lasts, Assumptions, NoneAssumption
  <2>3. parties' = [parties EXCEPT ![p] = r]
    BY <1>1 DEF EnrichParty
  <2>4. contacts' \in [Party -> Seq(Word) \cup {None}]
    BY <1>1, <1>0 DEF EnrichParty, TypeOK
  <2> QED
    BY <1>0, <2>2, <2>3, <2>4, EndWrite DEF TypeOK
<1>2. CASE ~MayEnrich(j)
  BY <1>0, <1>2, EndLook DEF EnrichParty
<1> QED
  BY <1>1, <1>2

LEMMA StepEnrichGivesUp ==
    ASSUME Assumptions, IInv, NEW j \in Job, EnrichGivesUp(j)
    PROVE  IInv'
BY EndLook DEF EnrichGivesUp, Counters

\* A lease that runs out is no claim's any more: all its claims are overdue.
LEMMA StepLeaseExpires ==
    ASSUME Assumptions, IInv, NEW p \in Ids, LeaseExpires(p)
    PROVE  IInv'
<1> USE DEF IInv
<1> PICK r : r = [parties[p] EXCEPT !.fresh = FALSE]
  OBVIOUS
<1>0. TypeOK /\ parties[p] \in Row
  BY RowsByIds
<1>1. /\ r \in Row /\ r.lead = parties[p].lead
  BY <1>0 DEF Row
<1>2. /\ parties' = [parties EXCEPT ![p] = r] /\ contacts' = contacts /\ lock' = lock
      /\ answers' = answers /\ edits' = edits /\ crashes' = crashes
  BY DEF LeaseExpires, Counters
<1>3. /\ parties' \in Seq(Row) /\ Len(parties') <= MaxParty /\ Ids' = Ids /\ parties'[p] = r
      /\ \A q \in Ids : q # p => parties'[q] = parties[q]
  BY <1>0, <1>1, <1>2, RowSet
<1>4. \A q \in Ids : parties'[q].lead = parties[q].lead
  BY <1>1, <1>3
<1>5. /\ job' \in [Job -> JobRec]
      /\ \A i \in Job : /\ job'[i].at = job[i].at /\ job'[i].key = job[i].key
                        /\ job'[i].party = job[i].party /\ job'[i].claimed = job[i].claimed
                        /\ job[i].overdue => job'[i].overdue
                        /\ job[i].claimed /\ ~job'[i].overdue => job[i].party # p /\ job'[i] = job[i]
  <2> SUFFICES ASSUME NEW i \in Job
               PROVE  /\ job'[i] \in JobRec
                      /\ job'[i].at = job[i].at /\ job'[i].key = job[i].key
                      /\ job'[i].party = job[i].party /\ job'[i].claimed = job[i].claimed
                      /\ job[i].overdue => job'[i].overdue
                      /\ job[i].claimed /\ ~job'[i].overdue => job[i].party # p /\ job'[i] = job[i]
    BY DEF LeaseExpires
  <2>1. job[i] \in JobRec
    BY JobTypes
  <2>2. CASE job[i].party = p /\ job[i].claimed
    <3> PICK s : s = [job[i] EXCEPT !.overdue = TRUE]
      OBVIOUS
    <3>1. job'[i] = s
      BY <2>2 DEF LeaseExpires
    <3>2. /\ s \in JobRec /\ s.at = job[i].at /\ s.key = job[i].key /\ s.party = job[i].party
          /\ s.claimed = job[i].claimed /\ s.overdue
      BY <2>1 DEF JobRec
    <3> QED
      BY <3>1, <3>2
  <2>3. CASE ~(job[i].party = p /\ job[i].claimed)
    BY <2>1, <2>3 DEF LeaseExpires
  <2> QED
    BY <2>2, <2>3
<1>6. TypeOK'
  BY <1>2, <1>3, <1>5, TypesAgain DEF TypeOK
<1>7. Placed'
  BY <1>3, <1>5 DEF Placed
<1>8. LocksHeld' /\ StillAbsent' /\ LeadOnce'
  <2>1. LocksHeld'
    BY <1>2, <1>5 DEF LocksHeld
  <2>2. StillAbsent'
    BY <1>3, <1>4, <1>5 DEF StillAbsent, At
  <2>3. LeadOnce'
    BY <1>2, <1>3, <1>4 DEF LeadOnce
  <2> QED
    BY <2>1, <2>2, <2>3
<1>9. LeasesHeld'
  <2> SUFFICES ASSUME NEW i \in Job, job'[i].claimed, ~job'[i].overdue
               PROVE  Leased(i)'
    BY DEF LeasesHeld
  <2>1. /\ job'[i] = job[i] /\ job[i].claimed /\ ~job[i].overdue /\ job[i].party # p
        /\ job[i].party \in Ids
    BY <1>5 DEF Placed
  <2>2. parties'[job[i].party] = parties[job[i].party] /\ Leased(i)
    BY <2>1, <1>3 DEF LeasesHeld
  <2> QED
    BY <2>1, <2>2 DEF Leased, At
<1>10. ClaimsShard'
  <2> SUFFICES ASSUME NEW i \in Job, NEW k \in Job, i # k, job'[i].claimed, job'[k].claimed,
                      job'[i].party = job'[k].party, At(i, "enrich")' = At(k, "enrich")'
               PROVE  job'[i].overdue \/ job'[k].overdue
    BY DEF ClaimsShard
  <2>1. At(i, "enrich") = At(k, "enrich") /\ job[i].claimed /\ job[k].claimed
        /\ job[i].party = job[k].party
    BY <1>5 DEF At
  <2> QED
    BY <2>1, <1>5 DEF ClaimsShard
<1> QED
  BY <1>6, <1>7, <1>8, <1>9, <1>10

-----------------------------------------------------------------------------
(* Every step *)

LEMMA StepJob ==
    ASSUME Assumptions, IInv, NEW j \in Job, JobStep(j)
    PROVE  IInv'
<1>1. CASE LeadLocked(j)
  BY <1>1, StepLeadLocked
<1>2. CASE LeadSelect(j)
  BY <1>2, StepLeadSelect
<1>3. CASE LeadInsert(j)
  BY <1>3, StepLeadInsert
<1>4. CASE ReadParty(j)
  BY <1>4, StepReadParty
<1>5. CASE \E result \in {"found", "not_found", "error"} : WriteValidation(j, result)
  BY <1>5, StepWriteValidation
<1>6. CASE EnrichParty(j)
  BY <1>6, StepEnrichParty
<1>7. CASE EnrichGivesUp(j)
  BY <1>7, StepEnrichGivesUp
<1> QED
  BY <1>1, <1>2, <1>3, <1>4, <1>5, <1>6, <1>7 DEF JobStep

LEMMA InitIInv ==
    ASSUME Assumptions, Init
    PROVE  IInv
<1>1. PICK d \in Doc, n \in Name :
        /\ parties \in {<<>>, <<NewRow(d, n, None)>>}
        /\ contacts = [p \in Party |-> IF p \in DOMAIN parties THEN n ELSE None]
  BY DEF Init
<1>2. /\ lock = [k \in Key |-> None] /\ job = [j \in Job |-> Idle] /\ answers = {}
      /\ edits = 0 /\ crashes = 0
  BY DEF Init
<1> PICK r : r = NewRow(d, n, None)
  OBVIOUS
<1>3. r \in Row /\ r.lead = None
  BY DEF NewRow, Row, Assumptions, NameAssumption
<1>4. n \in Seq(Word)
  BY DEF Assumptions, NameAssumption
<1>5. parties \in Seq(Row) /\ Len(parties) <= MaxParty /\ \A p \in Ids : parties[p] = r
  <2>1. CASE parties = <<>>
    BY <2>1 DEF Ids, Assumptions, BoundAssumption
  <2>2. CASE parties = <<r>>
    BY <2>2, <1>3 DEF Ids, Assumptions, BoundAssumption
  <2> QED
    BY <1>1, <2>1, <2>2
<1>6. contacts \in [Party -> Seq(Word) \cup {None}]
  BY <1>1, <1>4
<1>7. \A j \in Job : job[j] \in JobRec /\ job[j].at = "idle" /\ ~job[j].claimed
  BY <1>2, IdleJob
<1>8. TypeOK
  BY <1>2, <1>5, <1>6, <1>7 DEF TypeOK, JobRec, Lead, Checking, Assumptions, BoundAssumption
<1>9. LeadOnce
  BY <1>2, <1>3, <1>5 DEF LeadOnce
<1> QED
  BY <1>7, <1>8, <1>9 DEF IInv, Placed, LocksHeld, StillAbsent, LeasesHeld, ClaimsShard, At,
                          Lead, Checking

\* No step of any job, of the hub or of time breaks the inductive invariant.
THEOREM StepInvariant ==
    ASSUME Assumptions
    PROVE  IInv /\ [Next]_vars => IInv'
<1> SUFFICES ASSUME IInv, [Next]_vars
             PROVE  IInv'
  OBVIOUS
<1>1. ASSUME NEW j \in Job, JobStep(j)
      PROVE  IInv'
  BY <1>1, StepJob
<1>2. ASSUME NEW j \in Job, Crash(j)
      PROVE  IInv'
  BY <1>2, StepCrash
<1>3. ASSUME NEW j \in Job, NEW k \in Key, UpsertLead(j, k)
      PROVE  IInv'
  BY <1>3, StepUpsertLead
<1>4. ASSUME NEW j \in Job, NEW p \in Ids,
             ClaimUnvalidated(j, p) \/ Validate(j, p) \/ ClaimUnenriched(j, p)
      PROVE  IInv'
  BY <1>4, StepClaimUnvalidated, StepValidate, StepClaimUnenriched
<1>5. ASSUME NEW p \in Ids, LeaseExpires(p)
      PROVE  IInv'
  BY <1>5, StepLeaseExpires
<1>6. ASSUME NEW p \in Ids, NEW v \in BOOLEAN, SetDniVerified(p, v)
      PROVE  IInv'
  BY <1>6, StepSetDniVerified
<1>7. ASSUME NEW p \in Ids, NEW d \in Doc \cup {None}, NEW n \in Name, EditIdentity(p, d, n)
      PROVE  IInv'
  BY <1>7, StepEditIdentity
<1>8. CASE UNCHANGED vars
  BY <1>8 DEF vars, IInv, TypeOK, Placed, LocksHeld, StillAbsent, LeadOnce, LeasesHeld, Leased,
              ClaimsShard, At, Ids
<1> QED
  BY <1>1, <1>2, <1>3, <1>4, <1>5, <1>6, <1>7, <1>8 DEF Next

\* The inductive invariant holds in every reachable state.
THEOREM Invariant ==
    ASSUME Assumptions
    PROVE  Spec => []IInv
<1>1. Init => IInv
  BY InitIInv
<1>2. IInv /\ [Next]_vars => IInv'
  BY StepInvariant
<1> QED
  BY <1>1, <1>2, PTL DEF Spec

\* The type invariant holds for any parties, keys and jobs.
THEOREM TypeCorrect ==
    ASSUME Assumptions
    PROVE  Spec => []TypeOK
<1>1. IInv => TypeOK
  BY DEF IInv
<1> QED
  BY <1>1, Invariant, PTL

\* However often and however concurrently a submission is delivered, retried
\* and answered, there is one party with its key and every answer names it.
THEOREM LeadsOnce ==
    ASSUME Assumptions
    PROVE  Spec => []LeadOnce
<1>1. IInv => LeadOnce
  BY DEF IInv
<1> QED
  BY <1>1, Invariant, PTL

\* Two workers never hold leases of the same kind on one party.
THEOREM ClaimsSharded ==
    ASSUME Assumptions
    PROVE  Spec => []ClaimsShard
<1>1. IInv => ClaimsShard
  BY DEF IInv
<1> QED
  BY <1>1, Invariant, PTL

-----------------------------------------------------------------------------
(* What is recorded about identities *)

\* The step records of p only what was found out about it.
RightlyDecided(p) ==
    LET was == parties[p]
        later == parties'[p]
    IN  /\ ~was.verified /\ later.verified => later.manual \/ Confirmed(later)
        /\ was.registry # Captured /\ later.registry = Captured =>
             /\ LastClaimantEnds(p)
             /\ later.verified /\ later.doc \in DOMAIN Registry
             /\ LET name == formatRegistryName(Registry[later.doc])
                IN  name # <<>> => later.name = name /\ contacts'[p] \in {name, None}

\* It records neither a verification nor a capture.
RecordsNothing(r, later) ==
    /\ later.verified => r.verified
    /\ later.registry = Captured => r.registry = Captured

LEMMA SameRowsRight ==
    ASSUME parties' = parties
    PROVE  \A p \in Ids : RightlyDecided(p)
BY DEF RightlyDecided

LEMMA OneRowRight ==
    ASSUME Assumptions, TypeOK, NEW p \in Ids, NEW r \in Row, parties' = [parties EXCEPT ![p] = r],
           RecordsNothing(parties[p], r)
    PROVE  \A q \in Ids : RightlyDecided(q)
BY RowSet DEF RightlyDecided, RecordsNothing

LEMMA InsertRight ==
    ASSUME Assumptions, IInv, NEW j \in Job, LeadInsert(j)
    PROVE  \A q \in Ids : RightlyDecided(q)
<1>1. PICK n \in Name : parties' = Append(parties, NewRow(None, n, job[j].key))
  BY DEF LeadInsert
<1> PICK r : r = NewRow(None, n, job[j].key)
  OBVIOUS
<1>2. r \in Row
  BY <1>1 DEF IInv, Placed, Lead, LeadInsert, At, NewRow, Row, Assumptions, NameAssumption
<1>3. \A q \in Ids : parties'[q] = parties[q]
  BY <1>1, <1>2, RowAdded DEF LeadInsert, IInv
<1> QED
  BY <1>3 DEF RightlyDecided

LEMMA ClaimUnvalidatedRight ==
    ASSUME Assumptions, IInv, NEW j \in Job, NEW p \in Ids, ClaimUnvalidated(j, p)
    PROVE  \A q \in Ids : RightlyDecided(q)
<1> PICK r : r = [parties[p] EXCEPT !.validation = "processing", !.manual = FALSE, !.fresh = TRUE]
  OBVIOUS
<1>1. TypeOK /\ parties[p] \in Row
  BY RowsByIds DEF IInv
<1>2. r \in Row /\ RecordsNothing(parties[p], r)
  BY <1>1 DEF Row, Status, RecordsNothing
<1> QED
  BY <1>1, <1>2, OneRowRight DEF ClaimUnvalidated

\* The verdict is about the document and the name that the row still has.
LEMMA WriteValidationRight ==
    ASSUME Assumptions, IInv, NEW j \in Job, NEW result, WriteValidation(j, result)
    PROVE  \A q \in Ids : RightlyDecided(q)
<1> PICK p : p = job[j].party
  OBVIOUS
<1>0. TypeOK /\ job[j].at = "lookup" /\ p \in Ids /\ parties[p] \in Row
  BY RowsByIds DEF IInv, WriteValidation, At, Placed, Checking
<1>1. CASE SameIdentity(j)
  <2> PICK v : v = Verdict(j, result)
    OBVIOUS
  <2>1. v \in Status
    BY VerdictStatus DEF WriteValidation
  <2> PICK r : r = [parties[p] EXCEPT !.verified = v = "verified", !.validation = v,
                                      !.manual = FALSE, !.fresh = TRUE]
    OBVIOUS
  <2>2. /\ r \in Row /\ r.registry = parties[p].registry
        /\ r.doc = parties[p].doc /\ r.name = parties[p].name /\ (r.verified => v = "verified")
    BY <1>0, <2>1 DEF Row
  <2>3. parties' = [parties EXCEPT ![p] = r]
    BY <1>1 DEF WriteValidation
  <2>4. parties'[p] = r /\ \A q \in Ids : q # p => parties'[q] = parties[q]
    BY <1>0, <2>2, <2>3, RowSet
  <2>5. r.doc = job[j].doc /\ r.name = job[j].name
    BY <1>1, <2>2 DEF SameIdentity
  <2>6. v = "verified" => job[j].doc \in DOMAIN Registry
                          /\ dniNameMatches(job[j].name, Registry[job[j].doc])
    BY DEF Verdict, lookupDni, WriteValidation
  <2> QED
    BY <2>2, <2>4, <2>5, <2>6, ZenonT(60) DEF RightlyDecided, Confirmed
<1>2. CASE ~SameIdentity(j)
  BY <1>2, SameRowsRight DEF WriteValidation
<1> QED
  BY <1>1, <1>2

\* An override says of itself that it is one.
LEMMA SetDniVerifiedRight ==
    ASSUME Assumptions, IInv, NEW p \in Ids, NEW verified \in BOOLEAN, SetDniVerified(p, verified)
    PROVE  \A q \in Ids : RightlyDecided(q)
<1> PICK v : v = IF verified THEN "verified" ELSE "mismatch"
  OBVIOUS
<1> PICK r : r = [parties[p] EXCEPT !.verified = verified, !.manual = TRUE, !.fresh = TRUE,
                                    !.validation = v]
  OBVIOUS
<1>1. TypeOK /\ parties[p] \in Row
  BY RowsByIds DEF IInv
<1>2. r \in Row /\ r.manual /\ r.registry = parties[p].registry
  BY <1>1 DEF Row, Status
<1>3. parties'[p] = r /\ \A q \in Ids : q # p => parties'[q] = parties[q]
  BY <1>1, <1>2, RowSet DEF SetDniVerified
<1> QED
  BY <1>2, <1>3 DEF RightlyDecided

\* A claim is not a captured person.
LEMMA ClaimUnenrichedRight ==
    ASSUME Assumptions, IInv, NEW j \in Job, NEW p \in Ids, ClaimUnenriched(j, p)
    PROVE  \A q \in Ids : RightlyDecided(q)
<1> PICK r : r = [parties[p] EXCEPT !.registry = j, !.fresh = TRUE]
  OBVIOUS
<1>1. TypeOK /\ parties[p] \in Row
  BY RowsByIds DEF IInv
<1>2. r \in Row /\ RecordsNothing(parties[p], r)
  BY <1>1 DEF Row, RecordsNothing, Assumptions, CapturedAssumption
<1> QED
  BY <1>1, <1>2, OneRowRight DEF ClaimUnenriched

\* The person is the one under the document that the verified row still has.
LEMMA EnrichPartyRight ==
    ASSUME Assumptions, IInv, NEW j \in Job, EnrichParty(j)
    PROVE  \A q \in Ids : RightlyDecided(q)
<1> DEFINE p == job[j].party
           name == formatRegistryName(Registry[job[j].doc])
<1>0. /\ TypeOK /\ p \in Ids /\ p \in Party /\ parties[p] \in Row /\ name \in Seq(Word)
      /\ job[j].doc \in DOMAIN Registry
  BY RowsByIds, NameFormatted DEF IInv, EnrichParty, At, Placed
<1>1. CASE MayEnrich(j)
  <2> DEFINE r == [parties[p] EXCEPT !.registry = Captured, !.fresh = TRUE,
                                     !.name = IF name # <<>> THEN name ELSE parties[p].name]
  <2>1. /\ r \in Row /\ r.doc = parties[p].doc /\ r.verified = parties[p].verified
        /\ (name # <<>> => r.name = name)
    BY <1>0 DEF Row
  <2>2. parties' = [parties EXCEPT ![p] = r]
    BY <1>1 DEF EnrichParty
  <2> HIDE DEF r
  <2>3. parties'[p] = r /\ \A q \in Ids : q # p => parties'[q] = parties[q]
    BY <1>0, <2>1, <2>2, RowSet
  <2>4. r.doc = job[j].doc /\ r.verified
    BY <1>1, <2>1 DEF MayEnrich
  <2>5. name # <<>> => contacts'[p] \in {name, None}
    BY <1>0, <1>1 DEF EnrichParty, TypeOK
  <2>6. LastClaimantEnds(p)
    <3>1. parties[p].registry = j
      BY <1>1 DEF MayEnrich
    <3>2. At(j, "enrich") /\ job' = [job EXCEPT ![j] = Idle]
      BY DEF EnrichParty, End
    <3>3. job'[j] = Idle
      BY <1>0, <3>2, JobTypes
    <3> QED
      BY <3>1, <3>2, <3>3 DEF LastClaimantEnds
  <2>7. RightlyDecided(p)
    BY <1>0, <2>1, <2>3, <2>4, <2>5, <2>6 DEF RightlyDecided
  <2> QED
    BY <2>3, <2>7 DEF RightlyDecided
<1>2. CASE ~MayEnrich(j)
  BY <1>2, SameRowsRight DEF EnrichParty
<1> QED
  BY <1>1, <1>2

LEMMA EditIdentityRight ==
    ASSUME Assumptions, IInv, NEW p \in Ids, NEW doc \in Doc \cup {None}, NEW name \in Name,
           EditIdentity(p, doc, name)
    PROVE  \A q \in Ids : RightlyDecided(q)
<1>1. TypeOK /\ parties[p] \in Row
  BY RowsByIds DEF IInv
<1>2. PICK touched \in BOOLEAN : parties' = [parties EXCEPT ![p] =
                 [parties[p] EXCEPT !.doc = doc, !.name = name,
                                    !.fresh = parties[p].fresh \/ touched]]
  BY DEF EditIdentity
<1> DEFINE r == [parties[p] EXCEPT !.doc = doc, !.name = name,
                                   !.fresh = parties[p].fresh \/ touched]
<1>3. r \in Row /\ RecordsNothing(parties[p], r)
  BY <1>1 DEF Row, RecordsNothing, Assumptions, NameAssumption
<1>4. parties' = [parties EXCEPT ![p] = r]
  BY <1>2
<1> QED
  BY <1>1, <1>3, <1>4, OneRowRight

LEMMA LeaseExpiresRight ==
    ASSUME Assumptions, IInv, NEW p \in Ids, LeaseExpires(p)
    PROVE  \A q \in Ids : RightlyDecided(q)
<1> PICK r : r = [parties[p] EXCEPT !.fresh = FALSE]
  OBVIOUS
<1>1. TypeOK /\ parties[p] \in Row
  BY RowsByIds DEF IInv
<1>2. r \in Row /\ RecordsNothing(parties[p], r)
  BY <1>1 DEF Row, RecordsNothing
<1> QED
  BY <1>1, <1>2, OneRowRight DEF LeaseExpires

LEMMA StepRight ==
    ASSUME Assumptions, IInv, Next
    PROVE  \A q \in Ids : RightlyDecided(q)
<1>1. ASSUME NEW j \in Job, JobStep(j) \/ Crash(j) \/ \E k \in Key : UpsertLead(j, k)
      PROVE  \A q \in Ids : RightlyDecided(q)
  <2>1. CASE LeadInsert(j)
    BY <2>1, InsertRight
  <2>2. CASE \E result \in {"found", "not_found", "error"} : WriteValidation(j, result)
    BY <2>2, WriteValidationRight
  <2>3. CASE EnrichParty(j)
    BY <2>3, EnrichPartyRight
  <2>4. CASE LeadLocked(j) \/ LeadSelect(j) \/ ReadParty(j) \/ EnrichGivesUp(j) \/ Crash(j)
             \/ \E k \in Key : UpsertLead(j, k)
    BY <2>4, SameRowsRight DEF LeadLocked, LeadSelect, ReadParty, EnrichGivesUp, Crash, UpsertLead
  <2> QED
    BY <1>1, <2>1, <2>2, <2>3, <2>4 DEF JobStep
<1>2. ASSUME NEW j \in Job, NEW p \in Ids,
             ClaimUnvalidated(j, p) \/ Validate(j, p) \/ ClaimUnenriched(j, p)
      PROVE  \A q \in Ids : RightlyDecided(q)
  BY <1>2, ClaimUnvalidatedRight, ClaimUnenrichedRight, SameRowsRight DEF Validate
<1>3. ASSUME NEW p \in Ids, NEW v \in BOOLEAN, LeaseExpires(p) \/ SetDniVerified(p, v)
      PROVE  \A q \in Ids : RightlyDecided(q)
  BY <1>3, LeaseExpiresRight, SetDniVerifiedRight
<1>4. ASSUME NEW p \in Ids, NEW d \in Doc \cup {None}, NEW n \in Name, EditIdentity(p, d, n)
      PROVE  \A q \in Ids : RightlyDecided(q)
  BY <1>4, EditIdentityRight
<1> QED
  BY <1>1, <1>2, <1>3, <1>4 DEF Next

\* What is recorded about an identity was found out about that identity, or is
\* a manual override, however late the registry answers and whatever the hub,
\* other workers and leads have done meanwhile.
THEOREM RegistryHolds ==
    ASSUME Assumptions
    PROVE  Spec => RegistryDecides
<1>1. IInv /\ [Next]_vars => [\A p \in Ids : RightlyDecided(p)]_vars
  BY StepRight
<1>2. [\A p \in Ids : RightlyDecided(p)]_vars =>
        [\A p \in Ids :
          LET was == parties[p]
              later == parties'[p]
          IN  /\ ~was.verified /\ later.verified => later.manual \/ Confirmed(later)
              /\ was.registry # Captured /\ later.registry = Captured =>
                   /\ LastClaimantEnds(p)
                   /\ later.verified /\ later.doc \in DOMAIN Registry
                   /\ LET name == formatRegistryName(Registry[later.doc])
                      IN  name # <<>> => later.name = name /\ contacts'[p] \in {name, None}
        ]_vars
  BY DEF RightlyDecided
<1> QED
  BY <1>1, <1>2, Invariant, PTL DEF Spec, RegistryDecides

-----------------------------------------------------------------------------
(* The secrets: what SecretCacheProofs proves, for the run of both.         *)

SecretProofs == INSTANCE SecretCacheProofs
                  WITH Process <- SecretProcess, Name <- SecretName, Key <- SecretKey

LEMMA SecretAssumptions == SecretProofs!Assumptions
BY SecretsAssumption
DEF SecretProofs!Assumptions, SecretProofs!SecretAssumption, SecretProofs!ConfigAssumption,
    SecretProofs!BoundAssumption, SecretProofs!NoneAssumption, SecretProofs!Entry,
    SecretProofs!Sealed, SecretProofs!Entries, SecretProofs!Time,
    Secrets!SecretAssumption, Secrets!ConfigAssumption, Secrets!BoundAssumption,
    Secrets!NoneAssumption, Secrets!Entry, Secrets!Sealed, Secrets!Entries, Secrets!Time

LEMMA SecretInit == Secrets!Init <=> SecretProofs!Init
BY DEF Secrets!Init, SecretProofs!Init, Secrets!NoEntries, SecretProofs!NoEntries,
       Secrets!Idle, SecretProofs!Idle

LEMMA SecretNext == Secrets!Next <=> SecretProofs!Next
<1> USE DEF Secrets!Idle, SecretProofs!Idle, Secrets!NoEntries, SecretProofs!NoEntries,
            Secrets!CacheKey, SecretProofs!CacheKey, Secrets!Kept, SecretProofs!Kept,
            Secrets!Fresh, SecretProofs!Fresh, Secrets!Opened, SecretProofs!Opened,
            Secrets!OnDisk, SecretProofs!OnDisk, Secrets!Serve, SecretProofs!Serve,
            Secrets!Fetching, SecretProofs!Fetching
<1>1. ASSUME NEW p, NEW a
      PROVE  /\ Secrets!HitMemo(p, a) <=> SecretProofs!HitMemo(p, a)
             /\ Secrets!HitDisk(p, a) <=> SecretProofs!HitDisk(p, a)
             /\ Secrets!Miss(p, a) <=> SecretProofs!Miss(p, a)
  BY DEF Secrets!HitMemo, SecretProofs!HitMemo, Secrets!HitDisk, SecretProofs!HitDisk,
         Secrets!Miss, SecretProofs!Miss
<1>2. ASSUME NEW p
      PROVE  /\ Secrets!FetchFails(p) <=> SecretProofs!FetchFails(p)
             /\ Secrets!Fetched(p) <=> SecretProofs!Fetched(p)
             /\ Secrets!Persist(p) <=> SecretProofs!Persist(p)
             /\ Secrets!Restart(p) <=> SecretProofs!Restart(p)
  BY DEF Secrets!FetchFails, SecretProofs!FetchFails, Secrets!Fetched, SecretProofs!Fetched,
         Secrets!Persist, SecretProofs!Persist, Secrets!Restart, SecretProofs!Restart
<1>3. (Secrets!Tick <=> SecretProofs!Tick) /\ (Secrets!DiskLost <=> SecretProofs!DiskLost)
  BY DEF Secrets!Tick, SecretProofs!Tick, Secrets!DiskLost, SecretProofs!DiskLost
<1> QED
  BY <1>1, <1>2, <1>3 DEF Secrets!Next, SecretProofs!Next

\* A cached answer is no older than its ttl, answers the question that was asked,
\* and leaves the resolver with what the fetch would have left it with.
THEOREM HitsAreHonest == SpecAny => []HitsHonest
<1> DEFINE Inv == SecretProofs!IInv
<1>1. InitAny => Inv
  BY SecretInit, SecretAssumptions, SecretProofs!InitInvariant DEF InitAny
<1>2. Inv /\ [NextAny]_allVars => Inv'
  <2>1. [NextAny]_allVars => [SecretProofs!Next]_(SecretProofs!vars)
    BY SecretNext DEF NextAny, CrmStep, SecretsStep, allVars, secretVars, SecretProofs!vars
  <2> QED
    BY <2>1, SecretAssumptions, SecretProofs!StepInvariant
<1>3. Inv => HitsHonest
  <2>1. Inv => SecretProofs!HitsHonest
    BY SecretAssumptions, SecretProofs!HonestHits
  <2> QED
    BY <2>1 DEF HitsHonest, Secrets!HitsHonest, SecretProofs!HitsHonest, Secrets!Kept,
                SecretProofs!Kept, Secrets!Resolved, SecretProofs!Resolved
<1> QED
  BY <1>1, <1>2, <1>3, PTL DEF SpecAny

=============================================================================
