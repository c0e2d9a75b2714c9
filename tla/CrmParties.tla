----------------------------- MODULE CrmParties -----------------------------
(***************************************************************************)
(* The CRM client (crm-sdk, client.ts and dni.ts): parties of one          *)
(* organization in Postgres, the leads that create them, and the jobs that *)
(* validate and enrich their identity against the DNI registry.  Each      *)
(* transaction is one action; a job is one call, or one row of a claimed   *)
(* batch with the calls the claimant makes for it.  Between two            *)
(* transactions of a job lies a lookup in the registry, and anything may   *)
(* happen: other jobs, a manual override, an edit of the identity by the   *)
(* hub, the end of the job's lease, its death.                             *)
(***************************************************************************)
EXTENDS Naturals, Sequences, FiniteSets

CONSTANTS Word,      \* tokens of names
          Name,      \* the names leads and edits give: sequences of words
          Doc,       \* 8-digit document numbers
          Registry,  \* Registry[d] is the person registered under d, if any
          Key,       \* idempotency keys of leads
          Job,       \* calls under way at one time
          MaxParty,  \* bound: parties
          MaxEdit,   \* bound: edits of an identity
          MaxCrash,  \* bound: deaths of jobs
          None       \* SQL NULL; a document number that is no DNI

Party == 1 .. MaxParty
Person == [nombres: Seq(Word), apellido_paterno: Seq(Word), apellido_materno: Seq(Word)]

ASSUME NameAssumption == Name \subseteq Seq(Word)
ASSUME RegistryAssumption == DOMAIN Registry \subseteq Doc /\ Registry \in [DOMAIN Registry -> Person]
ASSUME BoundAssumption == MaxParty \in Nat \ {0} /\ MaxEdit \in Nat /\ MaxCrash \in Nat

VARIABLES parties,     \* the rows, by id, in the order of their insertion
          contacts,    \* display_name of the contact linked to each party
          lock,        \* the job holding the advisory lock of a key, or None
          job,         \* what each job is doing
          answers,     \* the results of upsertLead (history)
          edits, crashes

vars == <<parties, contacts, lock, job, answers, edits, crashes>>

Status == {"processing", "verified", "mismatch", "not_found", "error"}
Captured == "captured"

ASSUME NoneAssumption == None \notin Doc \cup Key \cup Job \cup Status \cup {Captured}
ASSUME CapturedAssumption == Captured \notin Job

\* validation and manual are metadata.dni_validation; registry is
\* metadata.dni_registry: absent, a claim (whose token is fresh, so that the
\* job that got it stands for it), or the captured person; fresh says that
\* updated_at lies within the last 5 minutes; lead is the idempotency key.
Row == [doc: Doc \cup {None}, name: Seq(Word), verified: BOOLEAN,
        validation: Status \cup {None}, manual: BOOLEAN,
        registry: Job \cup {Captured, None}, fresh: BOOLEAN, lead: Key \cup {None}]

\* doc and name are what a job remembers of its party; claimed and overdue say
\* whether it holds a claim and whether 5 minutes have passed since.
Idle == [at |-> "idle", party |-> 0, key |-> None, doc |-> None, name |-> <<>>,
         claimed |-> FALSE, overdue |-> FALSE]

NewRow(doc, name, lead) ==
    [doc |-> doc, name |-> name, verified |-> FALSE, validation |-> None, manual |-> FALSE,
     registry |-> None, fresh |-> TRUE, lead |-> lead]

\* Either one party was imported with a document and a contact, or the table is
\* empty and leads will come.
Init ==
    /\ \E d \in Doc, n \in Name :
         /\ parties \in {<<>>, <<NewRow(d, n, None)>>}
         /\ contacts = [p \in Party |-> IF p \in DOMAIN parties THEN n ELSE None]
    /\ lock = [k \in Key |-> None]
    /\ job = [j \in Job |-> Idle]
    /\ answers = {}
    /\ edits = 0
    /\ crashes = 0

-----------------------------------------------------------------------------
(* dni.ts *)

Words(name) == {name[i] : i \in DOMAIN name}

\* The first given name and every surname must appear in the party's name.
dniNameMatches(name, person) ==
    /\ name # <<>> /\ person.nombres # <<>> /\ person.apellido_paterno # <<>>
    /\ {person.nombres[1]} \cup Words(person.apellido_paterno)
         \cup Words(person.apellido_materno) \subseteq Words(name)

\* The structured parts in order; a party keeps its name if there are none.
formatRegistryName(person) ==
    person.nombres \o person.apellido_paterno \o person.apellido_materno

\* Network errors, 429, bad JSON and a foreign identity are errors; nobody is
\* found who is not registered, but the registry may not find one who is.
lookupDni(doc) == {"error", "not_found"} \cup (IF doc \in DOMAIN Registry THEN {"found"} ELSE {})

-----------------------------------------------------------------------------
(* Helpers *)

Ids == DOMAIN parties
At(j, step) == job[j].at = step
Unlocked(j) == [k \in Key |-> IF lock[k] = j THEN None ELSE lock[k]]
Counters == <<edits, crashes>>

End(j) == job' = [job EXCEPT ![j] = Idle]

-----------------------------------------------------------------------------
(* upsertLead *)

\* A delivery of a submission, or its retry.  (Bound: not beside an imported
\* party, which no statement of a lead would touch.)
UpsertLead(j, k) ==
    /\ At(j, "idle")
    /\ \A p \in Ids : parties[p].lead # None
    /\ job' = [job EXCEPT ![j] = [Idle EXCEPT !.at = "lock", !.key = k]]
    /\ UNCHANGED <<parties, contacts, lock, answers>> /\ UNCHANGED Counters

\* Mutant: without pg_advisory_xact_lock.
LeadUnlocked(j) ==
    /\ At(j, "lock")
    /\ job' = [job EXCEPT ![j].at = "select"]
    /\ UNCHANGED <<parties, contacts, lock, answers>> /\ UNCHANGED Counters

\* pg_advisory_xact_lock is granted, until the transaction ends.
LeadLocked(j) ==
    /\ At(j, "lock")
    /\ lock[job[j].key] = None
    /\ lock' = [lock EXCEPT ![job[j].key] = j]
    /\ job' = [job EXCEPT ![j].at = "select"]
    /\ UNCHANGED <<parties, contacts, answers>> /\ UNCHANGED Counters

Answered(k, p, created) == answers' = answers \cup {[key |-> k, party |-> p, created |-> created]}

\* The select finds the oldest party with this key, which is the answer ...
LeadSelect(j) ==
    /\ At(j, "select")
    /\ LET k == job[j].key
           existing == {p \in Ids : parties[p].lead = k}
       IN  IF existing = {}
           THEN job' = [job EXCEPT ![j].at = "insert"] /\ UNCHANGED <<lock, answers>>
           ELSE /\ Answered(k, CHOOSE p \in existing : \A q \in existing : p <= q, FALSE)
                /\ lock' = Unlocked(j)
                /\ End(j)
    /\ UNCHANGED <<parties, contacts>> /\ UNCHANGED Counters

\* ... or the party is inserted and the transaction commits.
LeadInsert(j) ==
    /\ At(j, "insert")
    /\ Len(parties) < MaxParty
    /\ \E n \in Name : parties' = Append(parties, NewRow(None, n, job[j].key))
    /\ Answered(job[j].key, Len(parties) + 1, TRUE)
    /\ lock' = Unlocked(j)
    /\ End(j)
    /\ UNCHANGED contacts /\ UNCHANGED Counters

-----------------------------------------------------------------------------
(* Validation *)

Unattempted(r) == r.validation = None

\* Mutant: a row once claimed is never claimed again.
UnvalidatedNever(r) == r.doc \in Doc /\ ~r.verified /\ Unattempted(r)

\* What claimUnvalidated selects: an attempt that is still "processing" after
\* 5 minutes counts as none.
Unvalidated(r) ==
    /\ r.doc \in Doc /\ ~r.verified
    /\ Unattempted(r) \/ (r.validation = "processing" /\ ~r.fresh)

\* claimUnvalidated, for one row of the batch (for update skip locked).
ClaimUnvalidated(j, p) ==
    /\ At(j, "idle")
    /\ Unvalidated(parties[p])
    /\ parties' = [parties EXCEPT ![p] =
         [@ EXCEPT !.validation = "processing", !.manual = FALSE, !.fresh = TRUE]]
    /\ job' = [job EXCEPT ![j] = [Idle EXCEPT !.at = "validate", !.party = p, !.claimed = TRUE]]
    /\ UNCHANGED <<contacts, lock, answers>> /\ UNCHANGED Counters

\* validatePartyDni is called for a party nobody claimed.
Validate(j, p) ==
    /\ At(j, "idle")
    /\ job' = [job EXCEPT ![j] = [Idle EXCEPT !.at = "validate", !.party = p]]
    /\ UNCHANGED <<parties, contacts, lock, answers>> /\ UNCHANGED Counters

\* Its first transaction reads the identity; without a DNI there is no lookup.
ReadParty(j) ==
    /\ At(j, "validate")
    /\ LET r == parties[job[j].party]
       IN  IF r.doc \in Doc
           THEN job' = [job EXCEPT ![j].at = "lookup", ![j].doc = r.doc, ![j].name = r.name]
           ELSE End(j)
    /\ UNCHANGED <<parties, contacts, lock, answers>> /\ UNCHANGED Counters

SameIdentity(j) ==
    LET r == parties[job[j].party] IN r.doc = job[j].doc /\ r.name = job[j].name

Verdict(j, result) ==
    IF result = "found"
    THEN IF dniNameMatches(job[j].name, Registry[job[j].doc]) THEN "verified" ELSE "mismatch"
    ELSE result

\* The second transaction records the verdict unless the identity has changed.
WriteValidation(j, result) ==
    /\ At(j, "lookup")
    /\ result \in lookupDni(job[j].doc)
    /\ IF SameIdentity(j)
       THEN parties' = [parties EXCEPT ![job[j].party] =
              [@ EXCEPT !.verified = Verdict(j, result) = "verified",
                        !.validation = Verdict(j, result), !.manual = FALSE, !.fresh = TRUE]]
       ELSE UNCHANGED parties
    /\ End(j)
    /\ UNCHANGED <<contacts, lock, answers>> /\ UNCHANGED Counters

\* The checkmark in the CRM table.
SetDniVerified(p, verified) ==
    /\ parties' = [parties EXCEPT ![p] =
         [@ EXCEPT !.verified = verified, !.manual = TRUE, !.fresh = TRUE,
                   !.validation = IF verified THEN "verified" ELSE "mismatch"]]
    /\ UNCHANGED <<contacts, lock, job, answers>> /\ UNCHANGED Counters

-----------------------------------------------------------------------------
(* Enrichment *)

\* Mutant: a claim is taken over at once.
UnenrichedNow(r) == r.doc \in Doc /\ r.verified /\ r.registry # Captured

\* What claimUnenriched selects.
Unenriched(r) ==
    /\ r.doc \in Doc /\ r.verified
    /\ r.registry = None \/ (r.registry \in Job /\ ~r.fresh)

ClaimUnenriched(j, p) ==
    /\ At(j, "idle")
    /\ Unenriched(parties[p])
    /\ parties' = [parties EXCEPT ![p] = [@ EXCEPT !.registry = j, !.fresh = TRUE]]
    /\ job' = [job EXCEPT ![j] = [Idle EXCEPT !.at = "enrich", !.party = p, !.claimed = TRUE,
                                              !.doc = parties[p].doc]]
    /\ UNCHANGED <<contacts, lock, answers>> /\ UNCHANGED Counters

\* Mutant: any claim will do, whoever holds it.
MayEnrichByAny(j) ==
    LET r == parties[job[j].party] IN r.doc = job[j].doc /\ r.verified /\ r.registry \in Job

\* The condition of enrichParty's update.
MayEnrich(j) ==
    LET r == parties[job[j].party] IN r.doc = job[j].doc /\ r.verified /\ r.registry = j

\* The lookup found a person, and enrichParty writes party and contact in one
\* transaction, or throws.
EnrichParty(j) ==
    /\ At(j, "enrich")
    /\ job[j].doc \in DOMAIN Registry
    /\ IF MayEnrich(j)
       THEN LET p == job[j].party
                name == formatRegistryName(Registry[job[j].doc])
                known == name # <<>>
            IN  /\ parties' = [parties EXCEPT ![p] =
                     [@ EXCEPT !.registry = Captured, !.fresh = TRUE,
                               !.name = IF known THEN name ELSE parties[p].name]]
                /\ contacts' = IF known /\ contacts[p] # None
                               THEN [contacts EXCEPT ![p] = name] ELSE contacts
       ELSE UNCHANGED <<parties, contacts>>
    /\ End(j)
    /\ UNCHANGED <<lock, answers>> /\ UNCHANGED Counters

\* The lookup found nobody: the claim is left to expire.
EnrichGivesUp(j) ==
    /\ At(j, "enrich")
    /\ End(j)
    /\ UNCHANGED <<parties, contacts, lock, answers>> /\ UNCHANGED Counters

-----------------------------------------------------------------------------
(* The environment *)

\* The hub changes a document number or a name; it may or may not touch updated_at.
EditIdentity(p, doc, name) ==
    /\ edits < MaxEdit
    /\ <<doc, name>> # <<parties[p].doc, parties[p].name>>
    /\ \E touched \in BOOLEAN : parties' = [parties EXCEPT ![p] =
         [@ EXCEPT !.doc = doc, !.name = name, !.fresh = parties[p].fresh \/ touched]]
    /\ edits' = edits + 1
    /\ UNCHANGED <<contacts, lock, job, answers, crashes>>

\* 5 minutes pass without a write to the row.
LeaseExpires(p) ==
    /\ parties[p].fresh
    /\ parties' = [parties EXCEPT ![p].fresh = FALSE]
    /\ job' = [j \in Job |-> IF job[j].party = p /\ job[j].claimed
                             THEN [job[j] EXCEPT !.overdue = TRUE] ELSE job[j]]
    /\ UNCHANGED <<contacts, lock, answers>> /\ UNCHANGED Counters

\* The process of a job dies, or its connection: an open transaction rolls back.
Crash(j) ==
    /\ ~At(j, "idle")
    /\ crashes < MaxCrash
    /\ crashes' = crashes + 1
    /\ lock' = Unlocked(j)
    /\ End(j)
    /\ UNCHANGED <<parties, contacts, answers, edits>>

-----------------------------------------------------------------------------
JobStep(j) ==
    \/ LeadLocked(j) \/ LeadSelect(j) \/ LeadInsert(j)
    \/ ReadParty(j) \/ (\E result \in {"found", "not_found", "error"} : WriteValidation(j, result))
    \/ EnrichParty(j) \/ EnrichGivesUp(j)

Next ==
    \/ \E j \in Job :
         \/ JobStep(j) \/ Crash(j)
         \/ \E k \in Key : UpsertLead(j, k)
         \/ \E p \in Ids : ClaimUnvalidated(j, p) \/ Validate(j, p) \/ ClaimUnenriched(j, p)
    \/ \E p \in Ids :
         \/ LeaseExpires(p)
         \/ \E v \in BOOLEAN : SetDniVerified(p, v)
         \/ \E d \in Doc \cup {None}, n \in Name : EditIdentity(p, d, n)

Spec == Init /\ [][Next]_vars

\* Transactions and lookups end, time passes, and somebody keeps claiming
\* unvalidated rows as long as there are any.
Fairness ==
    /\ \A j \in Job : WF_vars(JobStep(j))
    /\ \A p \in Party :
         /\ WF_vars(p \in Ids /\ LeaseExpires(p))
         /\ SF_vars(\E j \in Job : p \in Ids /\ ClaimUnvalidated(j, p))

FairSpec == Spec /\ Fairness

-----------------------------------------------------------------------------
(* Properties *)

\* Every variable has its shape.
TypeOK ==
    /\ parties \in Seq(Row) /\ Len(parties) <= MaxParty
    /\ contacts \in [Party -> Seq(Word) \cup {None}]
    /\ lock \in [Key -> Job \cup {None}]
    /\ job \in [Job -> [at: {"idle", "lock", "select", "insert", "validate", "lookup", "enrich"},
                        party: 0 .. MaxParty, key: Key \cup {None}, doc: Doc \cup {None},
                        name: Seq(Word), claimed: BOOLEAN, overdue: BOOLEAN]]
    /\ answers \subseteq [key: Key, party: Party, created: BOOLEAN]
    /\ edits \in 0 .. MaxEdit /\ crashes \in 0 .. MaxCrash

\* A submission creates one party, however often and however concurrently it is
\* delivered and whatever has happened to the party since: all answers to a key
\* name the same party, and that is the only one with the key (the lock and the
\* merges of metadata, lines 89-101, 143, 166, 251, 274).
LeadOnce ==
    /\ \A p, q \in Ids : parties[p].lead # None /\ parties[p].lead = parties[q].lead => p = q
    /\ \A a \in answers : a.party \in Ids /\ parties[a.party].lead = a.key

\* Parallel workers shard: of two that hold a claim of the same kind on a party
\* one has been at it for more than 5 minutes (lines 157-160, 195-197).
ClaimsShard ==
    \A i, j \in Job :
        /\ i # j /\ job[i].claimed /\ job[j].claimed /\ job[i].party = job[j].party
        /\ At(i, "enrich") = At(j, "enrich")
        => job[i].overdue \/ job[j].overdue

Confirmed(r) == r.doc \in DOMAIN Registry /\ dniNameMatches(r.name, Registry[r.doc])

\* The job whose claim is the last one on row p has come to its end.
LastClaimantEnds(p) ==
    \E j \in Job :
        parties[p].registry = j /\ At(j, "enrich") /\ job[j].party = p /\ job'[j] = Idle

\* What is recorded about an identity was found out about that identity: but for
\* the manual override a party becomes verified only when the registry confirms
\* the document and the name it has at that moment, and a person is captured
\* only for a verified party under that person's document, with party and
\* contact carrying that person's name, and by the worker that claimed the row
\* last: one slower than its lease, of the same document even, leaves it to the
\* worker that has taken it over (lines 145-147, 196-197, 253-264).
RegistryDecides ==
    [][ \A p \in Ids :
          LET was == parties[p]
              now == parties'[p]
          IN  /\ ~was.verified /\ now.verified => now.manual \/ Confirmed(now)
              /\ was.registry # Captured /\ now.registry = Captured =>
                   /\ LastClaimantEnds(p)
                   /\ now.verified /\ now.doc \in DOMAIN Registry
                   /\ LET name == formatRegistryName(Registry[now.doc])
                      IN  name # <<>> => now.name = name /\ contacts'[p] \in {name, None}
      ]_vars

Processing(p) ==
    /\ p \in Ids
    /\ parties[p].validation = "processing" /\ parties[p].doc # None

\* "A crash never permanently parks a row" (lines 157-160): a row in processing
\* does not stay there, unless its document is no DNI any more.
NothingParked ==
    \A p \in Party : Processing(p) ~> ~Processing(p)
=============================================================================
