-------------------------- MODULE SecretCacheProofs --------------------------
(***************************************************************************)
(* What SecretCache promises, for any processes, keys, modes, allowlists,   *)
(* contents, ttl and clock.                                                 *)
(*                                                                         *)
(* HitsHonest speaks of what is served.  It needs to be known of everything *)
(* an entry passes through on its way: the memos, the disk, and the calls   *)
(* that are about to write it there.                                        *)
(***************************************************************************)
EXTENDS SecretCache, TLAPS

\* e is the entry of a fetch under the key a.
Honest(e, a) ==
    e # None => /\ e.fetchedAt = e.back
                /\ e.back <= now
                /\ e.env = Kept(e.keyNames, a)

AllHonest(entries) == \A a \in Allow : Honest(entries[a], a)

ServedHonest ==
    served # None => Honest(served.entry, served.allow) /\ Fresh(served.entry)

IInv ==
    /\ TypeOK
    /\ \A p \in Process : AllHonest(memo[p])
    /\ disk # None => AllHonest(disk.entries)
    /\ \A p \in Process : call[p].at = "persist" => Honest(call[p].entry, call[p].allow)
    /\ ServedHonest

Assumptions == SecretAssumption /\ ConfigAssumption /\ BoundAssumption /\ NoneAssumption

-----------------------------------------------------------------------------
(* Facts about entries *)

LEMMA NoneApart ==
    ASSUME Assumptions
    PROVE  None \notin Entry /\ None \notin Sealed
BY DEF Assumptions, NoneAssumption

\* With any allowlist, what is kept are names.
LEMMA KeptNames ==
    ASSUME NEW a, NEW names \in SUBSET Name
    PROVE  Kept(names, a) \in SUBSET Name
BY DEF Kept

\* What is found on disk is well formed and honest.
LEMMA OpenedHonest ==
    ASSUME Assumptions, IInv, NEW p \in Process
    PROVE  Opened(p) \in Entries /\ AllHonest(Opened(p))
<1>1. NoEntries \in Entries /\ AllHonest(NoEntries)
  BY DEF NoEntries, Entries, AllHonest, Honest
<1>2. CASE disk # None
  <2>1. disk \in Sealed
    BY <1>2 DEF IInv, TypeOK
  <2>2. disk.entries \in Entries
    BY <2>1 DEF Sealed
  <2> QED
    BY <1>1, <1>2, <2>2 DEF IInv, Opened
<1>3. CASE disk = None
  BY <1>1, <1>3 DEF Opened
<1> QED
  BY <1>2, <1>3

\* A well-formed honest entry that is fresh may be served.
LEMMA ServeHonest ==
    ASSUME NEW e \in Entry \cup {None}, NEW a \in Allow, Honest(e, a), Fresh(e),
           Serve(e, a), UNCHANGED now
    PROVE  /\ served' \in [allow: Allow, entry: Entry] \cup {None}
           /\ ServedHonest'
<1>1. e \in Entry
  BY DEF Fresh
<1>2. served' = [allow |-> a, entry |-> e]
  BY DEF Serve
<1> QED
  BY <1>1, <1>2 DEF ServedHonest, Honest, Fresh

\* One entry of one memo is replaced.
LEMMA MemoHonest ==
    ASSUME IInv, UNCHANGED now, NEW p \in Process, NEW a \in Allow,
           NEW e \in Entry \cup {None}, Honest(e, a),
           memo' = [memo EXCEPT ![p][a] = e]
    PROVE  /\ memo' \in [Process -> Entries]
           /\ (\A q \in Process : AllHonest(memo[q]))'
<1>1. memo \in [Process -> Entries]
  BY DEF IInv, TypeOK
<1>2. memo' = [memo EXCEPT ![p] = [memo[p] EXCEPT ![a] = e]]
  BY <1>1
<1>3. [memo[p] EXCEPT ![a] = e] \in Entries
  BY <1>1 DEF Entries
<1>4. memo' \in [Process -> Entries]
  BY <1>1, <1>2, <1>3
<1>5. ASSUME NEW q \in Process, NEW b \in Allow
      PROVE  memo'[q][b] = IF q = p /\ b = a THEN e ELSE memo[q][b]
  BY <1>1, <1>2 DEF Entries
<1>6. ASSUME NEW q \in Process, NEW b \in Allow
      PROVE  Honest(memo[q][b], b)' = (Honest(memo'[q][b], b))
  BY DEF Honest, Kept
<1>7. ASSUME NEW q \in Process, NEW b \in Allow
      PROVE  Honest(memo'[q][b], b)
  BY <1>5, <1>7 DEF IInv, AllHonest
<1> QED
  BY <1>4, <1>6, <1>7 DEF AllHonest
-----------------------------------------------------------------------------
(* The initial states and the steps *)

LEMMA InitInvariant ==
    ASSUME Assumptions, Init
    PROVE  IInv
<1>1. NoEntries \in Entries /\ AllHonest(NoEntries)
  BY DEF NoEntries, Entries, AllHonest, Honest
<1>2. now \in Time
  BY DEF Init, Time, Assumptions, BoundAssumption
<1>3. TypeOK
  BY <1>1, <1>2 DEF Init, TypeOK
<1>4. \A p \in Process : AllHonest(memo[p]) /\ call[p].at # "persist"
  BY <1>1 DEF Init, Idle
<1> QED
  BY <1>3, <1>4 DEF Init, IInv, ServedHonest

\* Everything but the memos stays well formed and honest when only the call of
\* one process changes, to one that carries no entry.
LEMMA CallHonest ==
    ASSUME IInv, NEW p \in Process,
           NEW c \in {Idle} \cup [at: {"fetch"}, allow: Allow],
           call' = [call EXCEPT ![p] = c], UNCHANGED now
    PROVE  /\ call' \in [Process -> {Idle}
                            \cup [at: {"fetch"}, allow: Allow]
                            \cup [at: {"persist"}, allow: Allow, entry: Entry]]
           /\ (\A q \in Process : call[q].at = "persist" => Honest(call[q].entry, call[q].allow))'
<1>1. c.at # "persist"
  BY DEF Idle
<1>2. \A q \in Process : call'[q] = IF q = p THEN c ELSE call[q]
  BY DEF IInv, TypeOK
<1>3. ASSUME NEW q \in Process, call'[q].at = "persist"
      PROVE  Honest(call'[q].entry, call'[q].allow)
  BY <1>1, <1>2, <1>3 DEF IInv
<1> QED
  BY <1>3 DEF IInv, TypeOK, Honest

LEMMA HitMemoHonest ==
    ASSUME Assumptions, IInv, NEW p \in Process, NEW a \in Allow, HitMemo(p, a)
    PROVE  IInv'
<1>1. UNCHANGED <<now, config, memo, disk, call>>
  BY DEF HitMemo
<1>2. memo[p][a] \in Entry \cup {None} /\ Honest(memo[p][a], a)
  BY DEF IInv, TypeOK, Entries, AllHonest
<1>3. Fresh(memo[p][a]) /\ Serve(memo[p][a], a)
  BY DEF HitMemo, CacheKey
<1>4. /\ served' \in [allow: Allow, entry: Entry] \cup {None}
      /\ ServedHonest'
  BY <1>1, <1>2, <1>3, ServeHonest
<1> QED
  BY <1>1, <1>4 DEF IInv, TypeOK, AllHonest, Honest

LEMMA HitDiskHonest ==
    ASSUME Assumptions, IInv, NEW p \in Process, NEW a \in Allow, HitDisk(p, a)
    PROVE  IInv'
<1>1. UNCHANGED <<now, config, disk, call>>
  BY DEF HitDisk
<1> DEFINE e == Opened(p)[a]
<1>2. e \in Entry \cup {None} /\ Honest(e, a)
  BY OpenedHonest DEF Entries, AllHonest
<1>3. Fresh(e) /\ Serve(e, a) /\ memo' = [memo EXCEPT ![p][a] = e]
  BY DEF HitDisk, CacheKey
<1> HIDE DEF e
<1>4. /\ served' \in [allow: Allow, entry: Entry] \cup {None}
      /\ ServedHonest'
  BY <1>1, <1>2, <1>3, ServeHonest
<1>5. /\ memo' \in [Process -> Entries]
      /\ (\A q \in Process : AllHonest(memo[q]))'
  BY <1>1, <1>2, <1>3, MemoHonest
<1> QED
  BY <1>1, <1>4, <1>5 DEF IInv, TypeOK, AllHonest, Honest

LEMMA MissHonest ==
    ASSUME Assumptions, IInv, NEW p \in Process, NEW a \in Allow, Miss(p, a)
    PROVE  IInv'
<1>1. UNCHANGED <<now, config, disk>> /\ served' = None
  BY DEF Miss
<1>2. memo' = [memo EXCEPT ![p][a] = None]
  BY DEF Miss, CacheKey
<1>3. Honest(None, a)
  BY DEF Honest
<1>4. /\ memo' \in [Process -> Entries]
      /\ (\A q \in Process : AllHonest(memo[q]))'
  BY <1>1, <1>2, <1>3, MemoHonest
<1>5. call' = [call EXCEPT ![p] = Fetching(a)] /\ Fetching(a) \in [at: {"fetch"}, allow: Allow]
  BY DEF Miss, Fetching
<1>6. /\ call' \in [Process -> {Idle}
                            \cup [at: {"fetch"}, allow: Allow]
                            \cup [at: {"persist"}, allow: Allow, entry: Entry]]
      /\ (\A q \in Process : call[q].at = "persist" => Honest(call[q].entry, call[q].allow))'
  BY <1>1, <1>5, CallHonest
<1> QED
  BY <1>1, <1>4, <1>6 DEF IInv, TypeOK, AllHonest, Honest, ServedHonest

LEMMA FetchFailsHonest ==
    ASSUME Assumptions, IInv, NEW p \in Process, FetchFails(p)
    PROVE  IInv'
<1>1. UNCHANGED <<now, config, memo, disk>> /\ served' = None
  BY DEF FetchFails
<1>2. /\ call' \in [Process -> {Idle}
                            \cup [at: {"fetch"}, allow: Allow]
                            \cup [at: {"persist"}, allow: Allow, entry: Entry]]
      /\ (\A q \in Process : call[q].at = "persist" => Honest(call[q].entry, call[q].allow))'
  BY <1>1, CallHonest DEF FetchFails
<1> QED
  BY <1>1, <1>2 DEF IInv, TypeOK, AllHonest, Honest, ServedHonest

\* The one place where an entry is made.
LEMMA FetchedHonest ==
    ASSUME Assumptions, IInv, NEW p \in Process, Fetched(p)
    PROVE  IInv'
<1>1. UNCHANGED <<now, config, disk>> /\ served' = None
  BY DEF Fetched
<1> DEFINE a == call[p].allow
<1>2. a \in Allow /\ now \in Time
  BY DEF Fetched, IInv, TypeOK, Idle
<1>3. PICK names \in Contents :
        LET e == [env |-> Kept(names, a), keyNames |-> names, fetchedAt |-> now, back |-> now]
        IN  /\ memo' = [memo EXCEPT ![p][a] = e]
            /\ call' = [call EXCEPT ![p] = IF OnDisk(p)
                                           THEN [at |-> "persist", allow |-> a, entry |-> e]
                                           ELSE Idle]
  BY DEF Fetched, CacheKey
<1> DEFINE e == [env |-> Kept(names, a), keyNames |-> names, fetchedAt |-> now, back |-> now]
<1>4. e \in Entry
  BY <1>2, KeptNames DEF Entry, Assumptions, SecretAssumption
<1>5. Honest(e, a)
  BY <1>2 DEF Honest, Time, Assumptions, BoundAssumption
<1>6. memo' = [memo EXCEPT ![p][a] = e]
  BY <1>3
<1>7. call' = [call EXCEPT ![p] = IF OnDisk(p)
                                  THEN [at |-> "persist", allow |-> a, entry |-> e] ELSE Idle]
  BY <1>3
<1> HIDE DEF e, a
<1>8. /\ memo' \in [Process -> Entries]
      /\ (\A q \in Process : AllHonest(memo[q]))'
  BY <1>1, <1>2, <1>4, <1>5, <1>6, MemoHonest
<1>9. CASE OnDisk(p)
  <2> DEFINE c == [at |-> "persist", allow |-> a, entry |-> e]
  <2>1. c \in [at: {"persist"}, allow: Allow, entry: Entry] /\ Honest(c.entry, c.allow)
    BY <1>2, <1>4, <1>5
  <2>2. call' = [call EXCEPT ![p] = c]
    BY <1>7, <1>9
  <2> HIDE DEF c
  <2>3. \A q \in Process : call'[q] = IF q = p THEN c ELSE call[q]
    BY <2>2 DEF IInv, TypeOK
  <2>4. ASSUME NEW q \in Process, call'[q].at = "persist"
        PROVE  Honest(call'[q].entry, call'[q].allow)
    BY <2>1, <2>3, <2>4 DEF IInv
  <2>5. call' \in [Process -> {Idle}
                            \cup [at: {"fetch"}, allow: Allow]
                            \cup [at: {"persist"}, allow: Allow, entry: Entry]]
    BY <2>1, <2>2 DEF IInv, TypeOK
  <2> QED
    BY <1>1, <1>8, <2>4, <2>5 DEF IInv, TypeOK, AllHonest, Honest, ServedHonest
<1>10. CASE ~OnDisk(p)
  <2>1. /\ call' \in [Process -> {Idle}
                            \cup [at: {"fetch"}, allow: Allow]
                            \cup [at: {"persist"}, allow: Allow, entry: Entry]]
        /\ (\A q \in Process : call[q].at = "persist" => Honest(call[q].entry, call[q].allow))'
    BY <1>1, <1>7, <1>10, CallHonest
  <2> QED
    BY <1>1, <1>8, <2>1 DEF IInv, TypeOK, AllHonest, Honest, ServedHonest
<1> QED
  BY <1>9, <1>10

LEMMA PersistHonest ==
    ASSUME Assumptions, IInv, NEW p \in Process, Persist(p)
    PROVE  IInv'
<1>1. UNCHANGED <<now, config, memo>> /\ served' = None
  BY DEF Persist
<1>2. /\ call' \in [Process -> {Idle}
                            \cup [at: {"fetch"}, allow: Allow]
                            \cup [at: {"persist"}, allow: Allow, entry: Entry]]
      /\ (\A q \in Process : call[q].at = "persist" => Honest(call[q].entry, call[q].allow))'
  BY <1>1, CallHonest DEF Persist
<1>3. CASE UNCHANGED disk
  BY <1>1, <1>2, <1>3 DEF IInv, TypeOK, AllHonest, Honest, ServedHonest
<1>4. CASE disk' = [key |-> config[p].key,
                    entries |-> [Opened(p) EXCEPT ![call[p].allow] = call[p].entry]]
  <2> DEFINE a == call[p].allow
             e == call[p].entry
             es == [Opened(p) EXCEPT ![a] = e]
  <2>1. a \in Allow /\ e \in Entry /\ Honest(e, a)
    BY DEF Persist, IInv, TypeOK, Idle
  <2>2. Opened(p) \in Entries /\ AllHonest(Opened(p))
    BY OpenedHonest
  <2>3. es \in Entries
    BY <2>1, <2>2 DEF Entries
  <2>4. AllHonest(es)
    BY <2>1, <2>2 DEF AllHonest, Entries
  <2>5. config[p].key \in Key
    BY DEF IInv, TypeOK, Assumptions, ConfigAssumption
  <2>6. disk' = [key |-> config[p].key, entries |-> es]
    BY <1>4
  <2> HIDE DEF es
  <2>7. disk' \in Sealed /\ AllHonest(disk'.entries)
    BY <2>3, <2>4, <2>5, <2>6 DEF Sealed
  <2> QED
    BY <1>1, <1>2, <2>7 DEF IInv, TypeOK, AllHonest, Honest, ServedHonest
<1> QED
  BY <1>3, <1>4 DEF Persist, CacheKey

LEMMA RestartHonest ==
    ASSUME Assumptions, IInv, NEW p \in Process, Restart(p)
    PROVE  IInv'
<1>1. UNCHANGED <<now, config, disk>> /\ served' = None
  BY DEF Restart
<1>2. /\ call' \in [Process -> {Idle}
                            \cup [at: {"fetch"}, allow: Allow]
                            \cup [at: {"persist"}, allow: Allow, entry: Entry]]
      /\ (\A q \in Process : call[q].at = "persist" => Honest(call[q].entry, call[q].allow))'
  BY <1>1, CallHonest DEF Restart
<1>3. memo' = [memo EXCEPT ![p] = NoEntries] /\ NoEntries \in Entries /\ AllHonest(NoEntries)
  BY DEF Restart, NoEntries, Entries, AllHonest, Honest
<1>4. \A q \in Process : memo'[q] = IF q = p THEN NoEntries ELSE memo[q]
  BY <1>3 DEF IInv, TypeOK
<1>5. \A q \in Process : AllHonest(memo'[q])
  BY <1>3, <1>4 DEF IInv
<1>6. memo' \in [Process -> Entries]
  BY <1>3 DEF IInv, TypeOK
<1> QED
  BY <1>1, <1>2, <1>5, <1>6 DEF IInv, TypeOK, AllHonest, Honest, ServedHonest

LEMMA TickHonest ==
    ASSUME Assumptions, IInv, Tick
    PROVE  IInv'
<1>1. UNCHANGED <<config, memo, disk, call>> /\ served' = None
  BY DEF Tick
<1>2. now \in Nat /\ now' = now + 1 /\ now' \in Time
  BY DEF Tick, IInv, TypeOK, Time, Assumptions, BoundAssumption
<1>3. ASSUME NEW e \in Entry \cup {None}, NEW a, Honest(e, a)
      PROVE  e # None => /\ e.fetchedAt = e.back
                         /\ e.back <= now'
                         /\ e.env = Kept(e.keyNames, a)
  BY <1>2, <1>3 DEF Honest, Entry, Time
<1>4. (\A p \in Process : AllHonest(memo[p]))'
  <2>1. ASSUME NEW p \in Process, NEW a \in Allow
        PROVE  memo[p][a] \in Entry \cup {None} /\ Honest(memo[p][a], a)
    BY DEF IInv, TypeOK, Entries, AllHonest
  <2> QED
    BY <1>1, <1>3, <2>1 DEF AllHonest, Honest
<1>5. (disk # None => AllHonest(disk.entries))'
  BY <1>1, <1>3 DEF IInv, TypeOK, Sealed, Entries, AllHonest, Honest
<1>6. (\A p \in Process : call[p].at = "persist" => Honest(call[p].entry, call[p].allow))'
  <2>1. ASSUME NEW p \in Process, call[p].at = "persist"
        PROVE  call[p].entry \in Entry /\ Honest(call[p].entry, call[p].allow)
    BY <2>1 DEF IInv, TypeOK, Idle
  <2> QED
    BY <1>1, <1>3, <2>1 DEF Honest
<1> QED
  BY <1>1, <1>2, <1>4, <1>5, <1>6 DEF IInv, TypeOK, ServedHonest

\* The inductive invariant is kept by every step.
THEOREM StepInvariant ==
    ASSUME Assumptions, IInv, [Next]_vars
    PROVE  IInv'
<1>1. CASE DiskLost
  BY <1>1 DEF DiskLost, IInv, TypeOK, AllHonest, Honest, ServedHonest
<1>2. CASE UNCHANGED vars
  BY <1>2 DEF vars, IInv, TypeOK, AllHonest, Honest, ServedHonest, Fresh
<1> QED
  BY <1>1, <1>2, HitMemoHonest, HitDiskHonest, MissHonest, FetchFailsHonest, FetchedHonest,
     PersistHonest, RestartHonest, TickHonest DEF Next

\* The inductive invariant holds in every reachable state.
THEOREM Invariant ==
    ASSUME Assumptions
    PROVE  Spec => []IInv
BY InitInvariant, StepInvariant, PTL DEF Spec

-----------------------------------------------------------------------------
(* The theorems *)

\* The type invariant holds for every value of the constants.
THEOREM TypeCorrect ==
    ASSUME Assumptions
    PROVE  Spec => []TypeOK
<1>1. IInv => TypeOK
  BY DEF IInv
<1> QED
  BY <1>1, Invariant, PTL

\* Whatever is served is honest.
LEMMA HonestHits ==
    ASSUME Assumptions, IInv
    PROVE  HitsHonest
<1> SUFFICES ASSUME served # None
             PROVE  HitsHonest
  BY DEF HitsHonest
<1> DEFINE e == served.entry
           a == served.allow
<1>1. a \in Allow /\ e \in Entry
  BY DEF IInv, TypeOK
<1>2. e # None
  BY <1>1, NoneApart
<1>3. e.fetchedAt = e.back /\ e.env = Kept(e.keyNames, a) /\ now - e.fetchedAt <= Ttl
  BY <1>2 DEF IInv, ServedHonest, Honest, Fresh
<1>4. ASSUME a = Full \/ Narrowed \subseteq a
      PROVE  Resolved(e.env, e.keyNames) = Resolved(e.keyNames, e.keyNames)
  <2>1. e.env \cap Narrowed = e.keyNames \cap Narrowed
    BY <1>3, <1>4 DEF Kept
  <2> QED
    BY <2>1 DEF Resolved
<1> QED
  BY <1>3, <1>4 DEF HitsHonest

\* A cached answer is no older than its ttl, answers the question that was asked,
\* and leaves the resolver with what the fetch would have left it with.
THEOREM HitsAreHonest ==
    ASSUME Assumptions
    PROVE  Spec => []HitsHonest
<1>1. Assumptions /\ IInv => HitsHonest
  BY HonestHits
<1> QED
  BY <1>1, Invariant, PTL

=============================================================================
