------------------------------ MODULE TagCache ------------------------------
(***************************************************************************)
(* The read-aside cache (packages/cache) over its Valkey backend, shared   *)
(* by the calls of several processes.  Every await is a place where other  *)
(* calls run: cached() reads the entry, runs the loader and stores what it *)
(* returned; invalidateTags() reads the tag sets, deletes the keys it      *)
(* found and then the tag sets.  A MULTI ... EXEC is one step.  Any        *)
(* command may fail, and a process may die before any of them: both end    *)
(* the call there.                                                         *)
(***************************************************************************)
EXTENDS Naturals, FiniteSets

CONSTANTS Key, Tag,
          Call,          \* slots for calls of cached()
          Invalidation,  \* slots for calls of invalidateTags()
          Process,
          Host,          \* Host[c] is the process that makes call c
          TagChoice,     \* TagChoice[k]: what callers pass as opts.tags for k
          MaxVersion,    \* bound: how often the source of a key changes
          None

ASSUME HostAssumption == Host \in [Call -> Process]
ASSUME TagChoiceAssumption == TagChoice \in [Key -> SUBSET ((SUBSET Tag) \ {{}})]
ASSUME MaxVersionAssumption == MaxVersion \in Nat

Version == 0..MaxVersion

\* A CacheEntry is dead past staleUntil; before that, past expiresAt or not, it
\* answers.  raced: its load overlapped an invalidation of its tags (history).
Entry == [value: Version, tags: SUBSET Tag, dead: BOOLEAN, raced: BOOLEAN]

IdleCall == [pc |-> "idle"]
\* get() is deleting an entry past its life.
Dropping == [pc: {"delRead", "delExec"}, key: Key, dropping: SUBSET Tag]
Joined == [pc: {"join"}, leader: Call]
\* In loadAndStore: value and prior are read on the way.
Loading == [pc: {"load", "prior", "store"}, key: Key, tags: SUBSET Tag,
            coalesce: BOOLEAN, value: Version, prior: SUBSET Tag, raced: BOOLEAN]

IdleInvalidation == [pc |-> "idle"]
Invalidating == [pc: {"tags", "delExec", "delTags"}, tags: SUBSET Tag,
                 unread: SUBSET Tag, keys: SUBSET Key,
                 dropping: [Key -> SUBSET Tag], floor: [Key -> Version],
                 before: SUBSET Key]

VARIABLES source,  \* the version of the data behind each key
          data,    \* c:<key>
          keyTags, \* kt:<key>
          tagSet,  \* tag:<tag>
          call, inv,
          settled  \* settled[t][k]: what completed invalidations of t covered (history)

store == <<data, keyTags, tagSet>>
vars == <<source, data, keyTags, tagSet, call, inv, settled>>

Init ==
    /\ source = [k \in Key |-> 0]
    /\ data = [k \in Key |-> None]
    /\ keyTags = [k \in Key |-> {}]
    /\ tagSet = [t \in Tag |-> {}]
    /\ call = [c \in Call |-> IdleCall]
    /\ inv = [i \in Invalidation |-> IdleInvalidation]
    /\ settled = [t \in Tag |-> [k \in Key |-> 0]]

-----------------------------------------------------------------------------
(* The world around the cache *)

\* The application changes the data behind a key.
Mutate(k) ==
    /\ source[k] < MaxVersion
    /\ source' = [source EXCEPT ![k] = @ + 1]
    /\ UNCHANGED <<data, keyTags, tagSet, call, inv, settled>>

\* The clock passes staleUntil ...
GrowsOld(k) ==
    /\ data[k] # None
    /\ ~data[k].dead
    /\ data' = [data EXCEPT ![k].dead = TRUE]
    /\ UNCHANGED <<source, keyTags, tagSet, call, inv, settled>>

\* Mutant: the data key was stored without PX.
ExpiresTagsOnly(k) ==
    /\ data[k] # None
    /\ data[k].dead
    /\ keyTags' = [keyTags EXCEPT ![k] = {}]
    /\ UNCHANGED <<source, data, tagSet, call, inv, settled>>

\* ... and Valkey drops both keys of the entry: PX and PEXPIRE gave them one
\* lifetime.  The tag sets keep their member.
Expires(k) ==
    /\ data[k] # None
    /\ data[k].dead
    /\ data' = [data EXCEPT ![k] = None]
    /\ keyTags' = [keyTags EXCEPT ![k] = {}]
    /\ UNCHANGED <<source, tagSet, call, inv, settled>>

-----------------------------------------------------------------------------
(* The commands of the Valkey backend *)

\* The second MULTI of del(): out of the tag sets read before, and gone.
Deleted(ks, dropping) ==
    /\ data' = [k \in Key |-> IF k \in ks THEN None ELSE data[k]]
    /\ keyTags' = [k \in Key |-> IF k \in ks THEN {} ELSE keyTags[k]]
    /\ tagSet' = [t \in Tag |-> {k \in tagSet[t] : k \notin ks \/ t \notin dropping[k]}]

\* Mutant: the tag sets are joined first and the prior ones left after.
StoredThenLeft(k, entry, prior) ==
    /\ data' = [data EXCEPT ![k] = entry]
    /\ keyTags' = [keyTags EXCEPT ![k] = (IF prior = {} THEN @ ELSE {}) \cup entry.tags]
    /\ tagSet' = [t \in Tag |-> IF t \in prior THEN tagSet[t] \ {k}
                                ELSE IF t \in entry.tags THEN tagSet[t] \cup {k}
                                ELSE tagSet[t]]

\* The MULTI of set(): out of the tag sets of the prior entry, in, indexed.
Stored(k, entry, prior) ==
    /\ data' = [data EXCEPT ![k] = entry]
    /\ keyTags' = [keyTags EXCEPT ![k] = (IF prior = {} THEN @ ELSE {}) \cup entry.tags]
    /\ tagSet' = [t \in Tag |-> IF t \in entry.tags THEN tagSet[t] \cup {k}
                                ELSE IF t \in prior THEN tagSet[t] \ {k}
                                ELSE tagSet[t]]

-----------------------------------------------------------------------------
(* cached() *)

\* The coalescer's map of a process: who loads a key for everybody.
InFlight(p, k) ==
    {c \in Call : call[c] \in Loading /\ Host[c] = p /\ call[c].key = k /\ call[c].coalesce}

\* loadAndStore: share the load in flight, or start one.  The options of the
\* call are chosen here, where they are first used.
LoadAndStore(c, k) ==
    \E coalesce \in BOOLEAN :
        LET leaders == IF coalesce THEN InFlight(Host[c], k) ELSE {}
        IN \/ \E leader \in leaders :
                 call' = [call EXCEPT ![c] = [pc |-> "join", leader |-> leader]]
           \/ /\ leaders = {}
              /\ \E tags \in TagChoice[k] :
                    call' = [call EXCEPT ![c] =
                       [pc |-> "load", key |-> k, tags |-> tags, coalesce |-> coalesce,
                        value |-> 0, prior |-> {}, raced |-> FALSE]]

At(c, pc) == call[c].pc = pc

\* A fresh entry answers the call and nothing changes.  A stale one answers it
\* and is refreshed behind it; a missing entry or a failed read is loaded.
GetMisses(c, k) ==
    /\ call[c] = IdleCall
    /\ LoadAndStore(c, k)
    /\ UNCHANGED <<source, data, keyTags, tagSet, inv, settled>>

\* get() found an entry past staleUntil and deletes it first: del() reads the
\* tags of the key in one MULTI ...
GetDead(c, k) ==
    /\ call[c] = IdleCall
    /\ data[k] # None
    /\ data[k].dead
    /\ call' = [call EXCEPT ![c] = [pc |-> "delRead", key |-> k, dropping |-> {}]]
    /\ UNCHANGED <<source, data, keyTags, tagSet, inv, settled>>

ReadDropping(c) ==
    /\ At(c, "delRead")
    /\ call' = [call EXCEPT ![c].pc = "delExec", ![c].dropping = keyTags[call[c].key]]
    /\ UNCHANGED <<source, data, keyTags, tagSet, inv, settled>>

\* ... and deletes it in another; then the key is loaded.
DropDead(c) ==
    /\ At(c, "delExec")
    /\ Deleted({call[c].key}, [k \in Key |-> call[c].dropping])
    /\ LoadAndStore(c, call[c].key)
    /\ UNCHANGED <<source, inv, settled>>

\* A failed del() makes get() fail, which cached() takes for a miss.
DropFails(c) ==
    /\ call[c].pc \in {"delRead", "delExec"}
    /\ LoadAndStore(c, call[c].key)
    /\ UNCHANGED <<source, data, keyTags, tagSet, inv, settled>>

\* Invalidations of one of these tags that are under way.
Overlapping(tags) == {i \in Invalidation : inv[i] # IdleInvalidation /\ inv[i].tags \cap tags # {}}

\* The loader reads the source.
Loads(c) ==
    /\ At(c, "load")
    /\ call' = [call EXCEPT ![c].pc = "prior", ![c].value = source[call[c].key],
                            ![c].raced = Overlapping(call[c].tags) # {}]
    /\ UNCHANGED <<source, data, keyTags, tagSet, inv, settled>>

\* set(): SMEMBERS of the key's present tags, outside the transaction.
ReadPrior(c) ==
    /\ At(c, "prior")
    /\ call' = [call EXCEPT ![c].pc = "store", ![c].prior = keyTags[call[c].key]]
    /\ UNCHANGED <<source, data, keyTags, tagSet, inv, settled>>

\* Mutant: only the leader hears of it.
SettlesAlone(c) == call' = [call EXCEPT ![c] = IdleCall]

\* The load's promise settles, and with it everyone's who joined.
Settles(c) ==
    call' = [d \in Call |-> IF \/ d = c
                               \/ call[d].pc = "join" /\ call[d].leader = c
                            THEN IdleCall ELSE call[d]]

Store(c) ==
    /\ At(c, "store")
    /\ LET me == call[c]
           entry == [value |-> me.value, tags |-> me.tags, dead |-> FALSE, raced |-> me.raced]
       IN /\ Stored(me.key, entry, me.prior)
          /\ inv' = [i \in Invalidation |->
                        IF inv[i] = IdleInvalidation THEN inv[i]
                        ELSE [inv[i] EXCEPT !.before = @ \ {me.key}]]
    /\ Settles(c)
    /\ UNCHANGED <<source, settled>>

\* The loader rejects, or the value is returned although it was not stored.
LoadEnds(c) ==
    /\ call[c].pc \in {"load", "prior", "store"}
    /\ Settles(c)
    /\ UNCHANGED <<source, data, keyTags, tagSet, inv, settled>>

-----------------------------------------------------------------------------
(* invalidateTags() *)

Races(tags) ==
    call' = [c \in Call |-> IF call[c].pc \in {"prior", "store"} /\ call[c].tags \cap tags # {}
                            THEN [call[c] EXCEPT !.raced = TRUE] ELSE call[c]]

Invalidate(i, tags) ==
    /\ inv[i] = IdleInvalidation
    /\ inv' = [inv EXCEPT ![i] =
          [pc |-> "tags", tags |-> tags, unread |-> tags, keys |-> {},
           dropping |-> [k \in Key |-> {}], floor |-> source,
           before |-> {k \in Key : data[k] # None /\ data[k].tags \cap tags # {}}]]
    /\ Races(tags)
    /\ UNCHANGED <<source, data, keyTags, tagSet, settled>>

InvAt(i, pc) == inv[i].pc = pc

\* Mutant: every tag set read replaces the keys found so far.
ReadTagOnly(i, t) ==
    /\ InvAt(i, "tags")
    /\ t \in inv[i].unread
    /\ inv' = [inv EXCEPT ![i].unread = @ \ {t}, ![i].keys = tagSet[t]]
    /\ UNCHANGED <<source, data, keyTags, tagSet, call, settled>>

\* delByTag: SMEMBERS of one tag set after the other.
ReadTag(i, t) ==
    /\ InvAt(i, "tags")
    /\ t \in inv[i].unread
    /\ inv' = [inv EXCEPT ![i].unread = @ \ {t}, ![i].keys = @ \cup tagSet[t]]
    /\ UNCHANGED <<source, data, keyTags, tagSet, call, settled>>

Higher(a, b) == IF a > b THEN a ELSE b

InvalidationEnds(i) ==
    /\ inv' = [inv EXCEPT ![i] = IdleInvalidation]
    /\ settled' = [t \in Tag |->
          IF t \in inv[i].tags
          THEN [k \in Key |-> Higher(settled[t][k], inv[i].floor[k])]
          ELSE settled[t]]

\* No key carries the tags: nothing to delete ...
NothingTagged(i) ==
    /\ InvAt(i, "tags")
    /\ inv[i].unread = {} /\ inv[i].keys = {}
    /\ InvalidationEnds(i)
    /\ UNCHANGED <<source, data, keyTags, tagSet, call>>

\* ... otherwise del() reads the tags of every key found ...
ReadKeyTags(i) ==
    /\ InvAt(i, "tags")
    /\ inv[i].unread = {} /\ inv[i].keys # {}
    /\ inv' = [inv EXCEPT ![i].pc = "delExec", ![i].dropping = keyTags]
    /\ UNCHANGED <<source, data, keyTags, tagSet, call, settled>>

\* ... deletes the keys ...
DeleteKeys(i) ==
    /\ InvAt(i, "delExec")
    /\ Deleted(inv[i].keys, inv[i].dropping)
    /\ inv' = [j \in Invalidation |->
                  IF inv[j] = IdleInvalidation THEN inv[j]
                  ELSE [inv[j] EXCEPT !.before = @ \ inv[i].keys,
                                      !.pc = IF j = i THEN "delTags" ELSE @]]
    /\ UNCHANGED <<source, call, settled>>

\* ... and then the tag sets, whatever they hold by now.
DeleteTagSets(i) ==
    /\ InvAt(i, "delTags")
    /\ tagSet' = [t \in Tag |-> IF t \in inv[i].tags THEN {} ELSE tagSet[t]]
    /\ InvalidationEnds(i)
    /\ UNCHANGED <<source, data, keyTags, call>>

\* A command fails: the error is logged and the mutation that asked for the
\* invalidation goes on.
InvalidationFails(i) ==
    /\ inv[i] # IdleInvalidation
    /\ inv' = [inv EXCEPT ![i] = IdleInvalidation]
    /\ UNCHANGED <<source, data, keyTags, tagSet, call, settled>>

-----------------------------------------------------------------------------
CachedStep(c) ==
    \/ ReadDropping(c) \/ DropDead(c) \/ DropFails(c)
    \/ Loads(c) \/ ReadPrior(c) \/ Store(c) \/ LoadEnds(c)

InvalidationStep(i) ==
    \/ \E t \in Tag : ReadTag(i, t)
    \/ NothingTagged(i) \/ ReadKeyTags(i) \/ DeleteKeys(i) \/ DeleteTagSets(i)
    \/ InvalidationFails(i)

Next ==
    \/ \E k \in Key : Mutate(k) \/ GrowsOld(k) \/ Expires(k)
    \/ \E c \in Call, k \in Key : GetMisses(c, k) \/ GetDead(c, k)
    \/ \E c \in Call : CachedStep(c)
    \/ \E i \in Invalidation, tags \in (SUBSET Tag) \ {{}} : Invalidate(i, tags)
    \/ \E i \in Invalidation : InvalidationStep(i)

Spec == Init /\ [][Next]_vars

\* Between the loader, which may never return, and its caller.
BackendStep(c) == ~At(c, "load") /\ CachedStep(c)

\* Clocks advance, and every command answers or fails: the client gives one up
\* after three retries.  Nothing is assumed of the loaders.
Fairness ==
    /\ \A k \in Key : WF_vars(GrowsOld(k)) /\ WF_vars(Expires(k))
    /\ \A c \in Call : WF_vars(BackendStep(c))
    /\ \A i \in Invalidation : WF_vars(InvalidationStep(i))

FairSpec == Spec /\ Fairness

-----------------------------------------------------------------------------
\* Shape of the state; whoever joined a load has a leader of its own process
\* that still runs it, so no promise is left without anyone to settle it.
TypeOK ==
    /\ source \in [Key -> Version]
    /\ data \in [Key -> Entry \cup {None}]
    /\ keyTags \in [Key -> SUBSET Tag]
    /\ tagSet \in [Tag -> SUBSET Key]
    /\ call \in [Call -> {IdleCall} \cup Dropping \cup Joined \cup Loading]
    /\ \A c \in Call : call[c] \in Joined =>
          Host[call[c].leader] = Host[c] /\ call[call[c].leader] \in Loading
    /\ inv \in [Invalidation -> {IdleInvalidation} \cup Invalidating]
    /\ settled \in [Tag -> [Key -> Version]]

\* An entry is found by an invalidation of each of its tags, whatever other
\* calls store, drop or invalidate between the commands of set() and del(),
\* unless its own load overlapped an invalidation of one of its tags.
IndexCovers ==
    \A k \in Key : data[k] # None /\ ~data[k].raced =>
        \A t \in data[k].tags : k \in tagSet[t] /\ t \in keyTags[k]

\* The promise of invalidateTags(): what it was called for is not left in the
\* cache afterwards.  No entry is older than the source was when a
\* completed invalidation of one of its tags began, except for entries whose
\* load overlapped an invalidation.
InvalidationHolds ==
    \A k \in Key : data[k] # None /\ ~data[k].raced =>
        \A t \in data[k].tags : data[k].value >= settled[t][k]

\* What core.ts relies on when an invalidation fails or comes too late:
\* an entry older than its source is gone or replaced in the end.
StaleExpires ==
    \A k \in Key : []<>(data[k] = None \/ data[k].value = source[k])

\* The caller's own code is at work for c, or for the load that c has joined.
InLoader(c) == At(c, "load") \/ (At(c, "join") /\ At(call[c].leader, "load"))

\* The cache keeps no caller waiting: nothing but the loader, the call's own or
\* that of the load it joined, can keep a call of cached() from its end, although
\* any command may fail between.
Answered == \A c \in Call : []<>(call[c] = IdleCall \/ InLoader(c))

\* "delByTag wipes tagged keys" (conformance.test.ts): when an invalidation is
\* about to end, an entry that carried one of its tags before it began is gone.
\* Does not hold: the entry may have lost its place in the tag set.
Wiped ==
    \A i \in Invalidation :
        /\ inv[i] # IdleInvalidation
        /\ \/ inv[i].pc = "delTags"
           \/ inv[i].pc = "tags" /\ inv[i].unread = {} /\ inv[i].keys = {}
        => \A k \in inv[i].before : data[k] = None

=============================================================================
