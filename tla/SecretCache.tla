----------------------------- MODULE SecretCache -----------------------------
(***************************************************************************)
(* How processes of @minion-stack/env get the secrets of a project         *)
(* (infisical.ts, readCache and writeCache of cache.ts, resolveEnv): from   *)
(* the memo of the process, else from the sealed cache on disk, else from   *)
(* the infisical command.  Entries expire, and processes with different     *)
(* keys, modes and allowlists share the disk.                               *)
(*                                                                         *)
(* The disk is its latest generation; SealedCache says how it is published. *)
(* It may be unreadable at any time, and what SealedCache allows to be lost *)
(* (a purge, foreign bytes, a new key file) is lost here in one step.       *)
(* Domain, tier and project of a request are parts of the cache key like    *)
(* the allowlist, and left out; all calls use one ttl.  A call with caching *)
(* off, or with a key that validateOperatorCacheKey rejects, changes        *)
(* nothing and is no step.                                                  *)
(***************************************************************************)
EXTENDS Naturals

CONSTANTS Process,
          Name,      \* names of secrets, and among them ...
          Narrowed,  \* ... NARROWED_KEYS, those the resolver takes
          Full,      \* no allowlist: cacheKeys is undefined
          Allow,     \* allowlists in use: Full, or sets of names
          Key,       \* key material: the operator's or the machine's
          Configs,   \* [mode, key] of each process: MINION_ENV_CACHE(_KEY)
          Contents,  \* the sets of names the project may hold when it is read
          Ttl,
          MaxTime,   \* bound: the clock
          None       \* no entry, no generation, no answer

Time == 0 .. MaxTime

\* keyNames are the names infisical returned, env those of the values kept.  back
\* is when it returned (history); fetchedAt is what the code takes that to be.
Entry == [env: SUBSET Name, keyNames: SUBSET Name, fetchedAt: Time, back: Time]
Entries == [Allow -> Entry \cup {None}]
Sealed == [key: Key, entries: Entries]

SecretAssumption == Contents \subseteq SUBSET Name /\ Allow \subseteq {Full} \cup SUBSET Name
ConfigAssumption == Configs \subseteq [Process -> [mode: {"memory", "disk"}, key: Key]]
BoundAssumption == MaxTime \in Nat /\ Ttl \in Nat
NoneAssumption == None \notin Entry \cup Sealed

VARIABLES now,
          config,   \* of each process
          memo,     \* of each process, by cache key
          disk,     \* the latest generation, or None
          call,     \* what each process is doing
          served    \* the cached answer this step returned, or None

vars == <<now, config, memo, disk, call, served>>

Idle == [at |-> "idle"]
NoEntries == [a \in Allow |-> None]

Init ==
    /\ now = 0
    /\ config \in Configs
    /\ memo = [p \in Process |-> NoEntries]
    /\ disk = None
    /\ call = [p \in Process |-> Idle]
    /\ served = None

-----------------------------------------------------------------------------
(* Helpers *)

\* buildCacheKey: no allowlist and the empty one are two keys.
CacheKey(a) == a

\* What writeCache keeps of names.
Kept(names, a) == IF a = Full THEN names ELSE names \cap a

Fresh(e) == e # None /\ now - e.fetchedAt <= Ttl

\* Only what was sealed with the same key can be opened.
Opened(p) == IF disk # None /\ disk.key = config[p].key THEN disk.entries ELSE NoEntries

OnDisk(p) == config[p].mode = "disk"

\* The caller gets a copy of a cached entry.
Serve(e, a) == served' = [allow |-> a, entry |-> e]

Fetching(a) == [at |-> "fetch", allow |-> a]

-----------------------------------------------------------------------------
(* readCache *)

HitMemo(p, a) ==
    /\ call[p] = Idle
    /\ Fresh(memo[p][CacheKey(a)])
    /\ Serve(memo[p][CacheKey(a)], a)
    /\ UNCHANGED <<now, config, memo, disk, call>>

\* Mutant: a promoted entry counts as fetched now.
HitDiskAnew(p, a) ==
    /\ call[p] = Idle
    /\ OnDisk(p)
    /\ ~Fresh(memo[p][CacheKey(a)])
    /\ LET e == Opened(p)[CacheKey(a)]
       IN  /\ Fresh(e)
           /\ Serve(e, a)
           /\ memo' = [memo EXCEPT ![p][CacheKey(a)] = [e EXCEPT !.fetchedAt = now]]
    /\ UNCHANGED <<now, config, disk, call>>

\* An entry found on disk is promoted to the memo as it is.
HitDisk(p, a) ==
    /\ call[p] = Idle
    /\ OnDisk(p)
    /\ ~Fresh(memo[p][CacheKey(a)])
    /\ LET e == Opened(p)[CacheKey(a)]
       IN  /\ Fresh(e)
           /\ Serve(e, a)
           /\ memo' = [memo EXCEPT ![p][CacheKey(a)] = e]
    /\ UNCHANGED <<now, config, disk, call>>

\* Nothing fresh is found, or the disk cannot be read.
Miss(p, a) ==
    /\ call[p] = Idle
    /\ ~Fresh(memo[p][CacheKey(a)])
    /\ memo' = [memo EXCEPT ![p][CacheKey(a)] = None]
    /\ call' = [call EXCEPT ![p] = Fetching(a)]
    /\ served' = None
    /\ UNCHANGED <<now, config, disk>>

-----------------------------------------------------------------------------
(* The command, and writeCache *)

\* infisical exits with an error or an empty response.
FetchFails(p) ==
    /\ call[p].at = "fetch"
    /\ call' = [call EXCEPT ![p] = Idle]
    /\ served' = None
    /\ UNCHANGED <<now, config, memo, disk>>

\* The caller gets everything, the memo what the allowlist keeps.
Fetched(p) ==
    /\ call[p].at = "fetch"
    /\ \E names \in Contents :
         LET a == call[p].allow
             e == [env |-> Kept(names, a), keyNames |-> names, fetchedAt |-> now, back |-> now]
         IN  /\ memo' = [memo EXCEPT ![p][CacheKey(a)] = e]
             /\ call' = [call EXCEPT ![p] = IF OnDisk(p)
                                            THEN [at |-> "persist", allow |-> a, entry |-> e]
                                            ELSE Idle]
    /\ served' = None
    /\ UNCHANGED <<now, config, disk>>

\* writeDiskEntry merges the entry into the latest generation, or starts over
\* if that cannot be opened; a failure leaves the entry to the memo.
Persist(p) ==
    /\ call[p].at = "persist"
    /\ \/ disk' = [key |-> config[p].key,
                   entries |-> [Opened(p) EXCEPT ![CacheKey(call[p].allow)] = call[p].entry]]
       \/ UNCHANGED disk
    /\ call' = [call EXCEPT ![p] = Idle]
    /\ served' = None
    /\ UNCHANGED <<now, config, memo>>

-----------------------------------------------------------------------------
(* The environment *)

Tick ==
    /\ now < MaxTime
    /\ now' = now + 1
    /\ served' = None
    /\ UNCHANGED <<config, memo, disk, call>>

DiskLost ==
    /\ disk # None
    /\ disk' = None
    /\ served' = None
    /\ UNCHANGED <<now, config, memo, call>>

\* The process ends, anywhere, and another begins with the same configuration.
Restart(p) ==
    /\ memo' = [memo EXCEPT ![p] = NoEntries]
    /\ call' = [call EXCEPT ![p] = Idle]
    /\ served' = None
    /\ UNCHANGED <<now, config, disk>>

Next ==
    \/ \E p \in Process :
         \/ \E a \in Allow : HitMemo(p, a) \/ HitDisk(p, a) \/ Miss(p, a)
         \/ FetchFails(p) \/ Fetched(p) \/ Persist(p) \/ Restart(p)
    \/ Tick \/ DiskLost

Spec == Init /\ [][Next]_vars

-----------------------------------------------------------------------------
(* Properties *)

\* Every variable has its shape.
TypeOK ==
    /\ now \in Time
    /\ config \in Configs
    /\ memo \in [Process -> Entries]
    /\ disk \in Sealed \cup {None}
    /\ call \in [Process -> {Idle}
                            \cup [at: {"fetch"}, allow: Allow]
                            \cup [at: {"persist"}, allow: Allow, entry: Entry]]
    /\ served \in [allow: Allow, entry: Entry] \cup {None}

\* What resolveEnv makes of an answer: the secrets it takes, and the names it
\* warns about.
Resolved(env, keyNames) == [core |-> env \cap Narrowed, stale |-> keyNames \ Narrowed]

\* A cached answer stands for one fetch of the same question that came back no
\* longer than the ttl ago, however often the entry went from a memo to the disk
\* and from the disk to other memos (cache.ts 746-773, 798-812).  Nothing the
\* allowlist keeps is missing, and the resolver cannot tell: it takes the same
\* secrets and warns about the same names as after the fetch (hierarchy.ts
\* 57-82), although the entry has lost the values it warns about.
HitsHonest ==
    served # None =>
        LET e == served.entry
        IN  /\ now - e.back <= Ttl
            /\ e.env = Kept(e.keyNames, served.allow)
            /\ served.allow = Full \/ Narrowed \subseteq served.allow =>
                 Resolved(e.env, e.keyNames) = Resolved(e.keyNames, e.keyNames)
=============================================================================
