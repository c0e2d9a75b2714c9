---------------------------- MODULE MemoryBackend ----------------------------
(***************************************************************************)
(* The in-process backend of @minion-stack/cache (backends/memory.ts): a Map *)
(* of entries in the order of their last use, and the keys of each tag.     *)
(* Every operation runs in one piece, so that calls interleave only as      *)
(* wholes; what matters is that the two structures agree after any sequence *)
(* of them, evictions and expiries included.  An entry is its tags and      *)
(* whether its life is over.  mget() is a get() for each key; a tag without *)
(* a set and one with an empty set are the same.                            *)
(***************************************************************************)
EXTENDS Naturals, FiniteSets

CONSTANTS Key, Tag,
          MaxEntries,  \* opts.maxEntries
          None

Entry == [tags: SUBSET Tag, over: BOOLEAN]

MemoryAssumption == MaxEntries \in Nat /\ None \notin Entry

VARIABLES cache,   \* store: the entries; older: pairs of their keys, the one used
                   \* before the other first; tagIndex: the keys of each tag
          latest   \* what was last set under each key and not deleted since (history)

vars == <<cache, latest>>

Empty == [store |-> [k \in Key |-> None], older |-> {}, tagIndex |-> [t \in Tag |-> {}]]

Init == cache = Empty /\ latest = [k \in Key |-> None]

-----------------------------------------------------------------------------
(* Helpers *)

Has(c, k) == c.store[k] # None

Held(c) == {k \in Key : Has(c, k)}

Without(older, keys) == {pair \in older : pair[1] \notin keys /\ pair[2] \notin keys}

\* dropKey, for each of keys.
DropKeys(c, keys) ==
    [store |-> [k \in Key |-> IF k \in keys THEN None ELSE c.store[k]],
     older |-> Without(c.older, keys),
     tagIndex |-> [t \in Tag |-> c.tagIndex[t]
                     \ {k \in keys : Has(c, k) /\ t \in c.store[k].tags}]]

Put(c, k, e) ==
    [store |-> [c.store EXCEPT ![k] = e],
     older |-> c.older \cup (Held(c) \X {k}),
     tagIndex |-> [t \in Tag |-> IF t \in e.tags THEN c.tagIndex[t] \cup {k} ELSE c.tagIndex[t]]]

\* The first key of the Map: least recently used.
Oldest(c) == CHOOSE k \in Held(c) : \A j \in Held(c) \ {k} : <<k, j>> \in c.older

\* The loop at the end of set(): it was within the limit before.
Evict(c) == IF Cardinality(Held(c)) > MaxEntries THEN DropKeys(c, {Oldest(c)}) ELSE c

\* The entries of keys are deleted on purpose.
Forget(keys) == latest' = [k \in Key |-> IF k \in keys THEN None ELSE latest[k]]

-----------------------------------------------------------------------------
(* Operations *)

\* get(): an entry past its life is dropped, any other becomes the most
\* recently used.
Get(k) ==
    /\ Has(cache, k)
    /\ IF cache.store[k].over
       THEN cache' = DropKeys(cache, {k}) /\ Forget({k})
       ELSE /\ cache' = [cache EXCEPT !.older = Without(@, {k}) \cup ((Held(cache) \ {k}) \X {k})]
            /\ UNCHANGED latest

Set(k, tags) ==
    LET e == [tags |-> tags, over |-> FALSE]
    IN  /\ cache' = Evict(Put(DropKeys(cache, {k}), k, e))
        /\ latest' = [latest EXCEPT ![k] = e]

Del(keys) == cache' = DropKeys(cache, keys) /\ Forget(keys)

\* delByTag() knows the keys from the index.
DelByTag(tags) ==
    /\ cache' = DropKeys(cache, UNION {cache.tagIndex[t] : t \in tags})
    /\ Forget({k \in Key : latest[k] # None /\ latest[k].tags \cap tags # {}})

Close == cache' = Empty /\ Forget(Key)

\* The clock passes staleUntil.
Expires(k) ==
    /\ latest[k] # None
    /\ latest' = [latest EXCEPT ![k].over = TRUE]
    /\ cache' = IF Has(cache, k) THEN [cache EXCEPT !.store[k].over = TRUE] ELSE cache

Next ==
    \/ \E k \in Key : Get(k) \/ Expires(k)
    \/ \E k \in Key, tags \in SUBSET Tag : Set(k, tags)
    \/ \E keys \in SUBSET Key : Del(keys)
    \/ \E tags \in SUBSET Tag : DelByTag(tags)
    \/ Close

Spec == Init /\ [][Next]_vars

-----------------------------------------------------------------------------
(* Properties *)

\* Every variable has its shape.
TypeOK ==
    /\ cache.store \in [Key -> Entry \cup {None}]
    /\ cache.older \in SUBSET (Key \X Key)
    /\ cache.tagIndex \in [Tag -> SUBSET Key]
    /\ latest \in [Key -> Entry \cup {None}]

\* The index has the keys of each tag and no other: what is evicted, expires or
\* is set again with other tags leaves nothing behind (dropKey, lines 60-71).
IndexExact ==
    \A t \in Tag : cache.tagIndex[t] = {k \in Key : Has(cache, k) /\ t \in cache.store[k].tags}

\* What is held was set last under its key, and not deleted or invalidated since,
\* by a caller that named one of its tags (delByTag, lines 42-49).
NothingRevoked == \A k \in Key : Has(cache, k) => cache.store[k] = latest[k]

\* No more is held than the limit, and the order of use is one of the keys that
\* are held: whichever of them are left, one is the oldest (lines 18-19, 31-35).
Bounded ==
    /\ IsFiniteSet(Held(cache)) /\ Cardinality(Held(cache)) <= MaxEntries
    /\ cache.older \subseteq Held(cache) \X Held(cache)
    /\ \A keys \in (SUBSET Held(cache)) \ {{}} : \E k \in keys :
          \A j \in keys \ {k} : <<k, j>> \in cache.older /\ <<j, k>> \notin cache.older
=============================================================================
