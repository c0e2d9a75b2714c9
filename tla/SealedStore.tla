---------------------------- MODULE SealedStore ----------------------------
(***************************************************************************)
(* What the sealed disk cache promises about the bytes in its directory,   *)
(* without locks, quarantine directories, processes or crashes: a shelf    *)
(* with numbered places.  The cache adds, takes away only what it can      *)
(* authenticate and only below the two newest places, and never replaces   *)
(* anything.  SealedCache is shown to implement it.                        *)
(***************************************************************************)
EXTENDS Naturals

CONSTANTS Place,    \* the numbers of the places, from 0
          Sealed,   \* objects the cache can authenticate
          Foreign,  \* objects it cannot,
          Legacy    \* and those of them that are to go

VARIABLE shelf      \* the objects that belong to each place

\* Empty, or with the plaintext cache of an older build in the first place.
Init == \E old \in SUBSET Legacy :
            /\ \A o, p \in old : o = p
            /\ shelf = [g \in Place |-> IF g = 0 THEN old ELSE {}]

\* A sealed object is added next to whatever is there.  Usually its place is
\* above all others; a writer that lost its lock may come late, with a number
\* that has been retired since.
Add(g, now) ==
    \E o \in now \cap Sealed :
        /\ now = shelf[g] \cup {o}
        /\ \A h \in Place : o \notin shelf[h]

\* A sealed object that is neither the newest nor the one before is dropped.
Drop(g, now) ==
    /\ \E o \in shelf[g] \cap Sealed : now = shelf[g] \ {o}
    /\ \E h, k \in Place : g < h /\ h < k /\ shelf[h] # {} /\ shelf[k] # {}

\* A plaintext cache of an older build is dropped from the first place.
Purge(g, now) == g = 0 /\ \E o \in shelf[g] \cap Legacy : now = shelf[g] \ {o}

\* Somebody else writes to a place, possibly over a sealed object.
Intrude(g, now) ==
    \E f \in now \cap Foreign, S \in {{}} \cup {{o} : o \in shelf[g] \cap Sealed} :
        now = (shelf[g] \ S) \cup {f}

\* One place changes at a time.
Next ==
    \E g \in Place :
        LET now == shelf'[g]
        IN  /\ shelf' = [shelf EXCEPT ![g] = now]
            /\ Add(g, now) \/ Drop(g, now) \/ Purge(g, now) \/ Intrude(g, now)

Spec == Init /\ [][Next]_shelf
=============================================================================
