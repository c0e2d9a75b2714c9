----------------------------- MODULE MCTagCache -----------------------------
(***************************************************************************)
(* The two backends of the cache, one at a time: subject says which one a   *)
(* behaviour is about; the other stays in its initial state.                *)
(*                                                                         *)
(* Over Valkey, two calls of one process and one invalidation at a time     *)
(* work on one key while its source changes once.  A load that is not       *)
(* coalesced is also what a load of another process looks like.  In memory, *)
(* three keys share two tags and two places.                                *)
(***************************************************************************)
EXTENDS TagCache

CONSTANTS t1, p1,
          MemoryKey, MaxEntries  \* of the memory backend

VARIABLES subject, cache, latest

MCHost == [c \in Call |-> p1]
MCTagChoice == [k \in Key |-> {{t1}}]

Memory == INSTANCE MemoryBackend WITH Key <- MemoryKey

ASSUME MemoryAssumption == Memory!MemoryAssumption

memoryVars == <<cache, latest>>
allVars == <<subject, vars, memoryVars>>

ValkeyStep(A) == subject = "valkey" /\ A /\ UNCHANGED <<subject, memoryVars>>
MemoryStep(A) == subject = "memory" /\ A /\ UNCHANGED <<subject, vars>>

InitAny == subject \in {"valkey", "memory"} /\ Init /\ Memory!Init

NextAny == ValkeyStep(Next) \/ MemoryStep(Memory!Next)

\* TagCache!Fairness; nothing is assumed of those who use the memory backend.
FairAny ==
    /\ \A k \in Key : WF_allVars(ValkeyStep(GrowsOld(k))) /\ WF_allVars(ValkeyStep(Expires(k)))
    /\ \A c \in Call : WF_allVars(ValkeyStep(BackendStep(c)))
    /\ \A i \in Invalidation : WF_allVars(ValkeyStep(InvalidationStep(i)))

SpecAny == InitAny /\ [][NextAny]_allVars
FairSpecAny == SpecAny /\ FairAny

\* Every entry is found by its tags (TagCache!IndexCovers); in memory the index
\* and the order of use are exact after any sequence of calls.
IndexesCover == IndexCovers /\ Memory!IndexExact /\ Memory!Bounded

\* What was invalidated is not held afterwards (TagCache!InvalidationHolds); in
\* memory, nothing that was deleted or set again either.
NothingRevoked == InvalidationHolds /\ Memory!NothingRevoked
=============================================================================
