-------------------------- MODULE SealedCacheProofs --------------------------
(***************************************************************************)
(* What the sealed cache keeps, for any processes, foreign contents,        *)
(* calls, generations and deaths: the locks of live holders, the number of  *)
(* the latest generation, the shelf it implements, and what writers merge   *)
(* until a process dies.                                                    *)
(*                                                                         *)
(* LiveLockKept is about objects: it needs that the token a reaper has seen *)
(* dead was minted (Known), so that no later call has it, and that a live   *)
(* process is the owner of the token it calls its own (Tied).  LatestKept   *)
(* needs that what is still to be retired lies below the latest generation, *)
(* also when the listing is old (Below).  The sections on the shelf and on  *)
(* merging add their own invariants to these.                               *)
(***************************************************************************)
EXTENDS SealedCache, FiniteSetTheorems, WellFoundedInduction, TLAPS

ProcState == [at: Step, call: 0 .. MaxCall, observed: Token \cup {None},
              entries: SUBSET Call, goal: -1 .. MaxGeneration,
              todo: SUBSET Generation, heldLock: Token \cup {None},
              heldFile: Content \cup {None}]

Paths == [Generation -> Content \cup {None}]

\* What a process remembers fits the step it is at.
Sound(r) ==
    /\ r.at \in {"acquire", "reap", "list", "load", "number", "publish", "prune", "retire",
                 "release", "putback"} => r.call # 0
    /\ r.heldLock # None <=> r.at = "putback" \/ (r.at = "dead" /\ r.heldLock # None)
    /\ r.at = "publish" => r.goal \in Generation
    /\ r.at \in {"judge", "reshelve"} => r.goal \in Generation /\ r.heldFile # None
    /\ r.at = "retire" => r.todo # {}

InTx(r) ==
    /\ r.call # 0
    /\ r.at \in {"list", "load", "number", "publish", "prune", "retire",
                 "judge", "reshelve", "release"}

Tied(p, r) == p \in alive /\ r.call # 0 => r.call <= calls /\ caller[r.call] = p

Known(r) ==
    /\ r.heldLock # None => r.heldLock <= calls
    /\ r.observed # None => r.observed <= calls /\ caller[r.observed] \notin alive

Below(r) == \A g \in r.todo : g < Latest

\* The lock object of call n still exists.
Guarded(n) ==
    \/ lock = n
    \/ n \in strayLocks
    \/ \E q \in Process : proc[q].heldLock = n

IInv ==
    /\ TypeOK
    /\ lock # None => lock <= calls
    /\ \A p \in Process :
         /\ Sound(proc[p]) /\ Tied(p, proc[p]) /\ Known(proc[p]) /\ Below(proc[p])
         /\ p \in alive /\ InTx(proc[p]) => Guarded(proc[p].call)

-----------------------------------------------------------------------------
(* The latest generation *)

\* A set of natural numbers has a least element.
LEMMA Least ==
    ASSUME NEW D \in SUBSET Nat, D # {}
    PROVE  \E n \in D : \A m \in D : n <= m
<1> DEFINE R == {ss \in Nat \X Nat : ss[1] < ss[2]}
<1>1. OpToRel(<, Nat) = R
  BY DEF OpToRel
<1>2. IsWellFoundedOn(R, Nat)
  BY <1>1, NatLessThanWellFounded, Zenon
<1> HIDE DEF R
<1>3. PICK n \in D : \A m \in D : ~(<<m, n>> \in R)
  BY <1>2, WFMin
<1>4. \A m \in D : ~(m < n)
  BY <1>3 DEF R
<1> QED
  BY <1>4

\* A set of generations has a highest one.
LEMMA Highest ==
    ASSUME NEW S \in SUBSET Generation, S # {}
    PROVE  \E g \in S : \A h \in S : h <= g
<1> DEFINE D == {MaxGeneration - g : g \in S}
<1>1. \A g \in S : g \in Nat /\ MaxGeneration - g \in Nat
  BY BoundAssumption DEF Generation
<1>2. D \in SUBSET Nat /\ D # {}
  BY <1>1
<1>3. PICK n \in D : \A m \in D : n <= m
  BY <1>2, Least
<1>4. PICK g \in S : n = MaxGeneration - g
  BY <1>3
<1>5. ASSUME NEW h \in S
      PROVE  h <= g
  <2>1. n <= MaxGeneration - h
    BY <1>3
  <2> QED
    BY <1>1, <1>4, <2>1, BoundAssumption
<1> QED
  BY <1>5

LEMMA LatestIs ==
    ASSUME path \in Paths
    PROVE  /\ Latest \in -1 .. MaxGeneration
           /\ Latest # -1 => Latest \in Generation /\ path[Latest] # None
           /\ \A g \in Generation : path[g] # None => g <= Latest
<1>1. Occupied \in SUBSET Generation
  BY DEF Occupied
<1>2. CASE Occupied = {}
  BY <1>2, BoundAssumption DEF Latest, Occupied, Generation
<1>3. CASE Occupied # {}
  <2>1. \E g \in Occupied : \A h \in Occupied : h <= g
    BY <1>1, <1>3, Highest
  <2>2. Latest \in Occupied /\ \A h \in Occupied : h <= Latest
    BY <1>3, <2>1 DEF Latest
  <2> QED
    BY <1>1, <2>2, BoundAssumption DEF Occupied, Generation
<1> QED
  BY <1>2, <1>3

LEMMA LatestIsNext ==
    ASSUME path' \in Paths
    PROVE  /\ Latest' \in -1 .. MaxGeneration
           /\ Latest' # -1 => Latest' \in Generation /\ path'[Latest'] # None
           /\ \A g \in Generation : path'[g] # None => g <= Latest'
<1>1. Occupied' \in SUBSET Generation
  BY DEF Occupied
<1>2. CASE Occupied' = {}
  BY <1>2, BoundAssumption DEF Latest, Occupied, Generation
<1>3. CASE Occupied' # {}
  <2>1. \E g \in Occupied' : \A h \in Occupied' : h <= g
    BY <1>1, <1>3, Highest
  <2>2. Latest' \in Occupied' /\ \A h \in Occupied' : h <= Latest'
    BY <1>3, <2>1 DEF Latest
  <2> QED
    BY <1>1, <2>2, BoundAssumption DEF Occupied, Generation
<1> QED
  BY <1>2, <1>3

\* As long as the latest generation stays, the number does not fall.
LEMMA LatestGrows ==
    ASSUME path \in Paths, path' \in Paths, Latest = -1 \/ path'[Latest] # None
    PROVE  Latest' >= Latest
<1>1. Latest' \in -1 .. MaxGeneration /\ \A g \in Generation : path'[g] # None => g <= Latest'
  BY LatestIsNext
<1>2. Latest \in -1 .. MaxGeneration /\ (Latest # -1 => Latest \in Generation)
  BY LatestIs
<1> QED
  BY <1>1, <1>2, BoundAssumption
-----------------------------------------------------------------------------
(* The initial states *)

LEMMA NoneApart == None \notin Token /\ None \notin Content
BY NoneAssumption

LEMMA InitInvariant ==
    ASSUME Init
    PROVE  IInv
<1>1. path \in Paths
  <2>1. PICK o \in Legacy \cup {None} : path = [g \in Generation |-> IF g = 0 THEN o ELSE None]
    BY DEF Init
  <2> QED
    BY <2>1, ForeignAssumption DEF Paths, Content
<1>2. lock \in Token \cup {None} /\ (lock # None => lock <= calls)
  BY BoundAssumption, NoneApart DEF Init, Token
<1>3. \A p \in Process : proc[p] = [Idle EXCEPT !.at = "fresh"]
  BY DEF Init
<1>4. [Idle EXCEPT !.at = "fresh"] \in ProcState
  BY BoundAssumption DEF Idle, ProcState, Step, Token
<1>5. caller \in [Token -> Process \cup {Earlier, None}]
  BY DEF Init
<1>6. TypeOK
  BY <1>1, <1>2, <1>4, <1>5, BoundAssumption DEF Init, TypeOK, Paths, ProcState
<1>7. ASSUME NEW p \in Process
      PROVE  /\ Sound(proc[p]) /\ Tied(p, proc[p]) /\ Known(proc[p]) /\ Below(proc[p])
             /\ ~InTx(proc[p])
  BY <1>3 DEF Idle, Sound, Tied, Known, Below, InTx
<1> QED
  BY <1>2, <1>6, <1>7 DEF IInv

-----------------------------------------------------------------------------
(* Steps that leave the lock alone *)

\* A process changes its own state only.
LEMMA Changed ==
    ASSUME IInv, NEW p \in Process, NEW r \in ProcState, proc' = [proc EXCEPT ![p] = r]
    PROVE  /\ proc' \in [Process -> ProcState]
           /\ \A q \in Process : proc'[q] = IF q = p THEN r ELSE proc[q]
BY DEF IInv, TypeOK, ProcState

\* Any work of one process on the generations.
LEMMA Work ==
    ASSUME IInv, NEW p \in alive, NEW r \in ProcState, Sound(r),
           proc' = [proc EXCEPT ![p] = r], UNCHANGED <<lock, alive, caller, calls, strayLocks>>,
           proc[p].at \notin {"putback", "dead"}, r.heldLock = None, Known(r),
           r.call \in {0, proc[p].call}, InTx(r) => InTx(proc[p]) /\ r.call = proc[p].call,
           path' \in Paths, Latest \in {-1, 0} \/ path'[Latest] # None, Below(r),
           published' \subseteq Call, strayFiles' \subseteq Generation \X Content,
           excuses' \subseteq {"foreign", "purge"}
    PROVE  IInv'
<1>1. p \in Process
  BY DEF IInv, TypeOK
<1>2. /\ proc' \in [Process -> ProcState]
      /\ \A q \in Process : proc'[q] = IF q = p THEN r ELSE proc[q]
  BY <1>1, Changed
<1>3. TypeOK'
  BY <1>2 DEF IInv, TypeOK, Paths, ProcState
<1>4. ASSUME NEW q \in Process
      PROVE  Sound(proc'[q]) /\ Tied(q, proc[q])' /\ Known(proc[q])'
  <2>1. CASE q = p
    BY <1>2, <2>1 DEF IInv, Tied, Known
  <2>2. CASE q # p
    BY <1>2, <2>2 DEF IInv, Tied, Known
  <2> QED
    BY <2>1, <2>2
<1>5. ASSUME NEW q \in Process
      PROVE  Below(proc[q])'
  <2>1. path \in Paths /\ proc[q].todo \subseteq Generation
    BY DEF IInv, TypeOK, Paths
  <2>2. Below(proc[q]) /\ r.todo \subseteq Generation
    BY DEF IInv, ProcState
  <2>3. CASE Latest \in {-1, 0}
    <3>1. proc[q].todo = {} /\ r.todo = {}
      BY <2>1, <2>2, <2>3 DEF Below, Generation
    <3> QED
      BY <1>2, <3>1 DEF Below
  <2>4. CASE Latest \notin {-1, 0}
    <3>1. Latest' >= Latest
      BY <2>1, <2>4, LatestGrows
    <3>2. Latest \in -1 .. MaxGeneration /\ Latest' \in -1 .. MaxGeneration
      BY <2>1, LatestIs, LatestIsNext
    <3>3. \A g \in proc[q].todo \cup r.todo : g < Latest'
      BY <2>1, <2>2, <3>1, <3>2, BoundAssumption DEF Below, Generation
    <3> QED
      BY <1>2, <3>3 DEF Below
  <2> QED
    BY <2>3, <2>4
<1>6. ASSUME NEW n, Guarded(n), n # None
      PROVE  Guarded(n)'
  <2>1. proc[p].heldLock = None
    BY <1>1 DEF IInv, Sound
  <2> QED
    BY <1>2, <1>6, <2>1 DEF Guarded
<1>7. ASSUME NEW q \in Process, q \in alive, InTx(proc'[q])
      PROVE  Guarded(proc[q].call)'
  <2>1. InTx(proc[q]) /\ proc'[q].call = proc[q].call
    BY <1>2, <1>7
  <2>2. proc[q].call # None
    BY NoneApart DEF IInv, TypeOK, Token
  <2> QED
    BY <1>6, <1>7, <2>1, <2>2 DEF IInv
<1> QED
  BY <1>3, <1>4, <1>5, <1>7 DEF IInv, Sound, InTx

\* What is known of a process that is at some step of its work.
LEMMA AtFacts ==
    ASSUME IInv, NEW p \in Process, p \in alive
    PROVE  /\ proc[p] \in ProcState /\ proc \in [Process -> ProcState]
           /\ Sound(proc[p]) /\ Known(proc[p]) /\ Below(proc[p])
           /\ path \in Paths /\ published \subseteq Call
           /\ strayFiles \subseteq Generation \X Content /\ excuses \subseteq {"foreign", "purge"}
           /\ lock \in Token \cup {None}
           /\ Latest \in -1 .. MaxGeneration
           /\ Latest \in {-1, 0} \/ path[Latest] # None
BY LatestIs DEF IInv, TypeOK, ProcState, Paths

LEMMA Goals == -1 \in -1 .. MaxGeneration /\ \A g \in Generation : g \in -1 .. MaxGeneration
BY BoundAssumption DEF Generation

LEMMA IdleSound ==
    /\ Idle \in ProcState
    /\ Sound(Idle) /\ Known(Idle) /\ Below(Idle) /\ ~InTx(Idle)
    /\ Idle.heldLock = None /\ Idle.call = 0
BY BoundAssumption DEF Idle, ProcState, Sound, Known, Below, InTx, Step, Token

LEMMA OldestFirst ==
    ASSUME IInv, NEW p \in Process, QuarantineOld(p),
           NEW g, g = CHOOSE o \in proc[p].todo : \A h \in proc[p].todo : h <= o
    PROVE  g \in proc[p].todo /\ g \in Generation /\ g < Latest
<1>1. p \in alive /\ proc[p].at = "retire"
  BY DEF QuarantineOld, At
<1>2. proc[p].todo \subseteq Generation /\ proc[p].todo # {}
  BY <1>1, AtFacts DEF ProcState, Sound
<1>3. \E x \in proc[p].todo : \A h \in proc[p].todo : h <= x
  BY <1>2, Highest
<1>4. g \in proc[p].todo
  BY <1>3
<1> QED
  BY <1>1, <1>2, <1>4, AtFacts DEF Below

\* No step takes the latest generation away, but for generation zero.
LEMMA LatestStays ==
    ASSUME IInv, NEW p \in Process,
           Purge(p) \/ Publish(p) \/ QuarantineOld(p) \/ Reshelve(p)
    PROVE  path' \in Paths /\ (Latest \in {-1, 0} \/ path'[Latest] # None)
<1>1. p \in alive
  BY DEF Purge, Publish, QuarantineOld, Reshelve, At
<1>2. /\ path \in Paths /\ Latest \in -1 .. MaxGeneration
      /\ Latest # -1 => Latest \in Generation /\ path[Latest] # None
  BY <1>1, AtFacts, LatestIs
<1>3. ASSUME NEW g, NEW o \in Content \cup {None}, path' = [path EXCEPT ![g] = o],
             o # None \/ g # Latest \/ g = 0
      PROVE  path' \in Paths /\ (Latest \in {-1, 0} \/ path'[Latest] # None)
  BY <1>2, <1>3 DEF Paths
<1>4. CASE path' = path
  BY <1>2, <1>4
<1>5. CASE Purge(p)
  BY <1>3, <1>4, <1>5 DEF Purge
<1>6. CASE Publish(p)
  <2>1. proc[p].at = "publish" /\ proc[p].call # 0
    BY <1>1, <1>6, AtFacts DEF Publish, At, Sound
  <2>2. proc[p].call \in Call /\ proc[p].entries \in SUBSET Call
    BY <1>1, <2>1, AtFacts, BoundAssumption DEF ProcState, Call
  <2>3. proc[p].entries \cup {proc[p].call} \in Sealed
    BY <2>2 DEF Sealed
  <2> QED
    BY <1>3, <1>4, <1>6, <2>3, NoneApart DEF Publish, Content
<1>7. CASE QuarantineOld(p)
  <2>1. PICK g : g = CHOOSE o \in proc[p].todo : \A h \in proc[p].todo : h <= o
    OBVIOUS
  <2>2. g \in Generation /\ g < Latest
    BY <1>7, <2>1, OldestFirst
  <2>3. g # Latest
    BY <1>2, <2>2, BoundAssumption DEF Generation
  <2>4. path' = path \/ path' = [path EXCEPT ![g] = None]
    BY <1>7, <2>1 DEF QuarantineOld
  <2> QED
    BY <1>3, <1>4, <2>3, <2>4
<1>8. CASE Reshelve(p)
  <2>1. proc[p].heldFile \in Content
    BY <1>1, <1>8, AtFacts DEF Reshelve, At, Sound, ProcState
  <2> QED
    BY <1>3, <1>4, <1>8, <2>1, NoneApart DEF Reshelve
<1> QED
  BY <1>5, <1>6, <1>7, <1>8

LEMMA PurgeStep ==
    ASSUME IInv, NEW p \in Process, Purge(p)
    PROVE  IInv'
<1>1. p \in alive /\ proc[p].at = "fresh"
  BY DEF Purge, At
<1>2. CASE path[0] = None
  BY <1>1, <1>2, AtFacts, IdleSound, Work DEF Purge, Rest
<1>3. CASE path[0] # None
  <2> DEFINE r == [Idle EXCEPT !.at = "judge", !.goal = 0, !.heldFile = path[0]]
  <2>1. path[0] \in Content /\ 0 \in Generation /\ path \in Paths
    BY <1>1, <1>3, AtFacts, BoundAssumption DEF Paths, Generation
  <2>2. r \in ProcState /\ r.heldLock = None /\ r.call = 0 /\ ~InTx(r)
    <3>1. 0 \in -1 .. MaxGeneration /\ 0 \in 0 .. MaxCall
      BY BoundAssumption
    <3> QED
      BY <2>1, <3>1 DEF Idle, ProcState, Step, InTx
  <2>3. Sound(r) /\ Known(r) /\ Below(r)
    BY <2>1, <1>3 DEF Idle, Sound, Known, Below
  <2>4. path' = [path EXCEPT ![0] = None] /\ proc' = [proc EXCEPT ![p] = r]
    BY <1>3 DEF Purge
  <2> HIDE DEF r
  <2>5. path' \in Paths /\ (Latest \in {-1, 0} \/ path'[Latest] # None)
    BY LatestStays
  <2>6. UNCHANGED <<lock, alive, caller, calls, strayLocks, published, strayFiles, excuses>>
    BY DEF Purge, Rest
  <2> QED
    BY <1>1, <2>2, <2>3, <2>4, <2>5, <2>6, AtFacts, Work
<1> QED
  BY <1>2, <1>3

LEMMA ObserveStep ==
    ASSUME IInv, NEW p \in Process, ObserveDeadOwner(p)
    PROVE  IInv'
<1> DEFINE r == [proc[p] EXCEPT !.at = "reap", !.observed = lock]
<1>1. p \in alive /\ proc[p].at = "acquire" /\ lock # None /\ lock <= calls
  BY DEF ObserveDeadOwner, At, IInv
<1>2. proc' = [proc EXCEPT ![p] = r]
  BY <1>1, AtFacts DEF ObserveDeadOwner, ProcState
<1>3. r \in ProcState /\ r.heldLock = None /\ r.call = proc[p].call /\ Sound(r) /\ ~InTx(r)
  BY <1>1, AtFacts, ZenonT(60) DEF ProcState, Sound, InTx, Step
<1>4. Known(r)
  BY <1>1, AtFacts DEF ObserveDeadOwner, OwnerIsAlive, Known, ProcState, Sound
<1>5. Below(r)
  BY <1>1, AtFacts DEF Below, ProcState
<1> HIDE DEF r
<1> QED
  BY <1>1, <1>2, <1>3, <1>4, <1>5, AtFacts, Work DEF ObserveDeadOwner, Rest

LEMMA TimeoutStep ==
    ASSUME IInv, NEW p \in Process, AcquireTimesOut(p)
    PROVE  IInv'
BY AtFacts, IdleSound, Work DEF AcquireTimesOut, At, Rest

LEMMA ListStep ==
    ASSUME IInv, NEW p \in Process, ListLatest(p)
    PROVE  IInv'
<1> DEFINE r == [proc[p] EXCEPT !.at = "load", !.goal = Latest]
<1>1. p \in alive /\ proc[p].at = "list"
  BY DEF ListLatest, At
<1>2. proc' = [proc EXCEPT ![p] = r]
  BY <1>1, AtFacts DEF ListLatest, ProcState
<1>3. r \in ProcState /\ r.heldLock = None /\ r.call = proc[p].call /\ Sound(r)
  BY <1>1, AtFacts, ZenonT(60) DEF ProcState, Sound, Step
<1>4. Known(r) /\ Below(r) /\ (InTx(r) => InTx(proc[p]))
  BY <1>1, AtFacts DEF ProcState, Known, Below, InTx
<1> HIDE DEF r
<1>5. excuses' \subseteq {"foreign", "purge"}
  BY <1>1, AtFacts DEF ListLatest, Excuses
<1> QED
  BY <1>1, <1>2, <1>3, <1>4, <1>5, AtFacts, Work DEF ListLatest

LEMMA LoadStep ==
    ASSUME IInv, NEW p \in Process, Load(p)
    PROVE  IInv'
<1>1. p \in alive /\ proc[p].at = "load"
  BY DEF Load, At
<1>2. ASSUME NEW r, r = [proc[p] EXCEPT !.at = "release", !.goal = -1],
             proc' = [proc EXCEPT ![p] = r]
      PROVE  IInv'
  <2>1. r \in ProcState /\ r.heldLock = None /\ r.call = proc[p].call /\ Sound(r)
    BY <1>1, <1>2, AtFacts, Goals, ZenonT(60) DEF ProcState, Sound, Step
  <2>2. Known(r) /\ Below(r) /\ (InTx(r) => InTx(proc[p]))
    BY <1>1, <1>2, AtFacts DEF ProcState, Known, Below, InTx
  <2> QED
    BY <1>1, <1>2, <2>1, <2>2, AtFacts, Work DEF Load, Rest
<1>3. ASSUME NEW S \in SUBSET Call, NEW r,
             r = [proc[p] EXCEPT !.at = "number", !.goal = -1, !.entries = S],
             proc' = [proc EXCEPT ![p] = r]
      PROVE  IInv'
  <2>1. r \in ProcState /\ r.heldLock = None /\ r.call = proc[p].call /\ Sound(r)
    BY <1>1, <1>3, AtFacts, Goals, ZenonT(60) DEF ProcState, Sound, Step
  <2>2. Known(r) /\ Below(r) /\ (InTx(r) => InTx(proc[p]))
    BY <1>1, <1>3, AtFacts DEF ProcState, Known, Below, InTx
  <2> QED
    BY <1>1, <1>3, <2>1, <2>2, AtFacts, Work DEF Load, Rest
<1>4. \A o : Entries(o) \in SUBSET Call
  BY DEF Entries, Authenticated, Sealed
<1> QED
  BY <1>2, <1>3, <1>4 DEF Load

LEMMA NumberStep ==
    ASSUME IInv, NEW p \in Process, Number(p)
    PROVE  IInv'
<1> DEFINE r == [proc[p] EXCEPT !.at = "publish", !.goal = Latest + 1]
<1>1. p \in alive /\ proc[p].at = "number" /\ Latest < MaxGeneration
  BY DEF Number, At
<1>2. proc' = [proc EXCEPT ![p] = r]
  BY <1>1, AtFacts DEF Number, ProcState
<1>3. Latest + 1 \in Generation
  BY <1>1, AtFacts, BoundAssumption DEF Generation
<1>4. r \in ProcState /\ r.heldLock = None /\ r.call = proc[p].call /\ Sound(r)
  BY <1>1, <1>3, AtFacts, Goals, ZenonT(60) DEF ProcState, Sound, Step
<1>5. Known(r) /\ Below(r) /\ (InTx(r) => InTx(proc[p]))
  BY <1>1, AtFacts DEF ProcState, Known, Below, InTx
<1> HIDE DEF r
<1>6. excuses' \subseteq {"foreign", "purge"}
  BY <1>1, AtFacts DEF Number, Excuses
<1> QED
  BY <1>1, <1>2, <1>4, <1>5, <1>6, AtFacts, Work DEF Number

\* What is to be retired lies below two generations.
LEMMA OldBelow ==
    ASSUME path \in Paths
    PROVE  Old \subseteq Generation /\ \A g \in Old : g < Latest
<1>1. Old \subseteq Generation
  BY DEF Old, Occupied
<1>2. ASSUME NEW g \in Old
      PROVE  g < Latest
  <2>1. Cardinality({h \in Occupied : h > g}) >= 2
    BY DEF Old, RETAINED_AUTHENTICATED_GENERATIONS
  <2>2. Cardinality({}) = 0
    BY FS_EmptySet
  <2>3. {h \in Occupied : h > g} # {}
    BY <2>1, <2>2
  <2>4. PICK h \in Generation : path[h] # None /\ h > g
    BY <2>3 DEF Occupied
  <2>5. h <= Latest /\ Latest \in -1 .. MaxGeneration
    BY <2>4, LatestIs
  <2> QED
    BY <1>1, <2>4, <2>5, BoundAssumption DEF Generation
<1> QED
  BY <1>1, <1>2

LEMMA PublishStep ==
    ASSUME IInv, NEW p \in Process, Publish(p)
    PROVE  IInv'
<1> DEFINE g == proc[p].goal
           r1 == [proc[p] EXCEPT !.at = "prune", !.goal = -1, !.entries = {}]
           r2 == [proc[p] EXCEPT !.at = "number", !.goal = -1]
<1>1. p \in alive /\ proc[p].at = "publish" /\ g \in Generation /\ proc[p].call # 0
  BY AtFacts DEF Publish, At, Sound
<1>2. CASE path[g] = None
  <2>1. proc' = [proc EXCEPT ![p] = r1]
    BY <1>1, <1>2, AtFacts DEF Publish, ProcState
  <2>2. r1 \in ProcState /\ r1.heldLock = None /\ r1.call = proc[p].call /\ Sound(r1)
    BY <1>1, AtFacts, Goals, ZenonT(60) DEF ProcState, Sound, Step
  <2>3. Known(r1) /\ Below(r1) /\ (InTx(r1) => InTx(proc[p]))
    BY <1>1, AtFacts DEF ProcState, Known, Below, InTx
  <2>4. proc[p].call \in Call
    BY <1>1, AtFacts, BoundAssumption DEF ProcState, Call
  <2>5. path' \in Paths /\ (Latest \in {-1, 0} \/ path'[Latest] # None)
    BY LatestStays
  <2>6. published' \subseteq Call
    BY <1>1, <1>2, <2>4, AtFacts DEF Publish
  <2> HIDE DEF r1
  <2> QED
    BY <1>1, <2>1, <2>2, <2>3, <2>5, <2>6, AtFacts, Work DEF Publish
<1>3. CASE path[g] # None
  <2>1. proc' = [proc EXCEPT ![p] = r2]
    BY <1>1, <1>3, AtFacts DEF Publish, ProcState
  <2>2. r2 \in ProcState /\ r2.heldLock = None /\ r2.call = proc[p].call /\ Sound(r2)
    BY <1>1, AtFacts, Goals, ZenonT(60) DEF ProcState, Sound, Step
  <2>3. Known(r2) /\ Below(r2) /\ (InTx(r2) => InTx(proc[p]))
    BY <1>1, AtFacts DEF ProcState, Known, Below, InTx
  <2> HIDE DEF r2
  <2> QED
    BY <1>1, <1>3, <2>1, <2>2, <2>3, AtFacts, Work DEF Publish
<1> QED
  BY <1>2, <1>3

LEMMA ListOldStep ==
    ASSUME IInv, NEW p \in Process, ListOld(p)
    PROVE  IInv'
<1> DEFINE r == [proc[p] EXCEPT !.at = IF Old = {} THEN "release" ELSE "retire", !.todo = Old]
<1>1. p \in alive /\ proc[p].at = "prune" /\ proc[p].call # 0
  BY AtFacts DEF ListOld, At, Sound
<1>2. Old \subseteq Generation /\ \A g \in Old : g < Latest
  BY <1>1, AtFacts, OldBelow
<1>3. proc' = [proc EXCEPT ![p] = r]
  BY <1>1, AtFacts DEF ListOld, ProcState
<1>4. r \in ProcState /\ r.heldLock = None /\ r.call = proc[p].call /\ Sound(r)
  BY <1>1, <1>2, AtFacts, ZenonT(60) DEF ProcState, Sound, Step
<1>5. Known(r) /\ Below(r) /\ (InTx(r) => InTx(proc[p]))
  BY <1>1, <1>2, AtFacts DEF ProcState, Known, Below, InTx
<1> HIDE DEF r
<1> QED
  BY <1>1, <1>3, <1>4, <1>5, AtFacts, Work DEF ListOld, Rest

\* Where a process goes from a generation it has dealt with.
LEMMA RetiringSound ==
    ASSUME IInv, NEW p \in alive, proc[p].at \in {"retire", "judge", "reshelve"},
           NEW T \in SUBSET proc[p].todo
    PROVE  /\ Retiring(p, T) \in ProcState /\ Sound(Retiring(p, T)) /\ Known(Retiring(p, T))
           /\ Below(Retiring(p, T)) /\ Retiring(p, T).heldLock = None
           /\ Retiring(p, T).call \in {0, proc[p].call}
           /\ InTx(Retiring(p, T)) => InTx(proc[p]) /\ Retiring(p, T).call = proc[p].call
<1>1. p \in Process
  BY DEF IInv, TypeOK
<1>2. CASE proc[p].call = 0
  BY <1>2, IdleSound DEF Retiring
<1>3. CASE proc[p].call # 0
  <2> DEFINE r == [proc[p] EXCEPT !.at = IF T = {} THEN "release" ELSE "retire", !.todo = T,
                                  !.goal = -1, !.heldFile = None]
  <2>1. proc[p] \in ProcState /\ proc[p].heldLock = None /\ T \in SUBSET Generation
    BY <1>1, AtFacts DEF ProcState, Sound
  <2>2. r \in ProcState /\ r.heldLock = None /\ r.call = proc[p].call
    BY <2>1, Goals, ZenonT(60) DEF ProcState, Step
  <2>3. Sound(r)
    BY <1>3, <2>1 DEF ProcState, Sound
  <2>4. Known(r) /\ Below(r) /\ (InTx(r) => InTx(proc[p]))
    BY <1>1, <1>3, AtFacts DEF ProcState, Known, Below, InTx
  <2> QED
    BY <1>3, <2>2, <2>3, <2>4 DEF Retiring
<1> QED
  BY <1>2, <1>3

LEMMA QuarantineOldStep ==
    ASSUME IInv, NEW p \in Process, QuarantineOld(p)
    PROVE  IInv'
<1>1. PICK g : g = CHOOSE o \in proc[p].todo : \A h \in proc[p].todo : h <= o
  OBVIOUS
<1>2. PICK T : T = proc[p].todo \ {g}
  OBVIOUS
<1>3. p \in alive /\ proc[p].at = "retire" /\ proc[p].call # 0
  BY AtFacts DEF QuarantineOld, At, Sound
<1>4. g \in proc[p].todo /\ g \in Generation
  BY <1>1, OldestFirst
<1>5. path' \in Paths /\ (Latest \in {-1, 0} \/ path'[Latest] # None)
  BY LatestStays
<1>6. CASE path[g] = None
  <2>1. proc' = [proc EXCEPT ![p] = Retiring(p, T)]
    BY <1>1, <1>2, <1>6 DEF QuarantineOld
  <2> QED
    BY <1>2, <1>3, <1>5, <2>1, AtFacts, RetiringSound, Work DEF QuarantineOld, Rest
<1>7. CASE path[g] # None
  <2>1. PICK r : r = [proc[p] EXCEPT !.at = "judge", !.todo = T, !.goal = g, !.heldFile = path[g]]
    OBVIOUS
  <2>2. proc' = [proc EXCEPT ![p] = r]
    BY <1>1, <1>2, <1>3, <1>7, <2>1, AtFacts DEF QuarantineOld
  <2>3. path[g] \in Content
    BY <1>3, <1>4, <1>7, AtFacts DEF Paths
  <2>4. r \in ProcState /\ r.heldLock = None /\ r.call = proc[p].call /\ Sound(r)
    BY <1>2, <1>3, <1>4, <1>7, <2>1, <2>3, AtFacts, Goals, ZenonT(60) DEF ProcState, Sound, Step
  <2>5. Known(r) /\ Below(r) /\ (InTx(r) => InTx(proc[p]))
    BY <1>2, <1>3, <2>1, AtFacts DEF ProcState, Known, Below, InTx
  <2> QED
    BY <1>3, <1>5, <2>2, <2>4, <2>5, AtFacts, Work DEF QuarantineOld, Rest
<1> QED
  BY <1>6, <1>7

LEMMA JudgeStep ==
    ASSUME IInv, NEW p \in Process, Judge(p)
    PROVE  IInv'
<1>1. p \in alive /\ proc[p].at = "judge"
  BY DEF Judge, At
<1>2. CASE Condemned(p)
  <2>1. proc' = [proc EXCEPT ![p] = Retiring(p, proc[p].todo)]
    BY <1>2 DEF Judge
  <2> QED
    BY <1>1, <2>1, AtFacts, RetiringSound, Work DEF Judge, Rest
<1>3. CASE ~Condemned(p)
  <2> DEFINE r == [proc[p] EXCEPT !.at = "reshelve"]
  <2>1. proc' = [proc EXCEPT ![p] = r]
    BY <1>1, <1>3, AtFacts DEF Judge, GoTo, ProcState
  <2>2. r \in ProcState /\ r.heldLock = None /\ r.call = proc[p].call /\ Sound(r)
    BY <1>1, AtFacts DEF ProcState, Sound, Step
  <2>3. Known(r) /\ Below(r) /\ (InTx(r) => InTx(proc[p]))
    BY <1>1, AtFacts DEF ProcState, Known, Below, InTx
  <2> HIDE DEF r
  <2> QED
    BY <1>1, <2>1, <2>2, <2>3, AtFacts, Work DEF Judge, Rest
<1> QED
  BY <1>2, <1>3

LEMMA ReshelveStep ==
    ASSUME IInv, NEW p \in Process, Reshelve(p)
    PROVE  IInv'
<1> DEFINE g == proc[p].goal
           o == proc[p].heldFile
<1>1. p \in alive /\ proc[p].at = "reshelve" /\ g \in Generation /\ o \in Content
  BY AtFacts DEF Reshelve, At, Sound, ProcState
<1>2. proc' = [proc EXCEPT ![p] = Retiring(p, proc[p].todo)]
  BY DEF Reshelve
<1>3. path' \in Paths /\ (Latest \in {-1, 0} \/ path'[Latest] # None)
  BY LatestStays
<1>4. strayFiles' \subseteq Generation \X Content
  BY <1>1, AtFacts DEF Reshelve
<1> QED
  BY <1>1, <1>2, <1>3, <1>4, AtFacts, RetiringSound, Work DEF Reshelve
-----------------------------------------------------------------------------
(* Steps that move the lock, or that start or end a process *)

\* Steps of one process that leave the generations alone: every lock object in
\* use stays somewhere, and so does what the other processes know.
LEMMA LockWork ==
    ASSUME IInv, NEW p \in alive, NEW r \in ProcState, Sound(r),
           proc' = [proc EXCEPT ![p] = r], UNCHANGED <<path, published, strayFiles, excuses>>,
           lock' \in Token \cup {None}, strayLocks' \subseteq Token, alive' \subseteq alive,
           calls' \in calls .. MaxCall, caller' \in [Token -> Process \cup {Earlier, None}],
           \A n \in Token : n <= calls => caller'[n] = caller[n],
           lock' # None => lock' <= calls', Tied(p, r)', Known(r)', Below(r),
           \A q \in Process : q # p /\ q \in alive /\ InTx(proc[q])
                                => Guarded(proc[q].call)',
           p \in alive' /\ InTx(r) => Guarded(r.call)'
    PROVE  IInv'
<1>1. p \in Process /\ calls \in 0 .. MaxCall
  BY DEF IInv, TypeOK
<1>2. /\ proc' \in [Process -> ProcState]
      /\ \A q \in Process : proc'[q] = IF q = p THEN r ELSE proc[q]
  BY <1>1, Changed
<1>3. calls' \in 0 .. MaxCall /\ calls <= calls'
  BY <1>1, BoundAssumption
<1>4. TypeOK'
  BY <1>2, <1>3 DEF IInv, TypeOK, Paths, ProcState
<1>5. ASSUME NEW q \in Process, q # p
      PROVE  Tied(q, proc[q])' /\ Known(proc[q])'
  <2>1. /\ proc[q].call \in Token /\ proc[q].call \in Nat
        /\ proc[q].heldLock \in Token \cup {None} /\ proc[q].observed \in Token \cup {None}
    BY BoundAssumption DEF IInv, TypeOK, Token
  <2>2. Tied(q, proc[q]) /\ Known(proc[q]) /\ proc'[q] = proc[q]
    BY <1>2, <1>5 DEF IInv
  <2>3. ASSUME NEW n \in Token, n <= calls
        PROVE  n <= calls' /\ caller'[n] = caller[n]
    BY <1>1, <1>3, <2>3, BoundAssumption DEF Token
  <2>4. Tied(q, proc[q])'
    BY <2>1, <2>2, <2>3 DEF Tied
  <2>5. Known(proc[q])'
    BY <2>1, <2>2, <2>3 DEF Known
  <2> QED
    BY <2>4, <2>5
<1>6. Latest' = Latest
  BY DEF Latest, Occupied
<1>7. ASSUME NEW q \in Process
      PROVE  /\ Sound(proc'[q]) /\ Tied(q, proc[q])' /\ Known(proc[q])' /\ Below(proc[q])'
             /\ q \in alive' /\ InTx(proc'[q]) => Guarded(proc[q].call)'
  <2>1. CASE q = p
    BY <1>2, <1>6, <2>1 DEF Below, Tied, Known
  <2>2. CASE q # p
    BY <1>2, <1>5, <1>6, <2>2 DEF IInv, Below
  <2> QED
    BY <2>1, <2>2
<1> QED
  BY <1>4, <1>7 DEF IInv, Sound, InTx

\* Calls of different live processes are different.
LEMMA CallsApart ==
    ASSUME IInv, NEW p \in alive, NEW q \in alive, p # q, proc[p].call # 0
    PROVE  proc[q].call # proc[p].call
BY DEF IInv, TypeOK, Tied

\* A process takes, moves or gives back a lock object.
LEMMA LockStep ==
    ASSUME IInv, NEW p \in alive, NEW r \in ProcState, Sound(r), Known(r), Below(r),
           proc' = [proc EXCEPT ![p] = r], r.call \in {0, proc[p].call},
           UNCHANGED <<path, alive, caller, calls, strayFiles, published, excuses>>,
           lock' \in Token \cup {None}, lock' # None => lock' <= calls,
           strayLocks' \subseteq Token,
           \A q \in Process : q # p /\ q \in alive /\ InTx(proc[q])
                                => Guarded(proc[q].call)',
           InTx(r) => Guarded(r.call)'
    PROVE  IInv'
<1>1. p \in Process /\ calls' \in calls .. MaxCall
  BY BoundAssumption DEF IInv, TypeOK
<1>2. caller' \in [Token -> Process \cup {Earlier, None}]
  BY DEF IInv, TypeOK
<1>3. Tied(p, r)' /\ Known(r)'
  BY <1>1 DEF IInv, Tied, Known
<1> QED
  BY <1>1, <1>2, <1>3, LockWork

LEMMA AcquireStep ==
    ASSUME IInv, NEW p \in Process, Acquire(p)
    PROVE  IInv'
<1> PICK r : r = [proc[p] EXCEPT !.at = "list"]
  OBVIOUS
<1>1. p \in alive /\ proc[p].at = "acquire" /\ lock = None /\ proc[p].call # 0
  BY AtFacts DEF Acquire, At, Sound
<1>2. proc' = [proc EXCEPT ![p] = r]
  BY <1>1, AtFacts DEF Acquire, GoTo, ProcState
<1>3. r \in ProcState /\ r.heldLock = None /\ r.call = proc[p].call /\ Sound(r)
  BY <1>1, AtFacts DEF ProcState, Sound, Step
<1>4. Known(r) /\ Below(r)
  BY <1>1, AtFacts DEF ProcState, Known, Below
<1>5. proc[p].call \in Token /\ proc[p].call <= calls /\ lock' = proc[p].call
  BY <1>1, AtFacts DEF Acquire, IInv, ProcState, Token, Tied
<1>6. UNCHANGED <<path, alive, caller, calls, strayLocks, strayFiles, published, excuses>>
  BY DEF Acquire, Rest
<1>7. \A q \in Process : proc'[q] = IF q = p THEN r ELSE proc[q]
  BY <1>2, <1>3, Changed
<1>8. ASSUME NEW q \in Process, q # p, q \in alive, InTx(proc[q])
      PROVE  Guarded(proc[q].call)'
  <2>1. Guarded(proc[q].call) /\ proc[q].call # None /\ proc'[q] = proc[q]
    BY <1>7, <1>8, NoneApart DEF IInv, TypeOK, Token
  <2> QED
    BY <1>1, <1>3, <1>6, <1>7, <2>1, AtFacts DEF Guarded, Sound
<1>9. Guarded(r.call)'
  BY <1>3, <1>5 DEF Guarded
<1>10. strayLocks' \subseteq Token
  BY <1>6 DEF IInv, TypeOK
<1> QED
  BY <1>1, <1>2, <1>3, <1>4, <1>5, <1>6, <1>8, <1>9, <1>10, LockStep

\* A process moves the object at the lock path into its hands, or removes it.
LEMMA TakeAside ==
    ASSUME IInv, NEW p \in alive, NEW r \in ProcState, Sound(r), Known(r), Below(r),
           proc' = [proc EXCEPT ![p] = r], r.call \in {0, proc[p].call}, ~InTx(r),
           UNCHANGED <<path, alive, caller, calls, strayLocks, strayFiles, published, excuses>>,
           lock' = None, proc[p].heldLock = None,
           \/ r.heldLock = lock
           \/ lock = None
           \/ \A q \in Process : q # p /\ q \in alive /\ InTx(proc[q]) => lock # proc[q].call
    PROVE  IInv'
<1>1. p \in Process /\ strayLocks' \subseteq Token
  BY DEF IInv, TypeOK
<1>2. \A q \in Process : proc'[q] = IF q = p THEN r ELSE proc[q]
  BY <1>1, Changed
<1>3. ASSUME NEW q \in Process, q # p, q \in alive, InTx(proc[q])
      PROVE  Guarded(proc[q].call)'
  <2>1. Guarded(proc[q].call) /\ proc[q].call # None /\ proc'[q] = proc[q]
    BY <1>2, <1>3, NoneApart DEF IInv, TypeOK, Token
  <2>2. lock = proc[q].call => r.heldLock = proc[q].call
    BY <1>3, <2>1
  <2> QED
    BY <1>1, <1>2, <2>1, <2>2 DEF Guarded
<1> QED
  BY <1>1, <1>3, LockStep

LEMMA ReapStep ==
    ASSUME IInv, NEW p \in Process, Reap(p)
    PROVE  IInv'
<1>1. p \in alive /\ proc[p].at = "reap" /\ proc[p].heldLock = None /\ proc[p].call # 0
  BY AtFacts DEF Reap, At, Sound
<1>2. /\ lock' = None
      /\ UNCHANGED <<path, alive, caller, calls, strayLocks, strayFiles, published, excuses>>
  BY DEF Reap, Rest
<1>3. CASE lock \in {None, proc[p].observed}
  <2>1. PICK r : r = [proc[p] EXCEPT !.at = "acquire", !.observed = None]
    OBVIOUS
  <2>2. proc' = [proc EXCEPT ![p] = r]
    BY <1>1, <1>3, <2>1, AtFacts DEF Reap, ProcState
  <2>3. r \in ProcState /\ r.call = proc[p].call /\ r.at = "acquire" /\ r.heldLock = None
    <3>1. proc[p] \in ProcState /\ "acquire" \in Step
      BY <1>1, AtFacts DEF Step
    <3> QED
      BY <1>1, <2>1, <3>1 DEF ProcState
  <2>4. Sound(r) /\ Known(r) /\ Below(r) /\ ~InTx(r)
    BY <1>1, <2>1, <2>3, AtFacts DEF ProcState, Sound, Known, Below, InTx
  <2>5. ASSUME lock # None, NEW q \in Process, q \in alive, InTx(proc[q])
        PROVE  lock # proc[q].call
    <3>1. caller[lock] \notin alive
      BY <1>1, <1>3, <2>5, AtFacts DEF Known
    <3>2. caller[proc[q].call] = q
      BY <2>5 DEF IInv, Tied, InTx
    <3> QED
      BY <2>5, <3>1, <3>2
  <2> QED
    BY <1>1, <1>2, <2>2, <2>3, <2>4, <2>5, TakeAside
<1>4. CASE lock \notin {None, proc[p].observed}
  <2>1. PICK r : r = [proc[p] EXCEPT !.at = "putback", !.heldLock = lock]
    OBVIOUS
  <2>2. proc' = [proc EXCEPT ![p] = r]
    BY <1>1, <1>4, <2>1, AtFacts DEF Reap, ProcState
  <2>3. r \in ProcState /\ r.call = proc[p].call /\ r.at = "putback" /\ r.heldLock = lock
    <3>1. proc[p] \in ProcState /\ "putback" \in Step /\ lock \in Token \cup {None}
      BY <1>1, AtFacts DEF Step
    <3> QED
      BY <2>1, <3>1 DEF ProcState
  <2>4. Sound(r) /\ ~InTx(r)
    BY <1>1, <1>4, <2>3 DEF Sound, InTx
  <2>5. Known(r) /\ Below(r)
    BY <1>1, <1>4, <2>1, AtFacts DEF ProcState, Known, Below, IInv
  <2> QED
    BY <1>1, <1>2, <2>2, <2>3, <2>4, <2>5, TakeAside
<1> QED
  BY <1>3, <1>4

LEMMA ReleaseStep ==
    ASSUME IInv, NEW p \in Process, ReleaseLock(p)
    PROVE  IInv'
<1>1. p \in alive /\ proc[p].at = "release" /\ proc[p].heldLock = None /\ proc[p].call # 0
  BY AtFacts DEF ReleaseLock, At, Sound
<1>2. /\ lock' = None
      /\ UNCHANGED <<path, alive, caller, calls, strayLocks, strayFiles, published, excuses>>
  BY DEF ReleaseLock, Rest
<1>3. CASE lock \in {None, proc[p].call}
  <2>1. proc' = [proc EXCEPT ![p] = Idle]
    BY <1>3 DEF ReleaseLock
  <2>2. \A q \in Process : q # p /\ q \in alive => proc[p].call # proc[q].call
    BY <1>1, CallsApart
  <2> QED
    BY <1>1, <1>2, <1>3, <2>1, <2>2, IdleSound, TakeAside
<1>4. CASE lock \notin {None, proc[p].call}
  <2>1. PICK r : r = [proc[p] EXCEPT !.at = "putback", !.heldLock = lock]
    OBVIOUS
  <2>2. proc' = [proc EXCEPT ![p] = r]
    BY <1>1, <1>4, <2>1, AtFacts DEF ReleaseLock, ProcState
  <2>3. r \in ProcState /\ r.call = proc[p].call /\ r.at = "putback" /\ r.heldLock = lock
    <3>1. proc[p] \in ProcState /\ "putback" \in Step /\ lock \in Token \cup {None}
      BY <1>1, AtFacts DEF Step
    <3> QED
      BY <2>1, <3>1 DEF ProcState
  <2>4. Sound(r) /\ ~InTx(r)
    BY <1>1, <1>4, <2>3 DEF Sound, InTx
  <2>5. Known(r) /\ Below(r)
    BY <1>1, <1>4, <2>1, AtFacts DEF ProcState, Known, Below, IInv
  <2> QED
    BY <1>1, <1>2, <2>2, <2>3, <2>4, <2>5, TakeAside
<1> QED
  BY <1>3, <1>4

LEMMA PutBackStep ==
    ASSUME IInv, NEW p \in Process, PutBackLock(p)
    PROVE  IInv'
<1>1. p \in alive /\ proc[p].at = "putback" /\ proc[p].heldLock \in Token
         /\ proc[p].heldLock <= calls
  BY AtFacts DEF PutBackLock, At, Sound, Known, ProcState
<1>2. PICK r : r = IF proc[p].observed = None THEN Idle
                   ELSE [proc[p] EXCEPT !.at = "acquire", !.heldLock = None, !.observed = None]
  OBVIOUS
<1>3. proc' = [proc EXCEPT ![p] = r]
  BY <1>1, <1>2, AtFacts DEF PutBackLock
<1>4. r \in ProcState /\ r.heldLock = None /\ r.call \in {0, proc[p].call} /\ ~InTx(r)
  <2>1. proc[p] \in ProcState /\ "acquire" \in Step
    BY <1>1, AtFacts DEF Step
  <2>2. CASE proc[p].observed = None
    BY <1>2, <2>2, IdleSound
  <2>3. CASE proc[p].observed # None
    BY <1>2, <2>1, <2>3 DEF ProcState, InTx
  <2> QED
    BY <2>2, <2>3
<1>5. Sound(r) /\ Known(r) /\ Below(r)
  <2>1. CASE proc[p].observed = None
    BY <1>2, <2>1, IdleSound
  <2>2. CASE proc[p].observed # None
    BY <1>1, <1>2, <2>2, AtFacts DEF ProcState, Sound, Known, Below
  <2> QED
    BY <2>1, <2>2
<1>6. UNCHANGED <<path, alive, caller, calls, strayFiles, published, excuses>>
  BY DEF PutBackLock
<1>7. \/ lock = None /\ lock' = proc[p].heldLock /\ strayLocks' = strayLocks
      \/ lock # None /\ lock' = lock /\ strayLocks' = strayLocks \cup {proc[p].heldLock}
  BY DEF PutBackLock
<1>8. strayLocks' \subseteq Token /\ lock' \in Token \cup {None} /\ (lock' # None => lock' <= calls)
  BY <1>1, <1>7 DEF IInv, TypeOK
<1>9. \A q \in Process : proc'[q] = IF q = p THEN r ELSE proc[q]
  BY <1>3, <1>4, Changed
<1>10. ASSUME NEW q \in Process, q # p, q \in alive, InTx(proc[q])
       PROVE  Guarded(proc[q].call)'
  <2>1. Guarded(proc[q].call) /\ proc[q].call # None /\ proc'[q] = proc[q]
    BY <1>9, <1>10, NoneApart DEF IInv, TypeOK, Token
  <2> QED
    BY <1>1, <1>7, <1>9, <2>1 DEF Guarded
<1> QED
  BY <1>1, <1>3, <1>4, <1>5, <1>6, <1>8, <1>10, LockStep

LEMMA StartStep ==
    ASSUME IInv, NEW p \in Process, StartWrite(p)
    PROVE  IInv'
<1>1. /\ p \in alive /\ proc[p].at = "idle" /\ proc[p].heldLock = None
      /\ calls < MaxCall /\ calls' = calls + 1
  BY AtFacts DEF StartWrite, At, Sound
<1>2. calls \in 0 .. MaxCall /\ caller \in [Token -> Process \cup {Earlier, None}]
  BY DEF IInv, TypeOK
<1>3. calls' \in calls .. MaxCall /\ calls' # 0 /\ calls' \in Token /\ calls' <= MaxCall
  BY <1>1, <1>2, BoundAssumption DEF Token
<1>4. PICK r : r = [proc[p] EXCEPT !.at = "acquire", !.call = calls + 1]
  OBVIOUS
<1>5. proc' = [proc EXCEPT ![p] = r]
  BY <1>1, <1>4, AtFacts DEF StartWrite, ProcState
<1>6. r \in ProcState /\ r.at = "acquire" /\ r.heldLock = None /\ r.call = calls'
  <2>1. proc[p] \in ProcState /\ "acquire" \in Step /\ calls + 1 \in 0 .. MaxCall
    BY <1>1, <1>3, AtFacts DEF Step, Token
  <2> QED
    BY <1>1, <1>4, <2>1 DEF ProcState
<1>7. Sound(r) /\ ~InTx(r)
  BY <1>3, <1>6 DEF Sound, InTx
<1>8. Below(r)
  BY <1>1, <1>4, AtFacts DEF ProcState, Below
<1>9. caller' = [caller EXCEPT ![calls + 1] = p]
  BY DEF StartWrite
<1>10. caller' \in [Token -> Process \cup {Earlier, None}] /\ caller'[r.call] = p
  BY <1>1, <1>2, <1>3, <1>6, <1>9
<1>11. \A n \in Token : n <= calls => caller'[n] = caller[n] /\ n <= calls'
  BY <1>1, <1>2, <1>9, BoundAssumption DEF Token
<1>12. UNCHANGED <<lock, path, alive, strayLocks, strayFiles, published, excuses>>
  BY DEF StartWrite
<1>13. Tied(p, r)'
  BY <1>3, <1>6, <1>10 DEF Tied
<1>14. Known(r)'
  <2>1. r.observed = proc[p].observed /\ Known(proc[p]) /\ r.observed \in Token \cup {None}
    BY <1>1, <1>4, AtFacts DEF ProcState
  <2> QED
    BY <1>6, <1>11, <1>12, <2>1 DEF Known
<1>15. lock' \in Token \cup {None} /\ (lock' # None => lock' <= calls') /\ strayLocks' \subseteq Token
  BY <1>11, <1>12 DEF IInv, TypeOK
<1>16. \A q \in Process : proc'[q] = IF q = p THEN r ELSE proc[q]
  BY <1>5, <1>6, Changed
<1>17. ASSUME NEW q \in Process, q # p, q \in alive, InTx(proc[q])
       PROVE  Guarded(proc[q].call)'
  <2>1. Guarded(proc[q].call) /\ proc[q].call # None /\ proc'[q] = proc[q]
    BY <1>16, <1>17, NoneApart DEF IInv, TypeOK, Token
  <2> QED
    BY <1>1, <1>12, <1>16, <2>1 DEF Guarded
<1> QED
  BY <1>1, <1>3, <1>5, <1>6, <1>7, <1>8, <1>10, <1>11, <1>12, <1>13, <1>14, <1>15, <1>17, LockWork

LEMMA CrashStep ==
    ASSUME IInv, NEW p \in Process, Crash(p)
    PROVE  IInv'
<1>1. p \in alive /\ alive' = alive \ {p}
  BY DEF Crash
<1>2. PICK r : r = [Idle EXCEPT !.at = "dead", !.heldLock = proc[p].heldLock,
                    !.heldFile = proc[p].heldFile,
                    !.goal = IF proc[p].heldFile = None THEN -1 ELSE proc[p].goal]
  OBVIOUS
<1>3. proc' = [proc EXCEPT ![p] = r]
  BY <1>2 DEF Crash
<1>4. r \in ProcState /\ r.at = "dead" /\ r.heldLock = proc[p].heldLock /\ r.call = 0
         /\ r.observed = None /\ r.todo = {}
  <2>1. Idle \in ProcState /\ proc[p] \in ProcState
    BY <1>1, IdleSound, AtFacts
  <2> QED
    BY <1>2, <2>1, Goals DEF ProcState, Step, Idle
<1>5. Sound(r) /\ Below(r) /\ ~InTx(r)
  BY <1>4 DEF Sound, Below, InTx
<1>6. UNCHANGED <<lock, path, caller, calls, strayLocks, strayFiles, published, excuses>>
  BY DEF Crash
<1>7. Tied(p, r)' /\ Known(r)'
  <2>1. Known(proc[p])
    BY <1>1, AtFacts
  <2> QED
    BY <1>1, <1>4, <1>6, <2>1 DEF Tied, Known
<1>8. calls' \in calls .. MaxCall
  BY <1>6, BoundAssumption DEF IInv, TypeOK
<1>9. /\ lock' \in Token \cup {None} /\ (lock' # None => lock' <= calls')
      /\ strayLocks' \subseteq Token /\ caller' \in [Token -> Process \cup {Earlier, None}]
  BY <1>6 DEF IInv, TypeOK
<1>10. \A q \in Process : proc'[q] = IF q = p THEN r ELSE proc[q]
  BY <1>3, <1>4, Changed
<1>11. ASSUME NEW q \in Process, q # p, q \in alive, InTx(proc[q])
       PROVE  Guarded(proc[q].call)'
  <2>1. Guarded(proc[q].call) /\ proc'[q] = proc[q]
    BY <1>10, <1>11 DEF IInv
  <2> QED
    BY <1>4, <1>6, <1>10, <2>1 DEF Guarded
<1> QED
  BY <1>1, <1>3, <1>4, <1>5, <1>6, <1>7, <1>8, <1>9, <1>11, LockWork

\* Foreign bytes land on a path: nothing disappears.
LEMMA IntrudeStays ==
    ASSUME IInv, NEW f \in Foreign, NEW g \in Generation, Intrude(f, g)
    PROVE  path' \in Paths /\ (Latest = -1 \/ path'[Latest] # None) /\ path \in Paths
<1>1. path \in Paths /\ path' = [path EXCEPT ![g] = f]
  BY DEF IInv, TypeOK, Paths, Intrude
<1>2. f \in Content /\ f # None
  BY NoneApart DEF Content
<1> QED
  BY <1>1, <1>2, LatestIs DEF Paths

LEMMA IntrudeStep ==
    ASSUME IInv, NEW f \in Foreign, NEW g \in Generation, Intrude(f, g)
    PROVE  IInv'
<1>1. /\ path' \in Paths /\ path \in Paths /\ Latest' >= Latest
      /\ Latest \in -1 .. MaxGeneration /\ Latest' \in -1 .. MaxGeneration
  BY IntrudeStays, LatestGrows, LatestIs, LatestIsNext
<1>2. /\ UNCHANGED <<lock, alive, caller, calls, proc, strayLocks, strayFiles, published>>
      /\ excuses' = excuses \cup {"foreign"}
  BY DEF Intrude
<1>3. TypeOK'
  BY <1>1, <1>2 DEF IInv, TypeOK, Paths
<1>4. ASSUME NEW q \in Process
      PROVE  Below(proc[q])'
  <2>1. Below(proc[q]) /\ proc[q].todo \subseteq Generation
    BY DEF IInv, TypeOK
  <2>2. \A h \in proc[q].todo : h < Latest'
    BY <1>1, <2>1, BoundAssumption DEF Below, Generation
  <2> QED
    BY <1>2, <2>2 DEF Below
<1>5. ASSUME NEW q \in Process
      PROVE  Tied(q, proc[q])' /\ Known(proc[q])' /\ (Guarded(proc[q].call) => Guarded(proc[q].call)')
  BY <1>2 DEF IInv, Tied, Known, Guarded
<1> QED
  BY <1>2, <1>3, <1>4, <1>5 DEF IInv, Sound, InTx
-----------------------------------------------------------------------------
(* The theorems *)

LEMMA StepInvariant ==
    ASSUME IInv, [Next]_vars
    PROVE  IInv'
<1>1. CASE \E p \in Process : Purge(p) \/ ObserveDeadOwner(p) \/ AcquireTimesOut(p) \/ ListLatest(p)
                              \/ Load(p) \/ Number(p)
  BY <1>1, PurgeStep, ObserveStep, TimeoutStep, ListStep, LoadStep, NumberStep
<1>2. CASE \E p \in Process : Publish(p) \/ ListOld(p) \/ QuarantineOld(p) \/ Judge(p) \/ Reshelve(p)
  BY <1>2, PublishStep, ListOldStep, QuarantineOldStep, JudgeStep, ReshelveStep
<1>3. CASE \E p \in Process : StartWrite(p) \/ Crash(p) \/ Acquire(p) \/ Reap(p) \/ PutBackLock(p)
                              \/ ReleaseLock(p)
  BY <1>3, StartStep, CrashStep, AcquireStep, ReapStep, PutBackStep, ReleaseStep
<1>4. CASE \E f \in Foreign, g \in Generation : Intrude(f, g)
  BY <1>4, IntrudeStep
<1>5. CASE UNCHANGED vars
  <2>1. Latest' = Latest
    BY <1>5 DEF vars, Latest, Occupied
  <2> QED
    BY <1>5, <2>1 DEF vars, IInv, TypeOK, Tied, Known, Below, Guarded, Sound, InTx
<1> QED
  BY <1>1, <1>2, <1>3, <1>4, <1>5 DEF Next

THEOREM Invariant == Spec => []IInv
BY InitInvariant, StepInvariant, PTL DEF Spec

\* The state keeps its shape, whatever the processes, the contents and the bounds.
THEOREM TypeCorrect == Spec => []TypeOK
<1>1. IInv => TypeOK
  BY DEF IInv
<1> QED
  BY <1>1, Invariant, PTL

\* The lock object of a live process in a transaction is never destroyed: it is
\* at the lock path, or set aside by a process that mistook it (the recheck of
\* cache.ts after the rename, lines 537-541).
THEOREM LiveLocksKept == Spec => []LiveLockKept
<1>1. IInv => LiveLockKept
  BY DEF IInv, InTx, Guarded, LiveLockKept, InTransaction
<1> QED
  BY <1>1, Invariant, PTL

\* The number of the latest generation never falls, but for generation zero in a
\* purge: a reader or writer never takes an older generation for the latest.
THEOREM LatestHolds == Spec => LatestKept
<1>1. ASSUME IInv, [Next]_vars
      PROVE  Latest' >= Latest \/ Latest = 0
  <2>1. path \in Paths /\ Latest \in -1 .. MaxGeneration
    BY <1>1, LatestIs DEF IInv, TypeOK, Paths
  <2>2. CASE path' = path
    BY <2>1, <2>2, BoundAssumption DEF Latest, Occupied
  <2>3. CASE \E p \in Process : Purge(p) \/ Publish(p) \/ QuarantineOld(p) \/ Reshelve(p)
    BY <1>1, <2>1, <2>3, LatestStays, LatestGrows
  <2>4. CASE \E f \in Foreign, g \in Generation : Intrude(f, g)
    BY <1>1, <2>4, IntrudeStays, LatestGrows
  <2>5. [Next]_vars => path' = path
            \/ (\E p \in Process : Purge(p) \/ Publish(p) \/ QuarantineOld(p) \/ Reshelve(p))
            \/ (\E f \in Foreign, g \in Generation : Intrude(f, g))
    BY DEF Next, vars, StartWrite, Crash, Acquire, ObserveDeadOwner, AcquireTimesOut, Reap,
           PutBackLock, ReleaseLock, ListLatest, Load, Number, ListOld, Judge
  <2> QED
    BY <1>1, <2>2, <2>3, <2>4, <2>5
<1> QED
  BY <1>1, Invariant, PTL DEF Spec, LatestKept
-----------------------------------------------------------------------------
(* The directory implements the shelf                                      *)
(*                                                                         *)
(* A retiring process may be late: what it moves and deletes was listed    *)
(* before, and other writers, retirements and foreign bytes came between.  *)
(* RInv says why it still deletes only below the newest two places: a      *)
(* generation once Covered stays Covered, because whatever covers it can   *)
(* itself only go when it is covered.                                      *)

\* Two higher places are taken.
Covered(g) == \E h, k \in Generation : g < h /\ h < k /\ Shelved(h) # {} /\ Shelved(k) # {}

\* A call that has not published, and may.
Unpublished(r) ==
    /\ r.call # 0
    /\ \/ r.at \in {"acquire", "reap", "list", "load", "number", "publish"}
       \/ r.at = "putback" /\ r.observed # None

\* What a process holds and remembers of the directory.
Handled(p, r) ==
    /\ r.heldFile # None => r.at \in {"judge", "reshelve", "dead"} /\ r.goal \in Generation
    /\ r.at \in {"judge", "reshelve"} /\ r.call = 0 => r.goal = 0
    /\ r.observed # None => r.at \in {"reap", "putback"}
    /\ r.entries \subseteq published
    /\ p \in alive /\ Unpublished(r) => r.call \notin published
    /\ \A g \in r.todo : Covered(g)
    /\ r.at \in {"judge", "reshelve"} /\ r.call # 0 => Covered(r.goal)

RInv ==
    /\ published \subseteq 1 .. calls
    /\ \A g \in Generation : \A o \in Shelved(g) \cap Sealed : o \subseteq published
    /\ \A p \in Process : Handled(p, proc[p])

\* A process with record r keeps object o, which belongs to place g.
InHand(r, g, o) == r.heldFile # None /\ r.goal = g /\ r.heldFile = o

Others(p, g, o) == \E q \in Process \ {p} : InHand(proc[q], g, o)

LEMMA ShelvedNow ==
    ASSUME strayFiles \subseteq Generation \X Content, NEW g, NEW o
    PROVE  o \in Shelved(g) <=> \/ path[g] = o /\ o # None
                                \/ \E q \in Process : InHand(proc[q], g, o)
                                \/ <<g, o>> \in strayFiles
<1>1. o \in {s[2] : s \in {t \in strayFiles : t[1] = g}} <=> <<g, o>> \in strayFiles
  OBVIOUS
<1>2. o \in {proc[p].heldFile : p \in {q \in Process : proc[q].heldFile # None
                                                    /\ proc[q].goal = g}}
        <=> \E q \in Process : InHand(proc[q], g, o)
  BY DEF InHand
<1>3. o \in {path[g]} \ {None} <=> path[g] = o /\ o # None
  OBVIOUS
<1> QED
  BY <1>1, <1>2, <1>3 DEF Shelved

LEMMA ShelvedNext ==
    ASSUME strayFiles' \subseteq Generation \X Content, NEW g, NEW o
    PROVE  o \in Shelved(g)' <=> \/ path'[g] = o /\ o # None
                                 \/ \E q \in Process : InHand(proc'[q], g, o)
                                 \/ <<g, o>> \in strayFiles'
<1>1. o \in {s[2] : s \in {t \in strayFiles' : t[1] = g}} <=> <<g, o>> \in strayFiles'
  OBVIOUS
<1>2. o \in {proc'[p].heldFile : p \in {q \in Process : proc'[q].heldFile # None
                                                    /\ proc'[q].goal = g}}
        <=> \E q \in Process : InHand(proc'[q], g, o)
  BY DEF InHand
<1>3. o \in {path'[g]} \ {None} <=> path'[g] = o /\ o # None
  OBVIOUS
<1> QED
  BY <1>1, <1>2, <1>3 DEF Shelved

\* What is on the shelf before and after a step of p.
LEMMA Moved ==
    ASSUME IInv, IInv', NEW p \in Process, NEW r \in ProcState, proc' = [proc EXCEPT ![p] = r],
           NEW g, NEW o
    PROVE  /\ o \in Shelved(g) <=> \/ path[g] = o /\ o # None
                                   \/ InHand(proc[p], g, o) \/ Others(p, g, o)
                                   \/ <<g, o>> \in strayFiles
           /\ o \in Shelved(g)' <=> \/ path'[g] = o /\ o # None
                                    \/ InHand(r, g, o) \/ Others(p, g, o)
                                    \/ <<g, o>> \in strayFiles'
<1>1. strayFiles \subseteq Generation \X Content /\ strayFiles' \subseteq Generation \X Content
  BY DEF IInv, TypeOK
<1>2. \A q \in Process : proc'[q] = IF q = p THEN r ELSE proc[q]
  BY Changed
<1> QED
  BY <1>1, <1>2, ShelvedNow, ShelvedNext DEF Others

Still == \A g \in Generation : Shelved(g)' = Shelved(g)

CoverStays == \A g \in Generation : Covered(g) => Covered(g)'

LEMMA StillCovers ==
    ASSUME Still
    PROVE  CoverStays
BY DEF Still, CoverStays, Covered

\* A process that keeps what is in its hands, and touches no path.
LEMMA Quiet ==
    ASSUME IInv, IInv', NEW p \in Process, NEW r \in ProcState, proc' = [proc EXCEPT ![p] = r],
           UNCHANGED <<path, strayFiles>>,
           r.heldFile = proc[p].heldFile, r.heldFile = None \/ r.goal = proc[p].goal
    PROVE  Still
<1>1. ASSUME NEW g \in Generation, NEW o
      PROVE  o \in Shelved(g)' <=> o \in Shelved(g)
  <2>1. InHand(r, g, o) <=> InHand(proc[p], g, o)
    BY DEF InHand
  <2> QED
    BY <2>1, Moved
<1> QED
  BY <1>1 DEF Still

\* Any step of one process, in terms of what it leaves behind.
LEMMA AnyWork ==
    ASSUME IInv, IInv', RInv, NEW p \in Process, NEW r \in ProcState,
           proc' = [proc EXCEPT ![p] = r], alive' \subseteq alive, CoverStays,
           published \subseteq published', published' \subseteq 1 .. calls',
           \A g \in Generation : \A o \in Shelved(g)' \cap Sealed : o \subseteq published',
           \A q \in alive : q # p /\ Unpublished(proc[q]) => proc[q].call \notin published',
           Handled(p, r)'
    PROVE  RInv'
<1>1. \A q \in Process : proc'[q] = IF q = p THEN r ELSE proc[q]
  BY Changed
<1>2. ASSUME NEW q \in Process, q # p
      PROVE  Handled(q, proc[q])'
  <2>1. Handled(q, proc[q]) /\ proc'[q] = proc[q]
    BY <1>1, <1>2 DEF RInv
  <2>2. proc[q].todo \subseteq Generation
    BY DEF IInv, TypeOK
  <2>3. \A g \in proc[q].todo : Covered(g)'
    BY <2>1, <2>2 DEF Handled, CoverStays
  <2>4. proc[q].at \in {"judge", "reshelve"} => proc[q].goal \in Generation
    BY DEF IInv, Sound
  <2>5. proc[q].at \in {"judge", "reshelve"} /\ proc[q].call # 0 => Covered(proc[q].goal)'
    BY <2>1, <2>4 DEF Handled, CoverStays
  <2>6. q \in alive' /\ Unpublished(proc[q]) => proc[q].call \notin published'
    BY <1>2
  <2> QED
    BY <2>1, <2>3, <2>5, <2>6 DEF Handled
<1>3. Handled(p, proc[p])'
  BY <1>1 DEF Handled
<1> QED
  BY <1>2, <1>3 DEF RInv

LEMMA QuietWork ==
    ASSUME IInv, IInv', RInv, NEW p \in Process, NEW r \in ProcState,
           proc' = [proc EXCEPT ![p] = r], alive' \subseteq alive, calls' >= calls,
           UNCHANGED <<path, strayFiles, published>>,
           r.heldFile = proc[p].heldFile, r.heldFile = None \/ r.goal = proc[p].goal,
           Handled(p, r)
    PROVE  Still /\ RInv'
<1>1. Still /\ CoverStays
  BY Quiet, StillCovers
<1>2. published' \subseteq 1 .. calls'
  BY BoundAssumption DEF IInv, TypeOK, RInv
<1>3. \A g \in Generation : \A o \in Shelved(g)' \cap Sealed : o \subseteq published'
  BY <1>1 DEF RInv, Still
<1>4. \A q \in alive : q # p /\ Unpublished(proc[q]) => proc[q].call \notin published'
  BY DEF IInv, TypeOK, RInv, Handled
<1>5. Handled(p, r)'
  <2>1. r.todo \subseteq Generation /\ \A g \in r.todo : Covered(g)
    BY DEF ProcState, Handled
  <2>2. \A g \in r.todo : Covered(g)'
    BY <1>1, <2>1 DEF CoverStays
  <2>3. Sound(r)
    BY Changed DEF IInv
  <2>4. r.at \in {"judge", "reshelve"} /\ r.call # 0 => Covered(r.goal)'
    BY <1>1, <2>3 DEF CoverStays, Handled, Sound
  <2> QED
    BY <2>2, <2>4 DEF Handled
<1> QED
  BY <1>1, <1>2, <1>3, <1>4, <1>5, AnyWork

\* What is known of a process that takes a step and comes out with record r.
LEMMA OwnFacts ==
    ASSUME IInv, IInv', RInv, NEW p \in alive, NEW X, proc' = [proc EXCEPT ![p] = X]
    PROVE  /\ p \in Process /\ X \in ProcState /\ proc[p] \in ProcState
           /\ Sound(proc[p]) /\ Handled(p, proc[p]) /\ Sound(X)
<1>1. p \in Process /\ proc \in [Process -> ProcState] /\ proc' \in [Process -> ProcState]
  BY DEF IInv, TypeOK, ProcState
<1>2. proc'[p] = X
  BY <1>1
<1> QED
  BY <1>1, <1>2 DEF IInv, RInv

LEMMA IdleHandled == \A p : Handled(p, Idle)
BY DEF Handled, Idle, Unpublished

\* Starting a call, waiting, and moving lock objects.
LEMMA LockQuiet ==
    ASSUME IInv, IInv', RInv, NEW p \in Process,
           \/ Acquire(p) \/ ObserveDeadOwner(p) \/ AcquireTimesOut(p)
           \/ Reap(p) \/ PutBackLock(p) \/ ReleaseLock(p)
    PROVE  Still /\ RInv'
<1>1. p \in alive /\ proc[p].at \in {"acquire", "reap", "putback", "release"} /\ proc \in [Process -> ProcState]
  BY DEF Acquire, ObserveDeadOwner, AcquireTimesOut, Reap, PutBackLock, ReleaseLock, At, IInv, TypeOK, ProcState
<1>2. UNCHANGED <<path, alive, calls, strayFiles, published>>
  BY DEF Acquire, ObserveDeadOwner, AcquireTimesOut, Reap, PutBackLock, ReleaseLock, Rest
<1>3. proc[p] \in ProcState /\ Handled(p, proc[p]) /\ proc[p].heldFile = None /\ calls' >= calls
  BY <1>1, <1>2, BoundAssumption DEF RInv, Handled, IInv, TypeOK, ProcState
<1>4. ASSUME NEW r, proc' = [proc EXCEPT ![p] = r], Handled(p, r), r.heldFile = None
      PROVE  Still /\ RInv'
  <2>1. r \in ProcState
    BY <1>1, <1>4, OwnFacts
  <2> QED
    BY <1>2, <1>3, <1>4, <2>1, QuietWork
<1>5. CASE proc' = [proc EXCEPT ![p] = Idle]
  BY <1>4, <1>5, IdleHandled, IdleSound DEF Idle
<1>6. CASE Acquire(p)
  <2>1. PICK r : r = [proc[p] EXCEPT !.at = "list"]
    OBVIOUS
  <2>2. proc' = [proc EXCEPT ![p] = r]
    BY <1>1, <1>6, <2>1 DEF Acquire, GoTo, ProcState
  <2>3. proc[p].at = "acquire"
    BY <1>6 DEF Acquire, At
  <2>4. Handled(p, r) /\ r.heldFile = None
    BY <1>1, <1>3, <2>1, <2>3 DEF Handled, Unpublished, ProcState
  <2> QED
    BY <1>4, <2>2, <2>4
<1>7. CASE ObserveDeadOwner(p)
  <2>1. PICK r : r = [proc[p] EXCEPT !.at = "reap", !.observed = lock]
    OBVIOUS
  <2>2. proc' = [proc EXCEPT ![p] = r]
    BY <1>1, <1>7, <2>1 DEF ObserveDeadOwner, ProcState
  <2>3. proc[p].at = "acquire"
    BY <1>7 DEF ObserveDeadOwner, At
  <2>4. Handled(p, r) /\ r.heldFile = None
    BY <1>1, <1>3, <2>1, <2>3 DEF Handled, Unpublished, ProcState
  <2> QED
    BY <1>4, <2>2, <2>4
<1>8. CASE Reap(p)
  <2>1. PICK r : \/ r = [proc[p] EXCEPT !.at = "acquire", !.observed = None]
                 \/ r = [proc[p] EXCEPT !.at = "putback", !.heldLock = lock]
         /\ proc' = [proc EXCEPT ![p] = r]
    BY <1>1, <1>8 DEF Reap, ProcState
  <2>2. proc[p].at = "reap"
    BY <1>8 DEF Reap, At
  <2>3. Handled(p, r) /\ r.heldFile = None
    BY <1>1, <1>3, <2>1, <2>2, ZenonT(60) DEF Handled, Unpublished, ProcState
  <2> QED
    BY <1>4, <2>1, <2>3
<1>9. CASE PutBackLock(p)
  <2>1. CASE proc[p].observed = None
    BY <1>5, <1>9, <2>1 DEF PutBackLock
  <2>2. CASE proc[p].observed # None
    <3>1. PICK r : r = [proc[p] EXCEPT !.at = "acquire", !.heldLock = None, !.observed = None]
      OBVIOUS
    <3>2. proc' = [proc EXCEPT ![p] = r]
      BY <1>1, <1>9, <2>2, <3>1 DEF PutBackLock, ProcState
    <3>3. proc[p].at = "putback"
      BY <1>9 DEF PutBackLock, At
    <3>4. Handled(p, r) /\ r.heldFile = None
      BY <1>1, <1>3, <2>2, <3>1, <3>3 DEF Handled, Unpublished, ProcState
    <3> QED
      BY <1>4, <3>2, <3>4
  <2> QED
    BY <2>1, <2>2
<1>10. CASE ReleaseLock(p)
  <2>1. CASE lock \in {None, proc[p].call}
    BY <1>5, <1>10, <2>1 DEF ReleaseLock
  <2>2. CASE lock \notin {None, proc[p].call}
    <3>1. PICK r : r = [proc[p] EXCEPT !.at = "putback", !.heldLock = lock]
      OBVIOUS
    <3>2. proc' = [proc EXCEPT ![p] = r]
      BY <1>1, <1>10, <2>2, <3>1 DEF ReleaseLock, ProcState
    <3>3. proc[p].at = "release"
      BY <1>10 DEF ReleaseLock, At
    <3>4. Handled(p, r) /\ r.heldFile = None
      BY <1>1, <1>3, <3>1, <3>3 DEF Handled, Unpublished, ProcState
    <3> QED
      BY <1>4, <3>2, <3>4
  <2> QED
    BY <2>1, <2>2
<1> QED
  BY <1>5, <1>6, <1>7, <1>8, <1>9, <1>10 DEF AcquireTimesOut

\* Three or more of the places from g up are taken if two above g are.
LEMMA OldCovered ==
    ASSUME path \in Paths, NEW g \in Old
    PROVE  g \in Generation /\ Covered(g)
<1> DEFINE H == {h \in Occupied : h > g}
<1>1. g \in Generation /\ H \in SUBSET Generation
  BY DEF Old, Occupied
<1>2. Cardinality(H) >= 2
  BY DEF Old, RETAINED_AUTHENTICATED_GENERATIONS
<1>3. PICK h \in H : \A x : H \subseteq {x} => FALSE
  <2>1. H # {}
    BY <1>2, FS_EmptySet
  <2>2. ASSUME NEW x, H \subseteq {x}
        PROVE  FALSE
    <3>1. H = {x}
      BY <2>1, <2>2
    <3>2. Cardinality({x}) = 1
      BY FS_Singleton
    <3> QED
      BY <1>2, <3>1, <3>2
  <2> QED
    BY <2>1, <2>2
<1>4. PICK k \in H : k # h
  BY <1>3
<1>5. /\ h \in Generation /\ k \in Generation /\ h > g /\ k > g
      /\ path[h] # None /\ path[k] # None
  BY <1>1 DEF Occupied
<1>6. Shelved(h) # {} /\ Shelved(k) # {}
  BY <1>5 DEF Shelved
<1>7. h < k \/ k < h
  BY <1>4, <1>5, BoundAssumption DEF Generation
<1> QED
  BY <1>1, <1>5, <1>6, <1>7 DEF Covered, Generation

LEMMA StartQuiet ==
    ASSUME IInv, IInv', RInv, NEW p \in Process, StartWrite(p)
    PROVE  Still /\ RInv'
<1>1. p \in alive /\ proc[p].at = "idle" /\ calls \in Nat
  BY BoundAssumption DEF StartWrite, At, IInv, TypeOK
<1>2. PICK r : r = [proc[p] EXCEPT !.at = "acquire", !.call = calls + 1]
  OBVIOUS
<1>3. proc[p] \in ProcState /\ Handled(p, proc[p])
  BY <1>1 DEF RInv, IInv, TypeOK, ProcState
<1>4. proc' = [proc EXCEPT ![p] = r]
  BY <1>1, <1>2 DEF StartWrite, IInv, TypeOK
<1>5. r \in ProcState
  BY <1>1, <1>4, OwnFacts
<1>6. Handled(p, r) /\ r.heldFile = None /\ proc[p].heldFile = None
  <2>1. calls + 1 \notin published
    BY <1>1 DEF RInv
  <2> QED
    BY <1>1, <1>2, <1>3, <2>1 DEF Handled, ProcState
<1>7. UNCHANGED <<path, alive, strayFiles, published>> /\ calls' >= calls
  BY <1>1 DEF StartWrite
<1> QED
  BY <1>4, <1>5, <1>6, <1>7, QuietWork

LEMMA CrashQuiet ==
    ASSUME IInv, IInv', RInv, NEW p \in Process, Crash(p)
    PROVE  Still /\ RInv'
<1>1. p \in alive /\ proc[p] \in ProcState /\ Handled(p, proc[p])
  BY DEF Crash, RInv, IInv, TypeOK, ProcState
<1>2. PICK r : r = [Idle EXCEPT !.at = "dead", !.heldLock = proc[p].heldLock,
                    !.heldFile = proc[p].heldFile,
                    !.goal = IF proc[p].heldFile = None THEN -1 ELSE proc[p].goal]
  OBVIOUS
<1>3. proc' = [proc EXCEPT ![p] = r]
  BY <1>2 DEF Crash
<1>4. r \in ProcState
  BY <1>1, <1>3, OwnFacts
<1>5. r.heldFile = proc[p].heldFile /\ (r.heldFile = None \/ r.goal = proc[p].goal)
  BY <1>1, <1>2 DEF Idle
<1>6. Handled(p, r)
  BY <1>1, <1>2, <1>5 DEF Handled, Idle, Unpublished
<1>7. UNCHANGED <<path, strayFiles, published>> /\ alive' \subseteq alive /\ calls' >= calls
  BY BoundAssumption DEF Crash, IInv, TypeOK
<1> QED
  BY <1>3, <1>4, <1>5, <1>6, <1>7, QuietWork

\* Reading and listing the directory, and looking at what was moved.
LEMMA WriteQuiet ==
    ASSUME IInv, IInv', RInv, NEW p \in Process,
           \/ ListLatest(p) \/ Load(p) \/ Number(p) \/ ListOld(p)
           \/ Publish(p) /\ path[proc[p].goal] # None
           \/ Judge(p) /\ ~Condemned(p)
    PROVE  Still /\ RInv'
<1>1. p \in alive /\ proc[p].at \in {"list", "load", "number", "prune", "publish", "judge"}
         /\ proc \in [Process -> ProcState]
  BY DEF ListLatest, Load, Number, ListOld, Publish, Judge, At, IInv, TypeOK, ProcState
<1>2. UNCHANGED <<path, alive, calls, strayFiles, published>>
  BY DEF ListLatest, Load, Number, ListOld, Publish, Judge, Rest
<1>3. proc[p] \in ProcState /\ Handled(p, proc[p]) /\ calls' >= calls
  BY <1>1, <1>2, BoundAssumption DEF RInv, IInv, TypeOK, ProcState
<1>4. ASSUME NEW r, proc' = [proc EXCEPT ![p] = r], Handled(p, r),
             r.heldFile = proc[p].heldFile, r.heldFile = None \/ r.goal = proc[p].goal
      PROVE  Still /\ RInv'
  <2>1. r \in ProcState
    BY <1>1, <1>4, OwnFacts
  <2> QED
    BY <1>2, <1>3, <1>4, <2>1, QuietWork
<1>5. CASE ListLatest(p)
  <2>1. PICK r : r = [proc[p] EXCEPT !.at = "load", !.goal = Latest]
    OBVIOUS
  <2>2. proc' = [proc EXCEPT ![p] = r]
    BY <1>1, <1>5, <2>1 DEF ListLatest, ProcState
  <2>3. proc[p].at = "list"
    BY <1>5 DEF ListLatest, At
  <2>4. Handled(p, r) /\ r.heldFile = None /\ proc[p].heldFile = None
    BY <1>1, <1>3, <2>1, <2>3 DEF Handled, Unpublished, ProcState
  <2> QED
    BY <1>4, <2>2, <2>4
<1>6. CASE Load(p)
  <2>1. proc[p].at = "load" /\ path \in Paths /\ strayFiles \subseteq Generation \X Content
    BY <1>6 DEF Load, At, IInv, TypeOK, Paths
  <2>2. CASE proc[p].goal # -1 /\ path[proc[p].goal] = None
    <3>1. PICK r : r = [proc[p] EXCEPT !.at = "release", !.goal = -1]
      OBVIOUS
    <3>2. proc' = [proc EXCEPT ![p] = r]
      BY <1>1, <1>6, <2>2, <3>1 DEF Load, ProcState
    <3>3. Handled(p, r) /\ r.heldFile = None /\ proc[p].heldFile = None
      BY <1>1, <1>3, <2>1, <3>1 DEF Handled, Unpublished, ProcState
    <3> QED
      BY <1>4, <3>2, <3>3
  <2>3. CASE ~(proc[p].goal # -1 /\ path[proc[p].goal] = None)
    <3>1. PICK o : o = IF proc[p].goal = -1 THEN None ELSE path[proc[p].goal]
      OBVIOUS
    <3>2. PICK r : r = [proc[p] EXCEPT !.at = "number", !.goal = -1, !.entries = Entries(o)]
      OBVIOUS
    <3>3. proc' = [proc EXCEPT ![p] = r]
      BY <1>1, <1>6, <2>3, <3>1, <3>2 DEF Load, ProcState
    <3>4. Entries(o) \subseteq published
      <4>1. CASE o \in Sealed
        <5>1. o # None /\ o \in Content
          BY <4>1, NoneApart DEF Content
        <5>2. proc[p].goal \in Generation /\ path[proc[p].goal] = o
          BY <1>3, <3>1, <5>1, BoundAssumption DEF ProcState, Generation
        <5>3. o \in Shelved(proc[p].goal)
          BY <2>1, <5>1, <5>2, ShelvedNow
        <5> QED
          BY <4>1, <5>2, <5>3 DEF RInv, Entries, Authenticated
      <4> QED
        BY <4>1 DEF Entries, Authenticated
    <3>5. Handled(p, r) /\ r.heldFile = None /\ proc[p].heldFile = None
      BY <1>1, <1>3, <2>1, <3>2, <3>4 DEF Handled, Unpublished, ProcState
    <3> QED
      BY <1>4, <3>3, <3>5
  <2> QED
    BY <2>2, <2>3
<1>7. CASE Number(p)
  <2>1. PICK r : r = [proc[p] EXCEPT !.at = "publish", !.goal = Latest + 1]
    OBVIOUS
  <2>2. proc' = [proc EXCEPT ![p] = r]
    BY <1>1, <1>7, <2>1 DEF Number, ProcState
  <2>3. proc[p].at = "number"
    BY <1>7 DEF Number, At
  <2>4. Handled(p, r) /\ r.heldFile = None /\ proc[p].heldFile = None
    BY <1>1, <1>3, <2>1, <2>3 DEF Handled, Unpublished, ProcState
  <2> QED
    BY <1>4, <2>2, <2>4
<1>8. CASE ListOld(p)
  <2>1. PICK r : r = [proc[p] EXCEPT !.at = IF Old = {} THEN "release" ELSE "retire", !.todo = Old]
    OBVIOUS
  <2>2. proc' = [proc EXCEPT ![p] = r]
    BY <1>1, <1>8, <2>1 DEF ListOld, ProcState
  <2>3. proc[p].at = "prune"
    BY <1>8 DEF ListOld, At
  <2>4. path \in Paths
    BY DEF IInv, TypeOK, Paths
  <2>5. \A g \in Old : Covered(g)
    BY <2>4, OldCovered
  <2>6. r.todo = Old /\ r.at \in {"release", "retire"} /\ r.heldFile = proc[p].heldFile
          /\ r.entries = proc[p].entries /\ r.observed = proc[p].observed
    BY <1>3, <2>1 DEF ProcState
  <2>7. Handled(p, r) /\ r.heldFile = None /\ proc[p].heldFile = None
    BY <1>1, <1>3, <2>3, <2>5, <2>6 DEF Handled, Unpublished
  <2> QED
    BY <1>4, <2>2, <2>7
<1>9. CASE Publish(p) /\ path[proc[p].goal] # None
  <2>1. PICK r : r = [proc[p] EXCEPT !.at = "number", !.goal = -1]
    OBVIOUS
  <2>2. proc' = [proc EXCEPT ![p] = r]
    BY <1>1, <1>9, <2>1 DEF Publish, ProcState
  <2>3. proc[p].at = "publish"
    BY <1>9 DEF Publish, At
  <2>4. Handled(p, r) /\ r.heldFile = None /\ proc[p].heldFile = None
    BY <1>1, <1>3, <2>1, <2>3 DEF Handled, Unpublished, ProcState
  <2> QED
    BY <1>4, <2>2, <2>4
<1>10. CASE Judge(p) /\ ~Condemned(p)
  <2>1. PICK r : r = [proc[p] EXCEPT !.at = "reshelve"]
    OBVIOUS
  <2>2. proc' = [proc EXCEPT ![p] = r]
    BY <1>1, <1>10, <2>1 DEF Judge, GoTo, ProcState
  <2>3. proc[p].at = "judge"
    BY <1>10 DEF Judge, At
  <2>4. Handled(p, r) /\ r.heldFile = proc[p].heldFile /\ r.goal = proc[p].goal
    BY <1>1, <1>3, <2>1, <2>3 DEF Handled, Unpublished, ProcState
  <2> QED
    BY <1>4, <2>2, <2>4
<1> QED
  BY <1>5, <1>6, <1>7, <1>8, <1>9, <1>10

\* What a step that touches the files, but adds and deletes nothing, leaves.
LEMMA MoveWork ==
    ASSUME IInv, IInv', RInv, NEW p \in alive, NEW r, proc' = [proc EXCEPT ![p] = r],
           UNCHANGED <<alive, calls, published>>, Still, Handled(p, r)
    PROVE  RInv'
<1>1. p \in Process /\ r \in ProcState /\ Sound(r)
  BY OwnFacts
<1>2. CoverStays
  BY StillCovers
<1>3. published' \subseteq 1 .. calls'
  BY DEF RInv
<1>4. \A g \in Generation : \A o \in Shelved(g)' \cap Sealed : o \subseteq published'
  BY DEF RInv, Still
<1>5. \A q \in alive : q # p /\ Unpublished(proc[q]) => proc[q].call \notin published'
  BY DEF IInv, TypeOK, RInv, Handled
<1>6. Handled(p, r)'
  BY <1>1, <1>2 DEF Handled, CoverStays, ProcState, Sound
<1> QED
  BY <1>1, <1>2, <1>3, <1>4, <1>5, <1>6, AnyWork

\* A purge begins: what was at the path of generation zero is in quarantine.
LEMMA PurgeMoves ==
    ASSUME IInv, IInv', RInv, NEW p \in Process, Purge(p)
    PROVE  Still /\ RInv'
<1> p \in alive /\ proc[p].at = "fresh"
  BY DEF Purge, At
<1>1. /\ p \in alive /\ proc[p].at = "fresh" /\ proc[p].heldFile = None /\ path \in Paths
      /\ 0 \in Generation
  BY AtFacts, BoundAssumption DEF RInv, Handled, Generation
<1>2. UNCHANGED <<alive, calls, published, strayFiles>>
  BY DEF Purge, Rest
<1>3. CASE path[0] = None
  <2>1. proc' = [proc EXCEPT ![p] = Idle] /\ path' = path
    BY <1>3 DEF Purge
  <2>2. Idle.heldFile = None
    BY DEF Idle
  <2>3. Still
    BY <1>1, <1>2, <2>1, <2>2, IdleSound, Quiet
  <2> QED
    BY <1>1, <1>2, <2>1, <2>3, IdleHandled, MoveWork
<1>4. CASE path[0] # None
  <2>1. PICK r : r = [Idle EXCEPT !.at = "judge", !.goal = 0, !.heldFile = path[0]]
    OBVIOUS
  <2>2. proc' = [proc EXCEPT ![p] = r] /\ path' = [path EXCEPT ![0] = None]
    BY <1>4, <2>1 DEF Purge
  <2>3. r.heldFile = path[0] /\ r.goal = 0 /\ r.at = "judge"
    BY <2>1 DEF Idle
  <2>4. Handled(p, r)
    BY <1>1, <2>1 DEF Handled, Unpublished, Idle
  <2>5. r \in ProcState
    BY <1>1, <2>2, OwnFacts
  <2>6. ASSUME NEW g \in Generation, NEW o
        PROVE  o \in Shelved(g)' <=> o \in Shelved(g)
    <3>1. InHand(r, g, o) <=> g = 0 /\ o = path[0]
      BY <1>4, <2>3 DEF InHand
    <3>2. ~InHand(proc[p], g, o)
      BY <1>1 DEF InHand
    <3>3. path'[g] = IF g = 0 THEN None ELSE path[g]
      BY <1>1, <2>2 DEF Paths
    <3> QED
      BY <1>2, <1>4, <2>2, <2>5, <3>1, <3>2, <3>3, Moved
  <2>7. Still
    BY <2>6 DEF Still
  <2> QED
    BY <1>1, <1>2, <2>2, <2>4, <2>7, MoveWork
<1> QED
  BY <1>3, <1>4

\* Where a process goes from a generation it has dealt with.
LEMMA RetiringHandled ==
    ASSUME IInv, RInv, NEW p \in alive, NEW T \in SUBSET proc[p].todo,
           proc[p].at \in {"retire", "judge", "reshelve"}
    PROVE  Handled(p, Retiring(p, T)) /\ Retiring(p, T).heldFile = None
<1>1. Handled(p, proc[p]) /\ proc[p] \in ProcState
  BY DEF RInv, IInv, TypeOK, ProcState
<1>2. CASE proc[p].call = 0
  BY <1>2, IdleHandled DEF Retiring, Idle
<1>3. CASE proc[p].call # 0
  <2>1. PICK r : r = [proc[p] EXCEPT !.at = IF T = {} THEN "release" ELSE "retire", !.todo = T,
                                     !.goal = -1, !.heldFile = None]
    OBVIOUS
  <2>2. /\ r.at \in {"release", "retire"} /\ r.todo = T /\ r.heldFile = None
        /\ r.observed = proc[p].observed /\ r.entries = proc[p].entries
    BY <1>1, <2>1 DEF ProcState
  <2>3. Handled(p, r)
    BY <1>1, <2>2 DEF Handled, Unpublished
  <2> QED
    BY <1>3, <2>1, <2>2, <2>3 DEF Retiring
<1> QED
  BY <1>2, <1>3

\* Retirement moves a generation into quarantine.
LEMMA QuarantineMoves ==
    ASSUME IInv, IInv', RInv, NEW p \in Process, QuarantineOld(p)
    PROVE  Still /\ RInv'
<1>1. PICK g : g = CHOOSE o \in proc[p].todo : \A h \in proc[p].todo : h <= o
  OBVIOUS
<1>2. PICK T : T = proc[p].todo \ {g}
  OBVIOUS
<1>3. p \in alive /\ proc[p].at = "retire" /\ proc[p].heldFile = None /\ path \in Paths
         /\ Handled(p, proc[p]) /\ proc[p] \in ProcState /\ proc[p].call # 0
  BY AtFacts DEF QuarantineOld, At, RInv, Handled, IInv, TypeOK, Paths, Sound
<1>4. g \in proc[p].todo /\ g \in Generation /\ Covered(g) /\ T \in SUBSET proc[p].todo
  BY <1>1, <1>2, <1>3, OldestFirst DEF Handled
<1>5. UNCHANGED <<alive, calls, published, strayFiles>>
  BY DEF QuarantineOld, Rest
<1>6. CASE path[g] = None
  <2>1. proc' = [proc EXCEPT ![p] = Retiring(p, T)] /\ path' = path
    BY <1>1, <1>2, <1>6 DEF QuarantineOld
  <2>2. Handled(p, Retiring(p, T)) /\ Retiring(p, T).heldFile = None
    BY <1>3, <1>4, RetiringHandled
  <2>3. Still
    BY <1>3, <1>5, <2>1, <2>2, OwnFacts, Quiet
  <2> QED
    BY <1>3, <1>5, <2>1, <2>2, <2>3, MoveWork
<1>7. CASE path[g] # None
  <2>1. PICK r : r = [proc[p] EXCEPT !.at = "judge", !.todo = T, !.goal = g, !.heldFile = path[g]]
    OBVIOUS
  <2>2. proc' = [proc EXCEPT ![p] = r] /\ path' = [path EXCEPT ![g] = None]
    BY <1>1, <1>2, <1>3, <1>7, <2>1, AtFacts DEF QuarantineOld
  <2>3. /\ r.heldFile = path[g] /\ r.goal = g /\ r.at = "judge" /\ r.todo = T
        /\ r.observed = proc[p].observed /\ r.entries = proc[p].entries /\ r.call = proc[p].call
    BY <1>3, <2>1 DEF ProcState
  <2>4. Handled(p, r)
    BY <1>3, <1>4, <2>3 DEF Handled, Unpublished
  <2>5. r \in ProcState
    BY <1>3, <2>2, OwnFacts
  <2>6. ASSUME NEW h \in Generation, NEW o
        PROVE  o \in Shelved(h)' <=> o \in Shelved(h)
    <3>1. InHand(r, h, o) <=> h = g /\ o = path[g]
      BY <1>7, <2>3 DEF InHand
    <3>2. ~InHand(proc[p], h, o)
      BY <1>3 DEF InHand
    <3>3. path'[h] = IF h = g THEN None ELSE path[h]
      BY <1>3, <2>2 DEF Paths
    <3> QED
      BY <1>5, <1>7, <2>2, <2>5, <3>1, <3>2, <3>3, Moved
  <2>7. Still
    BY <2>6 DEF Still
  <2> QED
    BY <1>3, <1>5, <2>2, <2>4, <2>7, MoveWork
<1> QED
  BY <1>6, <1>7

\* What is not to go returns to its path, or stays in quarantine.
LEMMA ReshelveMoves ==
    ASSUME IInv, IInv', RInv, NEW p \in Process, Reshelve(p)
    PROVE  Still /\ RInv'
<1>1. PICK g, o, r : g = proc[p].goal /\ o = proc[p].heldFile /\ r = Retiring(p, proc[p].todo)
  OBVIOUS
<1>2. p \in alive /\ proc[p].at = "reshelve" /\ path \in Paths /\ g \in Generation
         /\ o # None
  BY <1>1, AtFacts DEF Reshelve, At, IInv, TypeOK, Paths, Sound
<1>3. Handled(p, r) /\ r.heldFile = None
  BY <1>1, <1>2, RetiringHandled
<1>4. proc' = [proc EXCEPT ![p] = r] /\ UNCHANGED <<alive, calls, published>>
  BY <1>1 DEF Reshelve
<1>5. r \in ProcState
  BY <1>2, <1>4, OwnFacts
<1>6. ASSUME NEW h \in Generation, NEW x
      PROVE  x \in Shelved(h)' <=> x \in Shelved(h)
  <2>1. InHand(proc[p], h, x) <=> h = g /\ x = o
    BY <1>1, <1>2 DEF InHand
  <2>2. ~InHand(r, h, x)
    BY <1>3 DEF InHand
  <2>3. CASE path[g] = None
    <3>1. path' = [path EXCEPT ![g] = o] /\ strayFiles' = strayFiles
      BY <1>1, <2>3 DEF Reshelve
    <3>2. path'[h] = IF h = g THEN o ELSE path[h]
      BY <1>2, <3>1 DEF Paths
    <3>3. path'[h] = x /\ x # None <=> (path[h] = x /\ x # None) \/ (h = g /\ x = o)
      BY <1>2, <2>3, <3>2
    <3> QED
      BY <1>4, <1>5, <2>1, <2>2, <3>1, <3>3, Moved
  <2>4. CASE path[g] # None
    <3>1. path' = path /\ strayFiles' = strayFiles \cup {<<g, o>>}
      BY <1>1, <2>4 DEF Reshelve
    <3>2. <<h, x>> \in strayFiles' <=> <<h, x>> \in strayFiles \/ (h = g /\ x = o)
      BY <3>1
    <3> QED
      BY <1>2, <1>4, <1>5, <2>1, <2>2, <3>1, <3>2, Moved
  <2> QED
    BY <2>3, <2>4
<1>7. Still
  BY <1>6 DEF Still
<1> QED
  BY <1>2, <1>3, <1>4, <1>7, MoveWork

\* One place changes, and is empty afterwards only if it was covered or is the first.
LEMMA CoverLasts ==
    ASSUME NEW g \in Generation, \A h \in Generation : h # g => Shelved(h)' = Shelved(h),
           Shelved(g)' = {} => g = 0 \/ Covered(g)
    PROVE  CoverStays
<1> SUFFICES ASSUME NEW x \in Generation, Covered(x)
             PROVE  Covered(x)'
  BY DEF CoverStays
<1> Generation \subseteq Nat
  BY DEF Generation
<1>1. PICK h, k \in Generation : x < h /\ h < k /\ Shelved(h) # {} /\ Shelved(k) # {}
  BY DEF Covered
<1>2. CASE Shelved(h)' # {} /\ Shelved(k)' # {}
  BY <1>1, <1>2 DEF Covered
<1>3. CASE Shelved(h)' = {} \/ Shelved(k)' = {}
  <2>1. g \in {h, k} /\ g # 0
    BY <1>1, <1>3
  <2>2. Covered(g)
    BY <1>1, <1>3, <2>1
  <2>3. PICK i, j \in Generation : g < i /\ i < j /\ Shelved(i) # {} /\ Shelved(j) # {}
    BY <2>2 DEF Covered
  <2>4. x < i /\ Shelved(i)' # {} /\ Shelved(j)' # {}
    BY <1>1, <2>1, <2>3
  <2> QED
    BY <2>3, <2>4 DEF Covered
<1> QED
  BY <1>2, <1>3

\* Steps of the shelf, one place at a time.
LEMMA OnePlace ==
    ASSUME NEW g \in Generation, NEW now, Shelved(g)' = now,
           \A h \in Generation : h # g => Shelved(h)' = Shelved(h),
           \/ Store!Add(g, now) \/ Store!Drop(g, now)
           \/ Store!Purge(g, now) \/ Store!Intrude(g, now)
    PROVE  Store!Next
<1> DEFINE shelf == [h \in Generation |-> Shelved(h)]
<1>1. shelf'[g] = now /\ shelf' = [shelf EXCEPT ![g] = now]
  OBVIOUS
<1> QED
  BY <1>1 DEF Store!Next

\* A writer puts its generation at an unused number.
LEMMA PublishAdds ==
    ASSUME IInv, IInv', RInv, NEW p \in Process, Publish(p), path[proc[p].goal] = None
    PROVE  Store!Next /\ RInv'
<1>1. PICK g, o, n : /\ g = proc[p].goal /\ n = proc[p].call
                     /\ o = proc[p].entries \cup {proc[p].call}
  OBVIOUS
<1>2. PICK r : r = [proc[p] EXCEPT !.at = "prune", !.goal = -1, !.entries = {}]
  OBVIOUS
<1>3. /\ p \in alive /\ proc[p].at = "publish" /\ proc[p] \in ProcState /\ n # 0
      /\ proc \in [Process -> ProcState] /\ g \in Generation /\ n \in Call /\ path \in Paths
      /\ Tied(p, proc[p])
  <2>1. p \in alive /\ proc[p].at = "publish"
    BY DEF Publish, At
  <2> QED
    BY <1>1, <2>1, AtFacts, BoundAssumption DEF Sound, ProcState, Call, IInv
<1>4. Handled(p, proc[p]) /\ proc[p].heldFile = None /\ n \notin published
        /\ proc[p].entries \subseteq published
  BY <1>1, <1>3 DEF RInv, Handled, Unpublished
<1>5. /\ proc' = [proc EXCEPT ![p] = r] /\ path' = [path EXCEPT ![g] = o]
      /\ published' = published \cup {n} /\ UNCHANGED <<alive, calls, strayFiles>>
  BY <1>1, <1>2, <1>3 DEF Publish
<1>6. r \in ProcState /\ r.heldFile = None
  BY <1>2, <1>3, <1>4, <1>5, OwnFacts DEF ProcState
<1>7. o \in Sealed /\ o # None
  BY <1>1, <1>3, NoneApart, SMTT(30) DEF ProcState, Sealed, Content
<1>8. \A h \in Generation : o \notin Shelved(h)
  BY <1>1, <1>4, <1>7 DEF RInv
<1>9. ASSUME NEW h \in Generation, NEW x
      PROVE  x \in Shelved(h)' <=> x \in Shelved(h) \/ (h = g /\ x = o)
  <2>1. ~InHand(proc[p], h, x) /\ ~InHand(r, h, x)
    BY <1>4, <1>6 DEF InHand
  <2>2. path'[h] = IF h = g THEN o ELSE path[h]
    BY <1>3, <1>5 DEF Paths
  <2>3. path[g] = None
    BY <1>1
  <2>4. path'[h] = x /\ x # None <=> (path[h] = x /\ x # None) \/ (h = g /\ x = o)
    BY <1>7, <2>2, <2>3
  <2> QED
    BY <1>5, <1>6, <2>1, <2>4, Moved
<1>10. Shelved(g)' = Shelved(g) \cup {o} /\ \A h \in Generation : h # g => Shelved(h)' = Shelved(h)
  BY <1>3, <1>9
<1>11. Store!Next
  <2>1. Store!Add(g, Shelved(g)')
    BY <1>3, <1>7, <1>8, <1>10 DEF Store!Add
  <2> QED
    BY <1>3, <1>10, <2>1, OnePlace
<1>12. CoverStays
  BY <1>3, <1>10, CoverLasts
<1>13. \A h \in Generation : \A x \in Shelved(h)' \cap Sealed : x \subseteq published'
  BY <1>1, <1>4, <1>5, <1>9 DEF RInv
<1>14. Handled(p, r)'
  <2>1. /\ r.at = "prune" /\ r.entries = {} /\ r.todo = proc[p].todo
        /\ r.observed = proc[p].observed
    BY <1>2, <1>3 DEF ProcState
  <2>2. \A h \in r.todo : Covered(h)'
    BY <1>3, <1>4, <1>12, <2>1 DEF Handled, CoverStays, ProcState
  <2> QED
    BY <1>3, <1>4, <1>6, <2>1, <2>2 DEF Handled, Unpublished
<1>15. published' \subseteq 1 .. calls'
  <2>1. n \in 1 .. calls
    BY <1>1, <1>3, BoundAssumption DEF Tied, Call, IInv, TypeOK
  <2> QED
    BY <1>5, <2>1 DEF RInv
<1>16. ASSUME NEW q \in alive, q # p, Unpublished(proc[q])
       PROVE  proc[q].call \notin published'
  <2>1. proc[q].call # n
    BY <1>1, <1>3, <1>16, CallsApart
  <2>2. proc[q].call \notin published
    BY <1>16 DEF RInv, Handled, IInv, TypeOK
  <2> QED
    BY <1>5, <2>1, <2>2
<1> QED
  BY <1>5, <1>6, <1>11, <1>12, <1>13, <1>14, <1>15, <1>16, AnyWork

\* What was moved is deleted: retirement deletes below two places, a purge the
\* plaintext cache.
LEMMA JudgeDrops ==
    ASSUME IInv, IInv', RInv, NEW p \in Process, Judge(p), Condemned(p)
    PROVE  [Store!Next]_[g \in Generation |-> Shelved(g)] /\ RInv'
<1>1. PICK g, o, r : g = proc[p].goal /\ o = proc[p].heldFile /\ r = Retiring(p, proc[p].todo)
  OBVIOUS
<1>2. p \in alive /\ proc[p].at = "judge" /\ g \in Generation /\ o # None
  BY <1>1, AtFacts DEF Judge, At, Sound
<1>3. Handled(p, r) /\ r.heldFile = None
  BY <1>1, <1>2, RetiringHandled
<1>4. proc' = [proc EXCEPT ![p] = r] /\ UNCHANGED <<path, strayFiles, alive, calls, published>>
  BY <1>1 DEF Judge, Rest
<1>5. r \in ProcState /\ Sound(r) /\ Handled(p, proc[p])
  BY <1>2, <1>4, OwnFacts
<1>6. ASSUME NEW h \in Generation, NEW x
      PROVE  /\ x \in Shelved(h)' => x \in Shelved(h)
             /\ x \in Shelved(h) => x \in Shelved(h)' \/ (h = g /\ x = o)
             /\ h = g => o \in Shelved(h)
  <2>1. InHand(proc[p], h, x) <=> h = g /\ x = o
    BY <1>1, <1>2 DEF InHand
  <2>2. ~InHand(r, h, x) /\ InHand(proc[p], g, o)
    BY <1>1, <1>2, <1>3 DEF InHand
  <2> QED
    BY <1>2, <1>4, <1>5, <2>1, <2>2, Moved
<1>7. \A h \in Generation : h # g => Shelved(h)' = Shelved(h)
  BY <1>6
<1>8. Shelved(g)' \in {Shelved(g), Shelved(g) \ {o}} /\ o \in Shelved(g)
  BY <1>2, <1>6
<1>9. \/ o \in Sealed /\ Covered(g)
      \/ o \in Legacy /\ g = 0
  BY <1>1, <1>2, <1>5 DEF Condemned, Handled, Authenticated
<1>10. CoverStays
  BY <1>2, <1>7, <1>9, CoverLasts
<1>11. [Store!Next]_[h \in Generation |-> Shelved(h)]
  <2>1. CASE Shelved(g)' = Shelved(g)
    BY <1>7, <2>1
  <2>2. CASE Shelved(g)' = Shelved(g) \ {o}
    <3>1. CASE o \in Sealed /\ Covered(g)
      <4>1. Store!Drop(g, Shelved(g)')
        BY <1>2, <1>8, <2>2, <3>1 DEF Store!Drop, Covered
      <4> QED
        BY <1>2, <1>7, <4>1, OnePlace
    <3>2. CASE o \in Legacy /\ g = 0
      <4>1. Store!Purge(g, Shelved(g)')
        BY <1>2, <1>8, <2>2, <3>2 DEF Store!Purge
      <4> QED
        BY <1>2, <1>7, <4>1, OnePlace
    <3> QED
      BY <1>9, <3>1, <3>2
  <2> QED
    BY <1>8, <2>1, <2>2
<1>12. \A h \in Generation : \A x \in Shelved(h)' \cap Sealed : x \subseteq published'
  BY <1>4, <1>6 DEF RInv
<1>13. \A q \in alive : q # p /\ Unpublished(proc[q]) => proc[q].call \notin published'
  BY <1>4 DEF IInv, TypeOK, RInv, Handled
<1>14. Handled(p, r)'
  BY <1>3, <1>4, <1>5, <1>10 DEF Handled, CoverStays, ProcState, Sound
<1>15. published' \subseteq 1 .. calls'
  BY <1>4 DEF RInv
<1> QED
  BY <1>2, <1>4, <1>5, <1>10, <1>11, <1>12, <1>13, <1>14, <1>15, AnyWork DEF IInv, TypeOK

\* Foreign bytes land on a path, next to or over what belongs there.
LEMMA IntrudeAdds ==
    ASSUME IInv, IInv', RInv, NEW f \in Foreign, NEW g \in Generation, Intrude(f, g)
    PROVE  Store!Next /\ RInv'
<1>1. /\ path \in Paths /\ path' = [path EXCEPT ![g] = f] /\ path[g] \notin Foreign
      /\ UNCHANGED <<alive, calls, proc, strayFiles, published>>
  BY DEF Intrude, IInv, TypeOK, Paths
<1>2. f # None /\ f \notin Sealed
  BY NoneApart, ForeignAssumption DEF Content
<1>3. strayFiles \subseteq Generation \X Content /\ strayFiles' \subseteq Generation \X Content
  BY DEF IInv, TypeOK
<1>4. ASSUME NEW h \in Generation, NEW x
      PROVE  /\ x \in Shelved(h)' => x \in Shelved(h) \/ (h = g /\ x = f)
             /\ x \in Shelved(h) => x \in Shelved(h)' \/ (h = g /\ x = path[g] /\ x # None)
             /\ h = g => f \in Shelved(h)'
  <2>1. path'[h] = IF h = g THEN f ELSE path[h]
    BY <1>1 DEF Paths
  <2>2. \A q \in Process : InHand(proc'[q], h, x) <=> InHand(proc[q], h, x)
    BY <1>1
  <2>3. x \in Shelved(h)' <=> \/ path'[h] = x /\ x # None
                              \/ \E q \in Process : InHand(proc[q], h, x)
                              \/ <<h, x>> \in strayFiles
    BY <1>1, <1>3, ShelvedNext
  <2>4. x \in Shelved(h) <=> \/ path[h] = x /\ x # None
                             \/ \E q \in Process : InHand(proc[q], h, x)
                             \/ <<h, x>> \in strayFiles
    BY <1>3, ShelvedNow
  <2>5. h = g => f \in Shelved(h)'
    BY <1>2, <1>3, <2>1, ShelvedNext
  <2> QED
    BY <1>2, <2>1, <2>3, <2>4, <2>5
<1>5. \A h \in Generation : h # g => Shelved(h)' = Shelved(h)
  BY <1>4
<1>6. f \in Shelved(g)' /\ Shelved(g)' # {}
  BY <1>4
<1>7. CoverStays
  BY <1>5, <1>6, CoverLasts
<1>8. Store!Intrude(g, Shelved(g)')
  <2>1. path[g] # None => path[g] \in Shelved(g) \cap Sealed
    BY <1>1 DEF Shelved, Paths, Content
  <2>2. PICK S : S = Shelved(g) \ Shelved(g)'
    OBVIOUS
  <2>3. S \subseteq {path[g]} /\ (None \notin S)
    BY <1>4, <2>2
  <2>4. S \in {{}} \cup {{o} : o \in Shelved(g) \cap Sealed}
    BY <2>1, <2>3
  <2>5. Shelved(g)' = (Shelved(g) \ S) \cup {f}
    BY <1>4, <1>6, <2>2
  <2> QED
    BY <1>6, <2>4, <2>5 DEF Store!Intrude
<1>9. Store!Next
  BY <1>5, <1>8, OnePlace
<1>10. \A h \in Generation : \A x \in Shelved(h)' \cap Sealed : x \subseteq published'
  BY <1>1, <1>2, <1>4 DEF RInv
<1>11. ASSUME NEW q \in Process
       PROVE  Handled(q, proc[q])'
  <2>1. Handled(q, proc[q]) /\ proc[q].todo \subseteq Generation /\ Sound(proc[q])
    BY DEF RInv, IInv, TypeOK
  <2> QED
    BY <1>1, <1>7, <2>1 DEF Handled, CoverStays, Sound
<1> QED
  BY <1>1, <1>9, <1>10, <1>11 DEF RInv

\* Nothing is held, listed or published at first.
LEMMA InitShelf ==
    ASSUME Init
    PROVE  RInv /\ Store!Init
<1>1. PICK o \in Legacy \cup {None} : path = [g \in Generation |-> IF g = 0 THEN o ELSE None]
  BY DEF Init
<1>2. /\ proc = [p \in Process |-> [Idle EXCEPT !.at = "fresh"]]
      /\ strayFiles = {} /\ published = {}
  BY DEF Init
<1>3. ASSUME NEW p \in Process
      PROVE  proc[p].heldFile = None /\ Handled(p, proc[p])
  BY <1>2 DEF Idle, Handled, Unpublished
<1>4. ASSUME NEW g \in Generation
      PROVE  Shelved(g) = IF g = 0 THEN {o} \ {None} ELSE {}
  <2>1. ASSUME NEW x
        PROVE  x \in Shelved(g) <=> g = 0 /\ x = o /\ x # None
    <3>1. ~ \E q \in Process : InHand(proc[q], g, x)
      BY <1>3 DEF InHand
    <3>2. path[g] = IF g = 0 THEN o ELSE None
      BY <1>1
    <3> QED
      BY <1>2, <3>1, <3>2, ShelvedNow
  <2> QED
    BY <2>1
<1>5. o \notin Sealed
  <2>1. None \notin Sealed
    BY NoneApart DEF Content
  <2> QED
    BY <2>1, ForeignAssumption
<1>6. RInv
  BY <1>2, <1>3, <1>4, <1>5 DEF RInv
<1>7. Store!Init
  <2>1. {o} \ {None} \in SUBSET Legacy
    OBVIOUS
  <2>2. [g \in Generation |-> Shelved(g)] = [g \in Generation |-> IF g = 0 THEN {o} \ {None} ELSE {}]
    BY <1>4
  <2> QED
    BY <2>1, <2>2 DEF Store!Init
<1> QED
  BY <1>6, <1>7

\* Every step is a step of the shelf, or nothing to it.
LEMMA StepShelf ==
    ASSUME IInv, IInv', RInv, [Next]_vars
    PROVE  [Store!Next]_[g \in Generation |-> Shelved(g)] /\ RInv'
<1>1. ASSUME Still, RInv'
      PROVE  [Store!Next]_[g \in Generation |-> Shelved(g)] /\ RInv'
  BY <1>1 DEF Still
<1>2. CASE \E p \in Process : Acquire(p) \/ ObserveDeadOwner(p) \/ AcquireTimesOut(p)
                              \/ Reap(p) \/ PutBackLock(p) \/ ReleaseLock(p)
  BY <1>1, <1>2, LockQuiet
<1>3. CASE \E p \in Process : StartWrite(p) \/ Crash(p) \/ Purge(p) \/ QuarantineOld(p) \/ Reshelve(p)
  BY <1>1, <1>3, StartQuiet, CrashQuiet, PurgeMoves, QuarantineMoves, ReshelveMoves
<1>4. CASE \E p \in Process : ListLatest(p) \/ Load(p) \/ Number(p) \/ ListOld(p)
  BY <1>1, <1>4, WriteQuiet
<1>5. CASE \E p \in Process : Publish(p)
  BY <1>1, <1>5, WriteQuiet, PublishAdds
<1>6. CASE \E p \in Process : Judge(p)
  BY <1>1, <1>6, WriteQuiet, JudgeDrops
<1>7. CASE \E f \in Foreign, g \in Generation : Intrude(f, g)
  BY <1>7, IntrudeAdds
<1>8. CASE UNCHANGED vars
  <2>1. Still
    BY <1>8 DEF Still, Shelved, vars
  <2>2. RInv'
    BY <1>8, <2>1 DEF vars, RInv, Still, Handled, Covered, Unpublished
  <2> QED
    BY <1>1, <2>1, <2>2
<1> QED
  BY <1>2, <1>3, <1>4, <1>5, <1>6, <1>7, <1>8 DEF Next

\* The directory, its quarantine directories included, implements the shelf:
\* foreign bytes are never lost, nothing is replaced, and only authenticated
\* generations below the newest two and plaintext caches disappear, whatever
\* overlapping retirements, purges and crashes do (cache.ts, lines 600-742).
THEOREM ShelfImplemented == Spec => ImplementsStore
<1>1. Init => RInv /\ Store!Init
  BY InitShelf
<1>2. IInv /\ IInv' /\ RInv /\ [Next]_vars => [Store!Next]_[g \in Generation |-> Shelved(g)] /\ RInv'
  BY StepShelf
<1> QED
  BY <1>1, <1>2, Invariant, PTL DEF Spec, ImplementsStore, Store!Spec

-----------------------------------------------------------------------------
(* Transactions merge until a process dies                                 *)
(*                                                                         *)
(* As long as no process has died the lock excludes: it is the object of   *)
(* the one call in its transaction, nobody sees a dead owner, and nobody   *)
(* moves a lock object that is not its own (LockInv).  A writer that has   *)
(* not written yet has then read everything published, although the purge  *)
(* of a new process, which takes no lock, may have moved generation zero   *)
(* meanwhile (MergeInv).                                                   *)

Calm == alive = Process /\ caller[0] = None

LockInv ==
    /\ \A n \in 1 .. calls : caller[n] \in Process
    /\ caller[0] = None => lock # 0
    /\ \A p \in Process :
         /\ caller[0] = None => proc[p].observed # 0 /\ proc[p].heldLock # 0
         /\ proc[p].at = "reap" => proc[p].observed # None
         /\ Calm => proc[p].at # "putback" /\ (InTx(proc[p]) => lock = proc[p].call)

LEMMA InitLock ==
    ASSUME Init
    PROVE  LockInv
<1>1. lock \in {None, 0} /\ caller = [n \in Token |-> IF n = lock THEN Earlier ELSE None]
         /\ calls = 0 /\ proc = [p \in Process |-> [Idle EXCEPT !.at = "fresh"]]
  BY DEF Init
<1>2. 0 \in Token /\ None # 0 /\ Earlier # None
  BY BoundAssumption, EarlierAssumption, NoneAssumption DEF Token
<1>3. caller[0] = None => lock # 0
  BY <1>1, <1>2
<1>4. \A p \in Process : proc[p].at = "fresh" /\ proc[p].observed = None /\ proc[p].call = 0
                                /\ proc[p].heldLock = None
  BY <1>1 DEF Idle
<1>5. 1 .. calls = {}
  BY <1>1
<1> QED
  BY <1>2, <1>3, <1>4, <1>5 DEF LockInv, InTx

\* A step of one process, in terms of what it leaves behind.
LEMMA LockAny ==
    ASSUME IInv, IInv', LockInv, NEW p \in Process, NEW r \in ProcState,
           proc' = [proc EXCEPT ![p] = r], alive' \subseteq alive,
           calls' = calls \/ (calls' = calls + 1 /\ caller'[calls'] \in Process),
           \A n \in 0 .. calls : caller'[n] = caller[n],
           caller[0] = None => lock' # 0 /\ r.observed # 0 /\ r.heldLock # 0,
           r.at = "reap" => r.observed # None,
           Calm' => r.at # "putback" /\ (InTx(r) => lock' = r.call),
           Calm' => \A q \in Process : q # p /\ InTx(proc[q]) => lock' = proc[q].call
    PROVE  LockInv'
<1>1. \A q \in Process : proc'[q] = IF q = p THEN r ELSE proc[q]
  BY Changed
<1>2. calls \in Nat /\ 0 \in 0 .. calls
  BY BoundAssumption DEF IInv, TypeOK
<1>3. caller'[0] = caller[0]
  BY <1>2
<1>4. Calm' => Calm
  BY <1>3 DEF Calm, IInv, TypeOK
<1>5. \A n \in 1 .. calls' : caller'[n] \in Process
  BY <1>2 DEF LockInv
<1> QED
  BY <1>1, <1>3, <1>4, <1>5 DEF LockInv

\* While no process has died, nobody has seen a dead owner.
LEMMA NobodySeenDead ==
    ASSUME IInv, LockInv, Calm
    PROVE  /\ \A p \in Process : proc[p].observed = None
           /\ lock # None => OwnerIsAlive(lock)
<1>1. ASSUME NEW n \in Token, n <= calls, n # 0
      PROVE  caller[n] \in alive
  <2>1. n \in 1 .. calls
    BY <1>1, BoundAssumption DEF Token, IInv, TypeOK
  <2> QED
    BY <2>1 DEF LockInv, Calm
<1>2. ASSUME NEW p \in Process
      PROVE  proc[p].observed = None
  <2>1. proc[p].observed \in Token \cup {None} /\ Known(proc[p])
    BY DEF IInv, TypeOK
  <2>2. proc[p].observed # 0
    BY DEF LockInv, Calm
  <2> QED
    BY <1>1, <2>1, <2>2 DEF Known
<1>3. lock # None => lock \in Token /\ lock <= calls /\ lock # 0
  BY DEF IInv, TypeOK, LockInv, Calm
<1> QED
  BY <1>1, <1>2, <1>3 DEF OwnerIsAlive

LEMMA Alone ==
    ASSUME IInv, LockInv, Calm, NEW p \in Process, NEW q \in Process,
           InTx(proc[p]), InTx(proc[q])
    PROVE  p = q
BY CallsApart DEF LockInv, Calm, InTx

Ongoing(p, r) ==
    /\ r.observed \in {None, proc[p].observed} /\ r.heldLock \in {None, proc[p].heldLock}
    /\ r.at \notin {"putback", "reap"}
    /\ InTx(r) => InTx(proc[p]) /\ r.call = proc[p].call

\* Work on the generations goes on in the transaction it is in.
LEMMA WorkStays ==
    ASSUME IInv, IInv', NEW p \in Process,
           \/ Purge(p) \/ StartWrite(p) \/ AcquireTimesOut(p) \/ ListLatest(p) \/ Load(p)
           \/ Number(p) \/ Publish(p) \/ ListOld(p) \/ QuarantineOld(p) \/ Judge(p) \/ Reshelve(p)
    PROVE  \E r \in ProcState : proc' = [proc EXCEPT ![p] = r] /\ Ongoing(p, r)
<1>1. /\ p \in alive /\ proc[p] \in ProcState /\ proc \in [Process -> ProcState]
      /\ proc[p].at \in {"fresh", "idle", "acquire", "list", "load", "number", "publish",
                         "prune", "retire", "judge", "reshelve"}
  BY DEF Purge, StartWrite, AcquireTimesOut, ListLatest, Load, Number, Publish, ListOld,
         QuarantineOld, Judge, Reshelve, At, IInv, TypeOK, ProcState
<1>2. ASSUME NEW r, proc' = [proc EXCEPT ![p] = r], Ongoing(p, r)
      PROVE  \E x \in ProcState : proc' = [proc EXCEPT ![p] = x] /\ Ongoing(p, x)
  <2>1. proc'[p] = r /\ proc' \in [Process -> ProcState]
    BY <1>1, <1>2 DEF IInv, TypeOK, ProcState
  <2> QED
    BY <1>2, <2>1
<1>3. CASE proc' = [proc EXCEPT ![p] = Idle]
  BY <1>2, <1>3 DEF Idle, Ongoing, InTx
<1>4. CASE Purge(p) /\ path[0] # None
  <2>1. PICK r : r = [Idle EXCEPT !.at = "judge", !.goal = 0, !.heldFile = path[0]]
    OBVIOUS
  <2>2. proc' = [proc EXCEPT ![p] = r]
    BY <1>4, <2>1 DEF Purge
  <2>3. Ongoing(p, r)
    BY <2>1 DEF Idle, InTx, Ongoing
  <2> QED
    BY <1>2, <2>2, <2>3
<1>5. CASE StartWrite(p)
  <2>1. PICK r : r = [proc[p] EXCEPT !.at = "acquire", !.call = calls + 1]
    OBVIOUS
  <2>2. proc' = [proc EXCEPT ![p] = r]
    BY <1>1, <1>5, <2>1 DEF StartWrite, ProcState
  <2>3. Ongoing(p, r)
    BY <1>1, <2>1, <2>2 DEF ProcState, InTx, Ongoing
  <2> QED
    BY <1>2, <2>1, <2>2, <2>3
<1>6. CASE ListLatest(p)
  <2>1. PICK r : r = [proc[p] EXCEPT !.at = "load", !.goal = Latest]
    OBVIOUS
  <2>2. proc' = [proc EXCEPT ![p] = r] /\ proc[p].at = "list"
    BY <1>1, <1>6, <2>1 DEF ListLatest, ProcState, At
  <2>3. Ongoing(p, r)
    BY <1>1, <2>1, <2>2 DEF ProcState, InTx, Ongoing
  <2> QED
    BY <1>2, <2>1, <2>2, <2>3
<1>7. CASE Load(p)
  <2>1. PICK r, S : \/ r = [proc[p] EXCEPT !.at = "release", !.goal = -1]
                    \/ r = [proc[p] EXCEPT !.at = "number", !.goal = -1, !.entries = S]
           /\ proc' = [proc EXCEPT ![p] = r]
    BY <1>1, <1>7 DEF Load, ProcState
  <2>2. proc[p].at = "load"
    BY <1>7 DEF Load, At
  <2>3. r.observed = proc[p].observed /\ r.heldLock = proc[p].heldLock
           /\ r.at \in {"release", "number"} /\ r.call = proc[p].call
    BY <1>1, <2>1 DEF ProcState
  <2>4. proc' = [proc EXCEPT ![p] = r]
    BY <1>1, <1>7, <2>1 DEF Load, ProcState
  <2>5. Ongoing(p, r)
    BY <1>1, <2>2, <2>3 DEF InTx, Ongoing
  <2> QED
    BY <1>2, <2>4, <2>5
<1>8. CASE Number(p)
  <2>1. PICK r : r = [proc[p] EXCEPT !.at = "publish", !.goal = Latest + 1]
    OBVIOUS
  <2>2. proc' = [proc EXCEPT ![p] = r] /\ proc[p].at = "number"
    BY <1>1, <1>8, <2>1 DEF Number, ProcState, At
  <2>3. Ongoing(p, r)
    BY <1>1, <2>1, <2>2 DEF ProcState, InTx, Ongoing
  <2> QED
    BY <1>2, <2>1, <2>2, <2>3
<1>9. CASE Publish(p)
  <2>1. PICK r : /\ \/ r = [proc[p] EXCEPT !.at = "prune", !.goal = -1, !.entries = {}]
                    \/ r = [proc[p] EXCEPT !.at = "number", !.goal = -1]
                 /\ proc' = [proc EXCEPT ![p] = r]
    BY <1>1, <1>9 DEF Publish, ProcState
  <2>2. proc[p].at = "publish"
    BY <1>9 DEF Publish, At
  <2>3. Ongoing(p, r)
    BY <1>1, <2>1, <2>2 DEF ProcState, InTx, Ongoing
  <2> QED
    BY <1>2, <2>1, <2>2, <2>3
<1>10. CASE ListOld(p)
  <2>1. PICK r : r = [proc[p] EXCEPT !.at = IF Old = {} THEN "release" ELSE "retire", !.todo = Old]
    OBVIOUS
  <2>2. proc' = [proc EXCEPT ![p] = r] /\ proc[p].at = "prune"
    BY <1>1, <1>10, <2>1 DEF ListOld, ProcState, At
  <2>3. Ongoing(p, r)
    BY <1>1, <2>1, <2>2 DEF ProcState, InTx, Ongoing
  <2> QED
    BY <1>2, <2>1, <2>2, <2>3
<1>11. ASSUME NEW T, NEW X, X = Retiring(p, T), proc[p].at \in {"retire", "judge", "reshelve"},
              proc' = [proc EXCEPT ![p] = X]
       PROVE  \E r \in ProcState : proc' = [proc EXCEPT ![p] = r] /\ Ongoing(p, r)
  <2>1. CASE proc[p].call = 0
    BY <1>3, <1>11, <2>1 DEF Retiring
  <2>2. CASE proc[p].call # 0
    <3>1. PICK r : r = [proc[p] EXCEPT !.at = IF T = {} THEN "release" ELSE "retire", !.todo = T,
                                       !.goal = -1, !.heldFile = None]
      OBVIOUS
    <3>2. proc' = [proc EXCEPT ![p] = r]
      BY <1>11, <2>2, <3>1 DEF Retiring
    <3>3. r.observed = proc[p].observed /\ r.heldLock = proc[p].heldLock
             /\ r.at \in {"release", "retire"} /\ r.call = proc[p].call
      BY <1>1, <3>1 DEF ProcState
    <3>4. Ongoing(p, r)
      BY <1>11, <2>2, <3>3 DEF InTx, Ongoing
    <3> QED
      BY <1>2, <3>2, <3>4
  <2> QED
    BY <2>1, <2>2
<1>12. CASE QuarantineOld(p)
  <2>1. PICK g, T : /\ g = CHOOSE o \in proc[p].todo : \A h \in proc[p].todo : h <= o
                    /\ T = proc[p].todo \ {g}
    OBVIOUS
  <2>2. proc[p].at = "retire"
    BY <1>12 DEF QuarantineOld, At
  <2>3. CASE path[g] = None
    <3>1. proc' = [proc EXCEPT ![p] = Retiring(p, T)]
      BY <1>12, <2>1, <2>3 DEF QuarantineOld
    <3> QED
      BY <1>11, <2>2, <3>1
  <2>4. CASE path[g] # None
    <3>1. PICK r : r = [proc[p] EXCEPT !.at = "judge", !.todo = T, !.goal = g, !.heldFile = path[g]]
      OBVIOUS
    <3>2. proc' = [proc EXCEPT ![p] = r]
      BY <1>1, <1>12, <2>1, <2>4, <3>1 DEF QuarantineOld, ProcState
    <3>3. r.observed = proc[p].observed /\ r.heldLock = proc[p].heldLock
             /\ r.at \in {"judge", "reshelve"} /\ r.call = proc[p].call
      BY <1>1, <3>1 DEF ProcState
    <3>4. Ongoing(p, r)
      BY <1>1, <2>2, <3>3 DEF InTx, Ongoing
    <3> QED
      BY <1>2, <3>2, <3>4
  <2> QED
    BY <2>3, <2>4
<1>13. CASE Judge(p)
  <2>1. proc[p].at = "judge"
    BY <1>13 DEF Judge, At
  <2>2. CASE Condemned(p)
    BY <1>11, <1>13, <2>1, <2>2 DEF Judge
  <2>3. CASE ~Condemned(p)
    <3>1. PICK r : r = [proc[p] EXCEPT !.at = "reshelve"]
      OBVIOUS
    <3>2. proc' = [proc EXCEPT ![p] = r]
      BY <1>1, <1>13, <2>3, <3>1 DEF Judge, GoTo, ProcState
    <3>3. r.observed = proc[p].observed /\ r.heldLock = proc[p].heldLock
             /\ r.at \in {"judge", "reshelve"} /\ r.call = proc[p].call
      BY <1>1, <3>1 DEF ProcState
    <3>4. Ongoing(p, r)
      BY <1>1, <2>1, <3>3 DEF InTx, Ongoing
    <3> QED
      BY <1>2, <3>2, <3>4
  <2> QED
    BY <2>2, <2>3
<1>14. CASE Reshelve(p)
  <2>1. proc[p].at = "reshelve" /\ proc' = [proc EXCEPT ![p] = Retiring(p, proc[p].todo)]
    BY <1>14 DEF Reshelve, At
  <2> QED
    BY <1>11, <2>1
<1> QED
  BY <1>3, <1>4, <1>5, <1>6, <1>7, <1>8, <1>9, <1>10, <1>12, <1>13, <1>14
  DEF Purge, AcquireTimesOut

LEMMA StepLock ==
    ASSUME IInv, IInv', LockInv, [Next]_vars
    PROVE  LockInv'
<1>1. CASE \E p \in Process :
             \/ Purge(p) \/ StartWrite(p) \/ AcquireTimesOut(p) \/ ListLatest(p) \/ Load(p)
             \/ Number(p) \/ Publish(p) \/ ListOld(p) \/ QuarantineOld(p) \/ Judge(p) \/ Reshelve(p)
  <2>1. PICK p \in Process :
             \/ Purge(p) \/ StartWrite(p) \/ AcquireTimesOut(p) \/ ListLatest(p) \/ Load(p)
             \/ Number(p) \/ Publish(p) \/ ListOld(p) \/ QuarantineOld(p) \/ Judge(p) \/ Reshelve(p)
    BY <1>1
  <2>2. PICK r \in ProcState : proc' = [proc EXCEPT ![p] = r] /\ Ongoing(p, r)
    BY <2>1, WorkStays
  <2>3. /\ lock' = lock /\ alive' = alive
        /\ \/ calls' = calls /\ caller' = caller
           \/ calls' = calls + 1 /\ calls < MaxCall /\ caller' = [caller EXCEPT ![calls + 1] = p]
    BY <2>1 DEF Purge, StartWrite, AcquireTimesOut, ListLatest, Load, Number, Publish, ListOld,
                QuarantineOld, Judge, Reshelve, Rest
  <2>4. calls \in 0 .. MaxCall /\ caller \in [Token -> Process \cup {Earlier, None}]
    BY DEF IInv, TypeOK
  <2>5. /\ calls' = calls \/ (calls' = calls + 1 /\ caller'[calls'] \in Process)
        /\ \A n \in 0 .. calls : caller'[n] = caller[n]
    <3>1. CASE calls' = calls /\ caller' = caller
      BY <3>1
    <3>2. CASE calls' = calls + 1 /\ calls < MaxCall /\ caller' = [caller EXCEPT ![calls + 1] = p]
      <4>1. calls + 1 \in Token /\ \A n \in 0 .. calls : n \in Token /\ n # calls + 1
        BY <2>4, <3>2, BoundAssumption DEF Token
      <4> QED
        BY <2>4, <3>2, <4>1
    <3> QED
      BY <2>3, <3>1, <3>2
  <2>6. caller'[0] = caller[0] /\ (Calm' => Calm)
    BY <2>3, <2>4, <2>5 DEF Calm
  <2>7. caller[0] = None => lock' # 0 /\ r.observed # 0 /\ r.heldLock # 0
    BY <2>2, <2>3, NoneApart, BoundAssumption DEF LockInv, Ongoing, Token
  <2>8. Calm' => r.at # "putback" /\ (InTx(r) => lock' = r.call)
    BY <2>2, <2>3, <2>6 DEF LockInv, Ongoing
  <2>9. Calm' => \A q \in Process : q # p /\ InTx(proc[q]) => lock' = proc[q].call
    BY <2>3, <2>6 DEF LockInv
  <2> QED
    BY <2>2, <2>3, <2>5, <2>7, <2>8, <2>9, LockAny DEF Ongoing
<1>2. ASSUME NEW p \in Process, NEW r, proc' = [proc EXCEPT ![p] = r],
             UNCHANGED <<caller, calls>>, alive' \subseteq alive, p \in alive,
             caller[0] = None => lock' # 0 /\ r.observed # 0 /\ r.heldLock # 0,
             r.at = "reap" => r.observed # None,
             Calm' => r.at # "putback" /\ (InTx(r) => lock' = r.call),
             Calm' => \A q \in Process : q # p /\ InTx(proc[q]) => lock' = proc[q].call
      PROVE  LockInv'
  <2>1. proc'[p] = r /\ r \in ProcState
    BY <1>2 DEF IInv, TypeOK, ProcState
  <2>2. \A n \in 0 .. calls : caller'[n] = caller[n]
    BY <1>2
  <2>3. calls' = calls
    BY <1>2
  <2> QED
    BY <1>2, <2>1, <2>2, <2>3, LockAny
<1>3. None # 0 /\ 0 \in Token
  BY NoneApart, BoundAssumption DEF Token
<1>4. CASE \E p \in Process : Crash(p)
  <2>1. PICK p \in Process : Crash(p)
    BY <1>4
  <2>2. PICK r : r = [Idle EXCEPT !.at = "dead", !.heldLock = proc[p].heldLock,
                    !.heldFile = proc[p].heldFile,
                    !.goal = IF proc[p].heldFile = None THEN -1 ELSE proc[p].goal]
    OBVIOUS
  <2>3. proc' = [proc EXCEPT ![p] = r] /\ r.observed = None /\ r.at = "dead"
          /\ r.heldLock = proc[p].heldLock
    BY <2>1, <2>2 DEF Crash, Idle
  <2>4. UNCHANGED <<caller, calls, lock>> /\ alive' = alive \ {p} /\ p \in alive
    BY <2>1 DEF Crash
  <2>5. ~Calm'
    BY <2>4 DEF Calm
  <2> QED
    BY <1>2, <1>3, <2>3, <2>4, <2>5 DEF LockInv
<1>5. CASE \E p \in Process : Acquire(p)
  <2>1. PICK p \in Process : Acquire(p)
    BY <1>5
  <2>2. PICK r : r = [proc[p] EXCEPT !.at = "list"]
    OBVIOUS
  <2>3. p \in alive /\ proc[p] \in ProcState /\ proc \in [Process -> ProcState]
           /\ proc[p].at = "acquire" /\ proc[p].call # 0
    BY <2>1, AtFacts DEF Acquire, At, Sound
  <2>4. proc' = [proc EXCEPT ![p] = r] /\ r.observed = proc[p].observed /\ r.at = "list"
          /\ r.call = proc[p].call /\ r.heldLock = proc[p].heldLock
    BY <2>1, <2>2, <2>3 DEF Acquire, GoTo, ProcState
  <2>5. UNCHANGED <<caller, calls, alive>> /\ lock = None /\ lock' = proc[p].call
    BY <2>1 DEF Acquire, Rest
  <2>6. Calm' => Calm
    BY <2>5 DEF Calm
  <2>7. Calm => \A q \in Process : ~InTx(proc[q])
    BY <2>5, NoneApart DEF LockInv, IInv, TypeOK, Token
  <2> QED
    BY <1>2, <2>3, <2>4, <2>5, <2>6, <2>7 DEF LockInv
<1>6. CASE \E p \in Process : ObserveDeadOwner(p)
  <2>1. PICK p \in Process : ObserveDeadOwner(p)
    BY <1>6
  <2>2. PICK r : r = [proc[p] EXCEPT !.at = "reap", !.observed = lock]
    OBVIOUS
  <2>3. p \in alive /\ proc[p] \in ProcState /\ proc \in [Process -> ProcState]
    BY <2>1, AtFacts DEF ObserveDeadOwner, At
  <2>4. proc' = [proc EXCEPT ![p] = r] /\ r.observed = lock /\ r.at = "reap"
          /\ r.heldLock = proc[p].heldLock
    BY <2>1, <2>2, <2>3 DEF ObserveDeadOwner, ProcState
  <2>5. UNCHANGED <<caller, calls, alive, lock>> /\ lock # None /\ ~OwnerIsAlive(lock)
    BY <2>1 DEF ObserveDeadOwner, Rest
  <2>6. ~Calm'
    BY <2>5, NobodySeenDead DEF Calm
  <2> QED
    BY <1>2, <2>3, <2>4, <2>5, <2>6 DEF LockInv
<1>7. CASE \E p \in Process : Reap(p)
  <2>1. PICK p \in Process : Reap(p)
    BY <1>7
  <2>2. p \in alive /\ proc[p] \in ProcState /\ proc \in [Process -> ProcState]
           /\ proc[p].at = "reap"
    BY <2>1, AtFacts DEF Reap, At
  <2>3. PICK r : /\ \/ r = [proc[p] EXCEPT !.at = "acquire", !.observed = None]
                    \/ r = [proc[p] EXCEPT !.at = "putback", !.heldLock = lock]
                 /\ proc' = [proc EXCEPT ![p] = r]
    BY <2>1, <2>2 DEF Reap, ProcState
  <2>4. r.observed \in {None, proc[p].observed} /\ r.at # "reap"
          /\ r.heldLock \in {proc[p].heldLock, lock}
    BY <2>2, <2>3 DEF ProcState
  <2>5. UNCHANGED <<caller, calls, alive>> /\ lock' = None
    BY <2>1 DEF Reap, Rest
  <2>6. ~Calm'
    BY <2>2, <2>5, NobodySeenDead DEF Calm, LockInv
  <2> QED
    BY <1>2, <1>3, <2>2, <2>3, <2>4, <2>5, <2>6 DEF LockInv
<1>8. CASE \E p \in Process : PutBackLock(p)
  <2>1. PICK p \in Process : PutBackLock(p)
    BY <1>8
  <2>2. p \in alive /\ proc[p] \in ProcState /\ proc \in [Process -> ProcState]
           /\ proc[p].at = "putback" /\ Known(proc[p])
    BY <2>1, AtFacts DEF PutBackLock, At
  <2>3. PICK r : r = IF proc[p].observed = None THEN Idle
                     ELSE [proc[p] EXCEPT !.at = "acquire", !.heldLock = None, !.observed = None]
    OBVIOUS
  <2>4. proc' = [proc EXCEPT ![p] = r]
    BY <2>1, <2>2, <2>3 DEF PutBackLock
  <2>5. r.observed = None /\ r.at # "reap" /\ r.heldLock = None
    BY <2>2, <2>3 DEF ProcState, Idle
  <2>6. UNCHANGED <<caller, calls, alive>> /\ lock' \in {lock, proc[p].heldLock}
    BY <2>1 DEF PutBackLock
  <2>7. ~Calm'
    BY <2>2, <2>6 DEF Calm, LockInv
  <2>8. caller[0] = None => lock' # 0
    BY <2>2, <2>6 DEF LockInv
  <2> QED
    BY <1>2, <1>3, <2>2, <2>4, <2>5, <2>6, <2>7, <2>8 DEF LockInv
<1>9. CASE \E p \in Process : ReleaseLock(p)
  <2>1. PICK p \in Process : ReleaseLock(p)
    BY <1>9
  <2>2. p \in alive /\ proc[p] \in ProcState /\ proc \in [Process -> ProcState]
           /\ proc[p].at = "release" /\ proc[p].call # 0
    BY <2>1, AtFacts DEF ReleaseLock, At, Sound
  <2>3. PICK r : r = IF lock \in {None, proc[p].call} THEN Idle
                     ELSE [proc[p] EXCEPT !.at = "putback", !.heldLock = lock]
    OBVIOUS
  <2>4. proc' = [proc EXCEPT ![p] = r]
    BY <2>1, <2>2, <2>3 DEF ReleaseLock
  <2>5. r.observed \in {None, proc[p].observed} /\ r.at # "reap" /\ r.heldLock \in {None, lock}
    BY <2>2, <2>3 DEF ProcState, Idle
  <2>6. UNCHANGED <<caller, calls, alive>> /\ lock' = None
    BY <2>1 DEF ReleaseLock, Rest
  <2>7. Calm' => Calm /\ lock = proc[p].call /\ r = Idle
    BY <2>2, <2>3, <2>6 DEF Calm, LockInv, InTx
  <2>8. Calm' => \A q \in Process : q # p => ~InTx(proc[q])
    BY <2>2, <2>7, Alone DEF InTx
  <2> QED
    BY <1>2, <1>3, <2>2, <2>4, <2>5, <2>6, <2>7, <2>8, IdleSound DEF LockInv, Idle
<1>10. CASE \E f \in Foreign, g \in Generation : Intrude(f, g)
  BY <1>10 DEF Intrude, LockInv, Calm
<1>11. CASE UNCHANGED vars
  BY <1>11 DEF vars, LockInv, Calm
<1> QED
  BY <1>1, <1>4, <1>5, <1>6, <1>7, <1>8, <1>9, <1>10, <1>11 DEF Next

\* Judged by what it is, the file in quarantine is deleted.
Doomed(r) == IF r.call = 0 THEN r.heldFile \in Legacy ELSE r.heldFile \in Sealed

\* The process will put a file back at the path of generation zero.
Keeping(r) == r.at \in {"judge", "reshelve"} /\ r.goal = 0 /\ ~Doomed(r)

\* A writer has read, or will read, all that was published, and its number is
\* above everything that is, or will be back, in the directory.
Reading(r) ==
    r.at = "load" =>
        /\ Latest <= r.goal
        /\ r.goal = -1 => published = {}
        /\ r.goal # -1 => path[r.goal] = None \/ published \subseteq Entries(path[r.goal])

Writing(r) ==
    /\ r.at \in {"number", "publish"} => published \subseteq r.entries
    /\ r.at = "publish" =>
         /\ r.goal > Latest
         /\ r.goal = 0 => path[0] = None /\ \A q \in Process : ~Keeping(proc[q])

\* Nothing foreign but the plaintext cache of an older build, at the first place.
Clean(r) ==
    /\ r.heldFile \in Foreign => r.goal = 0 /\ r.heldFile \in Legacy
    /\ r.at = "reshelve" => ~Doomed(r)

Topped ==
    /\ Latest # -1 => published \subseteq Entries(path[Latest])
    /\ Latest = -1 => \/ published = {}
                      \/ \E p \in Process : Keeping(proc[p]) /\ published \subseteq Entries(proc[p].heldFile)

MergeInv ==
    Undisturbed({}) =>
      /\ \A g \in Generation : path[g] \in Foreign => g = 0 /\ path[g] \in Legacy
      /\ \A p \in Process :
           /\ Clean(proc[p]) /\ Reading(proc[p]) /\ Writing(proc[p])
           /\ Keeping(proc[p]) => /\ path[0] = None
                                  /\ \A q \in Process : Keeping(proc[q]) => q = p
      /\ Topped

\* How one path moves the latest generation.
LEMMA LatestMoves ==
    ASSUME path \in Paths, path' \in Paths, NEW g \in Generation, NEW o,
           path' = [path EXCEPT ![g] = o]
    PROVE  /\ o = None /\ g # Latest => Latest' = Latest
           /\ o = None => Latest' <= Latest
           /\ o = None /\ Latest = 0 /\ g = 0 => Latest' = -1
           /\ o # None => Latest' = IF g > Latest THEN g ELSE Latest
<1>1. path'[g] = o /\ \A h \in Generation : h # g => path'[h] = path[h]
  BY DEF Paths
<1>2. /\ Latest \in -1 .. MaxGeneration
      /\ Latest # -1 => Latest \in Generation /\ path[Latest] # None
      /\ \A h \in Generation : path[h] # None => h <= Latest
  BY LatestIs
<1>3. /\ Latest' \in -1 .. MaxGeneration
      /\ Latest' # -1 => Latest' \in Generation /\ path'[Latest'] # None
      /\ \A h \in Generation : path'[h] # None => h <= Latest'
  BY LatestIsNext
<1>4. g \in 0 .. MaxGeneration /\ MaxGeneration \in Nat /\ Generation = 0 .. MaxGeneration
  BY BoundAssumption DEF Generation
<1>5. ASSUME o = None
      PROVE  Latest' <= Latest /\ (g # Latest => Latest' = Latest)
  BY <1>1, <1>2, <1>3, <1>4, <1>5
<1>6. ASSUME o = None, Latest = 0, g = 0
      PROVE  Latest' = -1
  BY <1>1, <1>2, <1>3, <1>4, <1>5, <1>6
<1>7. ASSUME o # None
      PROVE  Latest' = IF g > Latest THEN g ELSE Latest
  BY <1>1, <1>2, <1>3, <1>4, <1>7
<1> QED
  BY <1>5, <1>6, <1>7

LEMMA InitMerge ==
    ASSUME Init
    PROVE  MergeInv
<1>1. PICK o \in Legacy \cup {None} : path = [g \in Generation |-> IF g = 0 THEN o ELSE None]
  BY DEF Init
<1>2. /\ \A p \in Process : proc[p] = [Idle EXCEPT !.at = "fresh"]
      /\ published = {}
  BY DEF Init
<1>3. \A p \in Process : /\ proc[p].heldFile = None /\ ~Keeping(proc[p])
                         /\ Reading(proc[p]) /\ Writing(proc[p]) /\ proc[p].at = "fresh"
  BY <1>2 DEF Idle, Keeping, Reading, Writing
<1>4. \A p \in Process : Clean(proc[p])
  BY <1>3, NoneApart DEF Clean, Content
<1>5. \A g \in Generation : path[g] \in Foreign => g = 0 /\ path[g] \in Legacy
  BY <1>1, NoneApart DEF Content
<1>6. Topped
  BY <1>2 DEF Topped
<1> QED
  BY <1>3, <1>4, <1>5, <1>6 DEF MergeInv

\* No death and no excuse now means none before.
LEMMA CalmBefore ==
    ASSUME IInv, IInv', [Next]_vars, Undisturbed({})'
    PROVE  /\ Undisturbed({}) /\ Calm /\ excuses' = {} /\ excuses = {}
           /\ UNCHANGED alive /\ alive = Process
<1>1. alive' \subseteq alive /\ excuses \subseteq excuses' /\ caller'[0] = caller[0]
  <2>1. calls \in 0 .. MaxCall /\ caller \in [Token -> Process \cup {Earlier, None}] /\ 0 \in Token
    BY BoundAssumption DEF IInv, TypeOK, Token
  <2>2. ASSUME NEW p \in Process, StartWrite(p)
        PROVE  caller'[0] = caller[0] /\ alive' = alive /\ excuses' = excuses
    <3>1. calls + 1 # 0
      BY <2>1, BoundAssumption
    <3> QED
      BY <2>1, <2>2, <3>1 DEF StartWrite
  <2>3. ASSUME NEW p \in Process,
               \/ Purge(p) \/ Crash(p) \/ Acquire(p) \/ ObserveDeadOwner(p) \/ AcquireTimesOut(p)
               \/ Reap(p) \/ PutBackLock(p) \/ ReleaseLock(p) \/ Load(p) \/ Publish(p)
               \/ ListOld(p) \/ QuarantineOld(p) \/ Judge(p) \/ Reshelve(p)
        PROVE  caller' = caller /\ alive' \subseteq alive /\ excuses' = excuses
    BY <2>3 DEF Purge, Crash, Acquire, ObserveDeadOwner, AcquireTimesOut, Reap, PutBackLock,
            ReleaseLock, Load, Publish, ListOld, QuarantineOld, Judge, Reshelve, Rest
  <2>4. ASSUME NEW p \in Process, ListLatest(p) \/ Number(p)
        PROVE  caller' = caller /\ alive' = alive /\ excuses \subseteq excuses'
    BY <2>4 DEF ListLatest, Number, Excuses
  <2>5. ASSUME NEW f \in Foreign, NEW g \in Generation, Intrude(f, g)
        PROVE  caller' = caller /\ alive' = alive /\ excuses \subseteq excuses'
    BY <2>5 DEF Intrude
  <2>6. CASE UNCHANGED vars
    BY <2>6 DEF vars
  <2> QED
    BY <2>2, <2>3, <2>4, <2>5, <2>6 DEF Next
<1> QED
  BY <1>1 DEF Undisturbed, Calm, IInv, TypeOK

\* A step that touches no path and publishes nothing.
LEMMA MergeQuiet ==
    ASSUME IInv, IInv', MergeInv, Undisturbed({}), NEW p \in Process, NEW r \in ProcState,
           proc' = [proc EXCEPT ![p] = r], UNCHANGED <<path, published>>,
           Keeping(r) <=> Keeping(proc[p]), Keeping(r) => r.heldFile = proc[p].heldFile,
           Clean(r), Reading(r), Writing(r)
    PROVE  MergeInv'
<1>1. \A q \in Process : proc'[q] = IF q = p THEN r ELSE proc[q]
  BY Changed
<1>2. Latest' = Latest
  BY DEF Latest, Occupied
<1>3. \A q \in Process : Keeping(proc'[q]) <=> Keeping(proc[q])
  BY <1>1
<1>4. ASSUME NEW x, Reading(x)
      PROVE  Reading(x)'
  BY <1>2, <1>4 DEF Reading, Entries
<1>5. ASSUME NEW x, Writing(x)
      PROVE  Writing(x)'
  BY <1>2, <1>3, <1>5 DEF Writing
<1>6. ASSUME NEW q \in Process
      PROVE  /\ Clean(proc'[q]) /\ Reading(proc[q])' /\ Writing(proc[q])'
             /\ Keeping(proc'[q]) => /\ path'[0] = None
                                     /\ \A x \in Process : Keeping(proc'[x]) => x = q
  <2>1. Clean(proc[q]) /\ Reading(proc[q]) /\ Writing(proc[q])
    BY DEF MergeInv
  <2>2. Reading(proc[q])' /\ Writing(proc[q])' /\ Clean(proc'[q])
    <3>1. CASE q = p
      <4>1. Reading(r)' /\ Writing(r)' /\ proc'[q] = r
        BY <1>1, <1>4, <1>5, <3>1
      <4> QED
        BY <4>1 DEF Reading, Writing
    <3>2. CASE q # p
      <4>1. PICK x : x = proc[q]
        OBVIOUS
      <4>2. Reading(x)' /\ Writing(x)' /\ proc'[q] = x
        BY <1>1, <1>4, <1>5, <2>1, <3>2, <4>1
      <4> QED
        BY <2>1, <4>1, <4>2 DEF Reading, Writing
    <3> QED
      BY <3>1, <3>2
  <2>3. Keeping(proc'[q]) => path'[0] = None /\ \A x \in Process : Keeping(proc'[x]) => x = q
    BY <1>3 DEF MergeInv
  <2> QED
    BY <2>2, <2>3
<1>7. Topped'
  <2>1. Topped
    BY DEF MergeInv
  <2>2. \A q \in Process : Keeping(proc[q]) => proc'[q].heldFile = proc[q].heldFile
    BY <1>1
  <2> QED
    BY <1>2, <1>3, <2>1, <2>2 DEF Topped, Entries
<1>8. \A g \in Generation : path'[g] \in Foreign => g = 0 /\ path'[g] \in Legacy
  BY DEF MergeInv
<1> QED
  BY <1>6, <1>7, <1>8 DEF MergeInv, Clean

\* Steps after which the process has neither read nor taken anything.
LEMMA Apart ==
    ASSUME IInv, IInv', RInv, NEW p \in Process,
           \/ StartWrite(p) \/ Acquire(p) \/ ObserveDeadOwner(p) \/ AcquireTimesOut(p)
           \/ Reap(p) \/ PutBackLock(p) \/ ReleaseLock(p) \/ ListOld(p)
           \/ Purge(p) /\ path[0] = None
           \/ Judge(p) /\ Condemned(p)
    PROVE  \E r \in ProcState :
             /\ proc' = [proc EXCEPT ![p] = r]
             /\ r.at \notin {"load", "number", "publish", "judge", "reshelve", "dead"}
             /\ ~Keeping(proc[p])
<1>1. p \in alive /\ proc[p] \in ProcState /\ proc \in [Process -> ProcState]
  BY DEF StartWrite, Acquire, ObserveDeadOwner, AcquireTimesOut, Reap, PutBackLock, ReleaseLock,
         ListOld, Purge, Judge, At, IInv, TypeOK, ProcState
<1>2. ASSUME NEW r, proc' = [proc EXCEPT ![p] = r]
      PROVE  r \in ProcState
  BY <1>1, <1>2, OwnFacts
<1>3. ~Keeping(proc[p])
  BY DEF StartWrite, Acquire, ObserveDeadOwner, AcquireTimesOut, Reap, PutBackLock, ReleaseLock,
         ListOld, Purge, Judge, At, Keeping, Doomed, Condemned, Authenticated
<1>4. CASE proc' = [proc EXCEPT ![p] = Idle]
  BY <1>2, <1>3, <1>4 DEF Idle
<1>5. ASSUME NEW r, proc' = [proc EXCEPT ![p] = r],
             r.at \in {"acquire", "list", "reap", "putback", "release", "retire"}
      PROVE  \E x \in ProcState :
               /\ proc' = [proc EXCEPT ![p] = x]
               /\ x.at \notin {"load", "number", "publish", "judge", "reshelve", "dead"}
               /\ ~Keeping(proc[p])
  BY <1>2, <1>3, <1>5
<1>6. CASE StartWrite(p)
  <2>1. PICK r : r = [proc[p] EXCEPT !.at = "acquire", !.call = calls + 1]
    OBVIOUS
  <2>2. proc' = [proc EXCEPT ![p] = r] /\ r.at = "acquire"
    BY <1>1, <1>6, <2>1 DEF StartWrite, ProcState
  <2> QED
    BY <1>5, <2>2
<1>7. CASE Acquire(p)
  <2>1. PICK r : r = [proc[p] EXCEPT !.at = "list"]
    OBVIOUS
  <2>2. proc' = [proc EXCEPT ![p] = r] /\ r.at = "list"
    BY <1>1, <1>7, <2>1 DEF Acquire, GoTo, ProcState
  <2> QED
    BY <1>5, <2>2
<1>8. CASE ObserveDeadOwner(p)
  <2>1. PICK r : r = [proc[p] EXCEPT !.at = "reap", !.observed = lock]
    OBVIOUS
  <2>2. proc' = [proc EXCEPT ![p] = r] /\ r.at = "reap"
    BY <1>1, <1>8, <2>1 DEF ObserveDeadOwner, ProcState
  <2> QED
    BY <1>5, <2>2
<1>9. CASE Reap(p)
  <2>1. PICK r : /\ \/ r = [proc[p] EXCEPT !.at = "acquire", !.observed = None]
                    \/ r = [proc[p] EXCEPT !.at = "putback", !.heldLock = lock]
                 /\ proc' = [proc EXCEPT ![p] = r]
    BY <1>1, <1>9 DEF Reap, ProcState
  <2>2. r.at \in {"acquire", "putback"}
    BY <1>1, <2>1 DEF ProcState
  <2> QED
    BY <1>5, <2>1, <2>2
<1>10. CASE PutBackLock(p)
  <2>1. PICK r : r = [proc[p] EXCEPT !.at = "acquire", !.heldLock = None, !.observed = None]
    OBVIOUS
  <2>2. r.at = "acquire"
    BY <1>1, <2>1 DEF ProcState
  <2>3. proc' = [proc EXCEPT ![p] = Idle] \/ proc' = [proc EXCEPT ![p] = r]
    BY <1>1, <1>10, <2>1 DEF PutBackLock
  <2> QED
    BY <1>4, <1>5, <2>2, <2>3
<1>11. CASE ReleaseLock(p)
  <2>1. PICK r : r = [proc[p] EXCEPT !.at = "putback", !.heldLock = lock]
    OBVIOUS
  <2>2. r.at = "putback"
    BY <1>1, <2>1 DEF ProcState
  <2>3. proc' = [proc EXCEPT ![p] = Idle] \/ proc' = [proc EXCEPT ![p] = r]
    BY <1>1, <1>11, <2>1 DEF ReleaseLock
  <2> QED
    BY <1>4, <1>5, <2>2, <2>3
<1>12. CASE ListOld(p)
  <2>1. PICK r : r = [proc[p] EXCEPT !.at = IF Old = {} THEN "release" ELSE "retire", !.todo = Old]
    OBVIOUS
  <2>2. proc' = [proc EXCEPT ![p] = r] /\ r.at \in {"release", "retire"}
    BY <1>1, <1>12, <2>1 DEF ListOld, ProcState
  <2> QED
    BY <1>5, <2>2
<1>13. CASE Judge(p) /\ Condemned(p)
  <2>1. PICK r : r = [proc[p] EXCEPT !.at = IF proc[p].todo = {} THEN "release" ELSE "retire",
                                     !.todo = proc[p].todo, !.goal = -1, !.heldFile = None]
    OBVIOUS
  <2>2. r.at \in {"release", "retire"}
    BY <1>1, <2>1 DEF ProcState
  <2>3. proc' = [proc EXCEPT ![p] = Idle] \/ proc' = [proc EXCEPT ![p] = r]
    BY <1>1, <1>13, <2>1 DEF Judge, Retiring
  <2> QED
    BY <1>4, <1>5, <2>2, <2>3
<1> QED
  BY <1>4, <1>6, <1>7, <1>8, <1>9, <1>10, <1>11, <1>12, <1>13 DEF AcquireTimesOut, Purge

LEMMA MergeApart ==
    ASSUME IInv, IInv', RInv, RInv', MergeInv, Undisturbed({}), NEW p \in Process,
           UNCHANGED <<path, published>>,
           \/ StartWrite(p) \/ Acquire(p) \/ ObserveDeadOwner(p) \/ AcquireTimesOut(p)
           \/ Reap(p) \/ PutBackLock(p) \/ ReleaseLock(p) \/ ListOld(p)
           \/ Purge(p) /\ path[0] = None
           \/ Judge(p) /\ Condemned(p)
    PROVE  MergeInv'
<1>1. PICK r \in ProcState :
             /\ proc' = [proc EXCEPT ![p] = r]
             /\ r.at \notin {"load", "number", "publish", "judge", "reshelve", "dead"}
             /\ ~Keeping(proc[p])
  BY Apart
<1>2. proc'[p] = r
  BY <1>1, Changed
<1>3. r.heldFile = None
  BY <1>1, <1>2 DEF RInv, Handled
<1>4. ~Keeping(r) /\ Clean(r) /\ Reading(r) /\ Writing(r)
  BY <1>1, <1>3, NoneApart DEF Keeping, Clean, Reading, Writing, Content
<1> QED
  BY <1>1, <1>4, MergeQuiet

\* A file a process keeps is a sealed one a purge took, or the plaintext cache a
\* retiring process took.
LEMMA Kept ==
    ASSUME IInv, MergeInv, Undisturbed({}), NEW p \in Process, Keeping(proc[p])
    PROVE  \/ InTx(proc[p]) /\ Entries(proc[p].heldFile) = {}
           \/ proc[p].call = 0 /\ proc[p].heldFile \in Sealed /\ proc[p].heldFile # {}
<1>1. proc[p].heldFile \in Content /\ proc[p].at \in {"judge", "reshelve"} /\ p \in alive
  BY DEF Keeping, IInv, Sound, TypeOK, Undisturbed
<1>2. proc[p].heldFile \in Foreign => proc[p].heldFile \in Legacy
  BY DEF MergeInv, Clean
<1>3. \A o \in Sealed : o # {}
  BY DEF Sealed
<1>4. CASE proc[p].call = 0
  <2>1. proc[p].heldFile \in Sealed
    BY <1>1, <1>2, <1>4 DEF Keeping, Doomed, Content
  <2> QED
    BY <1>3, <1>4, <2>1
<1>5. CASE proc[p].call # 0
  <2>1. proc[p].heldFile \notin Sealed
    BY <1>5 DEF Keeping, Doomed
  <2> QED
    BY <1>1, <1>5, <2>1 DEF InTx, Entries, Authenticated
<1> QED
  BY <1>4, <1>5

LEMMA MergeList ==
    ASSUME IInv, IInv', RInv, MergeInv, Undisturbed({}), Undisturbed({})', NEW p \in Process,
           ListLatest(p)
    PROVE  MergeInv'
<1>1. PICK r : r = [proc[p] EXCEPT !.at = "load", !.goal = Latest]
  OBVIOUS
<1>2. p \in alive /\ proc[p] \in ProcState /\ proc \in [Process -> ProcState]
         /\ proc[p].at = "list"
  BY AtFacts DEF ListLatest, At
<1>3. proc' = [proc EXCEPT ![p] = r] /\ UNCHANGED <<path, published>>
  BY <1>1, <1>2 DEF ListLatest, ProcState
<1>4. proc'[p] = r
  BY <1>2, <1>3
<1>5. r \in ProcState
  BY <1>4 DEF IInv, TypeOK, ProcState
<1>6. r.at = "load" /\ r.goal = Latest /\ r.heldFile = proc[p].heldFile
  BY <1>1, <1>2 DEF ProcState
<1>7. ~Eclipse
  BY DEF ListLatest, Excuses, Undisturbed
<1>8. Latest = -1 => published = {}
  <2> SUFFICES ASSUME Latest = -1, published # {}
               PROVE  FALSE
    OBVIOUS
  <2>1. PICK q \in Process : Keeping(proc[q]) /\ published \subseteq Entries(proc[q].heldFile)
    BY DEF MergeInv, Topped
  <2>2. proc[q].call = 0 /\ Authenticated(proc[q].heldFile) /\ q \in alive
    BY <2>1, Kept DEF Authenticated, Undisturbed
  <2> QED
    BY <1>7, <2>2 DEF Eclipse
<1>9. Latest \in -1 .. MaxGeneration
  BY <1>2, AtFacts
<1>10. Latest # -1 => published \subseteq Entries(path[Latest])
  BY DEF MergeInv, Topped
<1>11. Reading(r) /\ Writing(r)
  BY <1>6, <1>8, <1>9, <1>10 DEF Reading, Writing
<1>12. ~Keeping(r) /\ ~Keeping(proc[p])
  BY <1>2, <1>6 DEF Keeping
<1>13. Clean(r)
  <2>1. proc[p].heldFile = None
    BY <1>2 DEF RInv, Handled
  <2> QED
    BY <1>6, <2>1, NoneApart DEF Clean, Content
<1> QED
  BY <1>3, <1>5, <1>11, <1>12, <1>13, MergeQuiet

LEMMA MergeLoad ==
    ASSUME IInv, IInv', RInv, MergeInv, Undisturbed({}), NEW p \in Process, Load(p)
    PROVE  MergeInv'
<1>1. p \in alive /\ proc[p] \in ProcState /\ proc \in [Process -> ProcState]
         /\ proc[p].at = "load" /\ UNCHANGED <<path, published>> /\ proc[p].heldFile = None
  BY AtFacts DEF Load, At, Rest, RInv, Handled
<1>2. ASSUME NEW r, proc' = [proc EXCEPT ![p] = r], r.at \in {"release", "number"},
             r.heldFile = None, r.at = "number" => published \subseteq r.entries
      PROVE  MergeInv'
  <2>1. proc'[p] = r /\ r \in ProcState
    BY <1>1, <1>2 DEF IInv, TypeOK, ProcState
  <2>2. ~Keeping(r) /\ ~Keeping(proc[p]) /\ Clean(r) /\ Reading(r) /\ Writing(r)
    BY <1>1, <1>2, NoneApart DEF Keeping, Clean, Content, Reading, Writing
  <2> QED
    BY <1>1, <1>2, <2>1, <2>2, MergeQuiet
<1>3. CASE proc[p].goal # -1 /\ path[proc[p].goal] = None
  <2>1. PICK r : r = [proc[p] EXCEPT !.at = "release", !.goal = -1]
    OBVIOUS
  <2>2. proc' = [proc EXCEPT ![p] = r]
    BY <1>1, <1>3, <2>1 DEF Load
  <2>3. r.at = "release" /\ r.heldFile = None
    BY <1>1, <2>1 DEF ProcState
  <2> QED
    BY <1>2, <2>2, <2>3
<1>4. CASE ~(proc[p].goal # -1 /\ path[proc[p].goal] = None)
  <2>1. PICK o : o = IF proc[p].goal = -1 THEN None ELSE path[proc[p].goal]
    OBVIOUS
  <2>2. PICK r : r = [proc[p] EXCEPT !.at = "number", !.goal = -1, !.entries = Entries(o)]
    OBVIOUS
  <2>3. proc' = [proc EXCEPT ![p] = r]
    BY <1>1, <1>4, <2>1, <2>2 DEF Load
  <2>4. r.at = "number" /\ r.heldFile = None /\ r.entries = Entries(o)
    BY <1>1, <2>2 DEF ProcState
  <2>5. Reading(proc[p])
    BY DEF MergeInv
  <2>6. published \subseteq Entries(o)
    BY <1>1, <1>4, <2>1, <2>5 DEF Reading
  <2> QED
    BY <1>2, <2>3, <2>4, <2>6
<1> QED
  BY <1>3, <1>4

LEMMA MergeNumber ==
    ASSUME IInv, IInv', RInv, LockInv, MergeInv, Calm, Undisturbed({}), Undisturbed({})',
           NEW p \in Process, Number(p)
    PROVE  MergeInv'
<1>1. PICK r : r = [proc[p] EXCEPT !.at = "publish", !.goal = Latest + 1]
  OBVIOUS
<1>2. p \in alive /\ proc[p] \in ProcState /\ proc \in [Process -> ProcState]
         /\ proc[p].at = "number" /\ proc[p].heldFile = None /\ proc[p].call # 0
  BY AtFacts DEF Number, At, RInv, Handled, Sound
<1>3. proc' = [proc EXCEPT ![p] = r] /\ UNCHANGED <<path, published>>
  BY <1>1, <1>2 DEF Number, ProcState
<1>4. proc'[p] = r /\ r \in ProcState
  BY <1>2, <1>3 DEF IInv, TypeOK, ProcState
<1>5. r.at = "publish" /\ r.goal = Latest + 1 /\ r.heldFile = None /\ r.entries = proc[p].entries
  BY <1>1, <1>2 DEF ProcState
<1>6. ~Eclipse
  BY DEF Number, Excuses, Undisturbed
<1>7. Latest \in -1 .. MaxGeneration /\ MaxGeneration \in Nat
  BY <1>2, AtFacts, BoundAssumption
<1>8. Latest = -1 => path[0] = None /\ \A q \in Process : ~Keeping(proc[q])
  <2> SUFFICES ASSUME Latest = -1
               PROVE  path[0] = None /\ \A q \in Process : ~Keeping(proc[q])
    OBVIOUS
  <2>1. path[0] = None
    BY <1>2, <1>7, AtFacts, LatestIs DEF Generation
  <2>2. ASSUME NEW q \in Process, Keeping(proc[q])
        PROVE  FALSE
    <3>1. CASE InTx(proc[q])
      <4>1. q = p
        BY <1>2, <3>1, Alone DEF InTx
      <4> QED
        BY <1>2, <2>2, <4>1 DEF Keeping
    <3>2. CASE ~InTx(proc[q])
      <4>1. proc[q].call = 0 /\ Authenticated(proc[q].heldFile) /\ q \in alive
        BY <2>2, <3>2, Kept DEF Authenticated, Undisturbed
      <4> QED
        BY <1>6, <4>1 DEF Eclipse
    <3> QED
      BY <3>1, <3>2
  <2> QED
    BY <2>1, <2>2
<1>9. published \subseteq proc[p].entries
  BY <1>2 DEF MergeInv, Writing
<1>10. r.goal > Latest /\ (r.goal = 0 => Latest = -1)
  BY <1>5, <1>7
<1>11. Reading(r) /\ Writing(r)
  BY <1>5, <1>8, <1>9, <1>10 DEF Reading, Writing
<1>12. ~Keeping(r) /\ ~Keeping(proc[p]) /\ Clean(r)
  BY <1>2, <1>5, NoneApart DEF Keeping, Clean, Content
<1> QED
  BY <1>3, <1>4, <1>11, <1>12, MergeQuiet

\* The number is taken: the writer asks for another.
LEMMA MergeRetry ==
    ASSUME IInv, IInv', RInv, MergeInv, Undisturbed({}), NEW p \in Process,
           Publish(p), path[proc[p].goal] # None
    PROVE  MergeInv'
<1>1. PICK r : r = [proc[p] EXCEPT !.at = "number", !.goal = -1]
  OBVIOUS
<1>2. p \in alive /\ proc[p] \in ProcState /\ proc \in [Process -> ProcState]
         /\ proc[p].at = "publish" /\ proc[p].heldFile = None
  BY AtFacts DEF Publish, At, RInv, Handled
<1>3. proc' = [proc EXCEPT ![p] = r] /\ UNCHANGED <<path, published>>
  BY <1>1, <1>2 DEF Publish
<1>4. proc'[p] = r /\ r \in ProcState
  BY <1>2, <1>3 DEF IInv, TypeOK, ProcState
<1>5. r.at = "number" /\ r.heldFile = None /\ r.entries = proc[p].entries
  BY <1>1, <1>2 DEF ProcState
<1>6. published \subseteq proc[p].entries
  BY <1>2 DEF MergeInv, Writing
<1>7. ~Keeping(r) /\ ~Keeping(proc[p]) /\ Clean(r) /\ Reading(r) /\ Writing(r)
  BY <1>2, <1>5, <1>6, NoneApart DEF Keeping, Clean, Content, Reading, Writing
<1> QED
  BY <1>3, <1>4, <1>7, MergeQuiet

LEMMA MergeJudge ==
    ASSUME IInv, IInv', MergeInv, Undisturbed({}), NEW p \in Process, Judge(p), ~Condemned(p)
    PROVE  MergeInv'
<1>1. PICK r : r = [proc[p] EXCEPT !.at = "reshelve"]
  OBVIOUS
<1>2. p \in alive /\ proc[p] \in ProcState /\ proc \in [Process -> ProcState]
         /\ proc[p].at = "judge"
  BY AtFacts DEF Judge, At
<1>3. proc' = [proc EXCEPT ![p] = r] /\ UNCHANGED <<path, published>>
  BY <1>1, <1>2 DEF Judge, GoTo, Rest
<1>4. proc'[p] = r /\ r \in ProcState
  BY <1>2, <1>3 DEF IInv, TypeOK, ProcState
<1>5. /\ r.at = "reshelve" /\ r.heldFile = proc[p].heldFile /\ r.goal = proc[p].goal
      /\ r.call = proc[p].call
  BY <1>1, <1>2 DEF ProcState
<1>6. ~Doomed(r) /\ ~Doomed(proc[p])
  BY <1>5 DEF Condemned, Doomed, Authenticated
<1>7. Keeping(r) <=> Keeping(proc[p])
  BY <1>2, <1>5, <1>6 DEF Keeping
<1>8. Clean(r) /\ Reading(r) /\ Writing(r)
  BY <1>5, <1>6 DEF MergeInv, Clean, Reading, Writing
<1> QED
  BY <1>3, <1>4, <1>5, <1>7, <1>8, MergeQuiet

\* A step that moves a file, in terms of what it leaves behind.
LEMMA MergeMoves ==
    ASSUME IInv, IInv', MergeInv, Undisturbed({}), NEW p \in Process, NEW r \in ProcState,
           proc' = [proc EXCEPT ![p] = r],
           \A g \in Generation : path'[g] \in Foreign => g = 0 /\ path'[g] \in Legacy,
           Keeping(r) => path'[0] = None,
           \A q \in Process : q # p /\ Keeping(proc[q]) => path'[0] = None /\ ~Keeping(r),
           Clean(r), \A q \in Process : Reading(proc[q])' /\ Writing(proc[q])', Topped'
    PROVE  MergeInv'
<1>1. \A q \in Process : proc'[q] = IF q = p THEN r ELSE proc[q]
  BY Changed
<1>2. ASSUME NEW q \in Process
      PROVE  /\ Clean(proc'[q])
             /\ Keeping(proc'[q]) => /\ path'[0] = None
                                     /\ \A x \in Process : Keeping(proc'[x]) => x = q
  BY <1>1 DEF MergeInv
<1> QED
  BY <1>2 DEF MergeInv, Clean

\* Nobody else reads or writes while a process is in its transaction.
LEMMA NobodyElse ==
    ASSUME IInv, IInv', LockInv, Calm, NEW p \in Process, NEW r \in ProcState,
           proc' = [proc EXCEPT ![p] = r], InTx(proc[p]), r.at \notin {"load", "number", "publish"}
    PROVE  \A q \in Process : Reading(proc[q])' /\ Writing(proc[q])'
<1>1. \A q \in Process : proc'[q] = IF q = p THEN r ELSE proc[q]
  BY Changed
<1>2. ASSUME NEW q \in Process, q # p
      PROVE  proc[q].at \notin {"load", "number", "publish"}
  <2>1. Sound(proc[q])
    BY DEF IInv
  <2> QED
    BY <1>2, <2>1, Alone DEF Sound, InTx
<1> QED
  BY <1>1, <1>2 DEF Reading, Writing

LEMMA MergePurge ==
    ASSUME IInv, IInv', RInv, MergeInv, Undisturbed({}), NEW p \in Process,
           Purge(p), path[0] # None
    PROVE  MergeInv'
<1>1. PICK r : r = [Idle EXCEPT !.at = "judge", !.goal = 0, !.heldFile = path[0]]
  OBVIOUS
<1>2. /\ proc' = [proc EXCEPT ![p] = r] /\ path' = [path EXCEPT ![0] = None]
      /\ published' = published /\ p \in alive /\ proc \in [Process -> ProcState]
  BY <1>1 DEF Purge, At, Rest, IInv, TypeOK, ProcState
<1>3. proc'[p] = r /\ r \in ProcState
  BY <1>2 DEF IInv, TypeOK, ProcState
<1>4. r.at = "judge" /\ r.goal = 0 /\ r.heldFile = path[0] /\ r.call = 0
  BY <1>1 DEF Idle
<1>5. path \in Paths /\ path' \in Paths /\ 0 \in Generation /\ Generation = 0 .. MaxGeneration
  BY BoundAssumption DEF IInv, TypeOK, Paths, Generation
<1>6. \A g \in Generation : path'[g] = IF g = 0 THEN None ELSE path[g]
  BY <1>2, <1>5 DEF Paths
<1>7. /\ Latest \in 0 .. MaxGeneration /\ Latest' <= Latest
      /\ Latest = 0 => Latest' = -1
      /\ Latest # 0 => Latest' = Latest
  <2>1. Latest \in -1 .. MaxGeneration /\ 0 <= Latest
    BY <1>5, LatestIs
  <2>2. PICK o : o = None /\ path' = [path EXCEPT ![0] = o]
    BY <1>2
  <2>3. /\ 0 # Latest => Latest' = Latest
        /\ Latest' <= Latest
        /\ Latest = 0 => Latest' = -1
    BY <1>5, <2>2, LatestMoves
  <2> QED
    BY <2>1, <2>3, BoundAssumption
<1>8. Latest' \in -1 .. MaxGeneration
  BY <1>5, LatestIsNext
<1>9. \A q \in Process : ~Keeping(proc[q])
  BY DEF MergeInv
<1>10. \A g \in Generation : path'[g] \in Foreign => g = 0 /\ path'[g] \in Legacy
  BY <1>6, NoneApart DEF MergeInv, Content
<1>11. Clean(r)
  BY <1>4, <1>5 DEF Clean, MergeInv
<1>12. ASSUME NEW q \in Process
       PROVE  Reading(proc[q])' /\ Writing(proc[q])'
  <2>1. CASE q = p
    BY <1>3, <1>4, <2>1 DEF Reading, Writing
  <2>2. CASE q # p
    <3>1. PICK x \in ProcState : x = proc[q]
      BY <1>2
    <3>2. proc'[q] = x
      BY <1>2, <2>2, <3>1
    <3>3. Reading(x) /\ Writing(x)
      BY <3>1 DEF MergeInv
    <3>4. x.goal \in -1 .. MaxGeneration
      BY DEF ProcState
    <3>5. Reading(proc[q])'
      <4>1. x.at = "load" => Latest' <= x.goal
        BY <1>7, <1>8, <3>3, <3>4, BoundAssumption DEF Reading
      <4>2. x.goal # -1 => path'[x.goal] \in {None, path[x.goal]}
        BY <1>5, <1>6, <3>4, BoundAssumption
      <4> QED
        BY <1>2, <3>2, <3>3, <4>1, <4>2 DEF Reading, Entries
    <3>6. Writing(proc[q])'
      <4>1. x.at = "publish" => x.goal > Latest' /\ x.goal # 0
        BY <1>7, <1>8, <3>3, <3>4, BoundAssumption DEF Writing
      <4> QED
        BY <1>2, <3>2, <3>3, <4>1 DEF Writing
    <3> QED
      BY <3>5, <3>6
  <2> QED
    BY <2>1, <2>2
<1>13. Topped'
  <2>1. published \subseteq Entries(path[Latest])
    BY <1>7, BoundAssumption DEF MergeInv, Topped
  <2>2. CASE Latest # 0
    <3>1. Latest' = Latest /\ Latest \in Generation /\ path'[Latest] = path[Latest]
      BY <1>5, <1>6, <1>7, <2>2
    <3> QED
      BY <1>2, <1>7, <2>1, <3>1, BoundAssumption DEF Topped, Entries
  <2>3. CASE Latest = 0
    <3>1. Latest' = -1 /\ published \subseteq Entries(path[0])
      BY <1>7, <2>1, <2>3
    <3>2. CASE path[0] \in Sealed
      <4>1. Keeping(r)
        BY <1>4, <3>2, ForeignAssumption DEF Keeping, Doomed
      <4> QED
        BY <1>2, <1>3, <1>4, <3>1, <4>1 DEF Topped, Entries
    <3>3. CASE path[0] \notin Sealed
      <4>1. published = {}
        BY <3>1, <3>3 DEF Entries, Authenticated
      <4> QED
        BY <1>2, <3>1, <4>1 DEF Topped
    <3> QED
      BY <3>2, <3>3
  <2> QED
    BY <2>2, <2>3
<1> QED
  BY <1>2, <1>3, <1>5, <1>6, <1>9, <1>10, <1>11, <1>12, <1>13, MergeMoves

LEMMA MergeQuarantine ==
    ASSUME IInv, IInv', RInv, RInv', LockInv, Calm, MergeInv, Undisturbed({}), NEW p \in Process,
           QuarantineOld(p)
    PROVE  MergeInv'
<1>1. PICK g, T : /\ g = CHOOSE o \in proc[p].todo : \A h \in proc[p].todo : h <= o
                  /\ T = proc[p].todo \ {g}
  OBVIOUS
<1>2. /\ p \in alive /\ proc[p].at = "retire" /\ proc[p] \in ProcState /\ InTx(proc[p])
      /\ proc \in [Process -> ProcState] /\ published' = published
  BY AtFacts DEF QuarantineOld, At, Sound, InTx, Rest
<1>3. g \in Generation /\ g < Latest
  BY <1>1, OldestFirst
<1>4. ASSUME NEW r, proc' = [proc EXCEPT ![p] = r]
      PROVE  proc'[p] = r /\ r \in ProcState
  BY <1>2, <1>4 DEF IInv, TypeOK, ProcState
<1>5. path \in Paths /\ path' \in Paths /\ Latest \in -1 .. MaxGeneration
        /\ Generation = 0 .. MaxGeneration
  BY <1>2, AtFacts DEF IInv, TypeOK, Paths, Generation
<1>6. ~Keeping(proc[p])
  BY <1>2 DEF Keeping
<1>7. CASE path[g] = None
  <2>1. PICK r : r = [proc[p] EXCEPT !.at = IF T = {} THEN "release" ELSE "retire", !.todo = T,
                                     !.goal = -1, !.heldFile = None]
    OBVIOUS
  <2>2. r.at \in {"release", "retire"} /\ r.heldFile = None
    BY <1>2, <2>1 DEF ProcState
  <2>3. proc' = [proc EXCEPT ![p] = r] /\ path' = path
    BY <1>1, <1>2, <1>7, <2>1 DEF QuarantineOld, Retiring, InTx
  <2>4. ~Keeping(r) /\ Clean(r) /\ Reading(r) /\ Writing(r)
    BY <2>2, NoneApart DEF Keeping, Clean, Content, Reading, Writing
  <2> QED
    BY <1>2, <1>4, <1>6, <2>3, <2>4, MergeQuiet
<1>8. CASE path[g] # None
  <2>1. PICK r : r = [proc[p] EXCEPT !.at = "judge", !.todo = T, !.goal = g, !.heldFile = path[g]]
    OBVIOUS
  <2>2. proc' = [proc EXCEPT ![p] = r] /\ path' = [path EXCEPT ![g] = None]
    BY <1>1, <1>2, <1>8, <2>1 DEF QuarantineOld
  <2>3. r.at = "judge" /\ r.goal = g /\ r.heldFile = path[g] /\ r.call = proc[p].call
    BY <1>2, <2>1 DEF ProcState
  <2>4. r \in ProcState
    BY <1>4, <2>2
  <2>5. \A h \in Generation : path'[h] = IF h = g THEN None ELSE path[h]
    BY <1>5, <2>2 DEF Paths
  <2>6. Latest' = Latest /\ Latest \in Generation /\ path'[Latest] = path[Latest] /\ Latest # -1
    <3> g # Latest
      BY <1>3, <1>5, BoundAssumption
    <3> PICK o : o = None
      OBVIOUS
    <3> path' = [path EXCEPT ![g] = o]
      BY <2>2
    <3>1. Latest' = Latest
      BY <1>3, <1>5, LatestMoves
    <3> QED
      BY <1>3, <1>5, <2>5, <3>1, BoundAssumption
  <2>7. Topped'
    <3>1. published \subseteq Entries(path[Latest])
      BY <2>6 DEF MergeInv, Topped
    <3> QED
      BY <1>2, <2>6, <3>1 DEF Topped, Entries
  <2>8. \A q \in Process : Reading(proc[q])' /\ Writing(proc[q])'
    BY <1>2, <2>2, <2>3, <2>4, NobodyElse
  <2>9. \A h \in Generation : path'[h] \in Foreign => h = 0 /\ path'[h] \in Legacy
    BY <2>5, NoneApart DEF MergeInv, Content
  <2>10. Clean(r)
    BY <1>3, <2>3 DEF Clean, MergeInv
  <2>11. 0 \in Generation
    BY BoundAssumption DEF Generation
  <2>12. Keeping(r) => g = 0
    BY <2>3 DEF Keeping
  <2>13. \A q \in Process : Keeping(proc[q]) => path[0] = None
    BY DEF MergeInv
  <2> QED
    BY <1>8, <2>2, <2>4, <2>5, <2>7, <2>8, <2>9, <2>10, <2>11, <2>12, <2>13, MergeMoves
<1> QED
  BY <1>7, <1>8

LEMMA MergeReshelve ==
    ASSUME IInv, IInv', RInv, RInv', LockInv, Calm, MergeInv, Undisturbed({}), NEW p \in Process,
           Reshelve(p)
    PROVE  MergeInv'
<1>1. PICK o, r : o = proc[p].heldFile /\ r = Retiring(p, proc[p].todo)
  OBVIOUS
<1>2. /\ p \in alive /\ proc[p].at = "reshelve" /\ o \in Content /\ o # None
      /\ proc' = [proc EXCEPT ![p] = r] /\ published' = published
      /\ proc \in [Process -> ProcState]
  BY <1>1, AtFacts DEF Reshelve, At, Sound, ProcState
<1>3. proc'[p] = r /\ r \in ProcState
  BY <1>2 DEF IInv, TypeOK, ProcState
<1>4. r.at \in {"idle", "release", "retire"} /\ r.heldFile = None
  <2>1. PICK x : x = [proc[p] EXCEPT !.at = IF proc[p].todo = {} THEN "release" ELSE "retire",
                                     !.todo = proc[p].todo, !.goal = -1, !.heldFile = None]
    OBVIOUS
  <2>2. x.at \in {"release", "retire"} /\ x.heldFile = None
    BY <1>2, <2>1 DEF ProcState
  <2>3. r = Idle \/ r = x
    BY <1>1, <2>1 DEF Retiring
  <2> QED
    BY <2>2, <2>3 DEF Idle
<1>5. ~Keeping(r) /\ Clean(r)
  BY <1>4, NoneApart DEF Keeping, Clean, Content
<1>6. Keeping(proc[p]) /\ proc[p].goal = 0
  <2>1. Handled(p, proc[p]) /\ Clean(proc[p]) /\ ~Doomed(proc[p])
    BY <1>2 DEF RInv, MergeInv, Clean
  <2> QED
    BY <1>1, <1>2, <2>1 DEF Handled, Clean, Doomed, Keeping, Content
<1>7. path[0] = None /\ \A q \in Process : Keeping(proc[q]) => q = p
  BY <1>6 DEF MergeInv
<1>8. path' = [path EXCEPT ![0] = o]
  BY <1>1, <1>6, <1>7 DEF Reshelve
<1>9. path \in Paths /\ path' \in Paths /\ 0 \in Generation /\ Generation = 0 .. MaxGeneration
  BY BoundAssumption DEF IInv, TypeOK, Paths, Generation
<1>10. \A g \in Generation : path'[g] = IF g = 0 THEN o ELSE path[g]
  BY <1>8, <1>9 DEF Paths
<1>11. Latest \in -1 .. MaxGeneration /\ Latest # 0 /\ Latest' = IF Latest = -1 THEN 0 ELSE Latest
  <2>1. Latest \in -1 .. MaxGeneration /\ (Latest # -1 => path[Latest] # None)
    BY <1>9, LatestIs
  <2>2. Latest' = IF 0 > Latest THEN 0 ELSE Latest
    BY <1>2, <1>8, <1>9, LatestMoves
  <2> QED
    BY <1>7, <2>1, <2>2, BoundAssumption
<1>12. Latest = -1 => published \subseteq Entries(o)
  BY <1>1, <1>7 DEF MergeInv, Topped
<1>13. \A g \in Generation : path'[g] \in Foreign => g = 0 /\ path'[g] \in Legacy
  BY <1>1, <1>10 DEF MergeInv, Clean
<1>14. Topped'
  <2>1. CASE Latest = -1
    BY <1>2, <1>9, <1>10, <1>11, <1>12, <2>1 DEF Topped, Entries
  <2>2. CASE Latest # -1
    <3>1. Latest' = Latest /\ path'[Latest] = path[Latest] /\ published \subseteq Entries(path[Latest])
      BY <1>9, <1>10, <1>11, <2>2, BoundAssumption DEF MergeInv, Topped
    <3> QED
      BY <1>2, <2>2, <3>1 DEF Topped, Entries
  <2> QED
    BY <2>1, <2>2
<1>15. ASSUME NEW q \in Process
       PROVE  Reading(proc[q])' /\ Writing(proc[q])'
  <2>1. CASE q = p
    BY <1>3, <1>4, <2>1 DEF Reading, Writing
  <2>2. CASE InTx(proc[p])
    BY <1>2, <1>3, <1>4, <2>2, NobodyElse
  <2>3. CASE q # p /\ ~InTx(proc[p])
    <3>1. PICK x \in ProcState : x = proc[q]
      BY <1>2
    <3>2. proc'[q] = x
      BY <1>2, <2>3, <3>1
    <3>3. Reading(x) /\ Writing(x) /\ Sound(x) /\ x.goal \in -1 .. MaxGeneration
      BY <3>1 DEF MergeInv, IInv, ProcState
    <3>4. published # {}
      <4>1. o \in Sealed /\ o # {}
        BY <1>1, <1>6, <2>3, Kept
      <4>2. o \in Shelved(0)
        <5>1. strayFiles \subseteq Generation \X Content /\ InHand(proc[p], 0, o)
          BY <1>1, <1>2, <1>6 DEF IInv, TypeOK, InHand
        <5> QED
          BY <5>1, ShelvedNow
      <4>3. o \subseteq published
        BY <1>9, <4>1, <4>2 DEF RInv
      <4> QED
        BY <4>1, <4>3
    <3>5. Reading(proc[q])'
      <4> SUFFICES ASSUME x.at = "load"
                   PROVE  /\ Latest' <= x.goal
                          /\ x.goal = -1 => published' = {}
                          /\ x.goal # -1 => \/ path'[x.goal] = None
                                            \/ published' \subseteq Entries(path'[x.goal])
        BY <3>2 DEF Reading, Entries
      <4>1. Latest <= x.goal /\ x.goal # -1 /\ x.goal \in Generation
        BY <1>9, <3>3, <3>4, BoundAssumption DEF Reading
      <4>2. Latest' <= x.goal
        BY <1>9, <1>11, <4>1, BoundAssumption
      <4>3. CASE x.goal = 0
        <5>1. Latest = -1
          BY <1>11, <4>1, <4>3, BoundAssumption
        <5> QED
          BY <1>2, <1>10, <1>12, <4>1, <4>2, <4>3, <5>1
      <4>4. CASE x.goal # 0
        BY <1>2, <1>10, <3>3, <4>1, <4>2, <4>4 DEF Reading
      <4> QED
        BY <4>3, <4>4
    <3>6. Writing(proc[q])'
      <4>1. x.at = "publish" => x.goal > Latest' /\ x.goal # 0
        <5> SUFFICES ASSUME x.at = "publish"
                     PROVE  x.goal > Latest' /\ x.goal # 0
          OBVIOUS
        <5>1. x.goal > Latest /\ x.goal # 0 /\ x.goal \in 0 .. MaxGeneration
          BY <1>6, <1>9, <3>3 DEF Writing, Sound
        <5> QED
          BY <1>11, <5>1, BoundAssumption
      <4> QED
        BY <1>2, <3>2, <3>3, <4>1 DEF Writing
    <3> QED
      BY <3>5, <3>6
  <2> QED
    BY <2>1, <2>2, <2>3
<1> QED
  BY <1>2, <1>3, <1>5, <1>7, <1>13, <1>14, <1>15, MergeMoves

LEMMA MergePublish ==
    ASSUME IInv, IInv', RInv, LockInv, Calm, MergeInv, Undisturbed({}), NEW p \in Process,
           Publish(p), path[proc[p].goal] = None
    PROVE  MergeInv'
<1>1. PICK g, o, r : /\ g = proc[p].goal /\ o = proc[p].entries \cup {proc[p].call}
                     /\ r = [proc[p] EXCEPT !.at = "prune", !.goal = -1, !.entries = {}]
  OBVIOUS
<1>2. /\ p \in alive /\ proc[p].at = "publish" /\ proc[p] \in ProcState /\ InTx(proc[p])
      /\ proc \in [Process -> ProcState] /\ proc[p].call \in Call /\ g \in Generation
      /\ proc[p].heldFile = None
  <2>1. p \in alive /\ proc[p].at = "publish"
    BY DEF Publish, At
  <2> QED
    BY <1>1, <2>1, AtFacts, BoundAssumption DEF Sound, ProcState, Call, InTx, RInv, Handled
<1>3. /\ proc' = [proc EXCEPT ![p] = r] /\ path' = [path EXCEPT ![g] = o]
      /\ published' = published \cup {proc[p].call}
  BY <1>1, <1>2 DEF Publish
<1>4. proc'[p] = r /\ r \in ProcState
  BY <1>2, <1>3 DEF IInv, TypeOK, ProcState
<1>5. r.at = "prune" /\ r.heldFile = None
  BY <1>1, <1>2 DEF ProcState
<1>6. o \in Sealed /\ o # None /\ o \notin Foreign
  <2>1. proc[p].entries \in SUBSET Call
    BY <1>2 DEF ProcState
  <2>2. o \in Sealed
    BY <1>1, <1>2, <2>1 DEF Sealed
  <2> QED
    BY <2>2, NoneApart, ForeignAssumption DEF Content
<1>7. /\ published \subseteq proc[p].entries /\ g > Latest
      /\ g = 0 => \A q \in Process : ~Keeping(proc[q])
  BY <1>1, <1>2 DEF MergeInv, Writing
<1>8. path \in Paths /\ path' \in Paths /\ 0 \in Generation
  BY BoundAssumption DEF IInv, TypeOK, Paths, Generation
<1>9. \A h \in Generation : path'[h] = IF h = g THEN o ELSE path[h]
  BY <1>3, <1>8 DEF Paths
<1>10. Latest' = g
  BY <1>2, <1>3, <1>6, <1>7, <1>8, LatestMoves
<1>11. Topped'
  <2>1. Entries(path'[g]) = o /\ published' \subseteq o
    BY <1>1, <1>2, <1>3, <1>6, <1>7, <1>9 DEF Entries, Authenticated
  <2> QED
    BY <1>2, <1>10, <2>1, BoundAssumption DEF Topped, Entries, Generation
<1>12. \A q \in Process : Reading(proc[q])' /\ Writing(proc[q])'
  BY <1>2, <1>3, <1>4, <1>5, NobodyElse
<1>13. ~Keeping(r) /\ Clean(r)
  BY <1>5, NoneApart DEF Keeping, Clean, Content
<1>14. \A h \in Generation : path'[h] \in Foreign => h = 0 /\ path'[h] \in Legacy
  BY <1>6, <1>9 DEF MergeInv
<1>15. \A q \in Process : Keeping(proc[q]) => path'[0] = None
  BY <1>7, <1>8, <1>9 DEF MergeInv
<1> QED
  BY <1>3, <1>4, <1>11, <1>12, <1>13, <1>14, <1>15, MergeMoves

LEMMA StepMerge ==
    ASSUME IInv, IInv', RInv, RInv', LockInv, MergeInv, [Next]_vars
    PROVE  MergeInv'
<1> SUFFICES ASSUME Undisturbed({})'
             PROVE  MergeInv'
  BY DEF MergeInv
<1>1. Undisturbed({}) /\ Calm /\ excuses' = {} /\ UNCHANGED alive /\ alive = Process
  BY CalmBefore
<1>2. CASE \E p \in Process :
              \/ StartWrite(p) \/ Acquire(p) \/ ObserveDeadOwner(p) \/ AcquireTimesOut(p)
              \/ Reap(p) \/ PutBackLock(p) \/ ReleaseLock(p) \/ ListOld(p)
              \/ Purge(p) /\ path[0] = None
              \/ Judge(p) /\ Condemned(p)
  <2>1. UNCHANGED <<path, published>>
    BY <1>2 DEF StartWrite, Acquire, ObserveDeadOwner, AcquireTimesOut, Reap, PutBackLock,
                ReleaseLock, ListOld, Purge, Judge, Rest
  <2> QED
    BY <1>1, <1>2, <2>1, MergeApart
<1>3. CASE \E p \in Process : ListLatest(p) \/ Load(p) \/ Number(p)
  BY <1>1, <1>3, MergeList, MergeLoad, MergeNumber
<1>4. CASE \E p \in Process : Publish(p)
  BY <1>1, <1>4, MergeRetry, MergePublish
<1>5. CASE \E p \in Process : QuarantineOld(p) \/ Reshelve(p)
  BY <1>1, <1>5, MergeQuarantine, MergeReshelve
<1>6. CASE \E p \in Process : Judge(p) /\ ~Condemned(p)
  BY <1>1, <1>6, MergeJudge
<1>7. CASE \E p \in Process : Purge(p) /\ path[0] # None
  BY <1>1, <1>7, MergePurge
<1>8. CASE \E p \in Process : Crash(p)
  BY <1>1, <1>8 DEF Crash
<1>9. CASE \E f \in Foreign, g \in Generation : Intrude(f, g)
  BY <1>1, <1>9 DEF Intrude
<1>10. CASE UNCHANGED vars
  BY <1>1, <1>10 DEF vars, MergeInv, Clean, Reading, Writing, Topped, Latest, Occupied, Entries
<1> QED
  BY <1>2, <1>3, <1>4, <1>5, <1>6, <1>7, <1>8, <1>9, <1>10 DEF Next

\* As long as no process has died the transactions of writers exclude each other,
\* and unless foreign bytes or a purge made the cache start over, the latest
\* generation holds the entry of every call that published (cache.ts, lines
\* 572-598 and 710-740).
THEOREM Merging == Spec => []MergesUntilCrash
<1>1. Init => RInv /\ LockInv /\ MergeInv
  BY InitShelf, InitLock, InitMerge
<1>2. IInv /\ IInv' /\ RInv /\ LockInv /\ MergeInv /\ [Next]_vars => RInv' /\ LockInv' /\ MergeInv'
  BY StepShelf, StepLock, StepMerge
<1>3. ASSUME IInv, LockInv, MergeInv
      PROVE  MergesUntilCrash
  <2>1. ASSUME alive = Process, caller[0] = None, NEW p \in Process, NEW q \in Process,
               InTransaction(p), InTransaction(q)
        PROVE  p = q
    BY <1>3, <2>1, Alone DEF Calm, InTransaction, InTx
  <2>2. Undisturbed({}) /\ Latest # -1 => published \subseteq Entries(path[Latest])
    BY <1>3 DEF MergeInv, Topped
  <2> QED
    BY <2>1, <2>2 DEF MergesUntilCrash
<1> QED
  BY <1>1, <1>2, <1>3, Invariant, PTL DEF Spec

=============================================================================
