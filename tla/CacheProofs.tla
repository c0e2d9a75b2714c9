----------------------------- MODULE CacheProofs -----------------------------
(***************************************************************************)
(* What the two backends of the cache promise, for any keys, tags, calls,  *)
(* invalidations and processes.                                            *)
(*                                                                         *)
(* Over Valkey, that an entry is indexed and that it is no older than the  *)
(* last invalidation that covers it are facts about what may happen        *)
(* between two commands: a call that carries its value to the store has    *)
(* not overlapped an invalidation of its tags unless it says so, and an    *)
(* invalidation that has read a tag set has found every entry with this    *)
(* tag that did not say so.                                                *)
(***************************************************************************)
EXTENDS MCTagCache, FiniteSetTheorems, TLAPS

\* The entry of k is one an invalidation of t answers for.
Covered(k, t) == data[k] # None /\ ~data[k].raced /\ t \in data[k].tags

\* The call c holds a value it will store under k, and nobody has invalidated t
\* since it was loaded.
Carries(c, k, t) ==
    /\ call[c].pc \in {"prior", "store"} /\ call[c].key = k
    /\ t \in call[c].tags /\ ~call[c].raced

Running(i) == inv[i] # IdleInvalidation

\* Values that are carried while an invalidation of a tag runs have raced it.
RacesSeen ==
    \A c \in Call, i \in Invalidation, k \in Key, t \in Tag :
        Running(i) /\ t \in inv[i].tags => ~Carries(c, k, t)

\* What an invalidation has read is all there is to find, and when its keys are
\* deleted nothing is left.
Found ==
    \A i \in Invalidation, k \in Key, t \in Tag :
        Running(i) /\ t \in inv[i].tags /\ Covered(k, t) =>
            /\ inv[i].pc \in {"tags", "delExec"}
            /\ k \in inv[i].keys \/ (inv[i].pc = "tags" /\ t \in inv[i].unread)

\* Invalidations cover what the source has been, never what it will be.
Past ==
    /\ \A t \in Tag, k \in Key : settled[t][k] <= source[k]
    /\ \A i \in Invalidation : Running(i) => \A k \in Key : inv[i].floor[k] <= source[k]

\* A carried value is as new as what was invalidated.
CarriesNew ==
    \A c \in Call, k \in Key, t \in Tag : Carries(c, k, t) => call[c].value >= settled[t][k]

IInv == TypeOK /\ RacesSeen /\ Found /\ Past /\ CarriesNew /\ IndexCovers /\ InvalidationHolds

-----------------------------------------------------------------------------
(* What a step has to keep *)

\* A value is carried that was carried before, or that was just loaded while
\* no invalidation of this tag ran.
CarriedKept ==
    \A c \in Call, k \in Key, t \in Tag : Carries(c, k, t)' =>
        \/ Carries(c, k, t) /\ call'[c].value = call[c].value
        \/ /\ call'[c].value = source[k]
           /\ \A i \in Invalidation : Running(i) => t \notin inv[i].tags

\* An entry was there before, or is one that was carried; its index is right.
CoveredKept ==
    \A k \in Key, t \in Tag : Covered(k, t)' =>
        /\ k \in tagSet'[t] /\ t \in keyTags'[k]
        /\ \/ Covered(k, t) /\ data'[k].value = data[k].value
           \/ \E c \in Call : Carries(c, k, t) /\ data'[k].value = call[c].value

\* An invalidation ran before, or begins now and marks what is carried.
RunningKept ==
    \A i \in Invalidation : Running(i)' =>
        \/ Running(i) /\ inv'[i].tags = inv[i].tags /\ inv'[i].floor = inv[i].floor
        \/ /\ inv'[i].floor = source
           /\ \A c \in Call, k \in Key, t \in Tag : t \in inv'[i].tags => ~Carries(c, k, t)'

\* What an invalidation settles, no entry and no carried value is covered by.
SettledKept ==
    \A t \in Tag, k \in Key :
        \/ settled'[t][k] = settled[t][k]
        \/ /\ settled'[t][k] <= source[k]
           /\ ~Covered(k, t)' /\ \A c \in Call : ~Carries(c, k, t)'

Kept ==
    /\ CarriedKept /\ CoveredKept /\ RunningKept /\ SettledKept /\ Found'
    /\ \A k \in Key : source[k] <= source'[k]

LEMMA KeptInvariant ==
    ASSUME IInv, TypeOK', Kept
    PROVE  IInv'
<1> USE DEF Version
<1>1. RacesSeen'
  BY DEF IInv, RacesSeen, Kept, CarriedKept, RunningKept
<1>2. ASSUME NEW t \in Tag, NEW k \in Key
      PROVE  /\ settled[t][k] \in Nat /\ settled'[t][k] \in Nat
             /\ source[k] \in Nat /\ source'[k] \in Nat
             /\ settled[t][k] <= source[k] /\ source[k] <= source'[k]
  BY DEF IInv, TypeOK, Past, Kept
<1>3. Past'
  <2>1. ASSUME NEW t \in Tag, NEW k \in Key
        PROVE  settled'[t][k] <= source'[k]
    BY <1>2 DEF Kept, SettledKept
  <2>2. ASSUME NEW i \in Invalidation, Running(i)', NEW k \in Key
        PROVE  inv'[i].floor[k] <= source'[k]
    <3>1. inv'[i].floor[k] \in Nat
      BY <2>2 DEF TypeOK, Running, Invalidating
    <3>2. inv'[i].floor[k] <= source[k]
      <4>1. CASE Running(i) /\ inv'[i].floor = inv[i].floor
        BY <4>1 DEF IInv, Past
      <4>2. CASE inv'[i].floor = source
        BY <4>2, <1>2, <3>1
      <4> QED
        BY <2>2, <4>1, <4>2 DEF Kept, RunningKept
    <3>3. source[k] \in Nat /\ source'[k] \in Nat /\ source[k] <= source'[k]
      BY DEF IInv, TypeOK, Kept
    <3> QED
      BY <3>1, <3>2, <3>3
  <2> QED
    BY <2>1, <2>2 DEF Past
<1>4. ASSUME NEW c \in Call, NEW k \in Key, NEW t \in Tag, Carries(c, k, t)'
      PROVE  call'[c].value >= settled'[t][k]
  <2>1. settled'[t][k] = settled[t][k]
    BY <1>4 DEF Kept, SettledKept
  <2>2. CASE Carries(c, k, t) /\ call'[c].value = call[c].value
    BY <2>1, <2>2 DEF IInv, CarriesNew
  <2>3. CASE call'[c].value = source[k]
    BY <1>2, <2>1, <2>3
  <2> QED
    BY <1>4, <2>2, <2>3 DEF Kept, CarriedKept
<1>5. ASSUME NEW k \in Key, NEW t \in Tag, Covered(k, t)'
      PROVE  data'[k].value >= settled'[t][k] /\ k \in tagSet'[t] /\ t \in keyTags'[k]
  <2>1. settled'[t][k] = settled[t][k]
    BY <1>5 DEF Kept, SettledKept
  <2>2. data'[k].value >= settled'[t][k]
    <3>1. CASE Covered(k, t) /\ data'[k].value = data[k].value
      BY <2>1, <3>1 DEF IInv, InvalidationHolds, Covered
    <3>2. CASE \E c \in Call : Carries(c, k, t) /\ data'[k].value = call[c].value
      BY <2>1, <3>2 DEF IInv, CarriesNew
    <3> QED
      BY <1>5, <3>1, <3>2 DEF Kept, CoveredKept
  <2> QED
    BY <1>5, <2>2 DEF Kept, CoveredKept
<1>6. \A k \in Key : data'[k] # None => data'[k].tags \subseteq Tag
  BY DEF TypeOK, Entry
<1> QED
  BY <1>1, <1>3, <1>4, <1>5, <1>6
  DEF IInv, Kept, CarriesNew, IndexCovers, InvalidationHolds, Covered

\* Invalidations go on as they are, or end.
InvalidationsSame ==
    \A i \in Invalidation : Running(i)' =>
        /\ Running(i) /\ inv'[i].tags = inv[i].tags /\ inv'[i].floor = inv[i].floor
        /\ inv'[i].pc = inv[i].pc /\ inv'[i].unread = inv[i].unread /\ inv'[i].keys = inv[i].keys

LEMMA FoundKept ==
    ASSUME IInv, CoveredKept, InvalidationsSame
    PROVE  RunningKept /\ Found'
<1>1. RunningKept
  BY DEF InvalidationsSame, RunningKept
<1>2. ASSUME NEW i \in Invalidation, NEW k \in Key, NEW t \in Tag,
             Running(i)', t \in inv'[i].tags, Covered(k, t)'
      PROVE  Covered(k, t)
  BY <1>2 DEF CoveredKept, InvalidationsSame, IInv, RacesSeen
<1>3. Found'
  BY <1>2 DEF Found, InvalidationsSame, IInv
<1> QED
  BY <1>1, <1>3

\* What a step leaves alone is kept.
LEMMA StoreSame ==
    ASSUME IInv, UNCHANGED <<data, keyTags, tagSet>>
    PROVE  CoveredKept
BY DEF IInv, TypeOK, Entry, IndexCovers, Covered, CoveredKept

LEMMA CarriedSame ==
    ASSUME UNCHANGED call
    PROVE  CarriedKept
BY DEF Carries, CarriedKept

LEMMA InvSame ==
    ASSUME UNCHANGED inv
    PROVE  InvalidationsSame
BY DEF InvalidationsSame, Running

LEMMA SettledSame ==
    ASSUME UNCHANGED settled
    PROVE  SettledKept
BY DEF SettledKept

LEMMA SourceSame ==
    ASSUME IInv, UNCHANGED source
    PROVE  \A k \in Key : source[k] <= source'[k]
BY DEF IInv, TypeOK, Version

-----------------------------------------------------------------------------
(* The world around the cache *)

LEMMA MutateStep ==
    ASSUME MaxVersionAssumption, IInv, NEW k \in Key, Mutate(k)
    PROVE  IInv'
<1> USE DEF Version
<1>1. TypeOK'
  BY DEF Mutate, IInv, TypeOK, MaxVersionAssumption
<1>2. \A j \in Key : source[j] <= source'[j]
  BY DEF Mutate, IInv, TypeOK, MaxVersionAssumption
<1> QED
  BY <1>1, <1>2, StoreSame, CarriedSame, InvSame, SettledSame, FoundKept, KeptInvariant
  DEF Mutate, Kept

LEMMA GrowsOldStep ==
    ASSUME IInv, NEW k \in Key, GrowsOld(k)
    PROVE  IInv'
<1>1. PICK e : e = [data[k] EXCEPT !.dead = TRUE]
  OBVIOUS
<1>2. data[k] \in Entry
  BY DEF GrowsOld, IInv, TypeOK
<1>3. e \in Entry /\ e.value = data[k].value /\ e.tags = data[k].tags /\ e.raced = data[k].raced
  BY <1>1, <1>2 DEF Entry
<1>4. data' = [data EXCEPT ![k] = e]
  BY <1>1 DEF GrowsOld
<1>5. TypeOK'
  BY <1>3, <1>4 DEF GrowsOld, IInv, TypeOK
<1>6. CoveredKept
  BY <1>2, <1>3, <1>4 DEF GrowsOld, IInv, TypeOK, Entry, IndexCovers, Covered, CoveredKept
<1> QED
  BY <1>5, <1>6, CarriedSame, InvSame, SettledSame, SourceSame, FoundKept, KeptInvariant
  DEF GrowsOld, Kept

LEMMA ExpiresStep ==
    ASSUME IInv, NEW k \in Key, Expires(k)
    PROVE  IInv'
<1>1. TypeOK'
  BY DEF Expires, IInv, TypeOK
<1>2. CoveredKept
  BY DEF Expires, IInv, TypeOK, Entry, IndexCovers, Covered, CoveredKept
<1> QED
  BY <1>1, <1>2, CarriedSame, InvSame, SettledSame, SourceSame, FoundKept, KeptInvariant
  DEF Expires, Kept

\* Deleting keys takes entries away and leaves the index of the others alone.
LEMMA DeletedKept ==
    ASSUME IInv, NEW ks, NEW dropping, Deleted(ks, dropping)
    PROVE  /\ CoveredKept
           /\ \A k \in Key : k \in ks => data'[k] = None
           /\ data' \in [Key -> Entry \cup {None}]
           /\ keyTags' \in [Key -> SUBSET Tag] /\ tagSet' \in [Tag -> SUBSET Key]
<1>1. \A k \in Key : /\ data'[k] = IF k \in ks THEN None ELSE data[k]
                     /\ keyTags'[k] = IF k \in ks THEN {} ELSE keyTags[k]
  BY DEF Deleted
<1>2. \A t \in Tag : tagSet'[t] = {k \in tagSet[t] : k \notin ks \/ t \notin dropping[k]}
  BY DEF Deleted
<1>3. \A k \in Key, t \in Tag : k \in tagSet[t] /\ k \notin ks => k \in tagSet'[t]
  BY <1>2
<1>4. CoveredKept
  BY <1>1, <1>3 DEF IInv, TypeOK, Entry, IndexCovers, Covered, CoveredKept
<1>5. data' \in [Key -> Entry \cup {None}]
  BY DEF Deleted, IInv, TypeOK
<1>6. keyTags' \in [Key -> SUBSET Tag]
  BY DEF Deleted, IInv, TypeOK
<1>7. tagSet' \in [Tag -> SUBSET Key]
  BY DEF Deleted, IInv, TypeOK
<1> QED
  BY <1>1, <1>4, <1>5, <1>6, <1>7

-----------------------------------------------------------------------------
(* cached() *)

CallShape == {IdleCall} \cup Dropping \cup Joined \cup Loading

\* The calls, as TypeOK has them.
CallsOK(calls) ==
    /\ calls \in [Call -> CallShape]
    /\ \A c \in Call : calls[c] \in Joined =>
          Host[calls[c].leader] = Host[c] /\ calls[calls[c].leader] \in Loading

LEMMA CallsTyped ==
    ASSUME TypeOK
    PROVE  CallsOK(call)
BY DEF TypeOK, CallsOK, CallShape

\* A call whose step is at this place is one of this shape.
LEMMA PlaceOfCall ==
    ASSUME TypeOK, NEW c \in Call
    PROVE  /\ call[c].pc \in {"delRead", "delExec"} => call[c] \in Dropping /\ call[c] \notin Loading
           /\ call[c].pc \in {"load", "prior", "store"} => call[c] \in Loading
           /\ call[c] = IdleCall => call[c] \notin Loading
           /\ call[c].pc = "join" => call[c] \in Joined
BY DEF TypeOK, IdleCall, Dropping, Joined, Loading

\* One call moves; whoever joined it finds it still loading.
LEMMA OneCall ==
    ASSUME TypeOK, NEW c \in Call, NEW s \in CallShape, call' = [call EXCEPT ![c] = s],
           call[c] \in Loading => s \in Loading,
           s \in Joined => Host[s.leader] = Host[c] /\ call[s.leader] \in Loading
    PROVE  CallsOK(call')
<1>1. call' \in [Call -> CallShape]
  BY DEF TypeOK, CallShape
<1>2. ASSUME NEW d \in Call, call'[d] \in Joined
      PROVE  Host[call'[d].leader] = Host[d] /\ call'[call'[d].leader] \in Loading
  <2>1. call'[d].leader \in Call
    BY <1>2 DEF Joined
  <2>2. Host[call'[d].leader] = Host[d] /\ call[call'[d].leader] \in Loading
    BY <1>2 DEF TypeOK
  <2> QED
    BY <2>1, <2>2 DEF TypeOK
<1> QED
  BY <1>1, <1>2 DEF CallsOK

LEMMA LoadAndStoreCalls ==
    ASSUME MaxVersionAssumption, TagChoiceAssumption, TypeOK, NEW c \in Call, NEW k \in Key,
           call[c] \notin Loading, LoadAndStore(c, k)
    PROVE  CallsOK(call') /\ CarriedKept
<1>1. PICK s \in CallShape :
          /\ call' = [call EXCEPT ![c] = s]
          /\ s.pc \notin {"prior", "store"}
          /\ s \in Joined => Host[s.leader] = Host[c] /\ call[s.leader] \in Loading
  <2>1. PICK coalesce \in BOOLEAN :
            LET leaders == IF coalesce THEN InFlight(Host[c], k) ELSE {}
            IN \/ \E leader \in leaders :
                     call' = [call EXCEPT ![c] = [pc |-> "join", leader |-> leader]]
               \/ /\ leaders = {}
                  /\ \E tags \in TagChoice[k] :
                        call' = [call EXCEPT ![c] =
                           [pc |-> "load", key |-> k, tags |-> tags, coalesce |-> coalesce,
                            value |-> 0, prior |-> {}, raced |-> FALSE]]
    BY DEF LoadAndStore
  <2>2. CASE \E leader \in InFlight(Host[c], k) :
                call' = [call EXCEPT ![c] = [pc |-> "join", leader |-> leader]]
    <3>1. PICK leader \in InFlight(Host[c], k) :
              call' = [call EXCEPT ![c] = [pc |-> "join", leader |-> leader]]
      BY <2>2
    <3>2. leader \in Call /\ call[leader] \in Loading /\ Host[leader] = Host[c]
      BY DEF InFlight
    <3> DEFINE s == [pc |-> "join", leader |-> leader]
    <3>3. s \in CallShape /\ s.pc = "join" /\ s.leader = leader
      BY <3>2 DEF CallShape, Joined
    <3> QED
      BY <3>1, <3>2, <3>3
  <2>3. CASE \E tags \in TagChoice[k] :
                call' = [call EXCEPT ![c] =
                   [pc |-> "load", key |-> k, tags |-> tags, coalesce |-> coalesce,
                    value |-> 0, prior |-> {}, raced |-> FALSE]]
    <3>1. PICK tags \in TagChoice[k] :
              call' = [call EXCEPT ![c] =
                 [pc |-> "load", key |-> k, tags |-> tags, coalesce |-> coalesce,
                  value |-> 0, prior |-> {}, raced |-> FALSE]]
      BY <2>3
    <3> DEFINE s == [pc |-> "load", key |-> k, tags |-> tags, coalesce |-> coalesce,
                     value |-> 0, prior |-> {}, raced |-> FALSE]
    <3>2. tags \in SUBSET Tag /\ 0 \in Version
      BY DEF TagChoiceAssumption, MaxVersionAssumption, Version
    <3>3. s \in CallShape /\ s.pc = "load" /\ s \notin Joined
      BY <3>2 DEF CallShape, Loading, Joined
    <3> QED
      BY <3>1, <3>3
  <2> QED
    BY <2>1, <2>2, <2>3
<1>2. CallsOK(call')
  BY <1>1, OneCall
<1>3. CarriedKept
  BY <1>1 DEF TypeOK, Carries, CarriedKept
<1> QED
  BY <1>2, <1>3

\* Only the calls change.
LEMMA CallsOnly ==
    ASSUME IInv, CallsOK(call'), CarriedKept,
           UNCHANGED <<source, data, keyTags, tagSet, inv, settled>>
    PROVE  IInv'
<1>1. TypeOK'
  BY DEF IInv, TypeOK, CallsOK, CallShape
<1> QED
  BY <1>1, StoreSame, InvSame, SettledSame, SourceSame, FoundKept, KeptInvariant DEF Kept

LEMMA GetMissesStep ==
    ASSUME MaxVersionAssumption, TagChoiceAssumption,
           IInv, NEW c \in Call, NEW k \in Key, GetMisses(c, k)
    PROVE  IInv'
BY LoadAndStoreCalls, PlaceOfCall, CallsOnly DEF GetMisses, IInv

LEMMA GetDeadStep ==
    ASSUME IInv, NEW c \in Call, NEW k \in Key, GetDead(c, k)
    PROVE  IInv'
<1> DEFINE s == [pc |-> "delRead", key |-> k, dropping |-> {}]
<1>1. s \in CallShape /\ s.pc = "delRead" /\ s \notin Joined
  BY DEF CallShape, Dropping, Joined
<1>2. call' = [call EXCEPT ![c] = s] /\ call[c] \notin Loading
  BY PlaceOfCall DEF GetDead, IInv
<1> HIDE DEF s
<1>3. CallsOK(call')
  BY <1>1, <1>2, OneCall DEF IInv
<1>4. CarriedKept
  BY <1>1, <1>2 DEF IInv, TypeOK, Carries, CarriedKept
<1> QED
  BY <1>3, <1>4, CallsOnly DEF GetDead

LEMMA ReadDroppingStep ==
    ASSUME IInv, NEW c \in Call, ReadDropping(c)
    PROVE  IInv'
<1>1. PICK s : s = [call[c] EXCEPT !.pc = "delExec", !.dropping = keyTags[call[c].key]]
  OBVIOUS
<1>2. call[c] \in Dropping /\ call[c] \notin Loading
  BY PlaceOfCall DEF ReadDropping, At, IInv
<1>3. keyTags[call[c].key] \subseteq Tag
  BY <1>2 DEF Dropping, IInv, TypeOK
<1>4. s \in Dropping /\ s.pc = "delExec"
  BY <1>1, <1>2, <1>3 DEF Dropping
<1>5. s \in CallShape /\ s \notin Joined
  BY <1>4 DEF CallShape, Joined, Dropping
<1>6. call' = [call EXCEPT ![c] = s]
  BY <1>1 DEF ReadDropping
<1>7. CallsOK(call')
  BY <1>2, <1>5, <1>6, OneCall DEF IInv
<1>8. CarriedKept
  BY <1>4, <1>6 DEF IInv, TypeOK, Carries, CarriedKept
<1> QED
  BY <1>7, <1>8, CallsOnly DEF ReadDropping

LEMMA DropDeadStep ==
    ASSUME MaxVersionAssumption, TagChoiceAssumption, IInv, NEW c \in Call, DropDead(c)
    PROVE  IInv'
<1>1. call[c] \in Dropping /\ call[c] \notin Loading
  BY PlaceOfCall DEF DropDead, At, IInv
<1>2. call[c].key \in Key
  BY <1>1 DEF Dropping
<1>3. CallsOK(call') /\ CarriedKept
  BY <1>1, <1>2, LoadAndStoreCalls DEF DropDead, IInv
<1>4. /\ CoveredKept
      /\ data' \in [Key -> Entry \cup {None}]
      /\ keyTags' \in [Key -> SUBSET Tag] /\ tagSet' \in [Tag -> SUBSET Key]
  BY DeletedKept DEF DropDead
<1>5. TypeOK'
  BY <1>3, <1>4 DEF DropDead, IInv, TypeOK, CallsOK, CallShape
<1> QED
  BY <1>3, <1>4, <1>5, InvSame, SettledSame, SourceSame, FoundKept, KeptInvariant
  DEF DropDead, Kept

LEMMA DropFailsStep ==
    ASSUME MaxVersionAssumption, TagChoiceAssumption, IInv, NEW c \in Call, DropFails(c)
    PROVE  IInv'
<1>1. call[c] \in Dropping /\ call[c] \notin Loading
  BY PlaceOfCall DEF DropFails, IInv
<1>2. call[c].key \in Key
  BY <1>1 DEF Dropping
<1> QED
  BY <1>1, <1>2, LoadAndStoreCalls, CallsOnly DEF DropFails, IInv

\* The value is the source's, and raced if an invalidation of a tag runs.
LEMMA LoadsStep ==
    ASSUME IInv, NEW c \in Call, Loads(c)
    PROVE  IInv'
<1> DEFINE raced == Overlapping(call[c].tags) # {}
<1>1. PICK s : s = [call[c] EXCEPT !.pc = "prior", !.value = source[call[c].key], !.raced = raced]
  OBVIOUS
<1>2. call[c] \in Loading
  BY PlaceOfCall DEF Loads, At, IInv
<1>3. source[call[c].key] \in Version /\ raced \in BOOLEAN
  BY <1>2 DEF Loading, IInv, TypeOK
<1>4. /\ s \in Loading /\ s.key = call[c].key /\ s.tags = call[c].tags
      /\ s.value = source[call[c].key] /\ s.raced = raced
  BY <1>1, <1>2, <1>3 DEF Loading
<1>5. call' = [call EXCEPT ![c] = s]
  BY <1>1 DEF Loads
<1>6. s \in CallShape /\ s \notin Joined
  BY <1>4 DEF CallShape, Loading, Joined
<1>7. CallsOK(call')
  BY <1>4, <1>5, <1>6, OneCall DEF IInv
<1>8. CarriedKept
  <2>1. ASSUME NEW d \in Call, NEW k \in Key, NEW t \in Tag, Carries(d, k, t)'
        PROVE  \/ Carries(d, k, t) /\ call'[d].value = call[d].value
               \/ /\ call'[d].value = source[k]
                  /\ \A i \in Invalidation : Running(i) => t \notin inv[i].tags
    <3>1. CASE d = c
      <4>1. call'[c] = s
        BY <1>5 DEF IInv, TypeOK
      <4>2. k = call[c].key /\ t \in call[c].tags /\ ~raced
        BY <1>4, <2>1, <3>1, <4>1 DEF Carries
      <4>3. \A i \in Invalidation : Running(i) => t \notin inv[i].tags
        BY <4>2 DEF Overlapping, Running
      <4> QED
        BY <1>4, <3>1, <4>1, <4>2, <4>3
    <3>2. CASE d # c
      BY <1>5, <2>1, <3>2 DEF IInv, TypeOK, Carries
    <3> QED
      BY <3>1, <3>2
  <2> QED
    BY <2>1 DEF CarriedKept
<1> QED
  BY <1>7, <1>8, CallsOnly DEF Loads

LEMMA ReadPriorStep ==
    ASSUME IInv, NEW c \in Call, ReadPrior(c)
    PROVE  IInv'
<1>1. PICK s : s = [call[c] EXCEPT !.pc = "store", !.prior = keyTags[call[c].key]]
  OBVIOUS
<1>2. call[c] \in Loading /\ call[c].pc = "prior"
  BY PlaceOfCall DEF ReadPrior, At, IInv
<1>3. keyTags[call[c].key] \subseteq Tag
  BY <1>2 DEF Loading, IInv, TypeOK
<1>4. /\ s \in Loading /\ s.key = call[c].key /\ s.tags = call[c].tags
      /\ s.value = call[c].value /\ s.raced = call[c].raced
  BY <1>1, <1>2, <1>3 DEF Loading
<1>5. s \in CallShape /\ s \notin Joined
  BY <1>4 DEF CallShape, Joined, Loading
<1>6. call' = [call EXCEPT ![c] = s]
  BY <1>1 DEF ReadPrior
<1>7. CallsOK(call')
  BY <1>4, <1>5, <1>6, OneCall DEF IInv
<1>8. CarriedKept
  BY <1>2, <1>4, <1>6 DEF IInv, TypeOK, Carries, CarriedKept
<1> QED
  BY <1>7, <1>8, CallsOnly DEF ReadPrior

\* When a load ends, everyone who joined it is done.
LEMMA SettlesCalls ==
    ASSUME TypeOK, NEW c \in Call, call[c] \in Loading, Settles(c)
    PROVE  CallsOK(call') /\ CarriedKept
<1>1. \A d \in Call : call'[d] = IF d = c \/ (call[d].pc = "join" /\ call[d].leader = c)
                                 THEN IdleCall ELSE call[d]
  BY DEF Settles
<1>2. call' \in [Call -> CallShape]
  BY DEF Settles, TypeOK, CallShape
<1>3. ASSUME NEW d \in Call, call'[d] \in Joined
      PROVE  Host[call'[d].leader] = Host[d] /\ call'[call'[d].leader] \in Loading
  <2>1. call'[d] = call[d] /\ call[d].pc = "join" /\ call[d].leader # c /\ call[d].leader \in Call
    BY <1>1, <1>3 DEF Joined, IdleCall
  <2>2. Host[call[d].leader] = Host[d] /\ call[call[d].leader] \in Loading
    BY <1>3, <2>1 DEF TypeOK
  <2>3. call[call[d].leader].pc # "join"
    BY <2>2 DEF Loading
  <2> QED
    BY <1>1, <2>1, <2>2, <2>3
<1>4. CarriedKept
  BY <1>1 DEF IdleCall, Carries, CarriedKept
<1> QED
  BY <1>2, <1>3, <1>4 DEF CallsOK

LEMMA LoadEndsStep ==
    ASSUME IInv, NEW c \in Call, LoadEnds(c)
    PROVE  IInv'
BY PlaceOfCall, SettlesCalls, CallsOnly DEF LoadEnds, IInv

\* The entry stored was carried, and is found by all its tags.
LEMMA StoreStep ==
    ASSUME IInv, NEW c \in Call, Store(c)
    PROVE  IInv'
<1> DEFINE me == call[c]
           entry == [value |-> me.value, tags |-> me.tags, dead |-> FALSE, raced |-> me.raced]
<1>1. me \in Loading /\ me.pc = "store"
  BY PlaceOfCall DEF Store, At, IInv
<1>2. /\ me.key \in Key /\ me.tags \subseteq Tag /\ me.prior \subseteq Tag
      /\ entry \in Entry
  BY <1>1 DEF Loading, Entry
<1>3. Stored(me.key, entry, me.prior) /\ Settles(c)
  BY DEF Store
<1>4. CallsOK(call') /\ CarriedKept
  BY <1>1, <1>3, SettlesCalls DEF IInv
<1>5. /\ data' = [data EXCEPT ![me.key] = entry]
      /\ keyTags' = [keyTags EXCEPT ![me.key] =
                        (IF me.prior = {} THEN keyTags[me.key] ELSE {}) \cup me.tags]
      /\ tagSet' = [t \in Tag |-> IF t \in me.tags THEN tagSet[t] \cup {me.key}
                                  ELSE IF t \in me.prior THEN tagSet[t] \ {me.key}
                                  ELSE tagSet[t]]
  BY <1>3 DEF Stored
<1>6. /\ entry.value = me.value /\ entry.tags = me.tags /\ entry.raced = me.raced
  OBVIOUS
<1>7. CoveredKept
  <2>1. ASSUME NEW k \in Key, NEW t \in Tag, Covered(k, t)', k # me.key
        PROVE  Covered(k, t) /\ data'[k] = data[k] /\ k \in tagSet'[t] /\ t \in keyTags'[k]
    <3>1. data'[k] = data[k] /\ keyTags'[k] = keyTags[k]
      BY <1>5, <2>1 DEF IInv, TypeOK
    <3>2. Covered(k, t)
      BY <2>1, <3>1 DEF Covered
    <3>3. k \in tagSet[t] /\ t \in keyTags[k]
      BY <3>2 DEF Covered, IInv, IndexCovers
    <3> QED
      BY <1>5, <2>1, <3>1, <3>2, <3>3
  <2>2. ASSUME NEW k \in Key, NEW t \in Tag, Covered(k, t)', k = me.key
        PROVE  /\ Carries(c, k, t) /\ data'[k].value = call[c].value
               /\ k \in tagSet'[t] /\ t \in keyTags'[k]
    <3>1. data'[k] = entry
      BY <1>5, <2>2 DEF IInv, TypeOK
    <3>2. t \in me.tags /\ ~me.raced
      BY <1>6, <2>2, <3>1 DEF Covered
    <3>3. Carries(c, k, t)
      BY <1>1, <2>2, <3>2 DEF Carries
    <3>4. k \in tagSet'[t] /\ t \in keyTags'[k]
      BY <1>2, <1>5, <2>2, <3>2 DEF IInv, TypeOK
    <3> QED
      BY <1>6, <3>1, <3>3, <3>4
  <2> QED
    BY <2>1, <2>2 DEF CoveredKept
<1>8. data' \in [Key -> Entry \cup {None}] /\ keyTags' \in [Key -> SUBSET Tag]
         /\ tagSet' \in [Tag -> SUBSET Key]
  <2> HIDE DEF entry
  <2>1. data' \in [Key -> Entry \cup {None}]
    BY <1>2, <1>5 DEF IInv, TypeOK
  <2>2. keyTags' \in [Key -> SUBSET Tag]
    BY <1>2, <1>5 DEF IInv, TypeOK
  <2>3. tagSet' \in [Tag -> SUBSET Key]
    BY <1>2, <1>5 DEF IInv, TypeOK
  <2> QED
    BY <2>1, <2>2, <2>3
<1>9. inv' \in [Invalidation -> {IdleInvalidation} \cup Invalidating] /\ InvalidationsSame
  <2>1. ASSUME NEW i \in Invalidation
        PROVE  /\ inv'[i] \in {IdleInvalidation} \cup Invalidating
               /\ Running(i)' =>
                    /\ Running(i) /\ inv'[i].tags = inv[i].tags /\ inv'[i].floor = inv[i].floor
                    /\ inv'[i].pc = inv[i].pc /\ inv'[i].unread = inv[i].unread
                    /\ inv'[i].keys = inv[i].keys
    <3>1. inv'[i] = IF inv[i] = IdleInvalidation THEN inv[i]
                    ELSE [inv[i] EXCEPT !.before = inv[i].before \ {me.key}]
      BY DEF Store
    <3>2. CASE inv[i] = IdleInvalidation
      BY <3>1, <3>2 DEF Running
    <3>3. CASE inv[i] \in Invalidating /\ inv[i] # IdleInvalidation
      BY <3>1, <3>3 DEF Running, Invalidating
    <3> QED
      BY <3>2, <3>3 DEF IInv, TypeOK
  <2>2. DOMAIN inv' = Invalidation /\ inv' = [i \in Invalidation |-> inv'[i]]
    BY DEF Store
  <2> QED
    BY <2>1, <2>2 DEF InvalidationsSame
<1>10. TypeOK'
  BY <1>4, <1>8, <1>9 DEF Store, IInv, TypeOK, CallsOK, CallShape
<1> QED
  BY <1>4, <1>7, <1>9, <1>10, SettledSame, SourceSame, FoundKept, KeptInvariant DEF Store, Kept

-----------------------------------------------------------------------------
(* invalidateTags() *)

\* One invalidation moves on and has found no less than before.
LEMMA OneInvalidation ==
    ASSUME IInv, NEW i \in Invalidation, NEW s \in Invalidating,
           inv' = [inv EXCEPT ![i] = s], Running(i),
           s.tags = inv[i].tags, s.floor = inv[i].floor,
           \A k \in Key, t \in Tag : t \in inv[i].tags /\ Covered(k, t) =>
               /\ s.pc \in {"tags", "delExec"}
               /\ k \in s.keys \/ (s.pc = "tags" /\ t \in s.unread),
           UNCHANGED <<source, data, keyTags, tagSet, call, settled>>
    PROVE  IInv'
<1>1. TypeOK'
  BY DEF IInv, TypeOK
<1>2. inv'[i] = s /\ \A j \in Invalidation : j # i => inv'[j] = inv[j]
  BY DEF IInv, TypeOK
<1>3. RunningKept
  BY <1>2 DEF RunningKept, Running
<1>4. \A k \in Key, t \in Tag : Covered(k, t)' => Covered(k, t)
  BY DEF Covered
<1>5. Found'
  <2>1. ASSUME NEW j \in Invalidation, NEW k \in Key, NEW t \in Tag,
               Running(j)', t \in inv'[j].tags, Covered(k, t)'
        PROVE  /\ inv'[j].pc \in {"tags", "delExec"}
               /\ k \in inv'[j].keys \/ (inv'[j].pc = "tags" /\ t \in inv'[j].unread)
    <3>1. CASE j = i
      BY <1>2, <1>4, <2>1, <3>1
    <3>2. CASE j # i
      <4>1. inv'[j] = inv[j] /\ Running(j) /\ Covered(k, t)
        BY <1>2, <1>4, <2>1, <3>2 DEF Running
      <4> QED
        BY <2>1, <4>1 DEF IInv, Found
    <3> QED
      BY <3>1, <3>2
  <2> QED
    BY <2>1 DEF Found
<1> QED
  BY <1>1, <1>3, <1>5, StoreSame, CarriedSame, SettledSame, SourceSame, KeptInvariant DEF Kept

LEMMA PlaceOfInvalidation ==
    ASSUME TypeOK, NEW i \in Invalidation, inv[i].pc \in {"tags", "delExec", "delTags"}
    PROVE  inv[i] \in Invalidating /\ Running(i)
BY DEF TypeOK, IdleInvalidation, Invalidating, Running

\* Those who carry a value of one of the tags are marked.
LEMMA InvalidateStep ==
    ASSUME IInv, NEW i \in Invalidation, NEW tags \in (SUBSET Tag) \ {{}}, Invalidate(i, tags)
    PROVE  IInv'
<1> DEFINE s == [pc |-> "tags", tags |-> tags, unread |-> tags, keys |-> {},
                 dropping |-> [k \in Key |-> {}], floor |-> source,
                 before |-> {k \in Key : data[k] # None /\ data[k].tags \cap tags # {}}]
<1>1. s \in Invalidating
  <2>1. [k \in Key |-> {}] \in [Key -> SUBSET Tag]
    OBVIOUS
  <2>2. {k \in Key : data[k] # None /\ data[k].tags \cap tags # {}} \in SUBSET Key
    OBVIOUS
  <2> QED
    BY <2>1, <2>2 DEF Invalidating, IInv, TypeOK
<1>2. s.pc = "tags" /\ s.tags = tags /\ s.unread = tags /\ s.floor = source
  OBVIOUS
<1>3. inv' = [inv EXCEPT ![i] = s]
  BY DEF Invalidate
<1> HIDE DEF s
<1>4. inv'[i] = s /\ \A j \in Invalidation : j # i => inv'[j] = inv[j]
  BY <1>3 DEF IInv, TypeOK
<1>5. \A c \in Call : call'[c] = IF call[c].pc \in {"prior", "store"} /\ call[c].tags \cap tags # {}
                                 THEN [call[c] EXCEPT !.raced = TRUE] ELSE call[c]
  BY DEF Invalidate, Races
<1>6. ASSUME NEW c \in Call
      PROVE  \/ call'[c] = call[c]
             \/ /\ call[c] \in Loading /\ call'[c] \in Loading
                /\ call'[c].raced
  <2>1. CASE call[c].pc \in {"prior", "store"} /\ call[c].tags \cap tags # {}
    <3>1. call[c] \in Loading
      BY <2>1, PlaceOfCall DEF IInv
    <3>2. call'[c] = [call[c] EXCEPT !.raced = TRUE]
      BY <1>5, <2>1
    <3> QED
      BY <3>1, <3>2 DEF Loading
  <2> QED
    BY <1>5, <2>1
<1>7. CallsOK(call')
  <2>1. call' \in [Call -> CallShape]
    <3>1. DOMAIN call' = Call /\ call' = [c \in Call |-> call'[c]]
      BY DEF Invalidate, Races
    <3>2. \A c \in Call : call'[c] \in CallShape
      BY <1>6 DEF IInv, TypeOK, CallShape
    <3> QED
      BY <3>1, <3>2
  <2>2. ASSUME NEW c \in Call, call'[c] \in Joined
        PROVE  Host[call'[c].leader] = Host[c] /\ call'[call'[c].leader] \in Loading
    <3>1. call'[c] = call[c]
      BY <1>6, <2>2 DEF Joined, Loading
    <3>2. call[c].leader \in Call
      BY <2>2, <3>1 DEF Joined
    <3>3. Host[call[c].leader] = Host[c] /\ call[call[c].leader] \in Loading
      BY <2>2, <3>1 DEF IInv, TypeOK
    <3> QED
      BY <1>6, <3>1, <3>2, <3>3
  <2> QED
    BY <2>1, <2>2 DEF CallsOK
<1>8. CarriedKept
  BY <1>6 DEF Carries, CarriedKept
<1>9. \A c \in Call, k \in Key, t \in Tag : t \in tags => ~Carries(c, k, t)'
  <2>1. ASSUME NEW c \in Call, NEW k \in Key, NEW t \in tags, Carries(c, k, t)'
        PROVE  FALSE
    <3>1. call'[c] = call[c]
      BY <1>6, <2>1 DEF Carries
    <3>2. call[c].pc \in {"prior", "store"} /\ call[c].tags \cap tags # {} /\ ~call[c].raced
      BY <2>1, <3>1 DEF Carries
    <3>3. call'[c].raced
      <4>1. call[c] \in Loading
        BY <3>2, PlaceOfCall DEF IInv
      <4>2. call'[c] = [call[c] EXCEPT !.raced = TRUE]
        BY <1>5, <3>2
      <4> QED
        BY <4>1, <4>2 DEF Loading
    <3> QED
      BY <3>1, <3>2, <3>3
  <2> QED
    BY <2>1
<1>10. RunningKept
  BY <1>2, <1>4, <1>9 DEF RunningKept, Running
<1>11. Found'
  <2>1. ASSUME NEW j \in Invalidation, NEW k \in Key, NEW t \in Tag,
               Running(j)', t \in inv'[j].tags, Covered(k, t)'
        PROVE  /\ inv'[j].pc \in {"tags", "delExec"}
               /\ k \in inv'[j].keys \/ (inv'[j].pc = "tags" /\ t \in inv'[j].unread)
    <3>1. CASE j = i
      BY <1>2, <1>4, <2>1, <3>1
    <3>2. CASE j # i
      <4>1. inv'[j] = inv[j] /\ Running(j) /\ Covered(k, t)
        BY <1>4, <2>1, <3>2 DEF Running, Covered, Invalidate
      <4> QED
        BY <2>1, <4>1 DEF IInv, Found
    <3> QED
      BY <3>1, <3>2
  <2> QED
    BY <2>1 DEF Found
<1>12. TypeOK'
  <2>1. inv' \in [Invalidation -> {IdleInvalidation} \cup Invalidating]
    BY <1>1, <1>3 DEF IInv, TypeOK
  <2>2. UNCHANGED <<source, data, keyTags, tagSet, settled>>
    BY DEF Invalidate
  <2> QED
    BY <1>7, <2>1, <2>2 DEF IInv, TypeOK, CallsOK, CallShape
<1> QED
  BY <1>8, <1>10, <1>11, <1>12, StoreSame, SettledSame, SourceSame, KeptInvariant
  DEF Invalidate, Kept

\* Every entry of the tag is in its tag set.
LEMMA ReadTagStep ==
    ASSUME IInv, NEW i \in Invalidation, NEW t \in Tag, ReadTag(i, t)
    PROVE  IInv'
<1>1. PICK s : s = [inv[i] EXCEPT !.unread = inv[i].unread \ {t}, !.keys = inv[i].keys \cup tagSet[t]]
  OBVIOUS
<1>2. inv[i] \in Invalidating /\ Running(i) /\ inv[i].pc = "tags"
  BY PlaceOfInvalidation DEF ReadTag, InvAt, IInv
<1>3. tagSet[t] \subseteq Key
  BY DEF IInv, TypeOK
<1>4. /\ s \in Invalidating /\ s.pc = "tags" /\ s.tags = inv[i].tags /\ s.floor = inv[i].floor
      /\ s.unread = inv[i].unread \ {t} /\ s.keys = inv[i].keys \cup tagSet[t]
  BY <1>1, <1>2, <1>3 DEF Invalidating
<1>5. inv' = [inv EXCEPT ![i] = s]
  BY <1>1 DEF ReadTag
<1>6. ASSUME NEW k \in Key, NEW u \in Tag, u \in inv[i].tags, Covered(k, u)
      PROVE  k \in s.keys \/ u \in s.unread
  <2>1. k \in inv[i].keys \/ u \in inv[i].unread
    BY <1>2, <1>6 DEF IInv, Found
  <2>2. k \in tagSet[u]
    BY <1>6 DEF IInv, IndexCovers, Covered
  <2> QED
    BY <1>4, <2>1, <2>2
<1> QED
  BY <1>2, <1>4, <1>5, <1>6, OneInvalidation DEF ReadTag

LEMMA ReadKeyTagsStep ==
    ASSUME IInv, NEW i \in Invalidation, ReadKeyTags(i)
    PROVE  IInv'
<1>1. PICK s : s = [inv[i] EXCEPT !.pc = "delExec", !.dropping = keyTags]
  OBVIOUS
<1>2. inv[i] \in Invalidating /\ Running(i) /\ inv[i].pc = "tags" /\ inv[i].unread = {}
  BY PlaceOfInvalidation DEF ReadKeyTags, InvAt, IInv
<1>3. keyTags \in [Key -> SUBSET Tag]
  BY DEF IInv, TypeOK
<1>4. /\ s \in Invalidating /\ s.pc = "delExec" /\ s.tags = inv[i].tags
      /\ s.floor = inv[i].floor /\ s.keys = inv[i].keys
  BY <1>1, <1>2, <1>3 DEF Invalidating
<1>5. inv' = [inv EXCEPT ![i] = s]
  BY <1>1 DEF ReadKeyTags
<1>6. \A k \in Key, t \in Tag : t \in inv[i].tags /\ Covered(k, t) => k \in s.keys
  BY <1>2, <1>4 DEF IInv, Found
<1> QED
  BY <1>2, <1>4, <1>5, <1>6, OneInvalidation DEF ReadKeyTags

\* What was found is deleted, and it was everything.
LEMMA DeleteKeysStep ==
    ASSUME IInv, NEW i \in Invalidation, DeleteKeys(i)
    PROVE  IInv'
<1>1. inv[i] \in Invalidating /\ Running(i) /\ inv[i].pc = "delExec"
  BY PlaceOfInvalidation DEF DeleteKeys, InvAt, IInv
<1>2. /\ CoveredKept
      /\ \A k \in Key : k \in inv[i].keys => data'[k] = None
      /\ data' \in [Key -> Entry \cup {None}]
      /\ keyTags' \in [Key -> SUBSET Tag] /\ tagSet' \in [Tag -> SUBSET Key]
  BY DeletedKept DEF DeleteKeys
<1>3. ASSUME NEW j \in Invalidation
      PROVE  /\ inv'[j] \in {IdleInvalidation} \cup Invalidating
             /\ Running(j)' =>
                  /\ Running(j) /\ inv'[j].tags = inv[j].tags /\ inv'[j].floor = inv[j].floor
                  /\ inv'[j].pc = (IF j = i THEN "delTags" ELSE inv[j].pc)
                  /\ inv'[j].unread = inv[j].unread
                  /\ inv'[j].keys = inv[j].keys
  <2>1. inv'[j] = IF inv[j] = IdleInvalidation THEN inv[j]
                  ELSE [inv[j] EXCEPT !.before = inv[j].before \ inv[i].keys,
                                      !.pc = IF j = i THEN "delTags" ELSE inv[j].pc]
    BY DEF DeleteKeys
  <2>2. CASE inv[j] = IdleInvalidation
    BY <2>1, <2>2 DEF Running
  <2>3. CASE inv[j] \in Invalidating /\ inv[j] # IdleInvalidation
    <3> DEFINE pc == IF j = i THEN "delTags" ELSE inv[j].pc
               before == inv[j].before \ inv[i].keys
    <3>1. pc \in {"tags", "delExec", "delTags"} /\ before \in SUBSET Key
      BY <2>3 DEF Invalidating
    <3>2. inv'[j] = [inv[j] EXCEPT !.before = before, !.pc = pc]
      BY <2>1, <2>3
    <3>3. pc = IF j = i THEN "delTags" ELSE inv[j].pc
      OBVIOUS
    <3> HIDE DEF pc, before
    <3>4. inv'[j] \in Invalidating
      BY <2>3, <3>1, <3>2 DEF Invalidating
    <3>5. /\ inv'[j].tags = inv[j].tags /\ inv'[j].floor = inv[j].floor /\ inv'[j].pc = pc
          /\ inv'[j].unread = inv[j].unread /\ inv'[j].keys = inv[j].keys
      BY <2>3, <3>2 DEF Invalidating
    <3> QED
      BY <2>3, <3>3, <3>4, <3>5 DEF Running
  <2> QED
    BY <2>2, <2>3 DEF IInv, TypeOK
<1>4. inv' \in [Invalidation -> {IdleInvalidation} \cup Invalidating]
  <2>1. inv' = [j \in Invalidation |-> inv'[j]]
    BY DEF DeleteKeys
  <2> QED
    BY <1>3, <2>1
<1>5. RunningKept
  BY <1>3 DEF RunningKept
<1>6. Found'
  <2>1. ASSUME NEW j \in Invalidation, NEW k \in Key, NEW t \in Tag,
               Running(j)', t \in inv'[j].tags, Covered(k, t)'
        PROVE  /\ inv'[j].pc \in {"tags", "delExec"}
               /\ k \in inv'[j].keys \/ (inv'[j].pc = "tags" /\ t \in inv'[j].unread)
    <3>1. Running(j) /\ t \in inv[j].tags
      BY <1>3, <2>1
    <3>2. Covered(k, t)
      BY <1>2, <2>1, <3>1 DEF CoveredKept, IInv, RacesSeen
    <3>3. /\ inv[j].pc \in {"tags", "delExec"}
          /\ k \in inv[j].keys \/ (inv[j].pc = "tags" /\ t \in inv[j].unread)
      BY <3>1, <3>2 DEF IInv, Found
    <3>4. CASE j = i
      <4>1. k \in inv[i].keys
        BY <1>1, <3>3, <3>4
      <4> QED
        BY <1>2, <2>1, <4>1 DEF Covered
    <3>5. CASE j # i
      BY <1>3, <2>1, <3>3, <3>5
    <3> QED
      BY <3>4, <3>5
  <2> QED
    BY <2>1 DEF Found
<1>7. TypeOK'
  BY <1>2, <1>4 DEF DeleteKeys, IInv, TypeOK
<1> QED
  BY <1>2, <1>5, <1>6, <1>7, CarriedSame, SettledSame, SourceSame, KeptInvariant
  DEF DeleteKeys, Kept

\* An invalidation ends, done or not; the tags of what is left have not been
\* settled by it.
LEMMA EndKept ==
    ASSUME IInv, NEW i \in Invalidation, inv' = [inv EXCEPT ![i] = IdleInvalidation]
    PROVE  InvalidationsSame /\ inv' \in [Invalidation -> {IdleInvalidation} \cup Invalidating]
BY DEF IInv, TypeOK, InvalidationsSame, Running

LEMMA EndSettles ==
    ASSUME IInv, NEW i \in Invalidation, Running(i), InvalidationEnds(i), UNCHANGED <<data, call>>,
           \A k \in Key, t \in Tag : t \in inv[i].tags => ~Covered(k, t)
    PROVE  SettledKept /\ settled' \in [Tag -> [Key -> Version]]
<1>1. inv[i] \in Invalidating
  BY DEF IInv, TypeOK, Running
<1>2. ASSUME NEW t \in Tag, NEW k \in Key
      PROVE  /\ settled'[t][k] \in Version
             /\ \/ settled'[t][k] = settled[t][k]
                \/ /\ settled'[t][k] <= source[k]
                   /\ ~Covered(k, t)' /\ \A c \in Call : ~Carries(c, k, t)'
  <2>1. CASE t \in inv[i].tags
    <3>1. settled'[t][k] = Higher(settled[t][k], inv[i].floor[k])
      BY <2>1 DEF InvalidationEnds
    <3>2. /\ settled[t][k] \in Version /\ inv[i].floor[k] \in Version
          /\ settled[t][k] <= source[k] /\ inv[i].floor[k] <= source[k]
      BY <1>1 DEF IInv, TypeOK, Invalidating, Past
    <3>3. ~Covered(k, t)'
      BY <2>1 DEF Covered
    <3>4. \A c \in Call : ~Carries(c, k, t)'
      BY <2>1 DEF IInv, RacesSeen, Carries
    <3> QED
      BY <3>1, <3>2, <3>3, <3>4 DEF Higher
  <2>2. CASE t \notin inv[i].tags
    BY <2>2 DEF InvalidationEnds, IInv, TypeOK
  <2> QED
    BY <2>1, <2>2
<1>3. settled' \in [Tag -> [Key -> Version]]
  <2>1. ASSUME NEW t \in Tag
        PROVE  settled'[t] \in [Key -> Version]
    <3>1. settled'[t] = [k \in Key |-> settled'[t][k]]
      BY DEF InvalidationEnds, IInv, TypeOK
    <3> QED
      BY <1>2, <3>1
  <2>2. settled' = [t \in Tag |-> settled'[t]]
    BY DEF InvalidationEnds
  <2> QED
    BY <2>1, <2>2
<1> QED
  BY <1>2, <1>3 DEF SettledKept

LEMMA NothingTaggedStep ==
    ASSUME IInv, NEW i \in Invalidation, NothingTagged(i)
    PROVE  IInv'
<1>1. inv[i].pc = "tags" /\ inv[i].unread = {} /\ inv[i].keys = {} /\ Running(i)
  BY PlaceOfInvalidation DEF NothingTagged, InvAt, IInv
<1>2. \A k \in Key, t \in Tag : t \in inv[i].tags => ~Covered(k, t)
  BY <1>1 DEF IInv, Found
<1>3. SettledKept /\ settled' \in [Tag -> [Key -> Version]]
  BY <1>1, <1>2, EndSettles DEF NothingTagged
<1>4. InvalidationsSame /\ inv' \in [Invalidation -> {IdleInvalidation} \cup Invalidating]
  BY EndKept DEF NothingTagged, InvalidationEnds
<1>5. TypeOK'
  BY <1>3, <1>4 DEF NothingTagged, IInv, TypeOK
<1> QED
  BY <1>3, <1>4, <1>5, StoreSame, CarriedSame, SourceSame, FoundKept, KeptInvariant
  DEF NothingTagged, Kept

\* The tag sets that go have no key of an entry left.
LEMMA DeleteTagSetsStep ==
    ASSUME IInv, NEW i \in Invalidation, DeleteTagSets(i)
    PROVE  IInv'
<1>1. inv[i].pc = "delTags" /\ Running(i)
  BY PlaceOfInvalidation DEF DeleteTagSets, InvAt, IInv
<1>2. \A k \in Key, t \in Tag : t \in inv[i].tags => ~Covered(k, t)
  BY <1>1 DEF IInv, Found
<1>3. SettledKept /\ settled' \in [Tag -> [Key -> Version]]
  BY <1>1, <1>2, EndSettles DEF DeleteTagSets
<1>4. InvalidationsSame /\ inv' \in [Invalidation -> {IdleInvalidation} \cup Invalidating]
  BY EndKept DEF DeleteTagSets, InvalidationEnds
<1>5. CoveredKept
  <2>1. ASSUME NEW k \in Key, NEW t \in Tag, Covered(k, t)'
        PROVE  Covered(k, t) /\ k \in tagSet'[t] /\ t \in keyTags[k]
    <3>1. Covered(k, t)
      BY <2>1 DEF Covered, DeleteTagSets
    <3>2. k \in tagSet[t] /\ t \in keyTags[k]
      BY <3>1 DEF Covered, IInv, IndexCovers
    <3> QED
      BY <1>2, <3>1, <3>2 DEF DeleteTagSets
  <2> QED
    BY <2>1 DEF CoveredKept, DeleteTagSets
<1>6. tagSet' \in [Tag -> SUBSET Key]
  BY DEF DeleteTagSets, IInv, TypeOK
<1>7. TypeOK'
  BY <1>3, <1>4, <1>6 DEF DeleteTagSets, IInv, TypeOK
<1> QED
  BY <1>3, <1>4, <1>5, <1>7, CarriedSame, SourceSame, FoundKept, KeptInvariant
  DEF DeleteTagSets, Kept

LEMMA InvalidationFailsStep ==
    ASSUME IInv, NEW i \in Invalidation, InvalidationFails(i)
    PROVE  IInv'
<1>1. InvalidationsSame /\ inv' \in [Invalidation -> {IdleInvalidation} \cup Invalidating]
  BY EndKept DEF InvalidationFails
<1>2. TypeOK'
  BY <1>1 DEF InvalidationFails, IInv, TypeOK
<1> QED
  BY <1>1, <1>2, StoreSame, CarriedSame, SettledSame, SourceSame, FoundKept, KeptInvariant
  DEF InvalidationFails, Kept

-----------------------------------------------------------------------------
(* The invariant *)

LEMMA StepInvariant ==
    ASSUME IInv, [Next]_vars
    PROVE  IInv'
<1> USE TagChoiceAssumption, MaxVersionAssumption
<1>1. CASE \E k \in Key : Mutate(k) \/ GrowsOld(k) \/ Expires(k)
  BY <1>1, MutateStep, GrowsOldStep, ExpiresStep
<1>2. CASE \E c \in Call, k \in Key : GetMisses(c, k) \/ GetDead(c, k)
  BY <1>2, GetMissesStep, GetDeadStep
<1>3. CASE \E c \in Call : CachedStep(c)
  BY <1>3, ReadDroppingStep, DropDeadStep, DropFailsStep, LoadsStep, ReadPriorStep,
     StoreStep, LoadEndsStep DEF CachedStep
<1>4. CASE \E i \in Invalidation, tags \in (SUBSET Tag) \ {{}} : Invalidate(i, tags)
  BY <1>4, InvalidateStep
<1>5. CASE \E i \in Invalidation : InvalidationStep(i)
  BY <1>5, ReadTagStep, NothingTaggedStep, ReadKeyTagsStep, DeleteKeysStep,
     DeleteTagSetsStep, InvalidationFailsStep DEF InvalidationStep
<1>6. CASE UNCHANGED vars
  <2>1. TypeOK'
    BY <1>6 DEF vars, IInv, TypeOK
  <2> QED
    BY <1>6, <2>1, StoreSame, CarriedSame, InvSame, SettledSame, SourceSame, FoundKept,
       KeptInvariant DEF vars, Kept
<1> QED
  BY <1>1, <1>2, <1>3, <1>4, <1>5, <1>6 DEF Next

LEMMA InitInvariant ==
    ASSUME Init
    PROVE  IInv
<1>1. 0 \in Version
  BY MaxVersionAssumption DEF Version
<1>2. TypeOK
  BY <1>1 DEF Init, TypeOK, IdleCall, Joined
<1>3. RacesSeen /\ Found
  BY DEF Init, RacesSeen, Found, Running
<1>4. Past
  BY DEF Init, Past, Running
<1>5. CarriesNew
  BY DEF Init, CarriesNew, Carries, IdleCall
<1> QED
  BY <1>2, <1>3, <1>4, <1>5 DEF Init, IInv, IndexCovers, InvalidationHolds

-----------------------------------------------------------------------------
(* The memory backend: the index and what is held go together, for delByTag *)
(* revokes what has one of the tags, but drops what the index says has one. *)

Shape(c) ==
    /\ c.store \in [MemoryKey -> Memory!Entry \cup {None}]
    /\ c.tagIndex \in [Tag -> SUBSET MemoryKey]

Exact(c) ==
    \A t \in Tag : c.tagIndex[t] = {k \in MemoryKey : Memory!Has(c, k) /\ t \in c.store[k].tags}

\* Of any keys that are held, one is older than all others.
Ordered(held, older) ==
    /\ older \subseteq held \X held
    /\ \A keys \in (SUBSET held) \ {{}} : \E k \in keys :
          \A j \in keys \ {k} : <<k, j>> \in older /\ <<j, k>> \notin older

Sound(c) == Shape(c) /\ Exact(c) /\ Ordered(Memory!Held(c), c.older)

Few(c, n) == IsFiniteSet(Memory!Held(c)) /\ Cardinality(Memory!Held(c)) <= n

MemoryInv ==
    /\ Sound(cache) /\ Few(cache, MaxEntries)
    /\ latest \in [MemoryKey -> Memory!Entry \cup {None}]
    /\ Memory!NothingRevoked

\* The finite sets of the backend are those of every other module.
LEMMA SameCardinality ==
    ASSUME NEW S
    PROVE  Memory!Cardinality(S) = Cardinality(S) /\ (Memory!IsFiniteSet(S) <=> IsFiniteSet(S))
BY DEF Memory!Cardinality, Cardinality, Memory!IsFiniteSet, IsFiniteSet

LEMMA OrderedWithout ==
    ASSUME NEW held, NEW older, Ordered(held, older), NEW keys
    PROVE  Ordered(held \ keys, Memory!Without(older, keys))
<1> DEFINE left == Memory!Without(older, keys)
<1>1. \A a, b \in held : <<a, b>> \in left <=> <<a, b>> \in older /\ a \notin keys /\ b \notin keys
  BY DEF Memory!Without
<1>2. left \subseteq (held \ keys) \X (held \ keys)
  BY DEF Memory!Without, Ordered
<1> HIDE DEF left
<1>3. ASSUME NEW some \in (SUBSET (held \ keys)) \ {{}}
      PROVE  \E k \in some : \A j \in some \ {k} : <<k, j>> \in left /\ <<j, k>> \notin left
  <2>1. PICK k \in some : \A j \in some \ {k} : <<k, j>> \in older /\ <<j, k>> \notin older
    BY DEF Ordered
  <2> QED
    BY <1>1, <2>1
<1> QED
  BY <1>2, <1>3 DEF Ordered, left

\* A key that was not held is put last.
LEMMA OrderedPut ==
    ASSUME NEW held, NEW older, Ordered(held, older), NEW k, k \notin held
    PROVE  Ordered(held \cup {k}, older \cup (held \X {k}))
<1> DEFINE now == older \cup (held \X {k})
<1>1. now \subseteq (held \cup {k}) \X (held \cup {k})
  BY DEF Ordered
<1>2. \A j \in held : <<j, k>> \in now /\ <<k, j>> \notin now
  BY DEF Ordered
<1>3. \A i, j \in held : <<i, j>> \in now <=> <<i, j>> \in older
  OBVIOUS
<1> HIDE DEF now
<1>4. ASSUME NEW some \in (SUBSET (held \cup {k})) \ {{}}
      PROVE  \E i \in some : \A j \in some \ {i} : <<i, j>> \in now /\ <<j, i>> \notin now
  <2>1. CASE some \ {k} = {}
    <3>1. some = {k}
      BY <2>1
    <3> QED
      BY <3>1
  <2>2. CASE some \ {k} # {}
    <3>1. some \ {k} \in (SUBSET held) \ {{}}
      BY <2>2
    <3>2. PICK i \in some \ {k} :
              \A j \in (some \ {k}) \ {i} : <<i, j>> \in older /\ <<j, i>> \notin older
      BY <3>1 DEF Ordered
    <3>3. \A j \in some \ {i} : <<i, j>> \in now /\ <<j, i>> \notin now
      BY <1>2, <1>3, <3>1, <3>2
    <3> QED
      BY <3>2, <3>3
  <2> QED
    BY <2>1, <2>2
<1> QED
  BY <1>1, <1>4 DEF Ordered, now

LEMMA DropKeysSound ==
    ASSUME NEW c, Sound(c), NEW keys
    PROVE  /\ Sound(Memory!DropKeys(c, keys))
           /\ \A k \in MemoryKey :
                 Memory!DropKeys(c, keys).store[k] = IF k \in keys THEN None ELSE c.store[k]
           /\ Memory!Held(Memory!DropKeys(c, keys)) = Memory!Held(c) \ keys
<1> DEFINE d == Memory!DropKeys(c, keys)
<1>1. \A k \in MemoryKey : d.store[k] = IF k \in keys THEN None ELSE c.store[k]
  BY DEF Memory!DropKeys
<1>2. \A t \in Tag : d.tagIndex[t]
                       = c.tagIndex[t] \ {k \in keys : Memory!Has(c, k) /\ t \in c.store[k].tags}
  BY DEF Memory!DropKeys
<1>3. Shape(d)
  BY DEF Memory!DropKeys, Sound, Shape
<1>4. ASSUME NEW t \in Tag, NEW k
      PROVE  k \in d.tagIndex[t] <=> k \in MemoryKey /\ Memory!Has(d, k) /\ t \in d.store[k].tags
  <2>1. k \in c.tagIndex[t] <=> k \in MemoryKey /\ Memory!Has(c, k) /\ t \in c.store[k].tags
    BY DEF Sound, Exact
  <2>2. k \in d.tagIndex[t]
          <=> k \in c.tagIndex[t] /\ ~(k \in keys /\ Memory!Has(c, k) /\ t \in c.store[k].tags)
    BY <1>2
  <2> QED
    BY <1>1, <2>1, <2>2 DEF Memory!Has
<1>5. Exact(d)
  <2>1. ASSUME NEW t \in Tag
        PROVE  d.tagIndex[t] = {k \in MemoryKey : Memory!Has(d, k) /\ t \in d.store[k].tags}
    BY <1>4
  <2> QED
    BY <2>1 DEF Exact
<1>6. Memory!Held(d) = Memory!Held(c) \ keys
  BY <1>1 DEF Memory!Held, Memory!Has
<1>7. d.older = Memory!Without(c.older, keys)
  BY DEF Memory!DropKeys
<1>8. Ordered(Memory!Held(d), d.older)
  BY <1>6, <1>7, OrderedWithout DEF Sound
<1> QED
  BY <1>1, <1>3, <1>5, <1>6, <1>8 DEF Sound

LEMMA PutSound ==
    ASSUME NEW c, Sound(c), NEW k \in MemoryKey, ~Memory!Has(c, k), NEW e \in Memory!Entry
    PROVE  /\ Sound(Memory!Put(c, k, e))
           /\ \A j \in MemoryKey : Memory!Put(c, k, e).store[j] = IF j = k THEN e ELSE c.store[j]
           /\ Memory!Held(Memory!Put(c, k, e)) = Memory!Held(c) \cup {k}
<1> DEFINE d == Memory!Put(c, k, e)
<1>1. \A j \in MemoryKey : d.store[j] = IF j = k THEN e ELSE c.store[j]
  BY DEF Memory!Put, Sound, Shape
<1>2. \A t \in Tag : d.tagIndex[t] = IF t \in e.tags THEN c.tagIndex[t] \cup {k} ELSE c.tagIndex[t]
  BY DEF Memory!Put
<1>3. Shape(d)
  BY DEF Memory!Put, Sound, Shape
<1>4. e # None
  BY MemoryAssumption DEF Memory!MemoryAssumption
<1>5. ASSUME NEW t \in Tag, NEW j
      PROVE  j \in d.tagIndex[t] <=> j \in MemoryKey /\ Memory!Has(d, j) /\ t \in d.store[j].tags
  <2>1. j \in c.tagIndex[t] <=> j \in MemoryKey /\ Memory!Has(c, j) /\ t \in c.store[j].tags
    BY DEF Sound, Exact
  <2> QED
    BY <1>1, <1>2, <1>4, <2>1 DEF Memory!Has
<1>6. Exact(d)
  <2>1. ASSUME NEW t \in Tag
        PROVE  d.tagIndex[t] = {j \in MemoryKey : Memory!Has(d, j) /\ t \in d.store[j].tags}
    BY <1>5
  <2> QED
    BY <2>1 DEF Exact
<1>7. Memory!Held(d) = Memory!Held(c) \cup {k}
  BY <1>1, <1>4 DEF Memory!Held, Memory!Has
<1>8. d.older = c.older \cup (Memory!Held(c) \X {k}) /\ k \notin Memory!Held(c)
  BY DEF Memory!Put, Memory!Held
<1>9. Ordered(Memory!Held(d), d.older)
  BY <1>7, <1>8, OrderedPut DEF Sound
<1> QED
  BY <1>1, <1>3, <1>6, <1>7, <1>9 DEF Sound

LEMMA FewWithout ==
    ASSUME NEW c, NEW d, NEW n \in Nat, Few(c, n), Memory!Held(d) \subseteq Memory!Held(c)
    PROVE  Few(d, n)
BY FS_Subset, FS_CardinalityType DEF Few

\* One too many: the oldest is one of those held, and goes.
LEMMA EvictSound ==
    ASSUME NEW c, Sound(c), Few(c, MaxEntries + 1)
    PROVE  /\ Sound(Memory!Evict(c)) /\ Few(Memory!Evict(c), MaxEntries)
           /\ \A k \in MemoryKey : Memory!Evict(c).store[k] \in {None, c.store[k]}
<1> DEFINE held == Memory!Held(c)
           oldest == Memory!Oldest(c)
<1>1. MaxEntries \in Nat /\ IsFiniteSet(held) /\ Cardinality(held) \in Nat
         /\ Cardinality(held) <= MaxEntries + 1
  BY MemoryAssumption, FS_CardinalityType DEF Memory!MemoryAssumption, Few
<1>2. CASE Cardinality(held) > MaxEntries
  <2>1. held # {}
    BY <1>1, <1>2, FS_EmptySet
  <2>2. oldest \in held
    <3>1. \E k \in held : \A j \in held \ {k} : <<k, j>> \in c.older
      BY <2>1 DEF Sound, Ordered
    <3> QED
      BY <3>1 DEF Memory!Oldest
  <2>3. Memory!Evict(c) = Memory!DropKeys(c, {oldest})
    BY <1>2, SameCardinality DEF Memory!Evict
  <2> HIDE DEF held, oldest
  <2>4. /\ Sound(Memory!Evict(c)) /\ Memory!Held(Memory!Evict(c)) = held \ {oldest}
        /\ \A k \in MemoryKey : Memory!Evict(c).store[k] \in {None, c.store[k]}
    BY <2>3, DropKeysSound DEF held
  <2>5. IsFiniteSet(held \ {oldest}) /\ Cardinality(held \ {oldest}) = Cardinality(held) - 1
    BY <1>1, <2>2, FS_RemoveElement
  <2> QED
    BY <1>1, <2>4, <2>5 DEF Few
<1>3. CASE ~(Cardinality(held) > MaxEntries)
  <2>1. Memory!Evict(c) = c
    BY <1>3, SameCardinality DEF Memory!Evict
  <2> QED
    BY <1>1, <1>3, <2>1 DEF Few
<1> QED
  BY <1>2, <1>3

LEMMA EmptySound ==
    /\ Sound(Memory!Empty) /\ Few(Memory!Empty, MaxEntries)
    /\ \A k \in MemoryKey : Memory!Empty.store[k] = None
<1> DEFINE c == Memory!Empty
<1>1. Memory!Held(c) = {}
  BY DEF Memory!Empty, Memory!Held, Memory!Has
<1>2. Few(c, MaxEntries)
  BY <1>1, FS_EmptySet, MemoryAssumption DEF Few, Memory!MemoryAssumption
<1>3. Ordered(Memory!Held(c), c.older)
  BY <1>1 DEF Ordered, Memory!Empty
<1>4. Shape(c) /\ Exact(c) /\ \A k \in MemoryKey : c.store[k] = None
  BY DEF Memory!Empty, Shape, Exact, Memory!Has
<1> QED
  BY <1>2, <1>3, <1>4 DEF Sound

LEMMA MemoryInit ==
    ASSUME Memory!Init
    PROVE  MemoryInv
BY EmptySound DEF Memory!Init, MemoryInv, Memory!NothingRevoked, Memory!Has

\* Keys are dropped that are forgotten, or at least the forgotten ones that are held.
LEMMA MemoryDrop ==
    ASSUME MemoryInv, NEW keys, NEW forgotten,
           cache' = Memory!DropKeys(cache, keys), Memory!Forget(forgotten),
           \A k \in MemoryKey : k \in forgotten /\ Memory!Has(cache, k) => k \in keys
    PROVE  MemoryInv'
<1>1. /\ Sound(cache')
      /\ \A k \in MemoryKey : cache'.store[k] = IF k \in keys THEN None ELSE cache.store[k]
      /\ Memory!Held(cache') = Memory!Held(cache) \ keys
  BY DropKeysSound DEF MemoryInv
<1>2. Few(cache', MaxEntries)
  BY <1>1, FewWithout, MemoryAssumption DEF MemoryInv, Memory!MemoryAssumption
<1>3. \A k \in MemoryKey : latest'[k] = IF k \in forgotten THEN None ELSE latest[k]
  BY DEF Memory!Forget
<1>4. latest' \in [MemoryKey -> Memory!Entry \cup {None}]
  BY DEF Memory!Forget, MemoryInv
<1>5. Memory!NothingRevoked'
  BY <1>1, <1>3 DEF MemoryInv, Memory!NothingRevoked, Memory!Has
<1> QED
  BY <1>1, <1>2, <1>4, <1>5
  DEF MemoryInv, Sound, Few, Shape, Exact, Memory!Has, Memory!Held

LEMMA MemoryGet ==
    ASSUME MemoryInv, NEW k \in MemoryKey, Memory!Get(k)
    PROVE  MemoryInv'
<1>1. CASE cache.store[k].over
  BY <1>1, MemoryDrop DEF Memory!Get
<1>2. CASE ~cache.store[k].over
  <2> DEFINE held == Memory!Held(cache)
             now == Memory!Without(cache.older, {k}) \cup ((held \ {k}) \X {k})
  <2>1. cache' = [cache EXCEPT !.older = now] /\ latest' = latest
    BY <1>2 DEF Memory!Get
  <2>2. k \in held
    BY DEF Memory!Get, Memory!Held
  <2>3. Ordered(held \ {k}, Memory!Without(cache.older, {k}))
    BY OrderedWithout DEF MemoryInv, Sound
  <2>4. Ordered((held \ {k}) \cup {k}, now)
    BY <2>3, OrderedPut
  <2>5. (held \ {k}) \cup {k} = held
    BY <2>2
  <2>6. cache'.store = cache.store /\ cache'.tagIndex = cache.tagIndex
    BY <2>1
  <2>7. cache'.older = now \/ cache'.older = cache.older
    BY <2>1
  <2>8. Memory!Held(cache') = held
    BY <2>6 DEF Memory!Held, Memory!Has
  <2> HIDE DEF held, now
  <2>9. Ordered(held, cache'.older)
    BY <2>4, <2>5, <2>7 DEF MemoryInv, Sound, held
  <2>10. Shape(cache') /\ Exact(cache')
    BY <2>6 DEF MemoryInv, Sound, Shape, Exact, Memory!Has
  <2>11. Few(cache', MaxEntries)
    BY <2>8 DEF MemoryInv, Few, held
  <2>12. Memory!NothingRevoked'
    BY <2>1, <2>6 DEF MemoryInv, Memory!NothingRevoked, Memory!Has
  <2>13. latest' \in [MemoryKey -> Memory!Entry \cup {None}]
    BY <2>1 DEF MemoryInv
  <2>14. Sound(cache')
    BY <2>8, <2>9, <2>10 DEF Sound
  <2> QED
    BY <2>11, <2>12, <2>13, <2>14
    DEF MemoryInv, Sound, Few, Shape, Exact, Memory!Has, Memory!Held
<1> QED
  BY <1>1, <1>2

LEMMA MemorySet ==
    ASSUME MemoryInv, NEW k \in MemoryKey, NEW tags \in SUBSET Tag, Memory!Set(k, tags)
    PROVE  MemoryInv'
<1> DEFINE e == [tags |-> tags, over |-> FALSE]
           dropped == Memory!DropKeys(cache, {k})
           put == Memory!Put(dropped, k, e)
<1>1. e \in Memory!Entry
  BY DEF Memory!Entry
<1>2. /\ Sound(dropped) /\ Memory!Held(dropped) = Memory!Held(cache) \ {k}
      /\ \A j \in MemoryKey : dropped.store[j] = IF j = k THEN None ELSE cache.store[j]
  BY DropKeysSound DEF MemoryInv
<1>3. /\ Sound(put) /\ Memory!Held(put) = Memory!Held(dropped) \cup {k}
      /\ \A j \in MemoryKey : put.store[j] = IF j = k THEN e ELSE dropped.store[j]
  <2>1. ~Memory!Has(dropped, k)
    BY <1>2 DEF Memory!Has
  <2> HIDE DEF e, dropped
  <2> QED
    BY <1>1, <1>2, <2>1, PutSound
<1>4. cache' = Memory!Evict(put) /\ latest' = [latest EXCEPT ![k] = e]
  BY DEF Memory!Set
<1> HIDE DEF e, dropped, put
<1>5. Few(put, MaxEntries + 1)
  <2>1. MaxEntries \in Nat
    BY MemoryAssumption DEF Memory!MemoryAssumption
  <2>2. Few(dropped, MaxEntries)
    BY <1>2, <2>1, FewWithout DEF MemoryInv
  <2>3. Cardinality(Memory!Held(put)) <= Cardinality(Memory!Held(dropped)) + 1
    <3> DEFINE held == Memory!Held(dropped)
    <3>1. IsFiniteSet(held) /\ Cardinality(held) \in Nat
      BY <2>2, FS_CardinalityType DEF Few
    <3>2. Cardinality(held \cup {k}) = IF k \in held THEN Cardinality(held) ELSE Cardinality(held) + 1
      BY <3>1, FS_AddElement
    <3> QED
      BY <1>3, <3>1, <3>2
  <2>4. IsFiniteSet(Memory!Held(put))
    BY <1>3, <2>2, FS_AddElement DEF Few
  <2> QED
    BY <2>1, <2>2, <2>3, <2>4, FS_CardinalityType DEF Few
<1>6. /\ Sound(cache') /\ Few(cache', MaxEntries)
      /\ \A j \in MemoryKey : cache'.store[j] \in {None, put.store[j]}
  BY <1>3, <1>4, <1>5, EvictSound
<1>7. latest' \in [MemoryKey -> Memory!Entry \cup {None}]
  BY <1>1, <1>4 DEF MemoryInv
<1>8. ASSUME NEW j \in MemoryKey, cache'.store[j] # None
      PROVE  cache'.store[j] = latest'[j]
  <2>1. cache'.store[j] = IF j = k THEN e ELSE cache.store[j]
    BY <1>2, <1>3, <1>6, <1>8
  <2> QED
    BY <1>4, <1>8, <2>1 DEF MemoryInv, Memory!NothingRevoked, Memory!Has
<1> QED
  BY <1>6, <1>7, <1>8
  DEF MemoryInv, Sound, Few, Shape, Exact, Memory!Has, Memory!Held, Memory!NothingRevoked

LEMMA MemoryDelByTag ==
    ASSUME MemoryInv, NEW tags \in SUBSET Tag, Memory!DelByTag(tags)
    PROVE  MemoryInv'
<1> DEFINE keys == UNION {cache.tagIndex[t] : t \in tags}
           forgotten == {k \in MemoryKey : latest[k] # None /\ latest[k].tags \cap tags # {}}
<1>1. ASSUME NEW k \in MemoryKey, k \in forgotten, Memory!Has(cache, k)
      PROVE  k \in keys
  <2>1. PICK t \in tags : t \in cache.store[k].tags
    BY <1>1 DEF MemoryInv, Memory!NothingRevoked
  <2>2. k \in cache.tagIndex[t]
    BY <1>1, <2>1 DEF MemoryInv, Sound, Exact
  <2> QED
    BY <2>1, <2>2
<1>2. cache' = Memory!DropKeys(cache, keys) /\ Memory!Forget(forgotten)
  BY DEF Memory!DelByTag
<1> HIDE DEF keys, forgotten
<1> QED
  BY <1>1, <1>2, MemoryDrop

LEMMA MemoryExpires ==
    ASSUME MemoryInv, NEW k \in MemoryKey, Memory!Expires(k)
    PROVE  MemoryInv'
<1>1. latest[k] \in Memory!Entry /\ latest' = [latest EXCEPT ![k].over = TRUE]
  BY DEF Memory!Expires, MemoryInv
<1>2. latest' \in [MemoryKey -> Memory!Entry \cup {None}] /\ latest'[k].tags = latest[k].tags
         /\ latest'[k] # None
  BY <1>1, MemoryAssumption DEF MemoryInv, Memory!Entry, Memory!MemoryAssumption
<1>3. CASE Memory!Has(cache, k)
  <2>1. cache.store[k] = latest[k]
    BY <1>3 DEF MemoryInv, Memory!NothingRevoked
  <2>2. cache' = [cache EXCEPT !.store[k].over = TRUE]
    BY <1>3 DEF Memory!Expires
  <2>3. cache'.store = [cache.store EXCEPT ![k].over = TRUE] /\ cache'.tagIndex = cache.tagIndex
    BY <2>2 DEF MemoryInv, Sound, Shape
  <2>4. \A j \in MemoryKey : cache'.store[j] = IF j = k THEN latest'[k] ELSE cache.store[j]
    BY <1>1, <2>1, <2>3 DEF MemoryInv, Sound, Shape
  <2>5. Shape(cache')
    BY <1>2, <2>3, <2>4 DEF MemoryInv, Sound, Shape
  <2>6. Exact(cache')
    <3>1. ASSUME NEW t \in Tag, NEW j \in MemoryKey
          PROVE  Memory!Has(cache', j) /\ t \in cache'.store[j].tags
                   <=> Memory!Has(cache, j) /\ t \in cache.store[j].tags
      BY <1>2, <1>3, <2>1, <2>4 DEF Memory!Has
    <3>2. \A t \in Tag : {j \in MemoryKey : Memory!Has(cache', j) /\ t \in cache'.store[j].tags}
                           = {j \in MemoryKey : Memory!Has(cache, j) /\ t \in cache.store[j].tags}
      BY <3>1
    <3> QED
      BY <2>3, <3>2 DEF MemoryInv, Sound, Exact
  <2>7. Memory!Held(cache') = Memory!Held(cache) /\ cache'.older = cache.older
    <3>1. cache'.older = cache.older
      BY <2>2
    <3>2. \A j \in MemoryKey : Memory!Has(cache', j) <=> Memory!Has(cache, j)
      BY <1>2, <1>3, <2>4 DEF Memory!Has
    <3> QED
      BY <3>1, <3>2 DEF Memory!Held
  <2>8. Memory!NothingRevoked'
    BY <1>1, <2>4 DEF MemoryInv, Memory!NothingRevoked, Memory!Has
  <2>9. Sound(cache') /\ Few(cache', MaxEntries)
    BY <2>5, <2>6, <2>7 DEF MemoryInv, Sound, Few
  <2> QED
    BY <1>2, <2>8, <2>9 DEF MemoryInv, Sound, Few, Shape, Exact, Memory!Has, Memory!Held
<1>4. CASE ~Memory!Has(cache, k)
  <2>1. cache' = cache
    BY <1>4 DEF Memory!Expires
  <2>2. Memory!NothingRevoked'
    BY <1>1, <1>4, <2>1 DEF MemoryInv, Memory!NothingRevoked, Memory!Has
  <2> QED
    BY <1>2, <2>1, <2>2 DEF MemoryInv, Sound, Few, Shape, Exact, Memory!Has, Memory!Held
<1> QED
  BY <1>3, <1>4

LEMMA MemoryUnchanged ==
    ASSUME MemoryInv, UNCHANGED memoryVars
    PROVE  MemoryInv'
BY DEF memoryVars, MemoryInv, Sound, Few, Shape, Exact, Memory!Has, Memory!Held,
       Memory!NothingRevoked

LEMMA MemoryInvariant ==
    ASSUME MemoryInv, Memory!Next
    PROVE  MemoryInv'
<1>1. CASE \E k \in MemoryKey : Memory!Get(k) \/ Memory!Expires(k)
  BY <1>1, MemoryGet, MemoryExpires
<1>2. CASE \E k \in MemoryKey, tags \in SUBSET Tag : Memory!Set(k, tags)
  BY <1>2, MemorySet
<1>3. CASE \E keys \in SUBSET MemoryKey : Memory!Del(keys)
  BY <1>3, MemoryDrop DEF Memory!Del
<1>4. CASE \E tags \in SUBSET Tag : Memory!DelByTag(tags)
  BY <1>4, MemoryDelByTag
<1>5. CASE Memory!Close
  <2>1. cache' = Memory!Empty /\ latest' = [k \in MemoryKey |-> None]
    BY <1>5 DEF Memory!Close, Memory!Forget
  <2>2. Sound(cache') /\ Few(cache', MaxEntries) /\ Memory!NothingRevoked'
    BY <2>1, EmptySound DEF Memory!NothingRevoked, Memory!Has
  <2>3. latest' \in [MemoryKey -> Memory!Entry \cup {None}]
    BY <2>1
  <2> QED
    BY <2>2, <2>3 DEF MemoryInv, Sound, Few, Shape, Exact, Memory!Has, Memory!Held
<1> QED
  BY <1>1, <1>2, <1>3, <1>4, <1>5 DEF Memory!Next

-----------------------------------------------------------------------------
(* Both backends *)

THEOREM Invariant == SpecAny => [](IInv /\ MemoryInv)
<1>1. InitAny => IInv /\ MemoryInv
  BY InitInvariant, MemoryInit DEF InitAny
<1>2. ASSUME IInv, MemoryInv, [NextAny]_allVars
      PROVE  IInv' /\ MemoryInv'
  <2>1. CASE ValkeyStep(Next)
    BY <1>2, <2>1, StepInvariant, MemoryUnchanged DEF ValkeyStep
  <2>2. CASE MemoryStep(Memory!Next)
    BY <1>2, <2>2, StepInvariant, MemoryInvariant DEF MemoryStep
  <2>3. CASE UNCHANGED allVars
    BY <1>2, <2>3, StepInvariant, MemoryUnchanged DEF allVars
  <2> QED
    BY <1>2, <2>1, <2>2, <2>3 DEF NextAny
<1> QED
  BY <1>1, <1>2, PTL DEF SpecAny

\* Over Valkey, every variable has its shape, and whoever joined a load has a
\* leader of its own process that still runs it (coalesce.ts).
THEOREM TypeCorrect == Spec => []TypeOK
<1>1. IInv => TypeOK
  BY DEF IInv
<1> QED
  BY <1>1, InitInvariant, StepInvariant, PTL DEF Spec

\* Entries are found by their tags, whatever other calls and invalidations do
\* between the commands of set() and del(); in memory the index is exact, and no
\* more is held than maxEntries.
THEOREM IndexesHold == SpecAny => []IndexesCover
<1>1. MemoryInv => Memory!IndexExact
  BY DEF MemoryInv, Sound, Exact, Memory!IndexExact
<1>2. MemoryInv => Memory!Bounded
  BY SameCardinality DEF MemoryInv, Sound, Few, Ordered, Memory!Bounded
<1>3. IInv /\ MemoryInv => IndexesCover
  BY <1>1, <1>2 DEF IInv, IndexesCover
<1> QED
  BY <1>3, Invariant, PTL

\* What was invalidated is not served afterwards, in either backend, unless its
\* load overlapped an invalidation.
THEOREM RevokedForGood == SpecAny => []NothingRevoked
<1>1. IInv /\ MemoryInv => NothingRevoked
  BY DEF IInv, MemoryInv, NothingRevoked
<1> QED
  BY <1>1, Invariant, PTL

=============================================================================
