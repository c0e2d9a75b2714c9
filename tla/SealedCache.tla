----------------------------- MODULE SealedCache -----------------------------
(***************************************************************************)
(* The sealed disk cache of @minion-stack/env (cache.ts): processes that   *)
(* share a directory of numbered, immutable generations and coordinate     *)
(* their writes through a lock file.  Everything is synchronous within a   *)
(* process; between processes, each file-system call that others can see   *)
(* (link, rename, read, readdir) is one action.  A process may die before  *)
(* any of them.  Actors that ignore the lock write foreign bytes wherever  *)
(* they like.                                                              *)
(*                                                                         *)
(* A call of writeCache is a number, which is also the token of its lock   *)
(* object and the entry it adds; a sealed generation is the set of the     *)
(* entries in it, each under a key of its own.  Reads change nothing here: *)
(* with the memo and the ttl of entries they are in SecretCache.  Modes    *)
(* of files and I/O errors are left out.                                   *)
(***************************************************************************)
EXTENDS Integers, FiniteSets

CONSTANTS Process,        \* processes using the directory
          Foreign,        \* contents the cache cannot authenticate
          Legacy,         \* those of them with the shape of the old plaintext cache
          MaxCall,        \* bound: calls of writeCache
          MaxGeneration,  \* bound: the highest generation number
          MaxDeath,       \* bound: deaths of processes
          Earlier,        \* a process that died before all of these
          None            \* no file, no object

Call == 1 .. MaxCall
Token == 0 .. MaxCall  \* 0 is the lock object Earlier may have left behind
Generation == 0 .. MaxGeneration
Sealed == {S \cup {n} : S \in SUBSET Call, n \in Call}  \* the nonempty sets
Content == Sealed \cup Foreign

ASSUME BoundAssumption == MaxCall \in Nat /\ MaxGeneration \in Nat /\ MaxDeath \in Nat
ASSUME NoneAssumption == None \notin Content /\ None \notin Token
ASSUME EarlierAssumption == Earlier # None /\ {Earlier, None} \cap Process = {}
ASSUME ForeignAssumption == Foreign \cap Sealed = {} /\ Legacy \subseteq Foreign

RETAINED_AUTHENTICATED_GENERATIONS == 2

VARIABLES lock,       \* the call whose lock object is at the lock path, or None
          path,       \* the content at each generation's path, or None
          alive,      \* the processes that have not died
          caller,     \* the process behind each token, None before it exists
          calls,      \* number of calls started
          proc,       \* what each process is doing
          strayLocks, \* lock objects left behind in quarantine directories
          strayFiles, \* generations left behind there, with their number
          published,  \* calls that published their generation (history)
          excuses     \* why entries may have been lost, without crashes: "foreign"
                      \* bytes were written, or a writer listed or numbered an
                      \* empty directory while a "purge" held generation zero (history)

vars == <<lock, path, alive, caller, calls, proc, strayLocks, strayFiles, published, excuses>>

Step == {"fresh", "idle", "acquire", "reap", "putback", "list", "load", "number",
         "publish", "prune", "retire", "judge", "reshelve", "release", "dead"}

\* call is 0 in a purge; goal is the generation being looked at; heldLock and
\* heldFile are what the process moved into its quarantine directory.
Idle == [at |-> "idle", call |-> 0, observed |-> None, entries |-> {}, goal |-> -1,
         todo |-> {}, heldLock |-> None, heldFile |-> None]

Init ==
    /\ lock \in {None, 0}
    /\ \E o \in Legacy \cup {None} : path = [g \in Generation |-> IF g = 0 THEN o ELSE None]
    /\ alive = Process
    /\ caller = [n \in Token |-> IF n = lock THEN Earlier ELSE None]
    /\ calls = 0
    /\ proc = [p \in Process |-> [Idle EXCEPT !.at = "fresh"]]
    /\ strayLocks = {}
    /\ strayFiles = {}
    /\ published = {}
    /\ excuses = {}

-----------------------------------------------------------------------------
(* Helpers *)

At(p, step) == p \in alive /\ proc[p].at = step

\* cacheLockOwnerIsAlive compares process start identities, so a reused pid
\* does not revive the owner.
OwnerIsAlive(n) == caller[n] \in alive

Occupied == {g \in Generation : path[g] # None}

\* diskGenerationCandidates(dir)[0], or -1.
Latest == IF Occupied = {} THEN -1 ELSE CHOOSE g \in Occupied : \A h \in Occupied : h <= g

Authenticated(o) == o \in Sealed

\* What a writer finds in o.
Entries(o) == IF Authenticated(o) THEN o ELSE {}

\* Mutant: the candidates are sorted the other way.
OldAscending == {g \in Occupied :
          Cardinality({h \in Occupied : h < g}) >= RETAINED_AUTHENTICATED_GENERATIONS}

\* candidates.slice(RETAINED_AUTHENTICATED_GENERATIONS)
Old == {g \in Occupied :
          Cardinality({h \in Occupied : h > g}) >= RETAINED_AUTHENTICATED_GENERATIONS}

GoTo(p, step) == proc' = [proc EXCEPT ![p].at = step]

Rest == <<alive, caller, calls, strayLocks, strayFiles, published, excuses>>

-----------------------------------------------------------------------------
(* Calls *)

\* The first fetch of a process begins with purgeLegacyCacheOnce: whatever is at
\* cachePath(), where the plaintext cache of older builds was and generation
\* zero is, is moved into quarantine to be looked at.
Purge(p) ==
    /\ At(p, "fresh")
    /\ IF path[0] = None
       THEN proc' = [proc EXCEPT ![p] = Idle] /\ UNCHANGED path
       ELSE /\ proc' = [proc EXCEPT ![p] = [Idle EXCEPT !.at = "judge", !.goal = 0,
                                                        !.heldFile = path[0]]]
            /\ path' = [path EXCEPT ![0] = None]
    /\ UNCHANGED lock /\ UNCHANGED Rest

\* writeCache, up to the lock: a new owner record with a fresh token.
StartWrite(p) ==
    /\ At(p, "idle")
    /\ calls < MaxCall
    /\ calls' = calls + 1
    /\ caller' = [caller EXCEPT ![calls + 1] = p]
    /\ proc' = [proc EXCEPT ![p].at = "acquire", ![p].call = calls + 1]
    /\ UNCHANGED <<lock, path, alive, strayLocks, strayFiles, published, excuses>>

\* The process dies, or exits; what it moved into quarantine stays there.
Crash(p) ==
    /\ p \in alive
    /\ Cardinality(Process \ alive) < MaxDeath
    /\ alive' = alive \ {p}
    /\ proc' = [proc EXCEPT ![p] = [Idle EXCEPT !.at = "dead", !.heldLock = proc[p].heldLock,
                    !.heldFile = proc[p].heldFile,
                    !.goal = IF proc[p].heldFile = None THEN -1 ELSE proc[p].goal]]
    /\ UNCHANGED <<lock, path, caller, calls, strayLocks, strayFiles, published, excuses>>

\* Somebody who takes no lock writes a file, over a sealed one or where none was.
Intrude(f, g) ==
    /\ \A h \in Generation : path[h] # f
    /\ \A p \in Process : proc[p].heldFile # f
    /\ \A s \in strayFiles : s[2] # f
    /\ path[g] \notin Foreign
    /\ g <= Latest + 1
    /\ path' = [path EXCEPT ![g] = f]
    /\ excuses' = excuses \cup {"foreign"}
    /\ UNCHANGED <<lock, alive, caller, calls, proc, strayLocks, strayFiles, published>>

-----------------------------------------------------------------------------
(* The lock *)

\* Mutant: the lock file is written over whatever is there.
AcquireByWriting(p) ==
    /\ At(p, "acquire")
    /\ lock' = proc[p].call
    /\ GoTo(p, "list")
    /\ UNCHANGED path /\ UNCHANGED Rest

\* link(2) succeeds only where there is no lock file.
Acquire(p) ==
    /\ At(p, "acquire")
    /\ lock = None
    /\ lock' = proc[p].call
    /\ GoTo(p, "list")
    /\ UNCHANGED path /\ UNCHANGED Rest

\* The lock file names an owner that is dead.
ObserveDeadOwner(p) ==
    /\ At(p, "acquire")
    /\ lock # None
    /\ ~OwnerIsAlive(lock)
    /\ proc' = [proc EXCEPT ![p].at = "reap", ![p].observed = lock]
    /\ UNCHANGED <<lock, path>> /\ UNCHANGED Rest

\* The deadline passed: the entry stays in the memo only.
AcquireTimesOut(p) ==
    /\ At(p, "acquire")
    /\ proc' = [proc EXCEPT ![p] = Idle]
    /\ UNCHANGED <<lock, path>> /\ UNCHANGED Rest

\* Mutant: whatever was moved is removed.
ReapAnything(p) ==
    /\ At(p, "reap")
    /\ proc' = [proc EXCEPT ![p].at = "acquire", ![p].observed = None]
    /\ lock' = None
    /\ UNCHANGED path /\ UNCHANGED Rest

\* quarantinePath moves whatever is at the lock path by now, and only then is
\* it looked at, in private: the very object that was observed dead is removed,
\* any other has to go back.
Reap(p) ==
    /\ At(p, "reap")
    /\ IF lock \in {None, proc[p].observed}
       THEN proc' = [proc EXCEPT ![p].at = "acquire", ![p].observed = None]
       ELSE proc' = [proc EXCEPT ![p].at = "putback", ![p].heldLock = lock]
    /\ lock' = None
    /\ UNCHANGED path /\ UNCHANGED Rest

\* restoreQuarantinedPath links it back unless a new lock file appeared
\* meanwhile.  A reaper goes on waiting, a releaser is done.
PutBackLock(p) ==
    /\ At(p, "putback")
    /\ IF lock = None
       THEN lock' = proc[p].heldLock /\ UNCHANGED strayLocks
       ELSE strayLocks' = strayLocks \cup {proc[p].heldLock} /\ UNCHANGED lock
    /\ proc' = [proc EXCEPT ![p] =
         IF @.observed = None THEN Idle
         ELSE [@ EXCEPT !.at = "acquire", !.heldLock = None, !.observed = None]]
    /\ UNCHANGED <<path, alive, caller, calls, strayFiles, published, excuses>>

\* releaseCacheLock likewise: the lock file is moved first and looked at afterwards.
ReleaseLock(p) ==
    /\ At(p, "release")
    /\ proc' = [proc EXCEPT ![p] =
         IF lock \in {None, proc[p].call} THEN Idle
         ELSE [@ EXCEPT !.at = "putback", !.heldLock = lock]]
    /\ lock' = None
    /\ UNCHANGED path /\ UNCHANGED Rest

-----------------------------------------------------------------------------
(* The transaction of a write *)

\* A writer sees an empty directory, but a purge holds a sealed generation zero.
Eclipse == Latest = -1 /\ \E p \in alive : proc[p].call = 0 /\ Authenticated(proc[p].heldFile)

Excuses == IF Eclipse THEN excuses \cup {"purge"} ELSE excuses

\* readDiskEntries under the lock: list the directory ...
ListLatest(p) ==
    /\ At(p, "list")
    /\ proc' = [proc EXCEPT ![p].at = "load", ![p].goal = Latest]
    /\ excuses' = Excuses
    /\ UNCHANGED <<lock, path, alive, caller, calls, strayLocks, strayFiles, published>>

\* ... and read the candidate.  A writer starts from nothing if there is none
\* or it is rejected, and gives up if it cannot be read.
Load(p) ==
    /\ At(p, "load")
    /\ LET g == proc[p].goal
           o == IF g = -1 THEN None ELSE path[g]
       IN  proc' = [proc EXCEPT ![p] =
             IF g # -1 /\ o = None THEN [@ EXCEPT !.at = "release", !.goal = -1]
             ELSE [@ EXCEPT !.at = "number", !.goal = -1,
                            !.entries = Entries(o)]]
    /\ UNCHANGED <<lock, path>> /\ UNCHANGED Rest

\* The next generation number, as long as there is one.
Number(p) ==
    /\ At(p, "number")
    /\ Latest < MaxGeneration
    /\ proc' = [proc EXCEPT ![p].at = "publish", ![p].goal = Latest + 1]
    /\ excuses' = Excuses
    /\ UNCHANGED <<lock, path, alive, caller, calls, strayLocks, strayFiles, published>>

\* commitSealedFile: link(2) again, and the next number if the path is taken.
Publish(p) ==
    /\ At(p, "publish")
    /\ IF path[proc[p].goal] = None
       THEN /\ path' = [path EXCEPT ![proc[p].goal] = proc[p].entries \cup {proc[p].call}]
            /\ published' = published \cup {proc[p].call}
            /\ proc' = [proc EXCEPT ![p].at = "prune", ![p].goal = -1, ![p].entries = {}]
       ELSE /\ proc' = [proc EXCEPT ![p].at = "number", ![p].goal = -1]
            /\ UNCHANGED <<path, published>>
    /\ UNCHANGED <<lock, alive, caller, calls, strayLocks, strayFiles, excuses>>

\* retireOldAuthenticatedGenerations: list what is to go ...
ListOld(p) ==
    /\ At(p, "prune")
    /\ proc' = [proc EXCEPT ![p].at = IF Old = {} THEN "release" ELSE "retire",
                            ![p].todo = Old]
    /\ UNCHANGED <<lock, path>> /\ UNCHANGED Rest

\* Where a retiring process goes once the generations in todo are left; a
\* purge is over then.
Retiring(p, todo) ==
    IF proc[p].call = 0 THEN Idle ELSE
    [proc[p] EXCEPT !.at = IF todo = {} THEN "release" ELSE "retire", !.todo = todo,
                    !.goal = -1, !.heldFile = None]

\* ... move one into quarantine, newest first ...
QuarantineOld(p) ==
    /\ At(p, "retire")
    /\ LET g == CHOOSE g \in proc[p].todo : \A h \in proc[p].todo : h <= g
           todo == proc[p].todo \ {g}
       IN  IF path[g] = None
           THEN proc' = [proc EXCEPT ![p] = Retiring(p, todo)] /\ UNCHANGED path
           ELSE /\ proc' = [proc EXCEPT ![p] = [@ EXCEPT !.at = "judge", !.todo = todo,
                                                  !.goal = g, !.heldFile = path[g]]]
                /\ path' = [path EXCEPT ![g] = None]
    /\ UNCHANGED lock /\ UNCHANGED Rest

\* Mutant: the listing is taken for what was moved.
JudgeByListing(p) ==
    /\ At(p, "judge")
    /\ proc' = [proc EXCEPT ![p] = Retiring(p, proc[p].todo)]
    /\ UNCHANGED <<lock, path>> /\ UNCHANGED Rest

\* Retirement deletes authentic generations, a purge the plaintext cache.
Condemned(p) ==
    IF proc[p].call = 0 THEN proc[p].heldFile \in Legacy ELSE Authenticated(proc[p].heldFile)

\* ... delete it if what was moved is to go ...
Judge(p) ==
    /\ At(p, "judge")
    /\ IF Condemned(p)
       THEN proc' = [proc EXCEPT ![p] = Retiring(p, proc[p].todo)]
       ELSE GoTo(p, "reshelve")
    /\ UNCHANGED <<lock, path>> /\ UNCHANGED Rest

\* ... and link it back otherwise, or leave it where it is if the path was retaken.
Reshelve(p) ==
    /\ At(p, "reshelve")
    /\ LET g == proc[p].goal
           o == proc[p].heldFile
       IN  IF path[g] = None
           THEN path' = [path EXCEPT ![g] = o] /\ UNCHANGED strayFiles
           ELSE strayFiles' = strayFiles \cup {<<g, o>>} /\ UNCHANGED path
    /\ proc' = [proc EXCEPT ![p] = Retiring(p, proc[p].todo)]
    /\ UNCHANGED <<lock, alive, caller, calls, strayLocks, published, excuses>>

Next ==
    \/ \E p \in Process :
         \/ Purge(p) \/ StartWrite(p) \/ Crash(p)
         \/ Acquire(p) \/ ObserveDeadOwner(p) \/ AcquireTimesOut(p)
         \/ Reap(p) \/ PutBackLock(p) \/ ReleaseLock(p)
         \/ ListLatest(p) \/ Load(p) \/ Number(p) \/ Publish(p)
         \/ ListOld(p) \/ QuarantineOld(p) \/ Judge(p) \/ Reshelve(p)
    \/ \E f \in Foreign, g \in Generation : Intrude(f, g)

Spec == Init /\ [][Next]_vars

-----------------------------------------------------------------------------
(* Properties *)

\* Every variable has its shape.
TypeOK ==
    /\ lock \in Token \cup {None}
    /\ path \in [Generation -> Content \cup {None}]
    /\ alive \subseteq Process
    /\ caller \in [Token -> Process \cup {Earlier, None}]
    /\ calls \in 0 .. MaxCall
    /\ proc \in [Process -> [at: Step, call: 0 .. MaxCall, observed: Token \cup {None},
                             entries: SUBSET Call, goal: -1 .. MaxGeneration,
                             todo: SUBSET Generation, heldLock: Token \cup {None},
                             heldFile: Content \cup {None}]]
    /\ strayLocks \subseteq Token
    /\ strayFiles \subseteq Generation \X Content
    /\ published \subseteq Call
    /\ excuses \subseteq {"foreign", "purge"}

\* Between taking the lock and releasing it.
InTransaction(p) ==
    /\ p \in alive
    /\ proc[p].call # 0
    /\ proc[p].at \in {"list", "load", "number", "publish", "prune", "retire",
                       "judge", "reshelve", "release"}

\* Nobody destroys the lock of a live holder: at worst a process that mistook
\* it for a dead one has moved it aside (the recheck after the rename, lines 537-541).
LiveLockKept ==
    \A p \in Process : InTransaction(p) =>
        \/ lock = proc[p].call
        \/ proc[p].call \in strayLocks
        \/ \E q \in Process : proc[q].heldLock = proc[p].call

\* The objects that belong to generation g, in quarantine or not.
Shelved(g) ==
    ({path[g]} \ {None})
        \cup {proc[p].heldFile : p \in {q \in Process : proc[q].heldFile # None
                                                        /\ proc[q].goal = g}}
        \cup {s[2] : s \in {t \in strayFiles : t[1] = g}}

\* No process has died, and nothing but the excuses given made the cache start over.
Undisturbed(given) == alive = Process /\ caller[0] = None /\ excuses \subseteq given

\* As long as no process has died, now or earlier, transactions exclude each
\* other and merge: the latest generation holds the entry of every call that
\* published (lines 572-598, 710-740).  The exceptions are foreign bytes, which
\* make the cache start over, and a writer that finds nothing because a new process
\* is looking at generation zero in its purge (lines 114-150): it starts over too,
\* or gives its number to a second file that the old one may displace, see
\* MergesIntoLatest.
\* Once a process has died transactions overlap: see MutualExclusion.
MergesUntilCrash ==
    /\ alive = Process /\ caller[0] = None =>
         \A p, q \in Process : InTransaction(p) /\ InTransaction(q) => p = q
    /\ Undisturbed({}) /\ Latest # -1 => published \subseteq Entries(path[Latest])

\* The number of the latest generation never falls: readers and writers never
\* take an older generation for the latest, whatever retirement, crashes and
\* overlapping writers do (lines 371-381, 726-737); only generation zero may be
\* gone for a while, or for good, in a purge.
LatestKept == [][Latest' >= Latest \/ Latest = 0]_vars

\* The directory implements the shelf: what is in quarantine still belongs to
\* its place, so foreign bytes are never lost, nothing is replaced, and only
\* authenticated generations below the newest two disappear.
Store == INSTANCE SealedStore WITH
    Place <- Generation,
    shelf <- [g \in Generation |-> Shelved(g)]

ImplementsStore == Store!Spec

\* What the comment on writeDiskEntry says: an entry is merged into the latest
\* authenticated generation, and a clean one started only after a rejected one
\* (line 703).  It is the third part of MergesUntilCrash without its exception.
MergesIntoLatest ==
    Undisturbed({"purge"}) /\ Latest # -1 => published \subseteq Entries(path[Latest])

\* What the comment on withCacheLock says: two cooperating writers never
\* interleave their transactions (lines 559-561).
MutualExclusion ==
    \A p, q \in Process : InTransaction(p) /\ InTransaction(q) => p = q
=============================================================================
