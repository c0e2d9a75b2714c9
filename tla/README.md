# TLA+ specifications of minion-meta

Specifications of the parts of this repository whose correctness depends on the
order in which things happen: state machines in TLA+, checked with TLC on small
instances, and theorems proved with TLAPS for instances of any size.

Paths below are relative to the repository root. Line numbers in the comments of
a module are those of the file it models.

## Contents

| module | models | kind |
|---|---|---|
| `RunLedger` | what the run journal promises | abstract |
| `RunJournal` | `packages/shells-bridge/src/run-journal.ts` | detailed |
| `RunJournalProofs` | its invariants; that it implements `RunLedger` | proofs |
| `RunStream` | what the bridge promises about a run | abstract |
| `ShellsBridge` | `packages/shells-bridge/src/bridge.ts`, `acp-client.ts`, `index.ts` | detailed |
| `ShellsBridgeProofs` | its invariants; that it implements `RunStream` | proofs |
| `GatewaySession` | what a gateway client promises its user | abstract |
| `GatewayClient` | `packages/shared/src/gateway/client.ts` | detailed |
| `GatewayClientProofs` | its invariants; that it implements `GatewaySession` | proofs |
| `LegacyConnection` | `packages/shared/src/gateway/connection.ts`, `protocol.ts` | detailed |
| `RunnerGateway` | `langgraph-server/src/gateway/client.ts` | detailed |
| `SealedStore` | what the sealed cache promises about its directory | abstract |
| `SealedCache` | `packages/env/src/cache.ts`: the directory, between processes | detailed |
| `SealedCacheProofs` | its invariants; that it implements `SealedStore` | proofs |
| `SecretCache` | `packages/env/src/cache.ts`, `infisical.ts`, `hierarchy.ts`: memo, disk and fetch of secrets | detailed |
| `SecretCacheProofs` | its invariants | proofs |
| `TagCache` | `packages/cache/src/core.ts`, `coalesce.ts`, `backends/valkey.ts` | detailed |
| `MemoryBackend` | `packages/cache/src/backends/memory.ts` | detailed |
| `CacheProofs` | the invariants of both | proofs |
| `FlowRun` | `langgraph-server/src/flow/compile-flow.ts`: one flow | detailed |
| `Subflows` | the same and `langgraph-server/src/flow/server.ts`: flows that run flows | detailed |
| `SmallComponentsProofs` | the invariants of `LegacyConnection`, `RunnerGateway`, `FlowRun`, `Subflows` | proofs |
| `CrmParties` | `packages/crm-sdk/src/client.ts`, `dni.ts` | detailed |
| `CrmPartiesProofs` | its invariants, and those of `SecretCache` in the run they share | proofs |
| `MC*` | constants for TLC; each has one or more `.cfg` files | instances |

`tlc -config MCRunJournal.cfg MCRunJournal` checks a model, `tlapm
RunJournalProofs.tla` its proofs. `PROJECT.json` lists the runs with their
properties, a seeded fault for each property that the run must detect (the
definitions under a comment `Mutant:` in the modules), the source lines of every
definition, the hazards, the findings and the theorems.

## Inventory

### Shells bridge (`packages/shells-bridge`)

A process on a shell VM. It keeps one WebSocket to the gateway and one child
process, the agent harness, with which it speaks ACP over stdin and stdout.

*Bridge and ACP client.* State: the socket, the reconnect timer and heartbeat interval,
outstanding calls to the gateway (`shells.register`, `shells.fatal`), `activeRuns` and
`acpSessionToRun`, the delta counter of each run, the pending calls of the ACP client
with their 60 s timers, `shuttingDown`, `harnessRunning`. Operations: connect and
reconnect, register, invoke, cancel, an update or a response from the harness, the
prompt timer, harness exit and fatal report, SIGTERM. Hard: the gateway connection and
the harness fail independently; prompts time out while the harness goes on; updates
carry a session but no run; systemd restarts the process while state is lost. Correct
when: one slot, held exactly while a prompt is pending; frames of a run in order and
never after its end; no run credited with the words of another that finished; one live
connection; a run always frees the slot; a dead harness is always replaced.

*Run journal.* State: a SQLite file with a metadata row (the policy), `runs` and
`deliveries`. Operations: open, admit, observe, commitOutcome, acknowledge,
close, rollback. Hard: two processes with the file open (the old one while
systemd starts the next), a crash between statements, retries of calls whose
answer was lost. Correct when: one open run, one run per invocation, an outcome
and its delivery stored together, outcomes and receipts written once, what a
caller was told durable. The bridge does not call the journal yet
(`run-journal.ts:58`); it is modelled as the component it is, with callers that
make any call at any time.

Backup and restore (`backup.ts`, tar and upload of the work directory),
configuration parsing and the Docker image are I/O and not modelled.

### Gateway clients (`packages/shared`, `langgraph-server`)

*GatewayClient.* State: the socket, the current `ConnectionAttempt` and its
generation, the pending map with one timer per request, the reconnect timer and
delay, `closed`. Operations: connect, request, close; the socket's open,
message, close; the challenge handshake (two awaits); handshake, request and
reconnect timers; the callbacks `onChallenge`, `onAuthenticated`, `onClose`,
`onReconnectScheduled`, in which the user may call the client again. Hard: late
events of superseded sockets, state read before an await and used after it,
reentrant callbacks. Correct when: every promise settles, each once and for its
own connection; no timer or socket of the past acts on the present; a client
that reconnects by itself is never left without a way to.

*Legacy connection* (`packages/shared/src/gateway/connection.ts`). State: the
socket, a generation that fences its events, the handle of the reconnect timer,
`closed`, a pending map. Operations: connect, disconnect, the socket's events, the
timers, requests, and the hook `onDisconnected`. Hard: connect() leaves an armed
timer armed and the pending map as it is. Correct when: one link, every request
settles, redialling, no link after disconnect().

*Langgraph gateway client* (`langgraph-server/src/gateway/client.ts`). State: one
module-wide socket, `authed`, the back-off delay, a pending map in which the
handshake is an entry like any other. It has no fence at all and redials for ever.
Correct when: one socket or one timer, `authed` speaks of the present socket, every
request settles.

### Environment resolution (`packages/env`)

*Sealed cache.* State: a directory of numbered, immutable, encrypted generations,
a lock file linked into place, quarantine directories, and a process memo.
Operations: readCache, writeCache (acquire lock, reap a dead owner's lock, list,
merge, publish by link, retire all but two old generations, release). Hard: three
or more processes between any two system calls, deaths, files of actors that
ignore the lock, quarantine and restore. Correct when: nothing foreign is lost,
nothing replaced, the latest generation never falls, cooperating writers merge.

*Secrets.* State: a memo per process, the disk behind it, calls of the `infisical`
command under way. Operations: a call answered by the memo, by the disk or by a
fetch, and the persisting that follows. Hard: entries age while they move between
memo, disk and other memos; processes share one disk with other keys, other modes
and other allowlists. Correct when: a cached answer is one the command has given to
this very question within the ttl.

The rest of the *resolver* (`hierarchy.ts`, dotenv, validation) is one sequential
pass, and the *envelope cryptography* is pure; it enters as the verdict
"authenticated or not".

### Cache (`packages/cache`)

State: in Valkey, an entry per key, the tags of each key and the keys of each
tag; in a process, the coalescer's promises in flight. Operations: cached
(hit, stale hit with background refresh, miss), invalidateTags, and the get, set,
del and delByTag of the backend, each several commands. Hard: calls of several
processes interleave between the commands; a load overlaps an invalidation;
commands fail half-way. Correct when: the tag index covers every entry,
invalidated data is not left in the cache, stale data ends, and every caller is
answered or waits for the loader it brought along.

The memory backend keeps entries in order of use, with a limit, and a tag index.
Each operation is one synchronous step, so the hazard is a long sequence of them:
evictions, expiries and rewrites that leave the index wrong. The broadcaster only
publishes.

### Flows (`langgraph-server/src/flow`)

State of a run: the graph, the searches of the validation, the superstep with the
nodes triggered in it, the messages. Operations: validateFlowShape, compileFlow,
the node runners, branch routing. Hard: shapes nobody drew (several paths of
different lengths, parallel branches, unconnected handles), failures of one node
of a step. Correct when: exactly the runnable shapes are accepted, no node is
skipped, inputs come from upstream.

A node may call another flow. State: the call stack each run carries, the runs that
calls have started. Hard: flows that call each other and that the hub changes
meanwhile; a branch that fails while another is still calling. Correct when: calls
are bounded and end, and nothing goes on under a run that has completed.

The HTTP server, tools and providers are not modelled.

### CRM client (`packages/crm-sdk`)

State, in Postgres: parties with their document, name, verification and registry
data, contacts, and the metadata that makes leads idempotent and claims exclusive.
Operations: upsertLead, the two claims of a batch, the two transactions of
validatePartyDni around its lookup in the registry, enrichParty, setDniVerified.
Hard: several workers on one table; identities edited by the hub between the lookup
and the write; workers that die with a claim, or outlive its 5 minutes. Correct
when: one party per submission, one worker per claim, a verdict recorded only on the
identity it is about, no claim for ever.

### The rest

`packages/workforce-client` (typed HTTP), `packages/db` and `packages/auth` (schemas and
library configuration), `packages/cli` (git and child processes), `packages/ui`,
`design-tokens`, `workstation-image`, `scripts`, `ops`, `supabase` keep no state of
their own between calls; documents and agent skills are prose. Not modelled.

### Interactions

Gateway and hub are outside the repository. The bridge is a client of the gateway
and a parent of the harness; it does not use `GatewayClient`. Flow nodes call the
gateway through the langgraph client. Apps use `GatewayClient`, the cache and the
resolver independently of one another. The components therefore share no state
with each other, and each is modelled together with a most general environment in
place of its neighbours.

## The models

One action is one indivisible piece of the program: one run of JavaScript from an
event to the next return to the event loop, one file-system call visible to other
processes, one SQLite statement or Redis command. Calls that are refused without
changing anything are not steps.

A model says what one component does with a most general environment. Three of the
MC modules (`MCTagCache`, `MCClients`, `MCSmallComponents`) hold more than one small
model: the variable `subject`, chosen initially, says which one a behaviour is
about, and the variables of the others keep one of their initial values. That is
the disjoint union of the state graphs, hence each is checked as if it were alone.

### RunJournal

`runs`, `deliveries` and `policy` are the committed tables, `tx` the private copy
of the transaction that is open, `handle` the policy each process opened the file
with. Because writes run in `BEGIN IMMEDIATE`, at most one `tx` exists; a crash or
`Rollback` drops it, `Commit` publishes it and returns the answer. Two histories,
`told.outcomes` and `told.receipts`, hold what callers have been told.
`commitOutcome` is two statements, `OutcomeUpdate` and `DeliveryInsert`, so that a
crash or a UNIQUE violation can come between them. A digest is a hash of the other
fields, hence an outcome is its own digest. The reserved bytes are the set
`Oversized` of results that do not fit.

`run_journal`: two processes, runs, invocations, events, receipts; clocks 0 and 1;
one result that fits and one that does not; one policy of capacity 2 and one of
capacity 1, so that the limit is hit and a process can come with the wrong policy.
Names collide on purpose. Two runs are enough for "at most one open" and for
every relation between two rows; three change only the capacity, which the proofs
cover.

### ShellsBridge

The gateway may send an invoke or a cancel at any time on an open connection; the
harness may write, answer or die at any time. `stdout` is the harness output not yet
read; `prompts` are the pending ACP calls; `executing` what the harness really works
on; `out` the frames handed to an open socket. An update names a session and no run, so
the code credits a line to whatever run the session belongs to by then; `strays`
(history) keeps who wrote a line and whose frame it became, if they differ. Socket
objects are reused when nothing refers to them any more. A frame sent while the socket
is down is dropped, as in `send()`.

`bridge`: two sessions, two sockets, two runs, two unread lines, one update
per prompt. Two runs are needed for a late line of the first to meet the second;
two sockets for the events of an old one. Safety and liveness are checked on the
same 791,527 states. `bridge_two_executions` shows a divergence (below).

Not modelled: backup and restore; a replay of an active invoke (changes nothing);
the individual timers of calls to the gateway, reduced to the call's outcome.

### GatewayClient

A socket attempt is named by its generation, which the code uses as a fence too.
`hook` is set while `onClose` or `onReconnectScheduled` runs in the middle of a
handler: then only the user may act, and the rest of the handler is an action of
its own. The delay is a level (how often it has doubled). Trace parents, error
reporting and exceptions thrown by callbacks are left out. A WebSocket constructor
that throws inside the reconnect timer ends reconnecting, which the code accepts;
`NeverStranded` and `Redials` exclude that case by name.

`gateway`: three connections and one request of the user beside the handshakes
(361,864 states), so that an event of the first attempt can meet the third. The
proofs cover any number of both.

### LegacyConnection and RunnerGateway

In `LegacyConnection` the connection is one record, and connect() and disconnect()
are operators on it, because the hook may call either in the middle of the close
handler. `armed` counts the reconnect timers that are armed, `held` says that the
code still has the handle of one: when connect() is called with a timer armed, the
next close arms a second and overwrites the handle. `current` is the socket whose
events pass the fence. In `RunnerGateway` the handshake is kept apart from the flows'
requests (`asked`, one for each challenge) because only it touches `authed`.
`greeted` is history: what the gateway last said on each socket.

Both in `small_components`: three sockets, so that two old ones can be closing beside
the present one; two requests; two armed timers; two challenges per socket; delays
doubling up to the code's 30 s.

### SealedCache

A step is one call of link, rename, read or readdir. A lock object is the number of
the writeCache call that made it; a sealed generation is the set of the calls
merged into it. A process may die at any step; `Earlier` is one that died before
and left its lock. `Foreign` actors write anywhere at any time. Quarantine is
modelled in full: what a process has moved aside (`heldLock`, `heldFile`), what it
puts back and what stays behind (`strayLocks`, `strayFiles`).

Each process begins with `purgeLegacyCacheOnce`, which takes whatever is at
`cachePath()` into quarantine to see whether it is the plaintext cache of older
builds. That path is generation zero, and no lock is taken: the purge is one more
actor in everybody's transaction. `Legacy` are the foreign contents that look like
the old cache. `excuses` (history) records why a writer saw nothing: foreign bytes,
or a sealed generation zero in the hands of a purge.

`cache`: three processes, three calls, three generations, one foreign file that is a
plaintext cache, one death (987,802 states up to symmetry). The reaper's hazard needs
three processes: one that observed a dead owner, one that acquired since, one that
takes the free path. Retirement starts at the third generation. All processes may
die, so a state without successors is legal.

Not modelled: modes of files, I/O errors other than a missing file, readers, which
change nothing here (what they return is in `SecretCache`). Behaviours the model has
and no property forbids: a writer that lost its lock and is overtaken by two others
may publish at a number retired meanwhile; a lock moved by mistake and put back after
its owner released it is an orphan that blocks writers until that process exits (they
give up after 10 s); a reader without the lock may find its candidate retired, or its
generation zero in a purge, and report a miss (against `cache.ts:653`, "A candidate
can disappear only through an uncooperative actor").

### SecretCache

The same file, seen by who asks for secrets. `memo` is the cache of each process,
`disk` the latest sealed generation as readCache() opens it, `call` what a process is
doing: the command runs, or its answer is about to be written. An entry is what one
fetch returned: the names (`keyNames`), those of the values kept (`env`), when the
code thinks it was fetched and when it came back (`back`, history). `served` is the
last cached answer. What `SealedCache` allows to get lost is lost here in one step,
`DiskLost`, which connects the two: `SecretCache` assumes of the disk only that it
holds what somebody persisted or nothing.

In `clients`: two processes, one with the disk, the other with the same key, another
key or no disk; a secret the resolver takes and one it does not; calls with and
without an allowlist; a ttl of 1 and a clock up to 2, so that an entry can be fresh
in one place and expired in another.

### TagCache

`data`, `keyTags` and `tagSet` are the three kinds of Valkey keys; a `MULTI` is one
step. `call` and `inv` are the program counters of cached() and invalidateTags().
`GrowsOld` and `Expires` are the passage of time. `raced` (history) marks an entry
whose load overlapped an invalidation of its tags: the code accepts that such an
entry may be stale until its lifetime ends. `settled` (history) is what completed
invalidations covered.

The exemption concerns what is *held*. What a call returns can be older still: callers
that join a load receive its value whenever it arrives, and no property forbids that.

`tag_cache`: one key, two tags, entries tagged with the first, invalidations of
any of the tags, two calls of one process (a load without coalescing behaves like
another process's), one change of the source. Broader tag choices (entries with
either or both tags) were explored for the safety properties with 5.7 million
states and agree.

Not modelled: mget, the broadcast after an invalidation, entries without tags, the
key builders.

### MemoryBackend

One record holds the Map and the tag index; `older` is the order of the Map
(JavaScript's Map keeps insertion order, and a get() re-inserts), as the pairs of which
the first was used before the second. An operation is one function on the record, as the
code is one synchronous run. `latest` (history) is what was last set under each key and
not revoked since. In `tag_cache`: three keys, two tags, two places, all sequences of
calls. Closing the backend empties it; it may be used again.

### FlowRun

`stack`, `reachable` and `color` are the local variables of the two searches; the
order of nodes and edges is any. `pathMap` is the map of a router's handles, where
an edge overwrites an earlier one on the same handle. LangGraph is external: it
executes supersteps, in which all triggered nodes read the same state, and appends
the messages when all have finished. A runner either answers with a message
(`Speaker`), returns none, or throws; the others of the step go on. LangGraph's
limit of 25 steps is left out: it matters for chains longer than that. A failed run
stops at its step; that the other nodes of that step still emit events after the
run's end has been written to the stream is visible in the code and not a state.

In `small_components`: every set of edges over the entry, a router with two handles, a node
that answers and a silent one that may also point to itself, 4096 flows. Three
nodes are enough for paths of different length to one node, parallel branches,
every cycle up to three and unreachable nodes.

### Subflows

A flow is reduced to the sequence of its supersteps, each a set of nodes, and a node to
the flow it calls or `Plain`. `runs` has a run for each chain of calls; `seed` is the
stack a request starts with: a triggered run knows its own id (`TriggeredRequest`), a
run from the editor does not (`EditorRequest`). `library` is what the hub answers when a
flow is loaded; the hub may edit a flow between any two steps, so a run may call a flow
other than the one it would have been checked against.

In `small_components`: three flows, each either two calls in parallel or a plain step
and then a call back to the first, a depth limit of 2, one edit: cycles of every
length up to three, some opened or closed by the edit, and chains that reach the limit.

### CrmParties

A row of the parties table with the metadata that the statements read and write;
`job` is what a worker has in its hands. One transaction is one step, because each
takes the row lock or is one UPDATE; the lookup in the registry lies between two.
The lead's advisory lock has steps of its own, since with READ COMMITTED the SELECT
must come after the lock. Five minutes are two facts: `fresh`, that updated_at is
recent, and `overdue`, that a claimant has outlived its lease; `LeaseExpires` sets
both. Names are sequences of words; the registry knows one of two documents.

In `clients`: one imported party, or up to two leads with one idempotency key; two
jobs, one edit of the identity, one crash. Two jobs are enough for every race of two
statements on a row; the crash parks a row, the edit comes between lookup and write.

Not modelled: getParty and the search functions (they read), channels and consent
data of a lead, row-level security, which is the database's.

## What the runs show

| run | property | says |
|---|---|---|
| `run_journal` | `AdmissionLimits` | one open run, one run per invocation, capacity kept |
| | `DeliveryPerOutcome` | outcome and delivery stored together and agreeing |
| | `ToldIsDurable` | what a caller was told survives every crash |
| | `HistoryKept` | admissions, outcomes, receipts are written once |
| | `ObservationOrder` | an acknowledged cancellation is never erased |
| | `ImplementsLedger` | refinement of `RunLedger` |
| `bridge` | `SlotConsistent` | slot, session map and pending prompt name the same run |
| | `StraysUnfinished` | output lands in another run's frames only if its own prompt never finished |
| | `OneConnection` | one socket, timer or socket, heartbeat only with a socket |
| | `ReleaseAnnounced` | only its prompt's settling frees the slot, and says so |
| | `ImplementsStream` | refinement of `RunStream` |
| | `SlotFreed`, `HarnessReplaced` | every run ends, a dead harness is replaced |
| `gateway` | `ConnectOwed` | every connect() is answered once, and by its own connection |
| | `PendingOnLiveSocket` | the pending map never mixes connections |
| | `OneConnection` | connections and timers never compete with each other or close() |
| | `NeverStranded` | a reconnecting client always has a way on |
| | `ImplementsSession` | refinement of `GatewaySession` |
| | `PromisesSettle`, `Redials` | everything awaited settles; redialling |
| `cache` | `LiveLockKept` | a live holder's lock is never destroyed |
| | `MergesUntilCrash` | without deaths, exclusion and complete merges |
| | `LatestKept` | the latest number never falls, generation zero excepted |
| | `ImplementsStore` | refinement of `SealedStore` |
| `tag_cache` | `IndexesCover` | every entry is found by its tags; exactly those, in memory |
| | `NothingRevoked` | no entry is held that predates a completed invalidation, unless its load overlapped one |
| | `StaleExpires`, `Answered` | every entry held ends; every call is answered or is in its loader |
| `clients` | `LeadOnce` | a submission makes one party, all its answers name it |
| | `ClaimsShard` | two workers hold one claim only if a lease ran out |
| | `RegistryDecides` | a verdict is recorded only on the identity it is about, and ends the claim only of the last claimant |
| | `NothingParked` | a claimed row does not stay claimed, whoever crashes |
| | `HitsHonest` | a cached answer stands for a recent fetch of the same question |
| `small_components` | `ValidationExact` | a flow is accepted exactly if connected and acyclic |
| | `NoNodeSkipped` | a completed run executed everything it should |
| | `OnePath` | without parallel branches: one node at a time, once, input from upstream |
| | `CallsBounded` | no flow twice on a stack, stacks bounded, no call outlives a completed run |
| | `SubflowsEnd` | a request ends with all that it started |
| | `OneLink` | either client has one link, a timer or a socket, and knows its state |
| | `SettlesAndRedials` | requests of both settle, both dial again |

No run spends time on a `TypeOK`: it is proved where a module has proofs of its
own (below; of the models `small_components` and `tag_cache` join, the parts the
proofs need), and was checked by TLC in every module when it was written.

| run | distinct states | seconds |
|---|---|---|
| `run_journal` | 37,751 | 60 |
| `bridge` | 791,527 | 115 |
| `gateway` | 361,864 | 100 |
| `cache` | 987,802 | 100 |
| `tag_cache` | 323,984 | 65 |
| `clients` | 250,794 | 60 |
| `small_components` | 255,952 | 45 |

### Findings

Five runs state a claim of the repository and refute it:

- `bridge_two_executions`: the 60 s prompt timer frees the slot without telling the
  harness, so two prompts can execute at once, against "maxConcurrentRuns=1"
  (`bridge.ts:317`). The bridge's own bookkeeping stays right (`SlotConsistent`).
- `cache_two_writers`: the reaper renames the lock away before it knows whose it is,
  so two live writers can be in their transactions, against "two cooperating
  writers never interleave" (`cache.ts:559-561`). It takes a dead owner and three
  processes. `LiveLockKept`, `LatestKept` and `ImplementsStore` say what still
  holds: bytes are safe, an entry may be missing from a merge.
- `cache_purge`: a process that starts moves generation zero aside to look at it,
  without the lock, so a writer inside its transaction may find nothing and start a
  clean generation over an authenticated one, against "Merge `entry` into the latest
  authenticated disk generation" (`cache.ts:704-705`). The entries that were there
  are fetched again. Two processes and no death are enough.
- `tag_wiped`: `delByTag` ends by deleting the whole tag set; an entry stored just
  before keeps its data and loses its index, so later invalidations of its tag do
  not find it until its lifetime ends.
- `legacy_disconnect`: connect() called while a reconnect timer is armed leaves it
  armed; when the new socket closes, a second timer takes over the handle, and
  disconnect() clears only that one. The first fires and connects again, against
  "Gracefully disconnect and stop reconnecting" (`connection.ts:72`).

Observed in `FlowRun`, without a claim against it: where a flow forks into paths of
different lengths that meet again, the node where they meet runs once for each length,
and the input of a node behind a fork is the last message of any branch. `OnePath`
states the shape of flow for which neither happens; with a fork, what remains is
`NoNodeSkipped`. Observed in `langgraph-server/src/flow/server.ts`: its zod enum of node
types lacks `memory`, though its comment says that it mirrors the union in
`compile-flow.ts`.

## Fairness

Fairness is on what the runtime guarantees, and weak but for one case.

- `ShellsBridge`: Node fires the prompt timer, delivers the exit of a child, and
  completes the fatal report, which has a 30 s timer; systemd restarts an exited
  process (its limit of 5 starts in 60 s is assumed not to be hit). Nothing of the
  gateway, the network, the harness or the reconnect timer.
- `GatewayClient`: timers fire, callbacks return, continuations of settled promises
  run, a closing socket reports its close (ws bounds the closing handshake). Nothing
  of the gateway, the user or `onChallenge`.
- `LegacyConnection`, `RunnerGateway`: the timers of requests and of reconnecting
  fire. Nothing of the gateway or of the network, not even that a closing socket
  closes: neither client waits for it.
- `TagCache`: time passes and every command of a call answers or fails, as ioredis
  gives a command up after its retries (`BackendStep`). Nothing of the loaders: one
  may never settle, and the calls that wait for it then never settle either, which is
  what `core.ts` does. So `Answered` says of every call that again and again it is
  idle or in its loader: neither the backend nor the coalescer holds a call up.
- `Subflows`: the runners of nodes return or throw. Requests to the gateway have their
  30 s timer; a model provider that never answers would hang its run, as the code has
  no limit of its own for it.
- `CrmParties`: transactions and lookups end, and time passes, so leases run out.
  Strong fairness of `ClaimUnvalidated` for each party: somebody calls
  claimUnvalidated again and again, and a row that can be claimed again and again is
  claimed in the end. The query has no order, but a row that was claimed is no
  candidate for 5 minutes or for good, so those that remain have their turn unless
  new ones come faster than they are worked off. Weak fairness would not do:
  claimants are busy in between.

The properties "again and again" (`[]<>`) of `SlotFreed`, `HarnessReplaced` and
`PromisesSettle` say the same as "whenever it is not so, later it is": the
predicate holds infinitely often.

The disk cache and the journal are called synchronously and have no liveness of
their own beyond the 10 s lock timeout; nothing is assumed of those who use the
memory backend or ask for secrets.

## Proofs

Every invariant, action property and refinement that a passing run checks is a theorem.
Every theorem holds for all values of the constants that satisfy the named
assumptions of the module it is about: bounds are numbers, `None` is none of the
values it stands beside, and a few facts about sets (foreign contents are not sealed
generations; calls and generations are different things). Bounds such as the number
of runs or of generations are constants, so the theorems hold for any number of them.
TLC evaluates the assumptions on the values of each run.

Where a run joins small models (`tag_cache`, `clients`, `small_components`), its proof
module extends the MC module, because some of the properties are about two of the
models at once; sets of values that were definitions of the MC module are constants
there, so that the theorems are not about the instance. Steps of one model leave the
variables of the others alone, and each has an invariant of its own.

### Journal

`RunJournalProofs` proves, for all sets of processes, runs, invocations, events,
inputs, results, clocks and policies, and every capacity, the type invariant
(`TypeCorrect`), `AdmissionLimits` (`LimitsHold`), `DeliveryPerOutcome`
(`DeliveriesMatch`), `ToldIsDurable` (`ToldHolds`), `HistoryKept`
(`HistoryHolds`), `ObservationOrder` (`ObservationsOrdered`) and the refinement of
`RunLedger` (`LedgerImplemented`). Assumptions are those of `RunJournal`: clocks
are numbers, capacities positive numbers, oversized results are results, and
`None` is none of the values it stands beside.

The properties are about the committed tables, which change only in `Commit`.
Nothing in them says that the tables a transaction is about to publish are any
good, so none is inductive. The invariant `IInv` adds `Staged`: if a transaction is
open, its tables only add to the committed ones (`Grows`), keep the limits
(`WithinLimits`), and match outcomes with deliveries except for the one outcome
whose delivery is still to be inserted (`Matched` with `todo`), and the answer it
will return is in them (`Backed`). Then

1. every statement builds such tables from the committed ones (`StagePreserves`
   with one lemma per operation), so `Staged` is kept;
2. `Commit` requires `todo = None`, so the staged tables become committed tables
   that satisfy the invariant, and because they grow, everything that was told
   stays true (`CommitGrows`);
3. all other steps leave the tables alone (`OnlyCommitWrites`, `TablesKept`).

`HistoryKept` follows from `Grows` at `Commit`. For the refinement and for
`ObservationOrder` the invariant also has to say that a transaction stages at most
one fact (`OneFact`): observations, one run while all others are decided, one
outcome with or without its delivery, or one receipt. `RunFactEnters`,
`OutcomeFactDecides` and `ReceiptFactSettles` map the COMMIT of each to a step of
the ledger; that two runs never share an event, which comes from `Matched`, keeps
the other runs' acknowledgements where they are. `IInv` was model-checked on the
instance of `run_journal` before it was proved.

### Bridge

`ShellsBridgeProofs`: `SlotHolds` (`SlotConsistent`), `FramesOrdered` (deltas in order,
one end, then silence), `StraysHold` (`StraysUnfinished`), `OneConnectionHolds`
(`OneConnection`), `ReleasesAnnounced` (`ReleaseAnnounced`), and `StreamImplemented`,
the refinement of `RunStream`. `SlotConsistent` and `OneConnection` are inductive
together with `Left` (an exited process has neither socket nor timer). The order of
frames (`FrameOrder`) is not: it says nothing of what the next frame will be. `Numbered`
adds that a run in the slot has sent deltas up to its counter and nothing else, one out
of the slot has no counter, and one not yet admitted has sent nothing. A late line of
the harness then finds either no run under its session, or the run that owns it now; so
a step adds a frame to one stream at most, with a number above the last, or ends it.

`StraysUnfinished` rests on a second invariant, `Heard`: a run whose prompt
the harness still works on has no result and no answer among the unread lines; an unread
line is about a run without a result, and no line about a run follows its answer. So a
run that got its result from the harness has no line left that could stray; only one
that the prompt timer gave up has.

### Gateway client

`GatewayClientProofs`: `ConnectsOwed`, `PendingHolds`, `OneConnectionHolds`,
`NeverStrandedHolds` and `SessionImplemented`, the refinement of `GatewaySession`.
The invariant rests on one fact, `OneActive`: the attempt that is active is that of
the current generation and holds the socket in use. So every place that ends an
attempt finds everything there is to settle in it and in the pending map.
`Handshakes` ties an attempt's promise to its stage, `OneTimer` and `WayBack` extend
`OneConnection` and `NeverStranded` to the moments inside a hook, in which the user
may have called connect() or close(). In the refinement, superseding an attempt is the
end of one session and the start of the next in one step, as the abstract
specification allows.

### Sealed cache

`SealedCacheProofs`: `LiveLocksKept` (`LiveLockKept`), `LatestHolds` (`LatestKept`),
`ShelfImplemented` (`ImplementsStore`) and `Merging` (`MergesUntilCrash`), for any
number of processes, generations, deaths and foreign files.

Destroying a lock in the hands of the reaper is right because of what the reaper knows:
the token it observed had been minted, so no later call has it, and its owner was dead,
so none that is alive has it (`Known`, `Tied`). `LatestKept` needs that what a process
has still to retire lies below the latest generation even when its listing is old
(`Below`), because the latest number only grows, which is what is being proved: the
two go together. That a set of generations has a highest number (`Highest`) comes from
the well-foundedness of the natural numbers.

A generation of the abstract store is on the shelf when it is at its path, in
quarantine, or in the hands of a process; moving it about is a stutter. The invariant
`RInv` says of every process what it may have in its hands at each step (`Handled`): a
generation it is about to judge or to put back is its only copy, a call that has not
published is in no generation, and what it is about to retire is covered by two newer
ones. So the steps at which something leaves the shelf are retirements and
discarded plaintext caches, which the store allows.

`Merging` has two layers. `LockInv`: while nobody has died, the lock is the object of
the one call in its transaction, no process has observed a dead owner, and none has
moved a lock object. Hence the transactions exclude each other. `MergeInv`: as
long as nothing foreign was in the way, a writer that has listed and not yet written
has read everything published, and the latest generation holds all of it (`Topped`),
or is generation zero in the hands of a purge (`Keeping`) that will put it back. Which
of the two a writer finds is recorded in `excuses`; without that escape the property is
false, and `cache_purge` is the run that shows it.

### Secrets

`SecretCacheProofs`: `HitsAreHonest`. What is served was somewhere else before, so the
invariant says of every memo, of the disk and of every answer about to be written what
the property says of `served`. `CrmPartiesProofs` states it once more, as
`HitsAreHonest` of the composition the run `clients` checks.

### CRM client

`CrmPartiesProofs`: `TypeCorrect`, `LeadsOnce` (`LeadOnce`), `ClaimsSharded`
(`ClaimsShard`) and `RegistryHolds` (`RegistryDecides`), for any parties, documents,
registry, jobs, edits and crashes. That a submission makes one party needs two facts
about jobs between their statements: from the SELECT on, the lock of the key is theirs
(`LocksHeld`), and whoever is about to INSERT is right that there is no party
(`StillAbsent`). Claims exclude each other because of a fact about rows: a claim that
is not overdue lies in a row that is fresh and shows the attempt (`LeasesHeld`), which
is what both candidate queries test. `RegistryDecides` is an action property; what it
needs of the state is that a verdict carries the document and the name that were read.

### Tag cache and memory backend

`CacheProofs`: `IndexesHold` (`IndexesCover`) and `RevokedForGood` (`NothingRevoked`),
each about both backends, and `TypeCorrect` of `TagCache`.

Over Valkey neither is inductive, because a call carries its value past an invalidation
in its own variables. An entry is *covered* by a tag if it has it and says that no
invalidation overlapped its load, and a call *carries* such a value towards the store.
The invariant: nothing is carried while an invalidation of its tag runs (`RacesSeen`);
an invalidation that has read a tag set has found every covered entry (`Found`); what
is covered or carried is no older than what was settled or is being settled (`Past`,
`CarriesNew`). The proof goes through one lemma, `KeptInvariant`, that says what a step
has to keep, and each action is shown to keep it.

In the memory backend the two properties hold only together: delByTag() revokes what
has one of the tags but drops what the index says has one. That the limit holds
(`Bounded`) needs the order of use to be total on the held keys, so that there is an
oldest one to evict, and that set() adds one key and evicts one.

### Flows, subflows and the older gateway clients

`SmallComponentsProofs`:

- `ValidationHolds` (`ValidationExact`), for every finite flow. The reference
  definition quantifies over sets of nodes: what can be reached lies in every set with
  the entry's targets that is closed under edges; a cycle is a nonempty set in which
  every node leads into the set. For the first search, `Reaching`: what is reachable or
  on the stack lies in every such closed set, and what a reachable node leads to is
  reachable or on the stack; with an empty stack, the reachable nodes are the least
  closed set. For the second, `Path`: the stack is a path without repetition and is what
  is gray; so a gray successor closes a cycle. `Blackened`: black nodes lead to black
  nodes only, and every nonempty set of them has one that leads out; a node that turns
  black keeps that, since it is in no black node's targets.
- `NothingSkipped` (`NoNodeSkipped`). `Triggering`: what the entry and the executed
  nodes lead to has been executed or is about to be, but for what the finished nodes of
  this step will trigger. At the end of a step the latter becomes the next step.
- `OnePathHolds` (`OnePath`). `Following`: one node at a time, and all messages written
  so far come from upstream of it; `Ordered`: so does everything executed.
  `UpstreamGrows` is the step: a node is upstream of what it leads to, with all that is
  upstream of it. It is false in a cyclic graph; the proof builds, from a node that is
  both before and after another, the set of those between them, which is a cycle in the
  sense of the validation. So `OnePath` rests on `ValidationExact`.
- `CallsAreBounded` (`CallsBounded`). `Awaited`: a run is awaited by the node that called
  it, or both have failed; `CallTree`: every chain of calls is there with its prefixes. A
  failing node cannot leave a running child behind, because a refused call has no child
  (`RefusedUnstacked`) and a child that has not failed lets its caller not fail.
- `OneLinkHolds` (`OneLink`). For the legacy connection `Linked` and `Redialing`, stated of
  a record, since connect() and disconnect() are called in the middle of the close handler;
  the handle names a timer that is armed, so clearing it never counts below zero. For the
  runner's client: one socket that is not closed, or one timer.

### Only model-checked

Liveness (`SlotFreed`, `HarnessReplaced`, `PromisesSettle`, `Redials`, `StaleExpires`,
`Answered`, `NothingParked`, `SubflowsEnd`, `SettlesAndRedials`): fairness and ENABLED are
outside the proof system's reach. Type correctness of `FlowRun`, because the number of
supersteps is bounded by the longest path, an induction over the flow, and of
`MemoryBackend`, `LegacyConnection` and `RunnerGateway` where their invariants do not
need it (timers counted up to the bound of the run, values of the back-off delay).

## Not modelled

- Configuration, backup, restore and image of the shells bridge; the remainder of the
  resolver; CLI, scripts and operations: passes over files and child processes that keep
  nothing between two runs. Their failures are I/O errors, which end the pass.
- `workforce-client`, the wrappers of `crm-sdk` that read, the broadcaster: one request
  per call, no state.
- `db`, `auth`, types, zod schemas, design tokens, `ui`: declarations.
- Linters and scanners under `scripts`, and text helpers: pure functions of text whose
  behaviour is their wording.
- Encryption: its verdict is modelled.
- The HTTP side of the flow server, its tools and providers: each constructs an object of
  a library. The listener of hub events (`hub-events.ts`): one call per notification,
  and a retry with back-off until the first connect succeeds.

These are most of the lines of the repository: a line count of what is modelled says how
much of it declares or formats, not how much of its concurrency has been looked at. Of
the code that keeps state across a callback, an await, a process or a crash, the
inventory names all that was found, and what is left of it is in the notes of each
model above.

## Plan

Done: the journal with its proofs; the bridge with its proofs; the gateway client with
its proofs; the two older clients; the disk cache with its purge, and the secrets on top,
with proofs; both backends of the tag cache; flow runs and subflows; the CRM client; proofs
of every safety property the runs check.

Next, models:

1. The promise chain by which the flow server writes the events of a run, with a hub
   that is slow or gone, and the events that follow `run-end`.
2. The tag cache with several keys and with mget; an abstract specification of
   invalidation, which the memory backend implements and Valkey does not (`tag_wiped`).
3. A composition of bridge and journal once the bridge uses it: at-least-once
   delivery of outcomes across reconnects.
4. The orphan lock of the sealed cache: a bound on how long writers are blocked, which
   needs the 10 s timeout as a step.

Next, theorems: type correctness of `FlowRun`, whose number of supersteps is bounded
by the longest path of a flow, and of the two older clients; the refinement of the
abstract invalidation named above; what `SealedCache` promises `SecretCache` (the
content of the disk is what somebody persisted, or nothing) as a refinement between
the two.
