# Kontexta, modelled and proved

TLA+ specifications of Kontexta, the local-first "second brain" whose machines
share files, metadata, journals and calendars through a small relay server. They
are translated from the source, model-checked with TLC on small instances and,
where that pays, proved with TLAPS for every instance.

Contents: the system, the modules, the runs, fairness, the proofs, what TLC
found, what is left out, what could come next.

## 1. The system

Paths below are relative to `src/`; `relay` is `packages/relay/src` and `core` is
`packages/core/src`.

| Component | State | Operations | Hard because | Correct when |
|---|---|---|---|---|
| Relay (`relay/store.ts`, `routes/ops.ts`) | `ops` log, `records` (latest accepted op per gid and kind), `conflicts` (parked losers), `clients` | `POST /ops` (a batch in one transaction), `GET /ops`, snapshot, join, revoke | retries regrouped into other batches; versions kept in a table and recomputed from the log | an op is logged once; nothing stale is accepted; tables and answers follow the log |
| Sync client (`core/storage/client.ts`, `outbox.ts`, `versions.ts`) | outbox rows with status and backoff, `gid_versions` with `lost_push`, `sync_cursor`; in memory, where the loop is | `pushOutbox`, `pullRemoteOps`, the tick of `startSyncLoop` | awaits between reading and writing; crashes between statements; lost and late requests; a second process on the same database | every edit arrives, in order; bases are what the author had; the cursor skips nothing |
| File operations and apply (`core/files`, `core/storage/apply.ts`) | `files` rows and the bytes on disk | create, update, delete, move, each with its op; `applyRemoteOp` | disk and database are two writes; users, sync loop, editors and watcher meet on a path | rows describe the disk; the op says what the row has |
| Watcher (`core/watcher`), index (`core/metadata`), restore (`core/git`) | stored hashes | change, add, unlink; refresh, reconcile; restore | events of one's own writes, late and merged | the index describes the bytes on disk; nothing pulled goes out again |
| Conflict manager (`core/storage/conflicts.ts`) | unresolved `conflicts` rows, conflict copies on disk | fork; keep-server, keep-mine, keep-both, merged | two machines resolve at the same time | every machine ends with the same text, and no text vanishes |
| Sync lock (`core/storage/locks.ts`) | `sync_locks` rows | acquire, steal, poll, release | leases, crashes, slow holders, late releases | one holder per gid within its lease; crashed holders' locks come free |
| In-process locks (`core/util/safety.ts`) | per-key promise chains, in-flight count | `withLock`, `awaitDrain` | nesting, cleaning up the chain | exclusion, order, drain ends |
| Bootstrap (`core/storage/bootstrap.ts`) | settings: pending, after, first cursor, deferred records | a snapshot page by page, then the pull | ops landing while it pages; a crash between pages | the machine has the brain's state, and nothing of its own is overwritten |
| Journal merge (`core/storage/journal-merge.ts`) | the day's file | append; union of two machines' blocks | both sides merge at once, under different gids | all machines end with one text that has every block |
| Journal distillation (`core/journal`) | raw files, high-water mark, cooldown lock | `appendEvent`, `distillJournal`, the engine | two processes, a crash between write and mark, events of one millisecond | each event is distilled, and repeated only where it must be |
| Hands (`apps/mcp/src/hands`) | confirmation tokens, process groups, timers, output buffer | register, invoke, confirm, data, exit, timeout, kill, shutdown | expiry and reload races, groups that ignore signals, chunk boundaries | one execution per approval, in time; every call ends |
| Calendar, metadata CRUD | rows and FTS index | CRUD, each with its op in one transaction | little: one transaction each | ops match rows |
| The rest: inference, rerank, decision, hooks, agent rules, profile, reports, clip, bundle, transfer, identity, publish, CLI, web pages | none worth checking | sequential I/O, rendering, model calls | - | - |

**How they interact.** A user's write (web app, MCP tool or CLI) takes the
in-process lock of its path, writes the bytes, then updates the row and appends an
op to the outbox in one transaction, stamped with the version of the record this
machine knows. The watcher sees the bytes change and, by their hash, that the row
has them already. The sync loop pushes due rows in a batch; the relay answers each
with `accepted` or `conflict` and a version. The loop then pulls the log from its
cursor and, for each op of another machine, either applies it under the sync lock
and the file lock or, if the local file has something of its own to say, forks a
conflict copy - or, for a day's journal, merges. Resolving a conflict pushes again.
A machine that joins pages through the relay's snapshot first. Web app and MCP
server are separate processes, and each starts a sync loop and may run the
distillation on the one database (`apps/web/src/instrumentation.ts:20`,
`apps/mcp/src/index.ts:515`).

The hazards, each at its line with the properties that watch it, are in
`PROJECT.json`.

## 2. The modules

| Part | Specification | Abstract promise | Instance | Proofs |
|---|---|---|---|---|
| relay | `RelayStore`, `Relay` | `OptimisticLog` | `MCRelay` | `RelayProofs` |
| sync client, conflicts | `Sync` (uses `RelayStore`) | - | `MCSync` | `SyncProofs` |
| sync lock | `SyncLock` | - | `MCSyncLock` | `SyncLockProofs` |
| in-process lock | `FileLock` | `LockQueue` | `MCFileLock` | `FileLockProofs` |
| files, watcher | `FileStore` | - | `MCFileStore` | `FileStoreProofs` |
| bootstrap | `Bootstrap` (uses `RelayStore`) | - | `MCBootstrap` | `BootstrapProofs` |
| journal merge | `Journals` (uses `RelayStore`) | - | `MCJournals` | - |
| distillation | `Distill` | - | `MCDistill` | `DistillProofs` |
| hands | `Hands`, `RingBuffer` | - | `MCHands` | `HandsProofs` |

### `RelayStore`, `Relay`, `OptimisticLog`

`RelayStore` holds the pure part: the op kinds and their families, versions in the
table (`CurrentVersion`) and in the log (`VersionAt`), and what an accepted or
losing op does to `records` and `conflicts`. `Relay` is the server: `BeginBatch`,
one of `StepDuplicate`, `StepAccept`, `StepConflict` per op and `EndBatch` are
`POST /ops` between `routes/ops.ts:126` and `:183`; `Join` and `Revoke` are
enrolment. The handler is one synchronous transaction; its steps are separate
here so that each can be reasoned about, and `txn` excludes anything else
meanwhile. Clients are unconstrained: any subset of the rows they have, in any
batch, with any base, any number of times. `OptimisticLog` is the promise without
tables or batches: the log only grows by ops that are new, and accepted only when
their base is current. `Relay` is shown to implement it (`KeepsPromise`).
Payloads are left out: the relay never looks into them.

### `Sync`

The machines, their users, their loops, and the relay as its log.

| Specification | Code |
|---|---|
| `files`, `copies` | the files row with its bytes; the conflict copies |
| `outbox`, row index | `outbox`, its id, which is the `client_seq` |
| status `waiting` / `failed` | `failed` before / after `next_attempt_at` |
| `known`, `lost` | `gid_versions.version`, `.lost_push` |
| `fork` | the unresolved row of `conflicts` |
| `cursor`, `skipped`, `loop` | `sync_cursor`; the skipped rows of `sync_skipped_ops`; where `tick` is between awaits |
| `Create`, `Edit`, `Delete`, `Resolve`... | `createFile`, `updateFile`, `deleteFile`, `resolveConflict` |
| `Push`, `Serve`, `Acknowledge` | `pushOutbox` up to its await, the relay, the rest one answer at a time |
| `Fetch`, `SkipOwn`, `Fork`, `Decide`, `Apply` | `pullRemoteOps`, one row of the page at a time |
| `FailedApply`, `SkipOp` | the catch around an op: the page ends before it, or it is skipped |
| `RequestLost`, `AnswerLost`, `RequestLate` | the catch of the push, and what the network had done with the request |
| `PullLost` | a pull that throws: the tick is given up |
| `Restart`, `TornAck` | the process dies between two steps; inside one, between `markAcked` and `recordGidVersion` |
| `Elapse`, `Wake` | the backoff of rows; the backoff of the tick after a failed push |

`Decide` and `Apply` are two steps because `applyRemoteOp` awaits the sync lock
and the file lock in between: `shouldForkInsteadOfApply` has then been evaluated
on what may be an old state. `Serialized` says whether a user may act there.

`Resolve` is one step: the code reads the conflict row and clears `lost_push`
(`conflicts.ts:712-732`) just before it asks for the lock at `:740`.

The relay's versions are computed from the log (`VersionAt`), not from
`records`. With one record family per gid the two are equal: that is theorem
`RecordsCountTheLog`.

A text is named after the outbox row that first carried it, so "which text" and
"whose" need no further state. `seen` and a row's `saw` are history: what a
machine's user has had before them. They are what the properties are stated with
and nothing reads them.

### `SyncLock`

One gid's row of `sync_locks` and the calls of `withSyncLock` on it from any
number of processes. Deadlines are kept as the time left, so that time may pass
for ever in a finite model. `Acquire` covers claiming a free row and stealing a
stale one; `Released` deletes by token; `Crash` is a holder or waiter that dies,
or a release that fails. The clock is read just before the transaction in the
code; here reading it and the transaction are one step.

### `FileLock`, `LockQueue`

`withLock(key, fn)` and `awaitDrain`. `tail` is the map `_locks`, `prev` the promise
a call was chained to when it was made, `inFlight` and `drain` the count and who
waits for it. `Settle` (the function returns or throws: the next may run, the count
goes down) and `Leave` (`tail.finally`, a microtask later: the chain is forgotten if
it is still one's own) are two steps, and other calls come in between. `Outer` says
which call's function makes which other call - a file's lock around git's, a move's
source around its target -, and `Refuse` is the nesting on one key that the code
rejects. `OneByOne` are the calls the sync loop makes, one after the other: two opposite
moves both come from it, so they never wait on each other. A shutdown that is told
that all is drained closes the database a microtask later (`db/index.ts:158`); being
told and closing are one step here. `LockQueue` is the promise: per key, a queue and at
most one running.

### `FileStore`

One machine: bytes and rows per path, the watcher's queue of events per path, and
where each user's operation, the sync loop and a crashed pull are. Within a process
no await lies between the write to disk and the transaction, so the model lets
nothing of the same process in between (`MayRun`), but a crash, an editor and another
process may come. The watcher's events of a path are merged as chokidar merges them
(external), and its handlers run whole: hash gate, row, op - or, in `FailHandle`, the
transaction throws, the handler logs it and the event is lost. `shared` is what the last
op of a gid says, ours or one that was pulled; so `Published` compares rows with ops.

Two histories say where rows and disk or ops are known to come apart. A path is `torn`
after a crash between its disk and its row or with events of it still waiting, after
a handler that failed, after a delete that removed the row but left the bytes (a
project's file, or an `unlink` that failed) and after a pull whose disk write or
removal failed. It counts again once an operation or an applied op has written both, a
delete has left nothing, or a reconcile has run. A gid is
`unsaid` from when `refreshIndex` or `restoreVersion` change its row without an op until
its next op.

`Apart` is an assumption about who meets whom, and a strong one. With it:

- a file is edited or removed by hand, deleted, moved (both ends), restored or pulled
  only while no operation is at its path and no event of it waits for the watcher;
- a create or update begins only where no unlink waits and the sync loop is not at work;
  several of them may wait on one path;
- a refresh corrects only rows of paths nobody is at;
- no create is made over a file that was pulled, and no update of a file that is missing.

So an update that waits for its lock while its file is moved or deleted
(`core/files/index.ts:423`) is assumed away, not shown to be harmless;
`MCFileStore_drift` shows the harm, and section 6 lists what else happens without
`Apart`.

### `Bootstrap`

The snapshot of `records` and parked conflicts, gid by gid in pages, while other
machines go on writing (`OthersWrite`), then the pull. `saved` is what the settings
keep between crashes: the last finished gid, the cursor of the first page, the
deferred records. `run` is memory. `Join` starts from any files the machine may hold:
none, texts of the brain's own files, texts only it has (`Own`). `Finish` is one step
where the code has five (`bootstrap.ts:201-205`: the cursor, then four settings deleted);
a crash between them, which leaves stale settings behind, is not modelled.

### `Journals`

Machines append blocks to the day's file, each perhaps having opened the day under a
gid of its own; ops found to conflict are merged into the row at the path instead of
forked and the merge is pushed on. A text is the sequence of its blocks.

### `Distill`

Raw events with timestamps, the mark (`ts` and the keys of the events of that
millisecond), the cooldown row, the task files and runs in several processes. `Key` is
`eventKey`: time, kind and the first of sha, branch and path there is. It is not
unique, and the mark tells only keys apart; `Twins` are the events of one key, and
`Entered` means that an event or a twin of it has gone into an entry. `Begin` acquires,
reads and cuts a batch; `ReadTask` takes a bucket and reads its task's file,
`WriteEntry` writes the file back with the entry in front - two steps, because a run of
another process may write the file between them (`dropped` is what is lost then);
`Advance` renames the new mark into place; `Release` deletes the row by token.

Who begins: `Engines`, in MCP servers, when `Dirty`, which compares mtimes;
`Schedulers`, in the web app, when the slug's MCP server is not `Active`, which is by the
raw file's mtime and so ends some seconds after the last event (`presence.ts`,
`journal-scheduler.ts:50`); other workers - the tool an agent calls - whenever they like.

### `Hands`, `RingBuffer`

A call, from `invoke` through its token to its process group and its answer.
`resolving` is the await of an import before a token is stashed. `group` holds the
leader and the worker it may have left; `timer` is the timeout and then the pending
SIGKILL. `RingBuffer` is the output buffer, on places instead of bytes.


## 3. The runs

| Run | Question | Bounds |
|---|---|---|
| `relay` | Is the log a faithful optimistic log, and do both tables and the answers follow it, whatever two clients resend? | two machines, one file with tags (two record families), bases to 2, batches to 2, retries unbounded; 365,660 states, 51 s |
| `sync_edits` | Edits and resolutions, no faults: is anything overwritten unseen, are bases exact, do machines agree in the end? | 3 + 2 rows, batches to 3; 130,491 states |
| `sync_users` | All user actions, deletes and keep-both included: can a text vanish, can ops overtake each other, also past rows in backoff? | 2 + 2 rows, one gid for the kept copy, and one lost request or answer, late request, lost pull or failed apply; 178,676 states, 22 s |
| `sync_live` | Any two faults: is anything undelivered, passed over or ahead of the log; is all delivered and read in the end? | 1 + 2 rows, pages of 2, two faults of eight kinds; 18,352 states |
| `sync_delete` | Do machines agree when deletes cross edits? **No** | 2 + 2 rows, no faults |
| `lock` | Exclusion within leases, no theft of live rows, answers and reclaiming | 3 workers, lease 3, timeout 1; 783 states |
| `filelock` | Exclusion, order, drain, an answer for each call; is it a queue? | six calls on two keys: a save with a second one of its file waiting, and two moves in opposite directions; 27,882 states, 18 s |
| `files` | Do rows describe the disk and ops the rows, and does nothing pulled go out again? | one process with the watcher; two users and a loop, two paths, two texts, two rows, two events under way; symmetric in users, paths and texts; failing transactions, handlers, deletes and pulls, and crashes, each any number of times; 826,214 states, 78 s |
| `hands` | One timely execution per approval; every living child tracked; the ends of the output kept; every call answered | two projects; one call that talks (5 bytes, room for 3), one that needs approval; lifetime 1 of 2 ticks, two reloads; 347,373 states, 100 s |
| `distill` | Is each event distilled, and repeated only where it must be? | an engine, a scheduler and a tool, 3 events of which all may share a millisecond and two share the rest of their key, one task file, batches of 2, one crash or exception; 531,607 states, 76 s |
| `bootstrap` | Does a joining machine end with the brain's state and its own texts? | two files and a project, one gid per page, 4 ops by others, one crash; 90 s |
| `journals` | Does the merge end, in one text, with every block? | two machines, 3 blocks, 6 rows; 84,413 states, 15 s |

Why these bounds are enough to be interesting:

- *Sync*: the protocol is between an author and everybody else. Two rows on one
  machine are needed for a batch with a predecessor, for overtaking and for a
  resolution after an edit; one or two on the other for a concurrent edit. Two
  faults allow a fault and another during its recovery.
- *Lock*: a lease of 3 and a timeout of 1 let a waiter give up, a waiter outwait a
  crash, and a holder outlive its lease and release late.
- *File lock*: each move is nested in its source's lock and meets the save there or at
  its target; the save that waits behind another is what `tail.finally` could forget.
- *Users*: one fault puts rows into backoff with another row of theirs behind them;
  what two and more do is in `sync_live`. (With two the run passes too, in 712,360
  states.)
- *Files*: two events under way are two of one path or one of each; a second user
  makes an operation wait for another's lock.
- *Hands*: five bytes in a buffer of three with a head and a tail fill it, wrap it
  and cut it. Two loads are a reload while a token is out.
- *Distill*: three events of a millisecond against batches of two are the boundary
  that the mark's keys are for, and two of them with one key are what the keys cannot
  tell apart. One task file makes every two overlapping runs meet at it.
- *Bootstrap*: with a gid per page every page can be overtaken; the project comes
  after the file that needs it, so that the file's record is deferred. The others edit
  the file that is not deferred: otherwise `DiffersOnlyInConflict` fails
  (`MCBootstrap_stale`).
- *Journals*: two merges that cross, and a block after them. It also holds with
  three machines and two blocks (21,643 states).

What the properties say, beyond types:

- `OncePerClientSeq`, `TablesFollowLog`, `VersionsFollowLog`, `AnswersFollowLog`:
  the relay's tables and answers are functions of its log. `KeepsPromise`: it
  implements `OptimisticLog`.
- `OverwritesOnlySeen`: the loop replaces a text only by what was written with
  that text before its author.
- `BasesExact`: an accepted op was based on exactly the version it replaced. The
  relay refuses only bases that are too small, so counting too high is how an
  edit gets past another. It is about numbers: that the author had seen what the base
  counts is `OverwritesOnlySeen`, and `MCSync_blind` shows where it fails.
- `Converged`: with everything delivered and every conflict resolved, all
  machines hold the same files.
- `TextsSurvive`: every text ever written is standing somewhere, or its
  replacement was written by someone who had it.
- `NothingPassedOver`: the cursor passes no op of another machine whose text was
  not given to the user, applied or as a conflict copy, unless it was written down
  as skipped.
- `OwnOrder`, `LocalFollowsLog`, `Delivered`, `Heard`: the outbox and the cursor.
- `OneHolder`, `LiveRowIsSafe`, `Reclaimed`: the lease; the last also says that
  a waiter is answered.
- `Exclusion`, `InOrder`, `DrainedWhenIdle`, `EveryCallAnswered`, `IsAQueue`: the
  chains; drains that are waited for end too.
- `IndexDescribesDisk`: once no operation and no event is under way, rows and
  bytes agree, except at a torn path. `Published`: and so do rows and the last op of their gid.
  `NoEcho`: applying another machine's op leads to no op of one's own.
- `ApprovedOnceInTime`: what needs approval starts at most once per token, within
  its lifetime, and by no token that was out when its project was loaded anew. A token
  stashed just after a reload, for an invocation that began before it, is not
  covered (section 6). `LivingAreTracked`: what a
  shutdown must kill it can find. `EndsAreKept`: the first and last bytes survive
  however the output came. `CallsEnd`: every call is answered, and a group
  that timed out dies.
- `NothingSkipped`: what the mark covers has gone into an entry, itself or an event
  with its key, and the entry is still there unless a run outlived its lock.
  `OnlyBoundaryRepeats`: and in one only, unless it shares the mark's millisecond, or a
  run was cut short or outlived its lock. `HolderHasLock`: a lock that is not old stays
  with its run. `Distilled`: with a scheduler every event is entered in the end.
- `DiffersOnlyInConflict`: a machine that has joined differs from the brain only
  where an unresolved conflict says so, or the brain has deleted the file.
  `CursorCovered`: of every gid it knows at least the version its cursor has passed. `OwnTextKept`, `Joins`.
- `AppendOnly`: no block leaves a file. `OneJournal`: all machines settle on one
  text with every block.

`TypeOK` is checked where it is not proved: as an invariant of its own for
`Journals`, as a conjunct of `LocalFollowsLog`, `IndexDescribesDisk` and
`CursorCovered` for the others. Each property has a mutant, an operator next to the
one it replaces, that a plausible bug would turn the code into and that the
property catches.

Deadlock is checked for the relay, the sync client and the sync lock, which
never run out of something to do. The other systems may stop: all calls answered
and the process down (`FileLock`, `Hands`), no more texts, ops, events or blocks
within the bounds. There, `EveryCallAnswered`, `CallsEnd`, `Distilled`, `Joins` and
`OneJournal` say that they do not stop too early.

Ten configurations are kept that are not among the runs: `MCSync_blind`,
`MCSync_toctou`, `MCSync_replay`, `MCSync_twoloops`, `MCFileStore_drift`,
`MCDistill_stuck`, `MCDistill_twins`, `MCDistill_overlap`, `MCDistill_engine`,
`MCBootstrap_stale`. Each ends with a counterexample, of section
6. `tlc -config MCSync_blind.cfg MCSync` reproduces the first.

## 4. Fairness

Safety runs assume none.

- `Sync!FairSpec`: every loop that can take a step takes one (`setTimeout` fires,
  promises settle: `fetchJson` has a timeout, so a request is answered or given
  up), backoffs elapse, and a request that is still under way arrives. Users owe
  nothing and faults are bounded by `MaxFaults`: without that nothing could be
  promised.
- `SyncLock!FairSpec`: time passes and a waiter's polls go on (`withSyncLock`
  loops on a timer). An apply may hang: `Finish` is not fair, and `Reclaimed` holds
  all the same because the lease ends.
- `FileLock!FairSpec`: a call whose predecessor settled starts, functions settle,
  and the microtask after them runs. Functions are file and git operations; one that
  never settles blocks its key for ever, in the code too. Nobody has to call or shut
  down, and the drain's own timer need not fire.
- `Hands!FairSpec`: the timers fire, `SIGKILL` ends the groups it reaches, and
  the event of an ended group is delivered. Processes promise nothing: they may
  talk, hang or ignore `SIGTERM`.
- `Distill!FairSpec`: time passes, runs that have begun go on, and engines and
  schedulers, which have timers, begin when their own condition lets them: an engine
  when the slug is `Dirty`, a scheduler when it is not `Active`. The scheduler skips
  a slug while its MCP server is active (`journal-scheduler.ts:50`), but activity is the
  raw file's mtime, so after the last event a slug is idle for good and its turn comes.
  The tool owes nothing. `Distilled` needs the scheduler, that is a web app that runs;
  with engines alone it fails (`MCDistill_engine`).
- `Bootstrap!FairSpec`: the runner and the pull go on. `Journals!FairSpec`: each
  machine's loop does.

## 5. What is proved

TLAPS checks these for all machines, loops, gids, outboxes, batch sizes, faults,
workers, leases, timeouts, keys, nestings of calls, commands, outputs, capacities,
events and pages. Each is stated of `Spec`, from the constants' assumptions named in
the modules; five of the seven of `SyncProofs`, two of the three of
`BootstrapProofs` and the three of `FileStoreProofs` have hypotheses of their own.
Without them the properties are false, as section 6 shows, except where it is said
below that more may be true.

`RelayProofs`:

- `TypeCorrect`. Needs one thing that is not a type: versions in `records` are
  bounded by the log's length, or the maximum in `CurrentVersion` need not exist.
- `RetriesAreIdempotent` (`OncePerClientSeq`). The row about to be answered is
  looked up in the log; if it is there nothing is appended.
- `RecordsCountTheLog` (`VersionsFollowLog`). The inductive invariant relates, for
  every gid of one family, the largest version in `records` to the number of
  accepted ops; `KeptRecords` must not drop the row that carries the maximum
  except for a tombstone, which replaces it.
- `RelayKeepsPromise` (`KeepsPromise`): each action maps to a step of
  `OptimisticLog` or to a stutter. What makes `StepAccept` map is
  `RecordsCountTheLog`'s invariant, and `StepConflict` the one that losers noted in
  a batch are in the log.
- `NewcomersGetTheLog` (`TablesFollowLog`). Inductive with `ParkedDescribed`: the
  property tells of a parked conflict its `seq` only, and which of them an op
  resolves is decided from gid, family and base, which must be the log's.
- `AnswersAgreeWithPulls` (`AnswersFollowLog`). What is answered at one entry must
  stay true when later entries of the batch are appended: `VersionAt` at a place does
  not depend on what comes after it.

`SyncProofs`:

- `SpecLocalFollowsLog` and `SpecNothingPassedOver`, from one invariant, `IInv`. Neither
  property is inductive: what a loop holds in memory becomes the database's next,
  so `LoopInv` says of it what the properties say of the database - the answers it
  is about to write down are true of the log, the place in the page it is at has
  only passed ops behind it, its request carries rows its machine has. So do
  requests that may still arrive (`OpsHaveRows`). Two loops of one machine, restarts
  and torn acks are all in it, as steps that leave this true. The relay's batch is a
  recursive function; what it does to the log (`PostCorrect`) is an induction over
  a set of naturals (`NatSetInduction`), which well-foundedness gives without the
  library's theorems on predicates.
- `SpecOwnOrder` (`OwnOrder`), where each machine runs one loop (`OneLoopEach`) and
  none is restarted (`NoRestart`). `OrderInv` says that a row is logged after all
  earlier rows of its machine, that requests are in such an order too, and that
  rows wait for their backoff only while the loop that failed them waits. The last is
  what a restart breaks: the loop forgets its backoff, the rows keep theirs, and
  newer rows pass them (section 6). A second loop does the same.
- `SpecBasesExact` (`BasesExact`), where each machine runs one loop that is not
  restarted and a request the relay serves is answered in time (`AnswersArrive`;
  requests and pulls may be lost, applies may fail, and users do all they can). The
  relay refuses a base that is too small, so the proof is that none is too large, and
  what bounds it moves: `BasesInv` says of each machine that there is an op of the
  log, `p`, such that the versions it knows and the bases of its rows the log lacks go
  back to `p` or earlier, and that the answers in its hand are of the ops right after
  `p`, all its own. Taking one in moves `p` by one, just as `bumpPendingBases` moves
  the bases behind it. Two more parts keep this going: a row that is logged is acked
  or its answer is in hand, so that no row is sent twice; and a request asks of each
  row a base no larger than the version plus the rows of its file before it, which
  `pushOutbox` counts as `predecessors`. Each fault that is excluded breaks one of the
  parts: TLC finds `BasesExact` violated with any one of them on two machines of two
  to four rows, and with a second loop.

- `SpecOverwritesOnlySeen` (`OverwritesOnlySeen`), `SpecTextsSurvive` (`TextsSurvive`)
  and `SpecConverged` (`Converged`), for any machines, gids, rows and batches, in
  `Orderly` systems: one loop per machine, nobody saves inside `applyRemoteOp`
  (`Serialized`), users create, edit and write merged texts, each as often as they
  like and on all machines at once, and requests may be lost and repeated. So edits
  of one file do collide, are refused, forked and resolved, at any depth. What the
  three rest on is `OrderlyInv`, three layers on top of the two invariants above.
  `CalmInv`: a row carries the text named after it and what its author had seen,
  which is closed (who has seen a merged text has seen both that were merged), and
  where a loop is in its page agrees with the cursor (`PlacesInv`). `SightInv`:
  knowing a version means having seen its text. That cannot be said of the
  machine alone: an answer teaches a version whose ops were not pulled
  (`client.ts:305`). In an orderly system it is harmless, because the answer is
  an acceptance, so that the ops just before are the machine's own or seen
  (`SightedLog`: an accepted op right after another of its file is by someone who
  had that one's text), and the user does not act in between (`KnownSeen`).
  `FilesInv` says per machine and file where its text is: it is the last accepted
  one the cursor has passed, or the text of an own row that is not logged yet, or
  one that lost and then the conflict is open or a row waits that has
  seen it (`HoldsLastText`, `LosersKept`). With the whole log passed and the outbox
  empty only the first is left, which is `Converged`; and a text that is
  nowhere has been seen by the author of one that is somewhere, which is
  `TextsSurvive`. Each layer's step uses the ones below it, `CalmInv` also at
  the new state.
  What `Orderly` leaves out is where the properties fail or are open. A delete makes
  `Converged` fail (the run `sync_delete`), as does keep-both. Keep-mine and
  keep-server make `OverwritesOnlySeen` fail on three machines, although the run
  `sync_edits` finds none on two. Lost answers, late requests, lost pulls, restarts
  and failed applies each break it, and so do a second loop and a user who
  saves while an op is being applied. A torn ack was not found to (two
  machines of three and two rows), but is not covered by the proof.

`SyncLockProofs`:

- `TypeCorrect`, `HoldersHaveTheRow`, `MutualExclusion`, `NobodyStealsALiveRow`.
  Exclusion is not inductive: that a holder within its lease is alone follows
  from the row carrying its token and exactly its remaining time
  (`HolderHasRow`), which is. Stealing then needs time left 0, which ends the
  former holder's lease in the same instant.

`FileLockProofs`:

- `LockTypes`, `LockExclusion`, `LockOrder`, `LockCount`, `LockDrain`. Exclusion follows
  from `ChainInv`: the calls of a key are ordered by when they were made, each one
  waits for the one before it, and the last is the key's `tail` as long as any of
  them is unsettled. The last part is what `tail.finally`'s comparison is for:
  forgetting the chain under a waiting call would start a second one. That
  `inFlight` counts exactly the unsettled calls is `LockCount`, and `LockDrain` that a drain is
  over only when it is zero or time was up.
- `LockIsAQueue` (`IsAQueue`): each step maps to a step of `LockQueue` or to a stutter.
  The queue a key's callers see is its queued calls sorted by when they were made;
  lemmas on ranks say what sorting makes of a last one added (`SortedAppend`) and of
  the first one taken out (`SortedTail`). By `ChainInv` the call that starts is the
  first, and nobody is running.

`FileStoreProofs`, for any paths, users, texts, rows and pending events, where
everything runs in the process with the watcher (`OneProcess`, the web app; a second
process comes between a write and its row) and nobody moves, removes or edits by
hand a file another is at (`Apart`, in section 2, with all it forbids; section 6 says
what happens then). In, any number of times each: a create, update, delete or move
whose transaction fails; a watcher handler whose transaction fails; a delete that
leaves the bytes; a pull whose disk half fails, and is applied again or skipped; a
crash anywhere. Not in: a user's write or rename that fails before anything has
changed, which changes nothing, and a rollback on disk that itself fails:

- `Indexed` (`IndexDescribesDisk`). It speaks of quiet states only; what is inductive
  says of every state who is responsible for a path whose row differs from its bytes.
  `Shape`: only waiting creates and updates are ever at a path together, and one
  operation at most is between disk and row. `Index`: a path that is neither torn nor
  under such an operation agrees with its row, or an event waits that mends it: a
  change and an unlink do, and an add does only where no row is in its way, which is
  what the watcher's early return makes hard. Each operation between disk and row
  must then have left what its end needs, commit or rollback: that the row it read is
  the one still there, that the bytes it would put back are the ones the row or an
  event accounts for, that a move's two events are the ones it may take back.
- `ToldWhatIsHere` (`Published`). Inductive with it is that no two rows have one gid and
  that ids not yet given out are nobody's (`OneGid`, `Known`): a new row's gid could
  otherwise be one the other machines know as another file.
- `NothingEchoed` (`NoEcho`). `Pulling`: a pulled text is on disk only where its row has
  it and no unlink waits, unless an operation is half-way there or a crash was; what a
  user's operation has written is no pulled text, though what its rollback puts back
  may be one, and then its row is still there.

`HandsProofs`:

- `Approval` (`ApprovedOnceInTime`), from `TokenInv`: a token in the map has not
  been used, nor dropped by a reload, so that deleting it before the expiry check
  leaves nothing to approve twice.
- `Tracking` (`LivingAreTracked`), from `ChildInv`: a child is in the map from its
  spawn to its leader's exit. `WellTyped`.
- `EndsKept` (`EndsAreKept`), for any capacity and chunks, from `Held`: after *n* bytes
  the tail is one stretch that ends at *n* and begins where head and dropped bytes
  end. The loop that evicts is shown by `NatSetInduction` to end with the tail in
  bounds, whatever is in it.

`DistillProofs`:

- `Coverage` (`NothingSkipped`). Inductive is `Covered`: the mark's millisecond is
  settled, and so are its keys' and that of every run's last event, meaning that what
  may still be appended is newer; of all events that a run is about to put behind the
  mark each, or a twin of it, has been entered or is still in the run's hands; and so
  whichever run renames its mark, and a late one may move it back, what is below it has
  been entered. The second half is that without an outlived lock there is one run
  (`OneRun`, from `RepeatInv`), so that nobody's file is written over.
- `YoungLock` (`HolderHasLock`): a run younger than the lock's window has the
  row. `WellTyped`.
- `Repetition` (`OnlyBoundaryRepeats`), from `RepeatInv`: as long as no live run has lost
  its lock there is one run, what it has to do is not before the mark, and what is
  in an entry is not after it, or is of this run or of one that ended early.

`BootstrapProofs`:

- `Joining` (`OwnTextKept`), from `KeptInv`: a pass that found the machine empty,
  the only kind that overwrites unasked, finds no text of its own in its way. For
  any number of runners.
- `CursorPassesOverNothing` (`CursorCovered`), where one loop bootstraps (`OneRunner`).
  `CoverInv` says what is done of every gid up to the saved one, as of the first
  page's seq: the machine knows that version, or the record waits among the
  deferred. Of the gids after it, those of a page that is not finished must be in
  what is left of the page, and the last page leaves none out, which is a lemma on
  how pages are cut (`PageOf`). It rests on `TypeInv`, of which `TablesInv` - a live
  record is no older than the log - is what makes the snapshot as good as the log.
  With two runners the one that finishes deletes the progress and moves the cursor
  under the other, and `CursorCovered` fails (section 6).
- `DiffersOnlyWhereShown` (`DiffersOnlyInConflict`), where one loop bootstraps and no
  file whose create names a project is edited (`WaitersUnedited`; its record may be
  deferred, and `MCBootstrap_stale` shows it applied over a later update). `ToldInv`
  relates a file's text to a version. While the machine joins, a file that shows no
  conflict and of which anything is known holds a text the brain accepted, at that
  version or later (`Holds`); afterwards it holds one no older than its cursor, or the
  brain deleted it. The two meet in `Finish`, by `CoverInv`. What a pass on an empty
  machine still has to apply must be no older than what it has applied (`Ascends`):
  of the gids after it nothing is known, and the records of one gid come in order.
  A losing op that was pulled lost to an earlier one (`LogShape`), so the file it
  conflicts with is there. A version counts a gid's accepted ops along the log
  (`VersionCounts`), so a text at the last version is the last text.

Only model-checked, and why:

- `Sync`: what the runs show of `OverwritesOnlySeen`, `Converged` and `TextsSurvive`
  outside `Orderly` systems - deletes, keep-mine, keep-server and keep-both on two
  machines, and faults other than lost requests - is true of the runs' bounds
  only, or was not found to be false in them.
- `Journals`, whose texts are sequences of blocks merged at once on both
  sides, so that nothing short is inductive.
- All liveness: the provers have no `ENABLED`.

## 6. What TLC found

One is a run; the property is what the changelog says.

- `sync_delete` (`core/storage/client.ts:371`). A delete is applied over an unsent
  edit. The edit later comes back, on the machine that deleted it; its author has
  nothing.

The configurations of section 3 that are not runs:

- `MCSync_blind` (`client.ts:305`). The answer to a push teaches the machine a
  version whose ops it has not pulled. The next edit is based on it and accepted
  over a text its author never saw.
- `MCSync_toctou` (`client.ts:549`). An edit saved between the decision to apply
  and the write is overwritten without a conflict copy.
- `MCSync_replay` (`client.ts:580`). After a crash inside a page the resolved
  conflict's op is applied again, over the resolution.
- `MCSync_twoloops` (`client.ts:307`). Both loops handle the same answer and both
  bump the bases behind it. The comment at `:679` calls this "safe, but wasteful".
- `MCFileStore_drift` (`core/files/index.ts:423`). A file is moved or removed while
  another operation of its process waits for the lock: see below.
- `MCDistill_stuck` (`core/journal/distill.ts:160`). The mark keeps the keys of the
  last batch only. Where twice `Max` or more events share a millisecond, runs
  write the same batches in turn and nothing newer is ever distilled.
- `MCDistill_twins` (`core/journal/distill.ts:192`). Two events of a millisecond with
  equal keys, cut apart by the end of a batch: the second is taken for the first, is
  filtered out and never gets into an entry, although the comment at `:155` has the
  keys "avoid dropping any event" of that millisecond.
- `MCDistill_overlap` (`core/journal/distill.ts:128`). A run that outlived its lock and
  its successor read one task file; the one that writes it last drops the entry of the
  other.
- `MCDistill_engine` (`core/journal/engine.ts:42`). A run that leaves events for later,
  because the batch is full or they are barely too young, moves the mark's mtime the
  window's length past theirs: no engine takes them up until a new event comes.
- `MCBootstrap_stale` (`core/storage/bootstrap.ts:199`). A create that was deferred
  for its project is applied over the update that came meanwhile.

Met in other instances of the same modules:

- *Sync*. With lost answers `BasesExact` fails: a row that lost is resent with a
  newer one, whose base counts it as a predecessor. With a lost request and a
  restart `OwnOrder` fails: a row in backoff is passed by a younger one of its file.
  With keep-both on both machines `Converged` fails: nothing is pushed for the
  common gid, and each machine keeps its own text. With three machines, keep-mine and
  keep-server `OverwritesOnlySeen` fails: two machines push the same text again and
  both lose; the other's loser, equal to the file, is applied instead of forked,
  which clears `lost_push`, and then the winner, whose author never had that text,
  is applied over it. On two machines that edit and merge it fails with
  one lost answer, late request, lost pull, restart or failed apply, each of which
  lets the user edit between what the machine knows and what it has pulled.
- *Relay*. A loser answered as a duplicate is not noted in `lostInBatch`, and a
  later op of the batch that was built on it is accepted (`routes/ops.ts:165`, against the
  comment at `:160`). Where a tombstone dropped another family's records, the
  version answered for that family differs from the one `versionAt` recomputes:
  `AnswersFollowLog` is restricted to gids of one family.
- *Sync lock*. A holder slower than its lease is not alone: it is never renewed.
- *Files*, without `Apart`. `handleWatcherAdd` returns when there is a row, so an
  edit merged into the add event after a create or a move is not indexed.
  `refreshIndex` and `restoreVersion` change rows without an op, and the hash gate
  then keeps the watcher from making one. A create over a pulled file gives the row
  a new gid. A row without gid adopts a remote one. An update that waits while its
  row is removed pushes for a gid nobody has. A crash inside a pulled delete or move is
  not repaired by applying it again, nor is one whose removal failed (`apply.ts:436`
  swallows that) or that was skipped after its last failure. A watcher handler whose
  transaction fails loses its event (`watcher/index.ts:250`, `:286`, `:345`): the row stays
  stale until a later write or a reconcile. A deleted file whose `unlink` failed, or
  that belongs to a project, stays on disk without a row (`core/files/index.ts:539-549`).
  All these paths are `torn`.
- *Hands*. `invoke` awaits an import before it stashes the token
  (`registry.ts:114`), so a reload in between leaves a token for a definition that is
  gone. The exit event settles a call before its streams close, so unread output is
  lost without the mark of truncation. A call made after `killAllActiveChildren`, or
  a worker whose leader has exited, is never signalled (`index.ts:520`); and a process
  that ends loses its pending `SIGKILL`s.
- *Distill*. At a truncated boundary with nothing newer each run writes the boundary
  again. A crash between entries and mark, or a run outliving the lock, repeats
  entries, though the docs call it idempotent (`docs/MCP.md:252`). A clock stepping back
  keeps a dead lock alive.
- *Bootstrap*. One that resumes has files by then and runs in merge mode, so its own
  half-applied texts conflict (`bootstrap.ts:107`). A file that matches a later
  update is forked against the older create. Two runners at once: the second takes a
  newer cursor after the first has dropped it (`:161`). The conflicts of a deferred record
  are dropped. A pulled conflict about a file that is missing resurrects it.
- *Journals*. `journal_write` reads the file before it waits for its lock
  (`apps/mcp/src/index.ts:593`), so of two appends that wait, or of one that waits
  across a merge, the later drops the other's blocks, though journals are called
  append-only (`core/storage/journal-merge.ts:4`). An append is one step in
  `Journals`: the run speaks of appends that do not overlap.

## 7. What is left out

- *Relay, Sync*: titles, folders and projects; parked path conflicts; ops that
  cannot be parsed or decrypted; tokens and encryption. How often an op fails before
  it is skipped is left open: any failure may be the last. A comment says that
  history is "never silently skipped" (`client.ts:419`); it is skipped, with a row
  in `sync_skipped_ops` and its version recorded as known, so that a later edit is
  based on a text this machine never got. Requeueing, selecting and marking the due
  rows is one step although it is three statements. No property tells a base that a torn
  ack left old from a current one: the relay refuses it, and the user is asked.
- *Composition*. `Sync` takes the row and the bytes of a file as one thing;
  `FileStore` takes them apart and leaves versions out. The sync lock is not part
  of `Sync`: within a process a loop applies one op at a time, and across processes
  `SyncLock` says what it guarantees. Bootstrap and journals have versions of their
  own in their modules, over the same `RelayStore`.
- *FileStore*: folders, the search index, tags. `Host` may say that there are two
  processes, but the run has one: across processes a write to disk and its row come
  apart, and what differs then differs until the next reconcile.
- *Hands*: argument checking and interpolation, which are pure; the audit log.
- *Distill*: the wording and bucketing of entries beyond which events they stand
  for; any bucket may go into any task's file. A crash while a task's file is written
  leaves it as it was or done, never cut short. Runs over a given range, which leave
  the mark alone.

Not modelled at all, with reasons in `PROJECT.json`: the relay's HTTP server, the
text processing of journals, calendar, ids and encryption, inference and rerank,
agent rules and reports, migrations, the MCP server, the web app, publishing and the
command line. They make up most of the repository's lines. Their operations are
single transactions, pure functions, rendering or calls to other programs, and
what state they change they change through the operations modelled here: a state
machine of them would restate the code without any behaviour for a checker to find.

## 8. What could come next

- Calendars and tags in `Sync`: they share the log and the outbox but resolve
  differently.
- A second process in the run of `FileStore`, with those windows as faults.
- `Indexed` for two processes: what a second process's half-done write owes the
  watcher.
- The theorems on `Orderly` systems for keep-mine and keep-server on two machines,
  and with deletes for `TextsSurvive`.
