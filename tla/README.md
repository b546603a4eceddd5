# Verification of dsh-llm-memory

TLA+ models of the memory store, its vector leg, its backups and migrations, the TLC runs that check them on small
instances, and TLAPS proofs for every instance. Source paths are relative to the repository
(`src/core/...` is the TypeScript core).

Contents: 1 the system, 2 the plan, 3 the modules and what they correspond to, 4 the runs,
5 the proofs, 6 where code and comments disagree, 7 what is not modelled.

## 1. The system

The program gives coding agents a long-term memory. Its core is one single-threaded JavaScript
process per host: synchronous storage (files and SQLite), asynchronous embedding (a worker thread or
an HTTP provider), and thin adapters (DSH, MCP, OpenCode, Kilo, a web panel) on top. Several processes
may open one storage root.

| Component | State | Operations | Talks to |
|---|---|---|---|
| Page files (`application/wiki.ts`, `layout/paths.ts`) | one markdown file per entry at `<base>/<kind>/<title-and-id>.md` | write by temp file and rename, unlink, list, migrate the old flat layout | called by the store; edited by people and sync tools |
| Memory store (`infrastructure/store.ts`) | SQLite table `memories` (one row per id, with path and file fingerprint), `memories_fts`, the flag `ready` | upsert, delete, get, search, `ensureReady`, `reindexFromDisk`, `reconcileFromDisk`, close | writes pages, reports each written row through `onEntryChanged` |
| Embedding queue (`infrastructure/embed-queue.ts`) | pending ids, one timer, running/stopped flags, failure counter | enqueue, start, sweep, processAll, stop; one pass = batches cut by an `await` | reads the store, calls a provider, writes the vector index |
| Vector index (`infrastructure/vector-index.ts`) | vector cache table, derived sqlite-vec table and its marker | upsert, remove, search, rebuild, fill the derived table | called by queue, leg and search |
| Vector leg (`application/vector-leg.ts`) | the stack provider + index + queue, model download state | start, search, health, repair, rebuild, download or remove the model, close | built and replaced by the memory service |
| Providers (`infrastructure/embeddings.ts`, `embed-worker.ts`) | worker, pending requests, loading promise, failure | embed, prewarm, reload, close | queue and search await them |
| Model cache, downloads, runtime (`model-cache.ts`, `model-download.ts`, `model-manager.ts`, `runtime-install.ts`) | files under the cache directory, install status | scan, sweep, download, remove, install | vector leg |
| Engine (`application/engine.ts`) | none of its own | save (with supersession and links), update, forget, delete, recall, heal, consolidate | the store and the leg |
| Memory service (`application/memory-service.ts`) | settings, the current leg | tool handlers, recall with reinforcement, settings patch (swaps the leg), close | engine, store, leg |
| Maintenance, ranking, graph, projection, chunker | none | pure functions | engine, queue |
| Backup (`infrastructure/backup.ts`) | archive files | create, verify, restore with rollback | database and page files |
| Adapters (`adapters/*`), UI | frozen prompt blocks, open requests | transports, tools, hooks, panel routes | memory service |

How they interact: the engine calls the store synchronously; every row the store writes calls back
`onEntryChanged`, which enqueues the id; a timer starts a pass of the queue; the pass reads the entries,
awaits the provider and writes vectors. `heal` strips dangling references, reconciles the index with
the disk and repairs the vectors. Files are the truth and may change outside the process at any time;
everything in SQLite is derived.

What is hard, and what must hold in spite of it:

* **Store**: a write is file, unlink, row and full-text entry, with no transaction over both worlds; a
  crash may fall in between; people edit files; a pass has a time budget; ids and external keys are
  arbitrated. It must never lose an acknowledged page, never let SQLite refuse a row, and after a full
  pass agree with the disk.
* **Queue**: every `await` lets writes, deletes, repairs and timers in; snapshots taken before it are
  written after it. No id may be forgotten, no stale vector may stay without a retry, no id may wait with
  nothing scheduled, and the vectors must catch up with the store.
* **Leg, providers, downloads**: replaced while requests are in flight; downloads race removals. A
  dead leg must not write into the live one's rows and a request must be answered.
* **Engine and service**: read, await, write back (recall reinforces copies); supersession changes two
  entries. References must not dangle and forgotten entries must not come back.
* **Backup**: several replacements, each may fail; a failed restore must leave the old state.
* **Vector index**: cache, derived table and marker are three places written one after the other, and a
  closed leg may still write. An entry's vectors must never be stored in part, and the table must follow.
* **Migration**: many statements, each committed by itself, beside an old plugin that may still run. No
  value may be left behind and none the core has written may be overwritten.
* **Adapters**: a prompt block is built across awaits and must be one block per session; answers in order.

`PROJECT.json` lists the hazards one by one at their source lines.

## 2. The plan

Done, in order of importance: `MemoryStore`, `EmbedQueue`, `Backup`, `VectorIndex` (refining
`VectorMap`), `Links`, `Recall`, each with its `_proofs` module; `WorkerProvider` and `LocalProvider`, composed
in `Providers`, and `ModelDownload`, all with `Providers_proofs`; `KiloMigration` and `FrozenPrompt`, with
`Adapters_proofs`. Every safety property a run checks and expects to hold is proved.

Still to do, the most valuable first:

1. `MemoryMap`: the abstract store (a map from ids to acknowledged entries with put and remove) and the
   refinement from `MemoryStore` without outside edits.
2. `EmbedQueue` over `VectorIndex`: the queue of a closed leg finishing its batch while the new leg starts.
   `VectorIndex` has the late batch (`late`), `EmbedQueue` has the queue; their composition is missing, and
   so is the revived leg of `ModelDownload`.
3. Extend `MemoryStore` by several base directories, the copy of the page the service writes, and pages
   under foreign names; extend `Links` by self references and the archived status.
4. Several processes on one root: the derived table of `VectorIndex` and a restore under another
   process's open store.
5. Proofs: the refinement of 1 once it is stated, and the steps a liveness argument for `Converges` would
   rest on (what each action does to what still has to be embedded).

A module for the stdio transport was planned and dropped: requests are chained on one promise, so nothing
interleaves. What happens at the end of input is in section 6.

Which module composes which: `Links`, `Recall`, `Backup` and `KiloMigration` use the store through what
`MemoryStore` shows of it (a write is a page and then a row; a pass makes the index agree with the pages);
`VectorIndex` is called as `EmbedQueue` and the leg call it, and `EmbedQueue` writes vectors as the map
`VectorMap` that `VectorIndex` implements; `EmbedQueue` uses a provider that answers or fails, which is
what `WorkerProvider` and `LocalProvider` show; `Providers` has either of these; `ModelDownload` uses the
leg's stack as one flag; `FrozenPrompt` sees of the store how many saves a recall has seen. Modules to be
proved about declare no RECURSIVE operator.

## 3. The modules

### MemoryStore (`store.ts`, `wiki.ts`, `paths.ts`)

State: `pages` is the disk (each path holds an entry, an unreadable file or nothing); `rows` and
`fts` are the two tables; `ready` is the handle's flag; `op` is the program counter and locals of the
one write that may be in progress; history is `acked`, the texts a caller may rely on, and `sole`, the
entries that had one page when their last write returned.

A row's fingerprint (size and mtime) is modelled by what the code compares it for: `fresh` when it
matches the file, `stale` after the file was rewritten, `none` in a database older than the columns.
So `Outdate` accompanies every change of a file.

| Code | Actions |
|---|---|
| `ensureReady` | `EnsureReady`: rebuild an empty index, or migrate flat pages and run a pass |
| `upsert`, `writeRow`, `syncFts` | `UpsertBegin` (key redirect, stray page), `UpsertWrite`, `UpsertUnlink`, `UpsertRow`, `UpsertFts` |
| `delete` | `DeleteBegin`, `DeletePage`, `DeleteRow`, `DeleteFts` |
| `reconcileFromDisk` | `Reconcile`, and `ReconcileDeferred` when the time budget runs out |
| `reindexFromDisk`, `close` | `Reindex`, `Close` |
| the world | `Crash` between any two steps, `CrashInMigration`, `LoseDatabase`, `EditPage`, `RemovePage`, `RenamePage` |

The scans are functions from disk and rows to new tables (`RebuiltRows`, `ReconciledRows`, ...), in the
parts of the code: unchanged pages, refreshed fingerprints, pending pages, removals, key arbitration.
They run in one SQLite transaction, so a crash leaves either all or none of it; only the migration of
flat pages before it is visible file by file. `EnsureReady` and `Reindex` do not write in a crash-prone
order: the tables are emptied and filled in one transaction.

Simplifications, and their effect:

* One base directory. Scope, project and the project registry only choose a directory; the budget is
  per directory, so a pass cut short leaves a suffix of the enumeration unread.
* A file name is a value: the name made for an id (title and id), or any other. A change of title is
  a change of path like a change of kind, which is modelled.
* Outside changes happen between the store's operations (the code is synchronous). An edit that keeps
  both size and mtime is not modelled: the program cannot see it by design.
* `MayHold`: people do not put one entry into the file made for another. Without it the code can
  unlink a foreign page (a hazard in the list, not covered).
* The order of enumeration is a constant `PageOrder`; when two rows share a path, which of them the map
  of stored paths keeps depends on the row order, so any choice is allowed (`StoredMaps`).
* Failures of the full-text table are swallowed in the code and not modelled; nor are file system errors.
* Conditions an entry's text meets (secrets, length) are the engine's.

### EmbedQueue (`embed-queue.ts`, repair and rebuild of `vector-leg.ts`)

State: `entry` is the store, `vec` what each entry's vectors were made of, and the queue's own fields:
`pending`, `timer`, `pc` (`running` and where it awaits), `jobs` (the snapshot being embedded), `stopped`,
`failures`. `prewarm` is the warm-up of `start`. History: `swept`, `lost`, `healed`.

A handler runs to its next `await`, so the actions are: the calls from outside (`Write`, `Delete`,
`DropRow`, `Start`, `ProcessAll`, `Rebuild`, `Repair`), `TimerFires`, `NextBatch` (the head of the loop
after an `await`), and the three outcomes of the provider: `EmbedOk`, `EmbedFail` (rejected: jobs are
queued again) and `EmbedThrows` (an exception while the vectors are written: the rest is dropped).
`Take` is the loop's body: drop vectors of removed entries, copy metadata where the text is unchanged,
pass over texts without chunks, hand the rest to the provider.

Simplifications: batches are any `BatchSize` waiting ids (the code takes them in order of insertion, one
of these choices); the queue's manual mode, which sets no timers, is left out; a database error while a
batch is prepared is left out, one while it is written is `EmbedThrows`; vectors of another model or
dimension are not distinguished (they are in `VectorIndex`); `Restart` ends the process, so a closed queue
that still writes is left to `VectorIndex`.

### Links (`engine.ts`: save, update, forget, delete, heal)

State: `pages` and `rows` as maps from ids to entries (status and the three reference lists), `away`, the
pages that lie elsewhere than the store would write them, `afar`, the entries whose row names such a page,
and `op`, the
command in progress: the entries it has computed from the index and still has to write, in two batches
(`first` before `then`), with `page` between the two halves of one write. History: `heirs` (pairs a
complete save has recorded), `gone` (ids a complete delete has removed), `heals`.

Each command is one action that reads and computes (`Save`, `Update`, `Forget`, `Delete`, `Heal`), followed
by `WritePage`/`UnlinkPage`/`WriteRow` per entry, `DeletePage`/`DeleteRow`, or `Reconcile`; `Crash` stops it
between any two. `Healed` is heal's repair: references to unknown ids dropped, missing reverse links added,
all from the rows the index had before the pass. `Reconcile` is the pass over the pages that ends a heal: it
may be cut by its budget (`unread`), of two pages of an entry the row shows one or the other (`Turned`), and
a row whose page is not where it says is removed by id, also when the same pass has just written it for the
page's new place (`Lost`). Outside changes write a page (`PutPage`), one in another place (`CopyPage`), move
one (`MovePage`) or remove one (`RemovePage`).

Simplifications: the full-text entry is left out (it is in `MemoryStore`); titles stay, so there are
two places for a page of an entry, the store's and another; writes of a batch
come in any order (the code's order is the index's); entries do not refer to themselves; archived is
treated like superseded; a save writes an active entry, as callers ask for; outside changes fall between
commands and end the promises (`heirs`, `gone`), since a person may undo anything.

### Recall (`memory-service.ts`, `engine.ts`, `maintenance.ts`, search of `vector-leg.ts`)

State: `pages`, `rows`, `vecs` (the status the vector index has copied), `recall` (per request: its plan,
the layer it awaits, the rows it has read, the semantic hits so far). History: `said` (the last command
about an id) and `held` (a waiting recall that reinforces had a copy when it was given).

`Ask` runs to the first await (lexical search), `NextLayer` goes on with the engine's second layer,
`Answer` is everything after the last await: hits whose rows are fetched by id, ranking, and for the
service the write-back of each shown entry with its reads, confidence and level raised (`Reinforced`,
`Promoted`). `Browse` is the recall without a query, which awaits nothing. Commands run in between;
`CatchUp` is the queue bringing the copy of the status up to date, at any time or never.

Simplifications: which entries match and how they rank is any choice; numbers count boosts; one page
per entry (the second copy the service writes is in the plan); writes are whole.

### LocalProvider, WorkerProvider and Providers (`embeddings.ts`, `embed-worker.ts`)

`LocalProvider`: the installed model, the load new calls wait for, the lasting failure; a call
runs to its await (`CallLoaded`, `CallJoins`, `CallLoads`), goes on when its load ends (`Resume`,
`Rejected`), and ends (`Answered`); `Reload` may come at any time, and loads it abandoned still end.

`WorkerProvider`: the host (current worker, failure, pending requests) and the threads with their queues
in both directions. `Ask` starts a worker when there is none; `Message` and `Exit` are what the host
receives, as late as it may be; `Answer` and `Crash` are the thread. `Reload` and `Close` reject what
waits and terminate the thread, which goes on for a while. Left out: a thread that exits with code 0
(it would leave its requests waiting; a listed hazard), progress messages, and the http provider.

`Providers` is `createEmbeddingProvider`: a process has one of the two, by its option `inline`, and that one
does what its own module says. It is the module of the run of both.

### ModelDownload (`vector-leg.ts`, `memory-service.ts`, `model-cache.ts`, `model-download.ts`, `runtime-install.ts`)

State: the legs a service has had (`stack`, `unavailable`, `downloading`, `closed`, `failures`), which is
`live`, whose `hook` the store calls, the `flights` (downloads running, with the leg that started them), the
cache (`weights`, `writer`, `rest`), the `runtime`. History: `done`, `revived`.

`Patch` replaces the leg; `Download` and `Install`/`InstallDone` are the click; `Remove` empties the cache;
`Use`, `QueryFails` and `QueryAnswers` are searches. A flight is a load by the runtime (`LoadFetches`,
`LoadDone`, `LoadFails`, which goes on as a plain download) or a plain download file by file
(`OpenWeights` truncates, `WriteWeights` completes). Ends of both are `Ended` and `FilesFail`.

Simplifications: what a load leaves in the cache is any progress; the index never fails to open; the
service's leg only (the engine's has the same code without fallback).

### Backup (`backup.ts`, its calls in `memory-service.ts` and `dsh/ui-bridge.ts`)

State: the disk (`pages`, `rows` and `db` for the database, `journal` for the write-ahead log beside it, with
whose log it is), `open`; the archives (`archive`, `made`); the call in progress (`step`, the archive to
restore `source`, the one being unpacked `cur`, the backup made before it `pre`, `draft` of an archive being
made, `todo` files, `outcome`). History: `before`, the disk when the restore began.

| Code | Actions |
|---|---|
| `createBackup` | `StartCreate`, `Snapshot` (`VACUUM INTO`) or `SnapshotFails`, `Walk`, `Publish` (the rename), `Log` |
| `restoreBackup` | `StartRestore` (close, verify, and the backup before it, by the steps above), `RemoveDb`, `CopyDb`, `WriteFile`, `CheckDb`, `Record`, `End` (the caller opens the store again) |
| exceptions | `CreateFails`, `RestoreFails` at any step; `Failed` is the rollback, or the end after a second failure |
| `deleteBackup` | `DeleteArchive` |
| the store | `Write`, `Delete`, `Reconcile`, `Start`, `Stop` |
| the world | `Crash` between any two steps, `Damage` to an archive, `DiscardDb` |

Writes go on between the snapshot and the walk of a plain backup, since the store stays open. A database or
page that was being copied when the step failed is cut off (`bad`, `Torn`). SQLite replays a log it finds
beside the file: its own is part of the content, a foreign one may ruin it (`OpenStore`, `CheckDb`).
Simplifications: an entry has one page under one root; a write or delete is one step (`MemoryStore` has its
parts); no other process has the store open during a restore; ZIP, checksums and encryption are `whole`;
dry runs and listings read only.

### VectorIndex and VectorMap (`vector-index.ts`, its callers in `embed-queue.ts`, `vector-leg.ts`)

State: `cache` (`memory_vectors`) and `table` (`memory_vec`) by chunk, `hasTable`, `marker`
(`memory_vec_meta`), the open `leg`'s index and that of a closed leg whose last batch is still away
(`late`; it writes entry after entry), the `call` in progress and its next statement `pc`. History: `clean`, since the last fill every
writer mirrored its writes and none was cut off.

A call of the queue or the leg (`Open`, `Embed`, `Drop`, `Refresh`, `Clear`, `Rebuild`) chooses its first
statement; the statements (`Uncache`, `Untable`, `CacheRows`, `MirrorRows`, `Wipe`, `DropTable`, `Unmark`,
`CreateTable`, `Mark`, `Fill`) follow one by one, each a transaction. `Throw` ends the call at any of them,
`ClearFails` is the swallowed exception of `rebuildAnn`, `Crash` ends the process. The js backend has the
cache only.

`VectorMap` is what queue and leg rely on: a map from entries to what is stored of them, put, removed and
cleared as a whole. `Stored` reads the map off the cache; a mixture of chunks is no value of the map, so
`CacheIsMap` says that none ever arises.

Simplifications: models share one dimension; vectors are the model and text they were made of; one
process (two processes sharing a database may interleave statements); search and scores only read.

### KiloMigration (`kilo/migrate.ts`, `schema.ts`, opening and writing in `store.ts`)

State: `rows` with the cells under Kilo's names and under the core's, which `columns` exist, whether the
core's own are there (`extended`), the `part` of the migration that runs and the columns it has `todo`,
`migrated`, and the core's handle `store` (closed, open, used, or broken when opening threw). History:
`said` (what the core wrote last), `apart` and `recent` (ids the last whole migration, or the present one,
had no chance to carry over: written by the plugin meanwhile, or holding another value already).

`Migrate`, `AddColumn`, `Backfill`, `Extend` (one transaction), `Finish` and `Stop` are the script, statement
by statement; `Open`, `FirstUse`, `Upsert`, `Close` the store; `KiloWrite` the old plugin, which may write at
any time. `Rebuild` is the first use that makes the table from the pages. Simplifications: the full-text
table and dry runs are left out; pages say anything; the pass over rows with fingerprints is `MemoryStore`'s;
columns are added and filled in any order.

### FrozenPrompt (`opencode/runtime.ts`, `opencode/plugin-v2.ts`, `kilo/runtime.ts`)

State: `host` (v1 hears of new sessions, v2 does not), `memory` (saves so far), `frozen` block by session,
and `call`: for each request its session, the await it stands at and the block it has built. What a block
shows is how many saves each of its two recalls has seen. History: `given` (blocks handed out since the
last drop), `born` and `starts` (the latest start), `crossed` (sessions to which a request begun before the
latest start has handed a block).

`Transform` and `Prefer` are the two recalls, `Inject` looks up and freezes behind both awaits, `Save` and
`SessionCreated` fall in between. `Live` are the keys the handler spares; `"default"` is a key like others.
Simplification: a recall reads at one moment.

## 4. The runs

| Run | Instance | Shows |
|---|---|---|
| `store_one` | one entry, two kinds, flat leftover, two texts, two outside changes, one crash | one complete pass makes the index agree with the disk (`ReconcileAgrees`); a pass cut by its budget drops exactly the rows without page (`DeferredKeepsListed`); full-text search follows the rows (`FtsFollows`) |
| `store_pair` | two entries, two kinds, one key, one outside change, one crash | writes, migration and scans for one entry never cost another its page (`AckedOnDisk`); a ready store answers with what it acknowledged (`AckedIsIndexed`); no two rows own a key (`ExtKeyUnique`), so SQLite never rolls a pass back |
| `queue` | two entries, three texts (one without chunks), two metadata values, batches of two, give up after two failures, two calls, `FairSpec` | `NothingForgotten`, `StaleJobsWait`, `NoStall`, what a repair leaves (`HealedAgrees`), and that the vectors catch up (`Converges`) |
| `links` | three entries, two commands, one crash or one page edited, moved, copied or removed, heals without bound, complete or cut | a recorded replacement stays readable from both sides (`SupersessionRecorded`), a deleted entry is mentioned nowhere (`DeletedUnreferenced`), three complete heals settle index and references (`HealsSettle`) |
| `recall` | two entries in two layers, two recalls, three commands, one edited page | commands are not undone by recalls, except by one that held a copy (`CommandsStick`); levels are earned however copies interleave (`LevelEarned`) |
| `providers` | either provider; three calls and three loads, or three requests and three workers; two reloads or closes; `ProviderSpec` | one load at a time between reloads (`SingleFlight`), every call ends (`CallsEnd`); requests wait for the current worker only (`WaitsForCurrent`), a failure has a cause of its time (`FailureEarned`), no thread leaks (`NoLeakedWorker`), every request ends (`Settled`) |
| `download` | three legs, two downloads at once, two clicks, `FairDownloadSpec` | the shown state is true (`SpinnerHonest`) and ends (`SpinnerEnds`), the live leg has the hook (`HookFollowsLive`), a leg brought up stays up until it is closed or marked unavailable (`UpAfterDownload`) |
| `backup` | two entries, two writes, three archives, two failing operations or damaged archives, one crash | what a restore reports is what it left on disk (`OutcomeTrue`); the backup it falls back on is exact (`FallbackExact`); a listed archive is whole unless damaged (`ListedWhole`); no step of a restore takes the only copy of a page (`KeepsCopies`) |
| `vector_index` | one entry, a text of one chunk and one of two, two metadata values, two models in three spaces, both backends; calls, exceptions and crashes without bound | the table follows the cache (`MirrorFollows`); the cache implements `VectorMap` (`CacheIsMap`) |
| `kilo` | two entries, one column the core mirrors and one it does not, two values, two writes, one cut migration | a whole migration carries every value over (`Carried`) and takes none from the core (`CoreWins`) |
| `prompt` | a plain and a live session, two requests at once, two saves, two starts | one block per session between drops (`FrozenStable`); after a start, blocks know what was saved before it (`FreshAfterStart`) |
| `backup_journal` | as `backup` | expected to fail, section 6 |

Bounds. `MaxEdits` counts outside changes and lost databases, `MaxCrashes` crashes, `MaxFaults` both
together, `MaxCalls` calls from outside, the other `Max...` constants what their name says; nothing else is
bounded. One entry with two kinds has every path a write can use (old, new, flat); a second entry is
needed for keys and for interference; in the store a third adds no new relation, as every operation
concerns one id and at most one rival, while a chain of references (`links`) needs three. Two
disturbances make every pair (edit then crash, move then edit). For the queue two entries give a batch in
flight and an id waiting; two calls over any stored vectors let a write fall before, into and after a
batch. Three workers or legs are one in use, one just given up and one before it. Initial states are an
empty root or one flat leftover with or without row, for the queue any store against any vectors, for
`links` any set of entries without references, so short runs start from long histories. A run sets
CHECK_DEADLOCK FALSE where the system has nothing left to do once calls, reloads or clicks are used up
(queue, providers, downloads). Texts (store), ids (links), requests and texts (recall), entries (backup),
ids and values (kilo) and requests (prompt) are interchangeable and are symmetry sets; no run with a
liveness or refinement property uses one. Three archives are one to restore, the backup before it and one
more; two failures are the one that starts a rollback and the one that ends it. One entry suffices for
the vector index, as every statement but those on the whole table concerns one entry; two chunks make a
part of an entry, three spaces a change of model and a change of precision alone. A live and a plain
session are the two kinds there are.

Types: `Links`, `Recall`, `ModelDownload` and `LocalProvider` check their type invariant in a run, as it says
more than types there; the types of all modules are proved (`TypeCorrect` and the like).

Fairness (`FairSpec`) is weak fairness of `TimerFires` (Node fires a timer that is set), of `NextBatch` (a
resolved promise continues) and of the provider's answer, success or failure: providers reject on
timeout, worker error or a non-zero exit. A worker that exits with code 0 answers nothing and breaks
this assumption; it is a listed hazard. No fairness is put on calls from outside, on the
warm-up or on success. `Converges` exempts a queue that gave up and ids dropped by an exception, as the
code promises them nothing before the next sweep or repair. In `LocalProvider` a load ends and a
resolved promise continues; in `WorkerProvider` the thread answers what it received (which is
`CallsEnd` of `LocalProvider`, the code it runs) and the host's event loop delivers messages and exits
(`ProviderSpec` is both);
in `ModelDownload` a download makes progress until it has ended or failed. None assumes success.

Every property has a mutant in its module, a plausible bug of the code next to the definition it
replaces (`Mutant of ...`); with it TLC finds the property violated in the run of the property.

## 5. The proofs

### MemoryStore_proofs

For every set of ids, file names, kinds, texts and keys, every enumeration order and every number of
edits and crashes. `StoreAssumption` asks that the constants are told apart, that the order of pages is
injective into the integers, and that every nonempty set of paths has a last one (true of the finite
directories there are; assumed because it is not to be proved by induction here).

* `TypeCorrect`: `Spec => []TypeOK`.
* `KeysUnique`: `Spec => []ExtKeyUnique`. The inductive invariant is `KeyInv`: types, uniqueness, and
  `KeyReserved`: a write between its start and its row still owns the key it carries, since the redirect
  at its start and no other step could have given it away. The lemmas about the two scans show that
  the arbitration (`KeepsKey`, `FirstClaim`, and the keys taken from rows that lose) yields unique keys from
  any rows, unique or not.
* `AckedDurable`: `Spec => []AckedOnDisk`. By itself this is not inductive: the unlink of an update and
  the rename of a migration go by path, and nothing in the formula says whose page a path holds.
  `HomeInv` adds that a file made for an entry holds that entry (`FilesOwned`), that rows and the pending
  write point at such files (`RowsOwned`, `OpOwned`), that the new page is on disk before the old one goes
  (`PageWritten`), and where an acknowledged entry is to be found at each point of a write (`Promised`,
  `AckedAtHome`, `OpReady`). `FilesOwned` holds because of `MayHold`, the assumption on what people do.
* `TextsAgree`: `Spec => []FtsFollows`. Writes touch row and full-text entry in two steps, so `TextsFollow`
  speaks of every id but that of the write in progress until its last step.
* `RowsInvariant`: `Spec => []RowsInv`, no two rows share a path and a fingerprint that matches tells the
  truth. It is what the two scans rely on when they pass over a file without reading it.
* `PassAgrees` (`ReconcileAgrees`) and `DeferredAgrees` (`DeferredKeepsListed`) say what a pass *would* do in any
  reachable state, so they are statements about `Outcomes`; from `RowsInv` and the lemmas about the parts
  of the scan (unchanged, pending, removed, arbitrated) they follow in every state.
* `AckedIndexed`: `Spec => []AckedIsIndexed`. `SoleInv` follows an entry with one page: that page is where a write
  puts it or is the flat page of its name, holds an acknowledged text, and its row points at it, except
  between the two halves of a write.

  An earlier form of `AckedIsIndexed` asked for one page per entry when the question is put, instead of when
  the write returned. The attempt to prove it showed it false, and TLC finds the counterexample with two
  ids (section 6). The history `sole` leaves exactly such entries out.

### EmbedQueue_proofs

For every set of ids and texts, every batch size, failure limit and number of calls, under
`QueueAssumption` (chunk counts are numbers, `None` is no entry, the bounds are numbers):

* `TypeCorrect`: `Spec => []TypeOK`;
* `QueueInvariant`, and from it `Remembered`, `Unstalled` and `StaleWaits`, the three safety properties
  `NothingForgotten`, `NoStall` and `StaleJobsWait`.

The argument. `NothingForgotten` (an entry whose vectors are out of date waits or is in flight as it is
now, or was dropped) is not inductive by itself: when a batch arrives, it writes snapshots over vectors that
may be right by now, and the next batch replaces all jobs. So the invariant adds that jobs exist only in
`embed` (`JobsOnlyInFlight`), that a snapshot the store has moved past belongs to an id that waits again
(`StaleJobsWait`), and that waiting ids have a pass or a timer (`NoStall`). A write keeps the second by
queueing its id even when it is in flight; `EmbedOk` then may write anything stale, as its id waits; and
`Take` removes an id from `pending` only into a snapshot of the present entry or with vectors brought up
to date (`BatchCovers`, `TakeForgetsNothing`).

`RepairAgrees` is `Spec => []HealedAgrees`. A repair mends what it can and queues the rest; `HealInv` says that
until the next change or failure an entry's vectors fit, or its id waits, or it is in flight as it is now,
and that removed entries have none. It rests on `QueueInvariant`, since a batch that was in flight before
the repair would be written over what it mended: there is none, as a repair waits for the queue.

### Providers_proofs

First for `WorkerProvider`, for every set of requests and every number of workers, reloads and closes:
`TypeCorrect`, `CurrentAwaited` (`WaitsForCurrent`), `FailuresEarned` (`FailureEarned`) and `WorkersKept`
(`NoLeakedWorker`).

The argument. `FailureEarned` alone is not inductive: the exit event of the current worker sets the
failure, so that worker must be known to have crashed, and since the last reload. Hence `ProviderInv`
adds that the current worker runs or crashed and was never terminated (part of `TypeOK`) and that it was
started since the last reload (`CurrentYoung`; a reload lets go of the worker and starts a new time).
`WaitsForCurrent` makes giving up the worker settle every waiting request, and `NoLeakedWorker` makes
stopping the one worker stop all threads. Both ways of giving up, `fail` and `reload`, share the lemma
`GivingUp`.

Then `EitherProvider`: every behaviour of `Providers` is one of `WorkerProvider` and one of `LocalProvider`,
as the provider a process does not have only stutters. So `WorkerKept` takes over the properties above, and
`LocalTypes` (`LocalTypeOK`) and `OneLoad` (`SingleFlight`) those of the provider in the process, for every
number of calls, loads and reloads. `SingleFlight` says that two running loads of one epoch are the same
one; it needs `OneCurrent`, which says which load it is: the one new calls wait for. Loads that a reload has
abandoned belong to earlier epochs and cannot come back (`LoadsKnown`).

Last for `ModelDownload`, for every number of legs, downloads, clicks and query failures: `DownloadTypes`
(`DownloadTypeOK`), `SpinnersHonest` (`SpinnerHonest`), `HookFollows` (`HookFollowsLive`) and `StaysUp`
(`UpAfterDownload`). What the last three need is `LegsInv`: legs are used one after the other and each is closed
by its successor, so a leg that is not closed is the one in use; a download is that of a leg used so far,
so a new leg starts with none and is in no history. `Ended` may act on a closed leg, and there the properties
differ: the flag is reset, `done` no longer counts, and `revived` notes the stack. The module extends both
`Providers` and `ModelDownload`, whose names differ for this reason (`DownloadInit`, `PromptInit`).

### Backup_proofs

For every set of entries and any number of writes, archives, failures and crashes: `TypeCorrect`,
`OutcomeIsTrue`, `FallbackIsExact`, `RestoreKeepsCopies`, `ListIsWhole`.

The inductive invariant `CallInv` follows one restore through its steps. `OutcomeTrue` speaks of its end
only, so the rest says what is true on the way: while the backup before it is made nothing has changed
(`Untouched`); from then on that backup holds exactly what was there (`Fallback`, from the snapshot and the
walk of a store that is closed, so that nothing is written in between); while files are unpacked every page
is the old one, the archived one or cut off, and the ones not in `todo` are done (`Unpacking`). A failure
switches to the backup and starts the same argument again with it. `ListIsWhole` counts: only damage from
outside adds an unreadable archive to the list (`DamagedGrows`), since an archive gets its name when it is whole.

### VectorIndex_proofs

For every set of entries, texts, models and spaces and any number of chunks: `TypeCorrect`, `TableFollows`
(`MirrorFollows`), and `CacheImplementsMap`, the refinement `Spec => CacheIsMap`.

`TableFollows` needs what holds between statements (`Steps`) and that the table agrees outside the chunks of
the entry being written (`Agrees`, `InFlux`). The refinement needs that an entry is whole or absent at every
point (`Whole`): rows are only written over nothing, or over rows of the same text and model. Then each
statement that writes the cache is a put, a remove or a clear of the map, and every other one a stutter.

### Adapters_proofs

`KiloMigration`, for every set of columns and values and any number of writes and cut migrations:
`TypeCorrect`, `MigrationCarries` (`Carried`) and `CoreKeepsItsValues` (`CoreWins`). The first needs `Filling`:
in a row that waits to be carried over (`Waiting`) each column is blank or holds Kilo's value while a
migration runs, and holds Kilo's value once the migration is done with it. `CoreWins` is inductive with the
types alone, because the UPDATE looks at the core's value.

`FrozenPrompt`, for every set of sessions and requests: `PromptTypeCorrect`,
`OneBlock` (`FrozenStable`) and `BlocksFresh` (`FreshAfterStart`). `FrozenStable` compares blocks with each
other; what is inductive is that each equals the frozen one (`GivenFrozen`). `FreshAfterStart` needs that a
request begun since the latest start has read since it (`ReadsFresh`); the ones begun before are those
`crossed` names.

### Links_proofs

For every set of ids and any number of commands, crashes and outside changes: `TypeCorrect` (`TypeOK`),
`ReplacementsRecorded` (`SupersessionRecorded`), `DeletedForgotten` (`DeletedUnreferenced`) and `ThreeHealsSettle`
(`HealsSettle`).

A command computes all its writes from the index at its start and writes them one half at a time, so each
promise must also hold of what is still to be written (`op.first`, `op.then`), and `Shape` says that a page
half-written is what the batch says. `HeirsInv`: no pending write takes back a recorded replacement
(`Keeps`), no delete under way is of either side, and a save has marked the entries it replaces, on disk and
in the index, or has it still to do, before it writes the successor that names them (`SavePromise`). That
the marks come first is what makes the pair complete the moment the save is. `GoneInv`: nothing stored or
pending mentions a deleted entry, no id comes back unless a caller names it (`born`), and a delete that
found index and pages equal has every entry that mentions its own among its writes (`DeletePromise`).
`HealInv` counts complete heals. After one, every row says what the page it names says, and so it stays
while the next one writes; only entries whose page had moved may be without a row. After two, no entry with
a page is without one: the second pass finds no row whose page is missing. So the third heal knows all
ids: the table it arrives at (`Goal`: its writes over the rows) is closed and mirrored, and its pass changes
nothing unless an entry has two pages.

### Recall_proofs

For every set of ids and requests, every limit and any number of recalls, commands and edits of pages:
`CommandsHold` (`CommandsStick`), `LevelsEarned` (`LevelEarned`) and `ReadsBounded` (`TypeOK`).

Both speak of what is stored, and a recall stores copies it read long ago, so neither is inductive by itself.
`CopiesSound` says of the copies in hand what holds of rows and pages: a copy that will be written back for
an entry does not undo the last command about it, unless one waited when the command came (`Allowed`, with
the ghost `held`), and has the reads and the confidence of its level (`Earned`). A command that finds a copy
waiting sets `held`; a recall that starts later reads what the command left.

The bound on reads in `TypeOK` (an entry is not read more often than there were recalls) is about all
recalls at once: each waiting one may add a read to what it finds. `CountInv` bounds the reads of every copy,
stored or in hand, by the recalls that have been answered, `recalls - Cardinality(Waiting)`; answering one
raises that number by one, and the entries it shows by at most one.

### Only model-checked

Liveness (`Converges`, `CallsEnd`, `Settled`, `SpinnerEnds`) is out of the prover's reach, as are ENABLED
and induction over data. All other properties of the passing runs are proved. What the proofs rest on
besides the definitions are the named assumptions on constants, which TLC evaluates in the runs.

## 6. Where code and comments disagree

One run checks a document's claim, and TLC finds it violated by what the code does.

* `backup_journal` (`RestoredReadable`): the documentation (`docs/backup.md:9`) says that the write-ahead log
  does not get into a backup. The walk skips the database file only, so the archive of an open store holds
  `db/memory.db-wal` and `-shm` too, and a restore writes them beside the snapshot it has just put in
  place, where SQLite takes them for its log: the database may be unreadable after a restore that reported
  success.

Others were met while modelling. They have no run; the properties above are stated so that they leave
exactly these behaviours out.

Store, engine, recall and leg:

* A moved page is written under its id and new path, and the pass then deletes removals by id, the same
  id: the entry leaves the index until another pass (`store.ts:1152`; the comment at `store.ts:456` says
  moved pages are re-read). When that pass ends a heal, the next heal finds the id unknown and strips every
  reference to it before its own pass brings the row back; the reverse links the moved page asks for
  return with a third (`HealsSettle` asks for three; with two TLC finds this trace).
* A heal that rewrites an entry whose row was taken from one of two pages leaves the other page, and each
  later pass may turn the row to the page it does not name, with that page's older references
  (`store.ts:1069-1105`, `1133-1151`; `HealsSettle` asks of references only that no entry has two pages).
* An entry with a copy of its page in the flat directory, under a name that another entry's page has in its
  own directory, is indexed at the flat copy. If the page in the way is removed outside, a pass cut short moves the
  copy to its name and drops the row by id, and deleting the other entry, whose row still names that file,
  removes it. The first entry was acknowledged and its own page was never touched, but it is missing from
  the index until another pass (`store.ts:811`, `1152`; `AckedIsIndexed` speaks of entries that had one page
  when their last write returned, `sole`).
* A recall that read an entry before its await writes row and page of an entry deleted meanwhile
  (`memory-service.ts:562`; the tool of `tools.ts:108` says a delete removes both).
* A recall writes the page of each entry it shows from the row, over an edit made on disk since the last
  pass (`memory-service.ts:562`; pages are the source of truth, `store.ts:4`).
* A download that ends after its leg was closed builds provider and queue again and takes the hook
  (`vector-leg.ts:436`; close stops both, `vector-leg.ts:668`).
* An edited page loses its external key in the next pass, since its own old row counts as the owner,
  while `store.ts:1113` says rows still present keep their key (`RowMatches` allows a blank key).
* After a crash between row and full-text entry the fingerprint matches and no pass repairs the entry
  (`store.ts:968` speaks of bringing the index in line; `FtsFollows` asks for no crash).
* A text that lost its last chunk keeps its old vectors through a heal (`engine.ts:1121` says the two sides
  agree afterwards; `Wanted` excludes such texts).
* A `processAll` call made while a pass runs returns at once, with ids waiting (`embed-queue.ts:127` says
  it resolves when the queue is empty).
* A heal writes statuses from rows over statuses edited on disk, and does not see broken references on
  pages it has not read yet; a later heal does (`engine.ts:1051`, `1056`; `HealsSettle` asks for three).
* A delete leaves references on pages the index has not read yet, and a second page of the entry
  (`engine.ts:725`; `gone` is only recorded when index and pages agree and no entry has two pages, `Tidy`).
* A crash in save leaves `supersededBy` naming an entry that was never written (`types.ts:95`; `heirs` is
  recorded by complete saves).
* A semantic hit is fetched by id without a look at its status, so a recall may show a forgotten entry
  (`engine.ts:764`).
* A load that was running when `reload` was called installs its model afterwards (`embeddings.ts:168`).
* Two clicks start two downloads when the provider is http or the model is removed in between
  (`vector-leg.ts:387`); both share the leg's flag, which `SpinnerHonest` is about.
* A weights file cut by a crash counts as a model (`model-cache.ts:105`), and three failed queries are said to
  disable the leg (`vector-leg.ts:535`), but set a flag that is not looked at while a stack exists
  (`UpAfterDownload` says nothing of a leg that was marked so).

Backup:

* `docs/adr/ADR-005-backup-format.md:39` asks for a backup before every restore ("always"); it is skipped when there is no
  database, so pages on disk may then be overwritten without a copy (`KeepsCopies` asks for a database).
* `docs/backup.md:42` calls the replacement atomic; the database is removed and then copied
  (`backup.ts:421`), and a crash in between leaves none, which the next start fills from the pages.
* Archived pages are written over the present ones and nothing is removed, so entries saved after the backup
  return to the index with the next pass (`Overlaid`).
* A database cut off by a failed copy makes every later restore fail, because the snapshot before it throws,
  until somebody removes the file (`DiscardDb`).

Vector index:

* After a session with the js backend the marker is unchanged and the table is behind; the next session of
  sqlite-vec takes it as it is (`vector-index.ts:210` says that after a switch of backends it is rebuilt from
  the cache). A crash
  between dropping and creating the table, or between the marker and the fill, leaves it missing or empty
  in the same way; `rebuildAnn` repairs both (`clean`).
* Rows of other models are said to be ignored (`vector-index.ts:80`); the search over the table does not look
  at the model, so vectors a late leg mirrors are found. Repair and health look at the cache only.

Migration:

* On a database without the core's columns opening throws at the index on `path` and `ext_key`
  (`store.ts:506`), which comes before the columns are added (`store.ts:529`), with the handle already kept.
* Dropping Kilo's full-text table is said to let the store rebuild it (`migrate.ts:114`); the store creates an
  empty one, and only the cutover fills it.
* The header (`migrate.ts:3`) and `docs/kilo-migration.md` say that rows are not rewritten. Each run fills blank
  values from Kilo's again, so a value the core has cleared since comes back where the core does not write
  Kilo's name beside it (`CoreWins` asks for values that are not blank).
* The first use of a migrated database without fingerprints and with a flat page rebuilds the table from the
  pages and drops rows without a page (`store.ts:552` speaks of never losing rows). What the plugin updates
  after the migration in a row carried over is not seen by the core.

Adapters:

* `docs/adr/spikes.md:16` says the text is stable within a session, and the handler's comment
  (`runtime.ts:92`) that a block belongs to the old session; the start of any session, a subagent's too,
  drops the blocks of all (`FrozenStable` speaks of the time between drops). A request begun before may
  freeze its older block afterwards (`crossed`).
* `stdio.ts:5-6` says that the store is closed after the end of input; requests still in the chain then open
  it again, are answered, and nobody closes it.

`ReconcileAgrees` and `DeferredKeepsListed` exclude moved pages by a named condition (`Unmoved`), `AckedIsIndexed`
crashes and entries with two pages (`crashes = 0`, `sole`), `CommandsStick` recalls that held a copy (`held`), `HookFollowsLive` downloads of closed legs
(`revived`), `FtsFollows` crashes, `MirrorFollows` writers that do not mirror and calls that were cut (`clean`),
`Wanted` texts without chunks; the hazards these leave out carry no property in `PROJECT.json`. What
remains is what the code does achieve.

## 7. Not modelled

`PROJECT.json` names each component with its reason. In short: ranking, graph, projection, chunker and
frontmatter are pure or numeric (a chunker's windows and scores are recursion over text and floating
point); the web panel, the MCP, DSH and panel adapters are thin calls into modelled operations; the user
interface, a third of the repository, renders; settings are normalised data; the sync groundwork is not
used yet. Parts of modelled components that are left out are named with their module in section 3, and
hazards without a property carry the reason in `PROJECT.json`.
