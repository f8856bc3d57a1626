# Verification of pinner

TLA+ modules, TLC configurations and TLAPS proofs for the Go implementation of
pinner: an operation catalog exposed over a CLI and an MCP server, and an
encrypted file vault on the Sia network with local staging, background flushes,
sync and versions.

Paths below are relative to the repository. `PROJECT.json` maps every definition
to the lines it models and lists runs, mutants, hazards, findings and theorems.

## 1. Inventory

### The vault (`core/vault`)

| Part | State | Operations | Hard part |
|---|---|---|---|
| **Flush manager** `flushmgr.go` | jobs, per-profile queue, one worker goroutine per profile with a one-slot wake channel and a published service, `closed` | `Enqueue`, `ensureWorker`, `runWorker`/`process`/`service`, `Close`, `failStuckJobs` | requests, workers and a bounded shutdown race between critical sections of one mutex |
| **Staged writes and flush** `upload_staging.go` | `files` table, staged buffers on disk, per-process flush lock, disk-usage counter | `Put`/`stage`, `commitFileRecord`, `Flush`, `FlushPath`, `uploadPackedGroup`, `finalizeDurable` | identity read outside the insert transaction; pin, database update and buffer removal are three steps that may each fail or be cut by a crash |
| **File operations** `vault_service.go` | the same table; objects pinned on the indexer | `Get`, `Verify`, `VerifyDeep`, `Remove`, `VersionRestore`, `ShareAccept`, list, search, tags | decisions taken in a transaction and executed by an indexer call afterwards; rows looked up again after a network call |
| **Packing** `upload_staging.go` | none | `prepareUploads`, `tryAdd` | slab-size arithmetic at the boundaries |
| **Disk backpressure** `upload_staging.go` | bytes in use, wake channel | `addDiskUsage`, `releaseDiskUsage` | a counter that drifts; waiters on a channel that is replaced |
| **Sync-down** `sync.go` | saved cursor, `files` table | `Sync` | events that change while a batch is applied, tombstones, failure or crash between a batch and its cursor, other devices writing all along |
| **Tags** `vault_service.go` | tags in the object's metadata on the indexer, a join table per device | `AddTags`, `RemoveTags`, `SetTags` | read, re-pin and local write are three steps, raced by other devices, by `Sync` and by `Remove` |
| **Scheduler and loops** `syncloop.go`, `upload_loop.go` | running flag, tickers, cached services | `TriggerNow`, `Shutdown`, `Tick`, `Close` | `Close` concurrent with `Tick`; no overlapping runs |
| **Registry and provisioning** `registry.go`, `provision.go`, `login.go` | registry file under a file lock, seed files, profile directories | `CreatePending`, `Create`, `Restore`, `MarkSeedRetrieved`, `RemoveProfile`, reconcile | several processes; crash between two files; seeds written outside the lock |
| **Search, paths, metadata, migrations** `search_predicate.go`, `path.go`, `db.go`, `models.go`, ... | none, or schema | query construction, parsing | pure |

The flush manager calls a `VaultService` per profile; its flush is the `Flush` or
`FlushPath` of the second row. The MCP server's upload loop calls `Flush` on its own,
and a CLI process may call it too. `Put`, `Verify`, `Remove` and `VersionRestore` run in
any number of goroutines and processes over one SQLite database whose single connection
serializes transactions, so every statement or transaction is atomic and nothing else is.

### The rest

- **Operation catalog** (root package): registration and invocation policy under one
  RWMutex. Correct if an operation is visible only under its policy and names are unique.
- **`catalogops`**: descriptors and handlers; `catalogops/vault.go` sequences several
  service calls (flush submit/status/wait, cache rebuild/clear, profile use/forget).
- **`catalogmcp`, `catalogmeta`, `assembly`, `converge`**: start-up construction of tool tables.
- **`mcp`**: the MCP server, asynchronous transfers, upload sessions, apps.
- **`transfer`**: root-confined download (temporary file, re-check, rename), streamed upload.
- **`core/admin`**: cached token exchange raced by `Invalidate`.
- **`core/config`**: load, precedence, atomic save.
- **Portal clients** (`core/auth`, `dns`, `ipns`, `websites`, ...): thin REST wrappers.
- **`services`, `canvas`, `canvasassets`, `packages`, `cmd`, `dnsutil`**: operating-system
  services, rendering, user interface, test harness, record helpers.

What makes each vault part correct:

- flush manager: no accepted job is forgotten, jobs of a profile run in order, a job's
  completion is signalled exactly once, shutdown is bounded and leaves nothing behind;
- files: an accepted write is readable until it is durable and becomes durable, the last
  write of a path wins, a path has one identity, an object that is referenced exists and one
  that is not is removed;
- sync: re-applying events changes nothing, no event is passed unapplied, a path has one
  winner and devices that have caught up agree on it, what is deleted goes everywhere;
- tags: every device shows the tags of the object, a change drops no tag it was not asked to;
- loops: runs do not overlap, shutdown waits for them, a closed loop stays closed;
- provisioning: an active profile has the credentials and the database of its vault, a
  vault has one profile, no registry write is lost, a consumed mnemonic goes and a kept one
  stays.

## 2. Modules

### `FlushManager` - `core/vault/flushmgr.go`

One action per critical section of `m.mu`, and one per step a goroutine takes between two of
them. `caller[c]` is where an `Enqueue` call is (`Enqueue` -> `EnsureWorker` -> `Wake`);
`worker[p]` is where the profile's goroutine is (`PopPending`, `Wakened`/`Exit` for the two
cases of its select, `Activate`, `MarkRunning`, `SetStartedAt`, `Service`, `Build`, `Publish`,
`Flush`, `Settle`, `Deactivate`); `closer` is where `Close` is (`Close`, `Cancel`, then
`Joined`, or `JoinTimeout`, `FailStuckJobs`, `SweepCheck`/`Dispose` per worker, `SweepEnd`).
`handles` counts services built and not closed, `closes` counts `close(job.done)` so that a
double close, a panic in Go, is visible. Job paths, timestamps, error texts and the flushed
count are left out. A flush is one step that ends in `done` or `failed`, or never.

### `VaultFiles` - `core/vault/upload_staging.go`, `vault_service.go`

One profile's `files` table (row ids in order of insertion), its staged buffers, the objects on
the indexer, any number of clients and of processes that flush. Each SQL statement or
transaction, indexer call and file removal is one action. Modelled: `Put` on a profile with a
staging directory (`BuildPendingRecord`, `StagedAdopt`, `CommitFileRecord` with its retry loop
and the collision on `idx_files_live_name_dir`, `PutGaveUp`), `Flush` and `FlushPath`
(`BeginFlush` under the process's flush lock, `MarkFlushing`, `EnsureSDK`,
`UploadPackedGroup`, `PinObject`, `FinalizeDurable`, `RemoveStagedBuffer`,
`RecordFlushFailure`, `FlushReturn`), `Verify` (`VerifyResolve`, `VerifyObject`, `MarkLost`,
`ClearResolve`, `ClearLostStatus`), `Remove` (`RemoveResolve`, `Tombstone`, `DeleteObject`)
and `VersionRestore` (`RestoreResolve`, `RestoreFetch`, `RestorePin`, `RestoreInsert`). While
`faulty` holds any call may fail, a client or a flush may crash at any step, and the network
may lose an object; `FaultsStop` ends that. A lookup that fails in `stagedAdopt` is taken by the code
for one that found nobody, and the attempt goes on with a fresh identity; so does the model.

Abstractions: an object is identified by its content, as the comments in `Remove` describe
the indexer; a row's object key is therefore one bit (`keyed`). `prepareUploads` is any
partition of the batch into groups. A group's open, add and finalize errors are one choice of
which rows get flagged; an unencodable metadata document, which cannot come from a stored
row, is left out. Names, tags, sizes, times, the disk counter, `flush_attempts` and
`flush_error` are left out. The buffer exists from the commit on; before it nothing refers to
it and every error path removes it (a crash before it leaks a file, not bytes of an accepted
write).

### `ServiceLoops` - `core/vault/syncloop.go`, `upload_loop.go`

The `ServiceScheduler` with one worker goroutine per loop, each ticking a sync loop
(`SyncLoops`) or an upload loop. `worker[l]` is where a worker's goroutine and its tick are:
waiting in `runWorker`'s select (`TimerTick`, `TriggerTick`, `Exit`), at the start of the tick
(`Begin`), retiring services (`Retire`), between two profiles (`NextProfile`), in
`ensureService` (`EnsureService`, `Build`), before a `Sync` (`Drain`) or in a `Sync` or `Flush`
call (`SyncFull`, `SyncLast`, `Flush`, or `Recover` from a panic), recording activity
(`NoteActivity`), closing idle services and ending (`CloseIdle`, `EndTick`). `Start` and
`Launch` are the two halves of `Start`, with the goroutines added after the mutex is released;
`Shutdown` and `ShutdownReturn` the two halves of `Shutdown`. `Close`, `TriggerNow` and the
registry's `Forget` and `Register` happen between any two steps. `svcs` is each loop's cache,
`closes` counts `svc.Close` calls per service.

Abstractions: a service is a number; time is the set `aged` of profiles whose idle timeout has
passed at the tick's `now`, chosen anew each tick among those with a last activity (none, when
idle closing is off); the timer may fire whenever a worker waits. A panic is modelled in the
`Sync` and `Flush` calls, where it would come from. Registering workers before `Start` is the
constant `Loops`.

### `UploadPacking` - `core/vault/upload_staging.go`

State: the sizes of the files taken so far and the groups, each with its files and
`total` (`totalSize`). `Place` takes one more staged file by first fit, as one turn of the loop of
`prepareUploads`; `Accepts` is `tryAdd` with its nested conditions as three alternatives;
`HandOver` ends a flush. Shares of padding are compared as fractions; the code compares the
same quotients as `float64`. `VaultFiles` lets the upload choose any partition of the batch, of
which this one is an instance. The two share no state; `MCVaultFlush` runs the packing beside an
empty vault and the vault with nothing to pack.

### `VaultSync` and `Replication` - `core/vault/sync.go`

Several devices of one vault and the indexer between them. The indexer lists every object once,
by the time of its last event, so an object that changes moves to the end of the list, behind
every cursor, also while a device holds a batch fetched before. A time is abstracted to what
lies before it: `earlier[v]` are the objects whose last event came before that of `v`, and
`cursor[d]` is the set of objects whose last event the saved cursor has passed. `Fetch` reads
a batch, `Apply` handles its next event in one transaction (`Tombstone` for a deletion,
`Record` for an object with metadata, nothing for a bare one), `SaveCursor` ends the pass;
between any two the pass may end early (`FailSync` for a transaction or a save of the cursor that
fails, `Crash` for the whole process with its flush and its `Remove`). Meanwhile a device puts, flushes and removes files (`Put`,
`FlushPin`, `Finalize`, `Remove`, `DeleteObject`) and another client pins objects and stamps
their metadata later (`PinBare`, `Stamp`).

`Replication` is the abstract specification: a set of published versions, and devices that come
to know each of them unless it is withdrawn. `VaultSync` implements it under the mapping
`Abstract` (published and withdrawn by the state of the object, known by the rows).

Abstractions: a version has an object of its own and a fixed path (no shared content, renames or
restored versions; shared content is `VaultFiles`'). The read of a staged row and the pin of its
object are one step, as are the look-up and the tombstone of `Remove`. One `Sync` and one flush
of a device run at a time. A delete event carries no metadata. Tags are `VaultTags`'.

### `VaultTags` - `core/vault/vault_service.go`

One durable file: the tags in its object's metadata (`sealed`) and in each device's join
(`tags[d]`). `Resolve`, `FetchObject`, `Seed`, `Pin`, `Persist` are the steps of
`resolveTagsChange`, with `Applied` for what the three operations make of the current tags;
`Remove` and `DeleteObject` the two halves of `Remove`; `Fetch`, `Apply`, `SaveCursor` a `Sync`
for this object. `Abort` and `Interrupt` end a call or a pass early, by an error or a crash.
Case, order and `used_at` of tags are left out. `overlapped` records that two tag changes were
ever between their fetch and their end at the same time, `outdated` the devices that hold an
event older than the object.

### `Provisioning` - `core/vault/provision.go`, `registry.go`, `registry_lock_unix.go`

Any number of processes, each in one call: `Create`, `Restore`, `CreatePending`,
`RemoveProfile`, `SetDefaultProfile`, `MarkSeedRetrieved`. The files are the registry
(`registry`, with the VaultID, the KeepSeed mark and the default), and per profile
`recovery.seed` (`seed`), `state.json` (`state`) and `cache.db` (`dbs`, and `rows`, the
vaults whose files it lists). `lock` is the registry lock. One action per file operation, one for
taking the lock with the reads and checks that follow it, one for the approval and one for the
cache rebuild; `Crash` between any two drops the lock and leaves the files. `Faults` names the
calls that may fail. A write of the registry or of `state.json` may also fail after
its rename, when the permissions cannot be restricted: the file is then the new one and the
caller gets an error (`"chmod"`). `os.Remove` of a seed may fail (`"unlink"`): `Create` and
`CreatePending` then leave the seed of their failed attempt, a restore reports success with its
consumed seed still there, and the reconciliation removes any part of the seeds it should,
all because the code ignores the error. A read, a `MkdirAll`, the first write of a seed or the lock
that fails has no kind of its own: it leaves the files as a crash at that step does or, in `Create` after
its seed is written, as a failed approval does. A file that is only partly written is left out.

A mnemonic determines its vault, so a seed and an app key are both identified by their vault.
`leftDir` records the directories that a forget cut short left behind, `leftSeed` the seeds that a
restore left because it was cut short or could not remove them. `MarkSeedRetrieved`
has no caller outside tests in this tree; it is modelled for its intended use, on a profile
that keeps its seed. `AddProfile` is called by tests only and is left out.

### Proof and instance modules

`FlushManagerProofs`, `VaultTableProofs` and `VaultFilesProofs` (which extends it; both are about
`VaultFiles`), `ServiceLoopsProofs`, `ProvisioningProofs`, `VaultSyncProofs`, `VaultTagsProofs`
and `UploadPackingProofs` hold the theorems; see section 4.
The `MC` modules instantiate the specifications for TLC.

## 3. Runs

| Run | Instance | Shows |
|---|---|---|
| `flush_manager` | 1 profile, 2 callers, 3 jobs | all safety, action and liveness properties of the flush manager. Profiles share only `Close`, so one profile with a second request racing the first and a third queued behind a running one covers the interactions |
| `flush_refused_job` | 2 jobs | **violated**: `Enqueue` may refuse a job that a worker is running |
| `vault_files` | a path in a directory and one in the root, 1 content, 2 clients, 1 flushing process, 2 rows | the safety properties under every fault. Two rows are two writes of one path, two paths with equal content, or a file and its restored version; one content is the case in which paths share an object |
| `vault_flush` | 1 client; up to 5 files of sizes 0 to 6, slab 4, group limit 10, waste 20 % | every staged write becomes durable once faults stop; packing takes every file once and keeps groups within their limit |
| `vault_root_put` | 1 root path | **violated**: the loser of two first writes fails |
| `vault_remove_restore` | 1 path | **violated**: a late delete removes a referenced object |
| `vault_verify_put` | 1 path | **violated**: a staged version is marked durable |
| `service_loops` | one sync loop, one upload loop, 1 profile, 2 services | the loops against `Close`, `Shutdown`, `TriggerNow` and profiles that come and go. The loops share only the scheduler and the registry and each keeps its own cache, so one of each kind covers the interactions; the second service is the one rebuilt after the first was closed |
| `provisioning` | 2 processes, 2 profiles, 2 vaults (one made on another machine), every kind in `FaultKinds` | the safety properties of provisioning. Two processes are the two sides of every race for the lock or a file; the vault made elsewhere is the one restored under two names |
| `provision_seed` | 2 processes, 1 profile, 2 vaults, no faults | **violated**: two concurrent `Create`s cross their seeds |
| `vault_sync` | 2 devices, 2 versions of one path (one written by a device, one by another client), batches of 1, 1 failed pass or crash | the safety of syncing and the refinement of `Replication`. With batches of 1 a pass ends behind every event, so that the list changes between any two; batches of 2 and two writing devices have been checked as well, and pass |
| `vault_tags` | 2 devices with a client each, 2 tags, 3 changes of the object | tags against each other, `Sync` and `Remove`. Three changes are two tag changes and a deletion, or a tag change pinned after it |

**Properties of the flush manager.** `DoneClosedOnce`, `NoLostWakeup`,
`SequentialPerProfile`, `QuiescentAfterJoin` (a shutdown that joined leaves no goroutine, open
job or service), `GivingUpResolvesJobs` (action property: when a shutdown that timed out has failed
the stuck jobs, every accepted job is resolved except one that is popped and not yet visible as
`w.active`), `StuckWorkerKeepsService` (a flush that shutdown gave up on keeps its service),
`FailedIsFinal` (action property), `CloseReturns` and `EveryJobSettles` (liveness).
`StuckWorkerKeepsService` speaks of jobs that `failStuckJobs` has failed. A worker that had popped its
job but not yet activated it when the timeout came is treated differently by the code: the sweep at
`flushmgr.go:362` sees no active job, so it may close the service this worker is about to use.

**Properties of the files.** `AcceptedBytesKept` (until a row has an object key its buffer
is named and on disk), `WaitingRowIsFlushed` (a row that says staged or flushing is one the next
flush takes), `LastWriteWins`, `OneIdentityPerPath`, `NoOrphanedObject`, `EventuallyFlushed`
(liveness).

**Properties of the loops.** `NoLeakedService` (what is open is in the cache of a loop that
is not closed), `ClosedOnce`, `DrainsOpenService` (only `Close` takes a service from the tick
that drains it), `NoWorkAfterShutdown` (also of a worker launched late), `ShutdownReturns` and
`ForgottenIsClosed` (liveness).

**Property of packing.** `PackingIsSound` (each staged file is in one group, once; a group
never takes more slabs than the limit or than its first file needs).

**Properties of provisioning.** `OneVaultOneProfile`, `ActiveHasItsKey` (an active profile has
its database, and its app key is that of the vault the registry names), `NoForeignRows` (the
cache lists files of the profile's own vault only, unless a cut-short call left another
vault's), `ConsumedSeedGoes` (a consumed mnemonic stays on disk only
while its restore is still to remove it, or if that restore was cut short or could not remove it, and
then only until a reconciliation can), `OnlyForgetRemoves` (action property: no writer saves a stale
snapshot over an active profile).

**Properties of syncing.** `OneWinner`, `NothingSkipped` (what a saved cursor has passed has a
row), `Converged` (devices that have caught up show the same version of every path from which
nothing was removed), `NoDeadWinner` (a device that has caught up shows no file whose object is
gone), `Delivers` (refinement of `Replication`, its liveness included: what stays published
reaches every device). The two restrictions are the code's: when a version is removed,
a device that had demoted an older one shows nothing at the path while a device that only then
starts to sync shows the older one, so removed paths are excepted from `Converged`; and a delete event that reaches a device between its own pin and
`finalizeDurable` finds no row by object key and is passed, although `sync.go:95` wants every
live alias tombstoned, so `missed` is excepted from `NoDeadWinner`.

**Properties of tags.** `TagsFollowObject` (a device that has caught up shows the tags of the
object) and `NoLostTag` (action property), both while no two tag changes overlap. Without that
condition TLC refutes them: two overlapping changes lose the tags of the first; and a change
whose join is written after the device has synced the tags of a later one leaves the old tags
in the join with nothing left to sync, although `vault_service.go:1966` says that the join is
"never an independent authority". The model also shows that a tag change under way pins again
an object `Remove` has just deleted, after which the file comes back, and that the fallback
to the join when an object has no tags brings removed tags back.

**Fairness.** `FlushManager`: weak fairness of each request, each worker and `Close` -
the Go scheduler runs every runnable goroutine, and the shutdown timer fires - but none of
`Flush`, which waits for the network: `CloseReturns` must hold without it, and
`EveryJobSettles` names it as its hypothesis. Nobody has to call `Enqueue` or `Close`.
`VaultFiles`: weak fairness of each flush process (the upload loop keeps ticking and calls
`Flush`), of operations under way, and of `FaultsStop`; clients never have to start anything.
`ServiceLoops`: weak fairness of each worker, of the launch of a worker and of the end of
`Shutdown` (runnable goroutines run), and of each `Sync` or `Flush` call (its context is
cancelled by `Shutdown`, so it returns); strong fairness of `Exit`, because Go's select chooses
at random among its ready cases and cannot pass over a cancelled context for ever. That a backlog ends
(strong fairness of `SyncLast`) is not assumed: `ShutdownReturns` must hold without it, and
`ForgottenIsClosed` names it as its hypothesis.
`VaultSync`: weak fairness of a device's sync steps (the sync loop ticks, and a pass goes on
unless the process dies); nothing has to be written, flushed or removed. `Provisioning` and
`VaultTags` state safety only: a process waits for a human as long as it takes.

**Bounds.** `MaxJobs` bounds `m.seq`, `MaxRows` the table. An operation that would insert a row
starts only if there is room for it and for every one under way. `MaxServices` bounds the
services built; at the bound building fails, as it may anyway. `maxAdoptRetries` is the
code's own constant. `MaxCrashes` bounds the failed passes and the deaths of a process in `VaultSync`, `MaxChanges` the changes of
the object in `VaultTags`. The packing constants are 40 MiB, 1 GiB and 10 % in the code; slab 4,
limit 10 and 20 % keep the cases apart (a limit inside a slab, files smaller than, equal to and
larger than a slab, padding on either side of the tolerated share). "Caps the total bytes" in
`upload_staging.go:33` is exact only up to the end of the group's last slab. Deadlock is not checked: the systems rest when no one calls.

Every property of a passing run is broken by a mutant of a mapped definition: a dropped
shutdown check, an unbuffered wake channel, a buffer removed before the commit,
references counted before the tombstone, and so on.

### Findings

1. `flushmgr.go:129`: the comment says a job refused by `ensureWorker` was already failed by
   `Close`. If another request creates the worker first and the worker pops the job before
   `Close`, the job is running and `Enqueue` still returns `ErrVaultClosed`.
2. `upload_staging.go:372`: `stagedAdopt` skips paths in the root directory, so the loser of two
   concurrent first writes there repeats the same colliding insert four times and fails. The
   test that requires both to succeed runs without a staging directory.
3. `vault_service.go:1222`: `Remove` deletes the object after its transaction without looking
   again; a restore that commits in between keeps a row whose object is gone.
4. `vault_service.go:986`: after a successful verify, `clearLostStatus` looks the path up again
   and marks the row it finds durable, also if that is a version staged in the meantime.
5. `provision.go:351`: `Create` looks for a seed, writes its own and on failure removes it by
   name, all without the lock that `CreatePending` takes for this reason. Of two concurrent
   `Create`s of one profile the one that commits may be left with the other's mnemonic as its
   recovery seed, or with none once the other has failed and cleaned up.

Each of these has a theorem that says how far it goes (section 4, "What the findings leave
standing"). Two are not the only way to the same end. A `Put` outside the root directory also runs out of
attempts when the lookups of `stagedAdopt` keep failing, since `upload_staging.go:375` treats that
as no winner, or when a `Remove` took the winner. And a recovery seed is also lost when the registry
has been renamed into place and only the final `chmod` fails: `Create` takes its commit for failed
and removes the seed of a vault that the registry already names. The proof of `SeedIsKept` brought
this to light and excludes it by hypothesis; `provision_seed` runs without faults and shows the first way
only.

Two comments of `syncloop.go` also say more than the code does, without consequence so far: `Close`
(line 421) promises that a later `Tick` rebuilds the services, but `ensureService` refuses once
the loop is closed; and `TriggerNow` (line 118) calls a worker that has not been started a
no-op, but its token is kept and the worker ticks at once when started. `provision.go:511`
speaks of a fresh database, but `OpenDB` opens a `cache.db` that a cut-short call left in the
directory, with the rows of another vault (the exception in `NoForeignRows`).

## 4. Proofs

`FlushManagerProofs` proves, for every set of profiles and callers and every `MaxJobs`, that
`IInv` is inductive (`Invariance`) and from it `TypeOK`, `DoneClosedOnce`, `NoLostWakeup`,
`SequentialPerProfile`, `UnsettledJobHasWorker` (after shutdown began, what is unsettled is in a live
worker's hands; not checked by a run of its own), `QuiescentAfterJoin`, `StuckWorkerKeepsService` and the
action properties `FailedIsFinal` and `GivingUpResolvesJobs`. None of them is
inductive alone. `IInv` adds: a queue holds its profile's queued jobs in increasing order, all
younger than the worker's (`InvQueue`, the reason jobs run in order); what a worker holds
at each step and when it is visible as `w.active` (`InvWorker`, the reason the shutdown sweep
sees a running flush); an unsettled job is in its queue or in its worker's hands
(`InvUnsettled`); how far `Close` has come (`InvCloser`); and who holds a service handle
(`InvService`, the reason a service built while shutting down does not leak). One lemma per
part shows that every action preserves it. Assumptions: `MaxJobs \in Nat`, `Profiles # {}`.

`VaultTableProofs` proves `TypeOK`, `LastWriteWins` and `OneIdentityPerPath` for every set of
paths and contents, every finite set of clients, any number of flushing processes and every
`MaxRows`. Its `TableInv` adds: an operation about to insert a row that does not claim the path's name
carries an identity it read from a version of that path (`AdoptInv`, the reason concurrent writers
converge), a live version has a winner on its path unless a `Remove` took one there (`PathInv`, the
reason a second identity gets in only then), and running operations fit into the table
(`RoomInv`, why rows stay in their type). An operation changes only its own locals
and leaves the table alone, ends the row it resolved, or adds one row, which is its path's only winner
with the largest id: so the winner is always the last write. That the largest
`seq` and the newest winner exist is proved from the library's facts on well-founded relations, that a
fresh identity is left from cardinality.

`VaultFilesProofs` proves, for any number of flushing processes, `AcceptedBytesKept`: `DiskInv` adds
that a row is staged or keyed and never both, that `Remove` ends only keyed rows (`KeyInv`), and that
a flush unlinks only what it has committed (`UnlinksOnlyKeyed`). For one flushing process
(`OneProcess`) it proves `WaitingRowIsFlushed` and `NoOrphanedObject`: what a flush still has to do
is then still staged (`FlushInv`), so it marks and pins only rows that wait for it. The hypothesis is
needed. The flush lock is per process (`upload_staging.go:60`), and with two processes TLC refutes
both: one that took its snapshot before the other finalized a row marks a durable row as
flushing, and pins again an object that a `Remove` has deleted since.
Assumptions of both modules: `RootPaths \subseteq Paths`, `MaxRows \in Nat`, finitely many
clients, some path and some content.

`ServiceLoopsProofs` proves `TypeOK`, `NoLeakedService`, `ClosedOnce`, `DrainsOpenService` and
`NoWorkAfterShutdown` for every set of loops and profiles and every `MaxServices`. Its `IInv`
adds: the caches hold exactly the services that are open, each in one place (`CacheInv`, the
reason nothing leaks and nothing is closed twice); the service a tick drains is the one
its loop caches for that profile (`DrainInv`, since only the tick itself retires and idle-closes);
and after `Shutdown` every worker's context is cancelled (`ShutdownInv`). Assumptions:
`SyncLoops \subseteq Loops`, `MaxServices \in Nat`, `Profiles # {}`.

`ProvisioningProofs` proves, for every set of processes, profiles and vaults and every set of
faults, `TypeOK`, `OneVaultOneProfile`, `ActiveHasItsKey`, `DefaultIsRegistered`,
`NoForeignRows`, `ConsumedSeedGoes`, `LockGuardsSnapshot` and the action property
`OnlyForgetRemoves`. Its `IInv` adds: between the lock and its write a call holds
the lock and its snapshot is the registry (`CallInv`), what it checked under the lock still
holds (`HolderInv`, the reason the checks repeated in `finishRestoreLocked` suffice), and which
directories may hold a database and whose rows (`RowsInv`). Assumptions: the sentinel values are no
vaults, profiles or processes, foreign vaults are vaults and the faults are of the listed kinds.

`VaultSyncProofs` proves, for every set of devices, versions and paths, every batch size and
every number of crashes, `TypeOK`, `OneWinner`, `NothingSkipped`, `NoDeadWinner`, `Converged`, and that every
step of `VaultSync` is a step of `Replication` or a stutter (`SyncReplicates`, the safety
part of `Delivers`). Its `IInv` adds: what the cursor has passed, or will have passed after the
batch, is applied except for the events still in the batch (`AppliedInv`); an event that comes
meanwhile takes its object out of both (`BatchInv`); and rows come from their writer or from
an object with metadata (`WriterInv`). `Converged` needs more (`ConvInv`): the last events of the
listed objects are totally ordered (`OrderInv`); the cursor, a batch's reach and what is applied at
any time are prefixes of that order, and a batch keeps it (`CursorInv`, `PassedInv`, although
events of a batch may be stale); what is gone is gone on a removed path (`RemovedInv`); what a device
has flushed was published (`PublishedInv`); and the winner of a path, once passed, is the last of
what is live and passed there (`WinnerInv`). Two devices that have passed everything then have the
same winner. Assumptions: finitely many versions, each with a path and a writer that is a device or
nobody, `Batch` positive, `MaxCrashes \in Nat`.

`VaultTagsProofs` proves `TypeOK`, `TagsFollowObject` and `NoLostTag` for every set of devices,
clients and tags and every `MaxChanges`. Its `IInv` adds: without overlap the one client past its
fetch holds what the object has (`CopyInv`), and a device that is not behind, or has applied an
event that is still the last one, shows the tags of the object (`SyncInv`).

`UploadPackingProofs` proves `PackingIsSound` for every slab size, group limit and tolerated
waste and for any number of files of any sizes. Its `PInv` adds the types and that every group has
a first file; the argument is that what a group accepts beyond the limit fits the padding
of its last slab, so it costs no slab (`AcceptedStaysBounded`). Assumptions: the slab size
and the limit are positive.

**What the findings leave standing.** A run that finds a violation shows that a property fails, not
why it fails only there. For each finding a theorem rules out one thing and proves
the rest:

- `RefusedJobs` (`FlushManagerProofs`): a job that `Enqueue` refuses is failed, unless a worker that
  another request created has popped it; that one has flushed it or still holds it. No refused
  job is left behind.
- `PutAdoptsInTime` (`VaultTableProofs`): as long as no lookup of `stagedAdopt` fails
  (`LookupsSucceed`; everything else may), a `Put` runs out of attempts only in the root directory,
  where `stagedAdopt` looks up no winner, or on a path from which a `Remove` took a version.
  Everywhere else the loser of a race adopts the winner at its second attempt (`RetryInv`).
  `OneIdentityPerPath` needs no such hypothesis: a row that adopts nobody collides on the index.
- `OnlyClearBreaksDurable` (`VaultFilesProofs`): if `clearLostStatus` marked only rows with an object
  key (`ClearsOnlyKeyed`), every durable row would have one, with any number of flushing processes.
- `OnlyLateDeleteLosesObjects` (`VaultFilesProofs`): if `Remove` looked again before its indexer call
  (`DeletesOnlyUnneeded`), every object that a live row names, or that a flush or restore is about
  to commit, would be pinned unless the network lost it (`NeededInv`).
- `SeedIsKept` (`ProvisioningProofs`): if no other call works on the profile of a running `Create`
  (`Alone`) and the final `chmod` of the registry does not fail, the recovery seed is the vault's
  own and stays until its human retrieves it or forgets the profile, through every other error
  and every crash.

Only model-checked: liveness under fairness (`CloseReturns`, `EveryJobSettles`,
`EventuallyFlushed`, `ShutdownReturns`, `ForgottenIsClosed` and the fairness of `Replication` in
`Delivers`), which is out of the prover's reach.
Every safety property of a passing run, invariants and action properties, is a theorem.

## 5. Not modelled, and the plan

In this order:

1. `VaultFiles` continued: `Get` against the buffer removal, several flushing processes (the
   flush lock is per process), `putImmediate` and its adoption, `ShareAccept`, three rows (the
   `seq` that `VersionRestore` computes before its indexer calls).
2. `VaultSync` continued: shared objects, renames and delete events with metadata; two `Sync`s of
   one profile at a time; `vault_cache_rebuild`, which drops staged rows with the rest.
3. The process-wide registration of the flush manager and the MCP server's start and shutdown
   order over it and `ServiceLoops`; `ServiceLoops` over `Provisioning`, where a profile is
   forgotten and provisioned again under a cached service.
4. Catalog policy, admin token provider, transfer's download, upload sessions, configuration
   save.

Left out for good: REST wrappers, rendering, user interface, operating-system service
managers and test harnesses (I/O around single calls), SQL text and full-text search, and the
dormant staging limit (`WithDiskUsageLimit` has no caller, and without it `addDiskUsage` returns
at once).

The modules cover a small share of the repository's lines. Most of these lines are operation
descriptors, REST clients, argument decoding, formatting, mocks and user interface, where one
request makes one call and nothing is left to interleave. What keeps state and runs concurrently
is in `core/vault`, and there the modules follow the code.
