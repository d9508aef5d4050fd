# A formal model of WorldScript Studio

WorldScript Studio is a writing application that runs in the browser and in a
Tauri shell. In the browser its library lives in IndexedDB, may be encrypted at
rest, and is saved by several writers in several tabs; on the desktop it is a
directory that several windows share. Heavy work goes to a pool of worker
threads. This directory holds TLA+ models of those parts, the TLC runs that
check them on small instances, and proofs, checked by TLAPS, of what matters
most. `PROJECT.json` maps every definition to the lines it models and lists
runs, findings, hazards and theorems. Paths below are relative to the
repository.

1. [The system](#1-the-system) – components, hazards, what makes each correct
2. [The models](#2-the-models) – module by module
3. [The runs](#3-the-runs) – what is checked, bounds, fairness
4. [What the runs found](#4-what-the-runs-found)
5. [The proofs](#5-the-proofs)
6. [What is not modelled](#6-what-is-not-modelled)
7. [Plan](#7-plan)

## 1. The system

| Component | Code | State it keeps | Operations | What is hard about it |
|---|---|---|---|---|
| At-rest encryption | `services/storage/storageEncryptionService.ts`, `encryptionMigration*.ts`, `protectedStoreMigration.ts`, `primaryProtectedStore*.ts`, `idbPassphraseSentinel.ts`, `hooks/useIdbUnlockStartupGuard.ts` | durable: journal, sentinel, salt, records; per tab: session key, sentinel cache, recovery modal | setup, unlock, lock, disable, rotate, resume | a saga over several transactions, several tabs, crashes between any two writes, a lease that is a clock, writers that never stop |
| Protected-write admission | `services/storage/protectedWriteAdmission.ts` | shared count, exclusive flag, waiters (or `navigator.locks`) | `withProtectedWriteAdmission`, `withMigrationAdmission` | hand-over while the waiter's continuation has not run yet; starvation either way |
| Worker bus | `packages/worker-bus/src/` (bus, pool, queue, breaker) | queue, pending tasks, attempts, pool entries, breaker per task type | enqueue, cancel, terminatePool, shutdown; pump, watchdog, retry, worker crash | stale answers, a task settled from five places, wake-ups, pools that die with work in them |
| Persistence coordinator | `app/persistenceCoordinator.ts`, `app/listenerMiddleware.ts`, `app/persistedStateFlush.ts` | one active and one queued save, chains, idle waiters | schedule, supersede, flush | supersession and chains of promises, waiting for idle |
| Reset gate and factory reset | `services/storage/idbResetGate.ts`, `services/factoryResetService.ts` | reset flag, generation, closers, active barrier | admit open, begin/await/end reset, delete, reload | opens in flight when a reset starts; two resets joined into one; saves that go on; a tab that keeps the database open |
| Canonical autosave | `services/projectAutosaveCanonicalWriter.ts`, `services/storage/idbProjectCanonicalAuthority.ts`, `services/editorProjectGeneration.ts` | the project record and its generation marker; per tab: editor epoch, baseline, carrier | load, edit, undo, reset, import, save, migrate | a save merges edits into a stored text that may belong to another project, another tab or another build |
| Desktop project store | `services/fs/projectFsStore.ts`, `services/fs/fsCore.ts` | project file, incarnation token, lock file; per window: baseline | load, migrate, save, auxiliary write, delete, quarantine | windows that hold a project another one saved, deleted or created anew; kills in a locked section |
| Native record commit (Rust) | `crates/worldscript-secure-storage/src/commit.rs`, `durable.rs` | marker chain, record directory | begin and finish a write, reconcile, read | power loss between any two directory operations; not yet wired into the app |
| Others | ProForge pipeline, AI routing, collaboration, service worker, voice, leader election, UI | | | see section 6 and `PROJECT.json` |

How they meet: every protected writer (project, codex, assets, snapshots)
enters the **admission lock** in shared mode, resolves the session key, encrypts,
asks the **journal** whether a migration is active, and puts its record. A
migration batch takes the same lock exclusively. Startup (`App.tsx`, the unlock
guard) reads journal and sentinel and decides between recovery modal, passphrase
prompt and nothing. The listeners of the Redux store put their saves into the
**coordinators**; a running save opens its connection through the **reset gate**
and, for the project, goes through the **canonical authority**, or, on the
desktop, through the **project store**. A factory reset stops the listeners,
drains the coordinators, closes the connections, deletes and reloads. The
**worker bus** serves inference and DuckDB tasks
(`services/workerBusManager.ts`); the app cancels, terminates pools and shuts
down at any time.

What makes the modelled components correct:

* *Encryption.* No record is written under a key that a migration has already
  replaced in that store; checkpoints claim only what was rewritten; the old
  verifier goes only when no record needs it; one tab rewrites at a time; an
  interrupted migration can always be finished.
* *Admission.* Shared and exclusive holders exclude each other; the counters
  describe the holders; nobody is woken for nothing or forgotten; first come,
  first served.
* *Worker bus.* A task is in one place, or settled, once; a worker is owned by
  one attempt or idle; nothing runnable is left waiting; every task settles.
* *Saving and resetting.* A newer save never loses to an older one; a flush that
  returns has saved what it captured; no connection of before a reset is used
  after it; a reset that reloads leaves an empty library; everything ends.
* *Canonical autosave.* A record of another schema version is never written
  over; edits go only into the text of the project they belong to; the text of
  an import survives until its own save. (The last two hold for an epoch that
  named one project; section 4 has the rest.)
* *Desktop store.* A locked section is alone; a window never takes back what
  another window changed, nor writes into another creation of its project; a
  migrated text is kept first. Of a program that does not lock, the re-read
  before each rename leaves one gap, the one between the two.
* *Record commit.* A write is atomic under any fault: committed once its bytes
  and its entry are complete, or rolled back; durable bytes are never deleted;
  a fault makes the record unusable only when a power loss takes bytes that
  were never synced (section 4).

The hazards behind these, each at its line, are in `PROJECT.json` (`hazards`),
with the properties that cover them or the reason why none does.

## 2. The models

### 2.1 `EncryptionMigration`

One action is one IndexedDB transaction or one synchronous stretch between two
awaits. `Tabs` share `journal`, `sentinel`, `salt` and `rec`; each has
`activeKey`, `cached`, `modal`, one running operation `op[t]` (its program
counter, its copy of the journal, its source and target keys) and one writer
`wr[t]`.

| Actions | Code |
|---|---|
| `SetupAdmit`, `SetupSave`, `SetupInstall` | `setupIdbEncryption` |
| `UnlockRead`, `UnlockInstall`, `LockSession` | `verifyAndInitIdbEncryption`, `clearIdbEncryptionKey` |
| `DisableAdmit`, `RotateAdmit`, `Begin`, `BeginRefused` | `clearIdbPassphrase`, `rotateIdbPassphrase`, `beginEncryptionMigration` |
| `Claim`, `Start`, `MigrateNext`, `SaveCheckpoint`, `EndMigrating`, `Verify`, `SaveVerified`, `EndVerifying` | `runProtectedStoreMigration` with the journal's compare-and-swap and the primary adapter |
| `RetireSentinel`, `ClearSalt`, `ReplaceSentinel`, `Complete`, `ClearCompleted`, `Finish` | `commitDisableMigration`, `commitRekeyMigration` |
| `Abort` | an error in any of the above, `releaseOwnership` |
| `Reload`, `Boot`, `Resume`, `LeaseExpires` | a crash or reload, the startup effects, `resumeEncryptionMigration`, the 60 s lease |
| `WriteBegin`, `SentinelSeen`, `WriteCheck`, `WritePut` | `resolveProtectedWriteKey`, `assertNoActiveEncryptionMigration`, `saveSlice` |

Abstractions. A key is the pair of a passphrase and a salt; a record is the key
it is encrypted with. The owner id and lease stamp of the journal's
compare-and-swap are subsumed by the revision, which every save moves. The
lock is `navigator.locks` (external); its in-process substitute has a module
of its own. The feature flag is on. `Verify` of a store is one step. Wrong
passphrases change nothing, except in the resume of a committing journal, where
they do (`Mistypes`). Records are never deleted (all deleters but the unused
`clearPersistentCache` run under the shared lock), so the verification-shortfall,
recovery-required and cleanup phases are unreachable and left out, as is enable,
which nothing in production calls. Some writers resolve when their request
succeeds and not when its transaction commits; IndexedDB orders the
transactions, so the model's single put is the same. A failing call has no
effect on the database.

### 2.2 `ProtectedWriteAdmission` and `FairLock`

The fallback lock used without `navigator.locks`: `Acquire` (claim at once or
queue), `Enter` (a granted waiter's continuation runs), `ReleaseShared`,
`ReleaseExclusive` with `WakeNext` inside them. `FairLock` is the promise: a
set of holders and a queue, served in order. `Implements` is the refinement
(holders are the calls granted or inside, the queue is the waiter list).

### 2.3 `PriorityTaskQueue`, `CircuitBreaker`, `WorkerBus`

The queue and the breaker are pure operators over a function of sequences and a
record. `WorkerBus` composes them with the pools:

| Actions | Code |
|---|---|
| `RegisterPool`, `Enqueue`, `Cancel`, `TerminatePool`/`TerminatePoolEnd`, `Shutdown`/`ShutdownNext`, `GetTelemetry` | calls of the app, split at their awaits |
| `PumpStart`, `Dispatch`, `PumpEnd` | the scheduled microtask and the loop of `pump` |
| `WorkerResult`, `Release`, `Accept` | the answer, the `finally` of `runOnPool`, the rest of `executeAttempt` |
| `Watchdog`, `RetryTimer`, `IdleTimeout`, `Cool` | timers, and the breaker's recovery time |
| `WorkerLost`, `Throw`, `ErrorEvent` | a crash or missing pong, a further exception, its error event |

JavaScript's run-to-completion is in the guards: `App` (no job is running),
`EventLoop` (nor is a microtask due). Time is abstracted: a timer that is set may
fire at any moment. A worker that left its pool has no name any more, since
`entries.find` no longer finds it; a settled task's id may come back as a new
task. So the model has no bound on the length of a run, except for thrown calls
(`MaxFaults`) and extra error events (`MaxErrors`). Task counts, pool
counts, retries and sizes are constants.

Abstractions: how a task was settled is not kept (the scheduler does not look at
it again); progress messages only reset the watchdog; `acquire()` with its
waiters has no caller outside tests; re-entrant event listeners, telemetry
numbers and the dead-letter list are left out. No pool is registered after
shutdown.

### 2.4 `PersistenceCoordinator`, `IdbResetGate` and `SaveAndReset`

The coordinator and the gate are pure operators on a record. `SaveAndReset`
composes them with the listeners, the lifecycle flush, the factory reset and
IndexedDB's queue of open and delete requests, for one tab:

| Actions | Code |
|---|---|
| `Edit`, `ProjectDebounced`, `ProjectSaved`, `IndexProject`, `SettingsDebounced`, `ManualSave` | the listeners and the manual save, split at their awaits; each asks the reset flag where the code does |
| `FlushBegin`, `FlushAnswered`, `FlushDrained`, `FlushVerify`, `FlushReturned` | the lifecycle flush: save both, wait for idle, check every chain in passes |
| `SaveNeedsConnection`, `Opened`, `Commit`, `SaveFails` | a running save and the shared open (`stateDbPromise`) |
| `ResetBegin`, `ResetDrained`, `CloserSettles`, `LateCloser`, `ResetClosed`, `DeletionBlocked`, `Deleted`, `Reload` | `wipeAllAppData` with the gate's barrier |
| `VersionChange`, `OtherTabCloses` | IndexedDB asks connections to close |

Abstractions. The two databases of a tab are one, and the DuckDB mirror is left
to the search index, which has the same coordinator. Modules with a connection
of their own are closers of the barrier. A version is a number that edits count
up. Generations and chain numbers are compared only within a chain and by a
flush, so an idle coordinator counts anew between flushes (`Recycled`).

### 2.5 `CanonicalAutosave`

A project's content is the lineage it belongs to (every reset, import and
restore starts one) and its last edit; what a record's text holds beyond that
(unknown fields, exact number tokens) is named by the lineage the text came
from. A save is `Capture` (the listener reads state, epoch and carrier),
`Dispatch` (it waited in the coordinator), `Evaluate` (the two reads and the
classification of `evaluateOnce`), `Put` (the transaction that compares what was
read), and `Conflict`, `Migrate`/`Migrated`, `LookAgain`, `Saved` or `Fail`. The
editor acts by `Edit`, `Undo` (across a replacement, with redo), `Reset`,
`Import`; a tab by `Load` and `Close`. `OldBuildWrites` and `NewBuildWrites` are
tabs that run another build. All projects have the same id, as a library's
default projects do; generations and raw values are compared by value. An undo
takes the epoch back with the project, so that the next replacement counts the
same number again; the history variable `named` keeps which lineages an epoch
has named in each tab, and `known` and `owed` what the properties compare with.

### 2.6 `DesktopProjectStore`

One project directory and the windows (processes) that edit it. A window runs
one store operation at a time, `op[w]`, whose `step` is its program counter.

| Actions | Code |
|---|---|
| `TakeLock`, `LockRefused`, `Release`, `ReleaseFails`, `Fails` | the lock file: exclusive create, attempts, the `finally` clause |
| `LoadBegin`, `LoadRead`, `LoadRetried`, `LoadAgain`, `LoadLegacy`, `LoadDone` | the editing load, which reads the token on both sides of the text |
| `MigrateAdmit`, `MigrateKeep`, `MigrateReplace` | the migration of a legacy text, kept first |
| `SaveBegin`, `SaveAdmit`, `CreateToken`, `CreateFile`, `SaveReplace` | a save against its baseline, and the creation of a missing project |
| `Recheck`, `RenameRetried` | the `beforeReplace` re-read of a save and of a migration, and the retried rename, each a step of its own before the replacement |
| `AuxBegin`, `AuxAdmit`, `AuxWrite` | binder blobs and codex; images pass the same lock and fence but lie outside the directory |
| `DeleteBegin`, `DeleteAdmit`, `DeleteEntry`, `DeleteDone`, `QuarantineBegin`, `QuarantineMove` | removal entry by entry, and the recovery screen |
| `Retry`, `Restart`, `LockRemovedByHand`, `ForeignWrite`, `Prune` | the user, a kill, a program that does not know the lock, and the pruning of automatic snapshots |

A document is its schema state and its set of edits; a creation is numbered
and its number is its token. A replacement of the whole project is an ordinary
save here; the routing of legacy names, the taking of automatic snapshots and the
active-project marker are left out. Between the last read of the text
(`beforeReplace`) and the rename another program can still write, as
`fsCore.ts` says itself: `Recheck` and `SaveReplace` are two steps, and
`foreign` keeps which edits such programs made. `Prune` deletes kept texts but
not the copy of a migration still on its way: `pruneAutoSnapshots` keeps the
twenty newest, and it is assumed that no twenty are taken meanwhile.
RAG vectors (`codexFsStore.ts`, `saveRagVectors`) are written into the
directory without the lock and without a baseline; they are not modelled, and
the properties do not speak of them.

### 2.7 `RecordCommit` and `AtomicRecord`

An operation (write, startup reconciliation, read) is a list of file-system
steps, `todo`, as the code issues them; between any two a step may fail
(`StepFails`, `StagingFails`, `DropFails`), the process be killed
(`ProcessKilled`) or the power fail (`PowerLoss`). The record directory is three
sets of entries: what programs see, what is surely on disk, what may be; a
directory sync makes them equal and a power loss leaves any directory between
the last two. The bytes of a write are its number, and the page cache keeps what
was written of them when the process is killed: complete and unsynced they are
`stranded`, cut short they are `torn`. `sync_file` makes them `sealed`, and a
power loss before it may take them (`lost`). Programs read `stranded` bytes like
any others, which is why reconciliation adopts them. The marker chain is a
sequence whose last element may not be durable. `AtomicRecord` is the promise: a register with one write in
doubt, which commits or is rolled back, and whose reported values stay. `Atomic`
is the refinement, seen through the durable markers.

Left out: platforms without a confirmed directory sync, the staging names of
markers (no decision reads them), cryptography, key epochs and the exhaustion of
counters.

## 3. The runs

| Run | Instance | What it shows |
|---|---|---|
| `enc_two_tabs` | 2 tabs, 2 passphrases, 1 store of 2 records, batches of 1, a crash, a failing call, a mistyped passphrase | `WriterFence`, `BehindCursorConverted`, `ConvertedAtCommit`, `OneRunner`, `CheckpointsMonotone`, `SentinelKeptWhileNeeded`: writers, crashes and recovery in either tab never break the migration, while a live runner keeps its lease |
| `enc_recovery` | 1 tab, 2 stores of 2 records, 2 reloads, a failing call | a crash or an error at any step: `MigrationFinishes`, `SessionFollowsSentinel` |
| `admission` | 4 writers, 2 migration batches, calling for ever | exclusion, no lost wake-up, no starvation, refinement of `FairLock` |
| `bus_tasks` | 2 tasks (normal, low), 1 pool of 1 worker, queue of 1, 1 retry, 1 thrown call, 1 extra error event | `OnePlace`, `BusyMeansOwned`, `NothingRunnableWaits`, `EveryTaskSettles` |
| `save_and_reset` | 2 overlapping autosaves, a manual save, a flush, 2 resets; 2 retained chains, 2 passes, 3 user events or failures | `NoStaleConnection`, `ResetLeavesNothing`, `TornDownBeforeDeletion`, `FlushMeansSaved`, `NeverOlder`, `EverythingSettles` |
| `canonical_autosave` | 2 tabs and two other builds on one record, 4 events | `StoredVersionRespected`, `MergesOwnText`, `ImportKeepsText` |
| `desktop_store` | 2 windows, 2 load attempts, 2 edits, 3 events (deletions, auxiliary writes, kills, failures, foreign writes) | `LockHeld`, `NoSilentRevert`, `OwnCreation`, `LegacyTextKept` |
| `record_commit` | 3 writes, 3 faults | `CommittedWhole`, `NeverStuck`, `NeverDeleted`, refinement of `AtomicRecord` |
| `enc_late_write`, `bus_probe`, `canonical_epoch`, `record_unsynced` | smallest instances | the four disagreements of section 4 |

Why the bounds are enough. *Encryption*: two records make a batch end in the
middle of a store, two stores make a migration end one store and start the next,
two tabs are what the lease and the revision are about, one reload can fall at
any step; the invariants are also proved for all sizes. *Admission*: two
exclusive requests with writers before, between and behind them is every shape
the wake-up loop tells apart; exclusion and refinement are proved for any number. *Bus*: one worker and a queue of one make two
tasks compete for everything. The retry limit and the threshold enter only by
comparison, so 1 stands for any number that is reached;
the invariants are proved for any. *Saving*: two autosaves
overlap as more would (one saves, one waits, a third supersedes); two resets
join a barrier or follow each other (the two properties about resets were also
run with three, and are proved for any number); a history of two chains is short
enough to be outrun by a flush. *Autosave*: a replacement, a save that began before it, its
failure or conflict, and an undo or another build fit into four events (import,
undo, import, save take three); tabs meet only in the record, so two are enough;
all three properties are proved for any number. *Desktop*: one window loads, the other deletes and creates or edits,
a third party or a kill interferes; proved for any number. *Record*: a write over a
committed one, a fault in it, a fault in its reconciliation and one in the next;
proved for any number of both.

Deadlock is not checked where the system may rightly stop: in the encryption
runs the budget of reloads ends (two tabs both waiting for an unlock need one),
a bus that was shut down and a page that was reloaded are finished, and an
autosave whose events are spent rests. `admission`, `desktop_store` and
`record_commit` check it.

Fairness. `EncryptionMigration`: each runner, writer and startup step is weakly
fair (promises settle), the lease is a clock, the user answers the recovery
modal, and `MigrateNext` is strongly fair since the lock queue is first come,
first served while writers keep coming. `ProtectedWriteAdmission`: a granted call
enters and leaves, as `withFallbackAdmission` runs `fn` in `try/finally` and no
caller waits for the user inside. `WorkerBus`: only the timers are fair, the
watchdog or retry timer of a task strongly, since a due timer stays in line while
other jobs go first. That a job and its microtasks come to an end is the premise
of `EveryTaskSettles` (`[]<>EventLoop`): a chain of microtasks without end starves
timers in any browser. Workers owe nothing. A worker that reports progress for ever postpones its watchdog for
ever; fairness of the watchdog says that it does not. `SaveAndReset`:
continuations run, IndexedDB answers its queue, a closer settles, the three
seconds of a blocked deletion pass, and another tab closes its connection when
IndexedDB asks it to (its `onversionchange`; without that an open behind the
blocked deletion would wait for ever). Nothing makes the user act, and no
debounce has to end.

Each property of a passing run has a mutant of the code model that breaks it
(`mutants`), beside the definition it replaces.

## 4. What the runs found

1. **A write under the old key after the commit** (`enc_late_write`,
   `RecordsReadable`). A commit clears the journal before the tab drops its old
   key, and takes no lock; a writer in that window saves a record nobody can
   read. `WriterFence` shows that no record lands while a migration rewrites the
   store; the late write comes after it. A tab whose clear fails keeps the old
   key in the same way (H9).
2. **A circuit breaker that never closes** (`bus_probe`, `TestRequestPending`).
   `enqueue` takes the only test request of a half-open breaker before it
   asks the queue; a task that is then refused, or cancelled before its answer,
   never gives it back, and the task type stays refused.
3. **Two projects with one epoch** (`canonical_epoch`, `EpochDistinguishes`). The
   editor's epoch is part of the undoable slice: a reset, an undo and another
   reset, or the same with imports, give the second project the epoch of the
   first, and its save is merged into the text of the first.
4. **A committed write that was never synced** (`record_unsynced`,
   `CommittedDurable`). A process killed before `sync_file` leaves a whole staging
   file in the page cache; the next reconciliation reads it, adopts it and
   commits it, but syncs only the directory. A power loss then takes a committed
   generation, and the record asks for recovery.

Behaviour met on the way that no run exhibits, each with the hazard it belongs to:

* A lease that runs out on a live runner lets two tabs rewrite; `WriterFence` is
  proved without the lease, `OneRunner` needs it.
* A crash between completing and clearing the journal leaves a `completed`
  record that silences both startup prompts: a locked library nobody asks about.
* A second error event of a replaced worker spawns one beyond `maxWorkers`.
* On the resume of a rotation in `committing`, a mistyped old passphrase passes
  for proof that the sentinel was already replaced
  (`storageEncryptionService.ts:857` and `:878`): the journal is completed and
  the sentinel still verifies the old key. The model does this with
  `Mistypes = TRUE`; the properties of `enc_two_tabs` hold all the same.
* Two ways to lose a verifier that records need are left out of
  `SentinelKeptWhileNeeded` by name. The resume of a commit takes no lease: a tab
  whose journal is no longer the stored one may still retire or replace the
  sentinel after another tab has finished. And two tabs that set a passphrase
  at once both find no sentinel, and the second overwrites the first.
* A clear of the journal that fails after the sentinel is gone leaves the old
  session key and a completed journal, so that writes under that key are
  admitted. `SessionFollowsSentinel` speaks of a library without a journal.
* The save that creates the record of an empty library builds it from the
  editor's project and does not look at an imported text
  (`projectAutosaveCanonicalWriter.ts:243`, against `projectImportCarrier.ts:4`);
  `ImportKeepsText` is about saves that find a record.
* Epochs are counted per tab: a tab that still edits the old project takes the
  text another tab imported for its own.
* A reset that fails lifts the flag of another one that is still at work, and a
  third one may raise it again with saves of the gap under way (three resets show
  this). `ResetLeavesNothing` is therefore about resets that no failing one cut
  across (`Undisturbed`). The closers a deletion waits for are those of its own
  barrier and of earlier ones, not of a barrier that began later.

## 5. The proofs

`EncryptionMigrationProofs`, for any number of tabs, stores, records, batch size
and bounds:

* `TypeCorrect`.
* `FenceHolds` (`WriterFence`), with leases that may run out at any time. The
  invariant alone is not inductive: a writer's fence depends on what tabs with an
  old journal copy may still save. `FenceInv` adds `JournalInv`: every copy of
  the journal in an operation or a modal makes sense by itself (`Sound`: what its
  phase says of its checkpoints) and is never ahead of the durable one
  (`Agrees`: equal revisions mean equal contents), and each program counter
  holds a copy in the phase it needs.
* `OneRunnerHolds`, `ConversionHolds` (`BehindCursorConverted`), `CommitHolds`
  (`ConvertedAtCommit`), under `LiveLeaseExpiry = FALSE`. `RunnerOwns` says that a
  runner holds the current copy and its live lease; `BatchConverted` covers the
  batch that was rewritten and not yet recorded. The assumption is needed: with
  leases that run out on live runners two tabs rewrite at once.
* `ProgressIsKept` (`CheckpointsMonotone`), without any assumption: the
  compare-and-swap alone, through `Agrees`, keeps a stale copy from being saved.
* `VerifierIsKept` (`SentinelKeptWhileNeeded`), for any number of tabs, with
  mistyped passphrases, failing calls and crashes, under
  `LiveLeaseExpiry = FALSE`, which it has from `CommitHolds`. `Faithful` says that
  what an operation is about to do with the sentinel is what its journal says;
  while that journal is the stored one, `Agrees` makes it committing, and
  `ConvertedAtCommit` says what the records are.

`ProtectedWriteAdmissionProofs`, for any finite set of callers: `AdmissionTypes`,
`AdmissionExclusion`, `AdmissionNoLostWakeup`, and `AdmissionImplementsFairLock`, the
refinement of `FairLock`. The invariant `Inv` adds to the two properties that the
line holds each waiting call once and nobody else.

`DesktopProjectStoreProofs`, for any windows and any bounds: `StoreTypes`,
`LockIsHeld`, and the three action properties, `Fence` (`NoSilentRevert`),
`CreationKept` (`OwnCreation`) and `LegacyKept` (`LegacyTextKept`). What a save may
do is decided when it is admitted, steps before it writes, while other windows
load, edit and are killed and foreign programs write. `IInv` therefore says, for
each window, `Private(w)`: what its operation, baseline and editor say of each
other whatever others do (a window that knows a text holds at least its
edits); and `Section(w)`: what it may rely on of the disk because it holds the
lock (the token has not moved since it was admitted; a creation finds no
file). `LockHeld` makes the second survive the steps of other windows, and
`TokenOfProject` ties the token on disk to the creation of the file, which is what
lets equal tokens stand for the same creation even where texts are equal.
`Reread` says that an operation about to rename found the text it was
admitted with. What the theorems then claim is exact about the gap after that:
the edits of other windows are never dropped, and those of a program that does
not lock only if they fell between the re-read and the rename; `LegacyKept`
likewise.

`CanonicalAutosaveProofs`, for any tabs and any number of events and without
assumptions: `AutosaveTypes`, `VersionRespected` (`StoredVersionRespected`),
`EditsMergeOwnText` (`MergesOwnText`) and `ImportsKeepText` (`ImportKeepsText`).
`Bounded` counts epochs and versions against events; `Ready` says of a migration in
flight that if the record is still the one it read, no marker has appeared beside
it, so that the comparison in the transaction is enough. `LInv` says what an epoch
is good for. The properties are about saves whose epoch has named one lineage in
its tab (`OneLineage`): undo and redo across replacements, conflicts, migrations
and late saves are all in, and what is out, an epoch that an undo made name a
second project, is what the run `canonical_epoch` shows. Under that condition the
editor, its undo and redo, a save in flight and the baseline with the same epoch
are of one lineage, and the carrier of an import that has not been committed
holds the admitted text under an epoch the baseline does not have.

`SaveAndResetProofs`, for any autosaves, resets, verification passes and bounds:
`ConnectionsAreCurrent` (`NoStaleConnection`), `SavesLandInOrder` (`NeverOlder`) and
`FlushIsSaved` (`FlushMeansSaved`). The first needs only the types of the gate. For
the second each coordinator is `Sound`: versions are ordered from the one written
through the active and the queued save to the newest edit, and only the last
chain of saves is open, exactly while one is active. The third adds what holds
while a flush waits: the chains it watches begin at or before its own save, so the
latest save among them is at least as new as what it captured (`Covered`), and
what a pass has seen is kept, the settings it verified verified (`Passing`).
This is why the flush may trust a chain that began before it, and why a
superseded save alone proves nothing.

The same module proves, again for any number of resets, `ResetsLeaveNothing`
(`ResetLeavesNothing`), `ClosersSettleFirst` (`TornDownBeforeDeletion`) and
`SaveTypes`. `ResetInv` follows the resets: `Barriers` (only the newest barrier has
closers that are still to settle), `Resetting` (the gate is shut while a reset
deletes) and that the library stays empty once one has deleted, the last two as
long as no reset has failed across another (`Clean`). `WipeInv` joins it with the
invariant of the saves. Both properties had
to be restated before they could be proved: TLC refuted their first form with
three resets, though not with two.

`RecordCommitProofs`, for any number of writes and faults and without
assumptions: `RecordTypes`, `BytesKept` (`NeverDeleted`), `CommitsAreWhole`
(`CommittedWhole`), `FaultsNeverStick` (`NeverStuck`) and `ImplementsRegister`
(`Atomic`): every step is a step of `AtomicRecord` or a stutter. `IInv` has five
parts that hold of every state: `Chain` (every prefix of the markers states a legal
authority), `Scalars`, `Directory` (how the three views of the directory agree, and
that a committed generation is on disk), `Stage` (where in its list of steps an
operation stands and what it knows there) and `Sealed` (what is under the name of
a generation was complete when it was put there). The last, `Safe`, says of the
names of a write in doubt that they never disagree in a way that stops the next
reconciliation; it holds until a power loss takes bytes no sync had forced out
(`Lost`), and so does `NeverStuck`. That committed bytes are on disk is not proved,
since it is not so: it is disagreement 4 of section 4.

`WorkerBusProofs`, for any tasks, pools, workers, retries and faults: `BusTypes`,
`TasksKeepOnePlace` (`OnePlace`), `WorkersAreOwned` (`BusyMeansOwned`) and
`PumpIsNeverForgotten` (`NothingRunnableWaits`). `IInv` is stated over values, so that
what a helper does to a queue or to a set of attempts is a lemma and an action
only combines lemmas: `TaskSide` (a pending task is in one place, no two attempts
have the same task and number, a task passed over often enough is not low any
more), `Owned` and `InTime` (a busy worker belongs to one attempt that is in time),
`Bounded` (a pool outgrows `maxWorkers` by at most the extra error events) and
`WorkSide` (unless a pump is due or under way nothing queued can run).
`NothingRunnableWaits` speaks of runs in which no `new Worker` has thrown. `BusOK`
assumes enough names for the workers of a pool, `maxWorkers` and one for each extra
error event, since in the code a worker needs no name.

Recursive functions (the authority a chain of markers states, the filters and
scans of the queue) are unfolded by well-founded induction on their length, with
the library's `WFMin` (`Least`, in both modules).

The proofs rest on the named assumptions of the modules about their constants
(`ConstantsOK`, `StoreAssumption` and the like), which TLC evaluates in every run.

Checked by TLC only: the four liveness properties (`MigrationFinishes`,
`EveryWaiterEnters`, `EveryTaskSettles`, `EverythingSettles`), which are beyond this
prover, and `SessionFollowsSentinel`. Every other invariant, action property and
refinement of a passing run is proved, under the assumptions named above where
there are any.

## 6. What is not modelled

`PROJECT.json` lists every component with its reason. In short:

* Secondary protected stores follow the protocol of the primary ones with other
  record layouts; the other IndexedDB stores are formats and queries behind the
  same writer.
* Of the Redux listeners only the project, settings and index ones are
  modelled; codex, DuckDB, analytics and local-first listeners have no
  coordination of their own. The desktop branch of the factory reset is left out.
* Of the desktop files, legacy name routing, the taking of snapshots, settings,
  assets and RAG vectors are left out; of the Rust storage crate, everything but the commit of one record
  (authority root, catalog, admission, key provider, migration journal), which
  is large and not wired in yet; the native project format is schema
  validation.
* AI calls and prompt assembly, rendering, Yjs/WebRTC and the service worker's
  caches are data or other people's code.
* Tab leader election, voice ownership and the ProForge pipeline could be
  modelled and are left for later (section 7).

Hazards without a property are in `PROJECT.json` with the reason in their
`note`: a completed journal that silences both startup prompts, a worker spawned
beyond `maxWorkers`, a failing reset under another one, a rolled-back first write
whose candidate reappears, and epochs of two tabs.

## 7. Plan

Done: `EncryptionMigration`, `FairLock` and `ProtectedWriteAdmission`,
`DesktopProjectStore`, `CanonicalAutosave`, `PersistenceCoordinator`, `IdbResetGate`
and `SaveAndReset`, `PriorityTaskQueue`, `CircuitBreaker` and `WorkerBus`,
`RecordCommit` with `AtomicRecord`, each with proofs of its invariants and action
properties.

Next, in this order:

1. An abstract task service (accepted, then settled once) refined by `WorkerBus`;
   `IInv` of `WorkerBusProofs` is what the steps need.
2. `SessionFollowsSentinel` for any bounds, which needs an invariant of one tab's
   commit, its modal and its key.
3. Leader election; the voice session, where a stop that comes while the
   microphone is being opened (`voiceActivityCoordinator.ts:56`) finds nothing to
   close; the ProForge pipeline.

Runs are kept few: a new module joins an instance with the one it composes with.
