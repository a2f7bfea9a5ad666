# Aerospike Backup Service in TLA+

Specifications of the service in `src/`: what its parts do, model-checked with TLC, and theorems about them checked
with TLAPS. `PROJECT.json` lists the runs, the mutants that show each property can fail, the source lines each
definition models, the hazards and the findings.

    tlc -config KeepAll.cfg MCBackupRoutineHandler      # a run: its module and cfg are in PROJECT.json
    tlapm BackupRoutineHandlerProofs.tla                # the proofs of a module

## 1. Inventory

| Component | State | Operations | Talks to |
|---|---|---|---|
| `backupJob` (`pkg/service/backup_job.go`) | `isRunning` per routine and kind | `Execute`, from quartz or an ad-hoc request, each in a goroutine of its own | handler |
| `BackupRoutineHandler` (`backup_routine_handler.go`) | maps of running backup-go handlers, `BackupState` | `runFullBackup`, `runIncrementalBackup`, `GetCurrentStat` | retry service, backend, client manager, backup-go, storage |
| `RetryService` (`retry_service.go`) | a mutex, one `time.Timer` | `retry`, `clearTimer`, the timer's function | calls `runFullBackupInternal` |
| `BackupState` (`pkg/model/backup_state.go`) | `LastFullRun`, `LastIncrRun` | setters, `LastRun` | read by the scheduler and the incremental backup |
| `BackupBackend` (`backup_backend.go`, `paths.go`) | the atomic `fullBackupInProgress`; the storage | write metadata, listings, `FindLastFullBackup`, `readState` | storage; read by restores and HTTP |
| `ClientManager` (`client_manager.go`) | clients by cluster with a count | `GetClient`, `Close` | backups and restores of all routines |
| Scheduler (`backup_scheduler.go`, `backup_backends_holder.go`) | quartz jobs, `jobStore`, backends by routine | `ScheduleBackup`, `ApplyNewConfig`, ad-hoc jobs | creates handlers and backends |
| Restore (`restore_data.go`, `jobs_holder.go`) | jobs with status and handlers | `Restore`, `RestoreByTime`, `JobStatus` | backends, client manager, the configuration |
| Configuration (`pkg/model/config.go`, `internal/server/configuration`) | clusters, storages, policies, routines, secret agents, and the file they are kept in | add, update, delete, write, apply | HTTP handlers; scheduler |
| HTTP (`internal/server`) | a limiter per address | the handlers | everything above |
| Metrics (`metrics.go`, `estimates.go`) | gauges | a ticker goroutine reads every handler map | handlers, restore jobs |

What is hard: every job, timer, restore, HTTP request and the metrics ticker is a goroutine; backups of one routine
share folders, a flag and two times; any call of the cluster or the storage may fail; retries carry the time of the
execution that failed; the process may stop anywhere and rebuilds its state from what it finds in the storage; a
configuration is applied while jobs of the old one run.

What makes the parts correct:

* retry service: serial attempts, a bounded number of them, no timer that cannot be cancelled, every call ends;
* routine handler: the flag is set exactly during an attempt; every update is in a backup that a restore applies;
  `LastFullRun` and `LastIncrRun` are times of backups that were performed and do not go back; a partial backup does not count;
  every job ends;
* client manager: counts equal users; no use after close; no leak; one connection per cluster;
* restore: a job ends as done exactly if every namespace was restored from its whole chain;
* scheduler: after a configuration was applied, backups start with the new handlers only, and all jobs of a routine
  share one; one full backup of a routine at a time, across generations of its handler, which the code does not keep;
* configuration: no dangling reference; the file is the last change, and loads.

## 2. Plan

Done in this order, the most important behaviour first:

1. `SerialAttempts` (abstract), `RetryService`, `RetryServiceProofs`.
2. `BackupRoutineHandler`, which composes `RetryService` with the two jobs, the state and the storage;
   `MCBackupRoutineHandler`; `BackupRoutineHandlerProofs`.
3. `ClientManager`, `ClientManagerProofs`.
4. `BackupChainProofs`: `LastFullRunPerformed` and `ChainUnbroken` as theorems for the unsealed KeepAll policy without
   incremental failures and crashes.
5. `Configuration` (requests, references, the file, restart) and `BackupScheduler` (generations of jobs, handlers and
   backends), composed by `BackupService`; `MCBackupService`; `BackupServiceProofs`.
6. `Documents` (what a policy, storage, cluster and the service options mean, and how they are validated and converted)
   and `RestoreRequests` (restore policies), pure operators; `DocumentsProofs`.
7. `DataRestorer`, restores on the storage that `BackupRoutineHandler` changes meanwhile; `MCDataRestorer`;
   `DataRestorerProofs`.
8. `ConfigurationProofs`: the file and the references as theorems; `BackupServiceProofs`: those that need no hypothesis.

Section 6 names what is proved, and under which hypotheses. Next: `FileLoads` and `RestartKeeps` as theorems, now that a write may
leave a part of the file; the chain theorems for `RemoveIncremental` without retries, and for one namespace with crashes
(`recovery`), which need an argument about what is deleted and about what `readState` finds; after them
`DoneRestoresAll` for these policies.

## 3. Modules

### RetryService and SerialAttempts

`retry_service.go` line by line: `mu` is `r.mu`, `timer` is the chain whose timer `r.timer` points to, `left` the
argument `n`. A call of `retry` and the retries it schedules are one *chain*, which is at one place at a time (`phase`).
`Lock` is `r.mu.Lock()` with `clearTimer`; `Succeed`, `GiveUp`, `Reschedule` are the three ways on from `err := f()`;
`Fire` is the runtime starting the timer's goroutine. That `Fire` and `Lock` are separate is what makes the service
interesting: a timer that fired and waits for the mutex can no longer be stopped.

`SerialAttempts` says what the caller relies on: one attempt at a time, at most `MaxRetries + 1` attempts for each call, each
attempt ends. The refinement maps the mutex to the active attempt and the argument `n` (plus the first attempt, while it
is outstanding) to the budget.

### BackupRoutineHandler

One routine. `Retry == INSTANCE RetryService` contributes the mutex and timer steps; the handler's actions conjoin them
with what the function under retry does.

| Model | Code |
|---|---|
| `fullJob`, `incrStep # "idle"` | the two `isRunning` |
| `fullNow[c]`, `incrNow` | the `time.Now()` of an execution, kept by its retries |
| `fullStep`, `incrStep` | where `runFullBackupInternal` and `runIncrementalBackup` are between two calls |
| `fullBackupInProgress` | the backend's atomic flag |
| `fullBackupHandlers`, `incrBackupHandlers` | the handler maps, with where each handler is |
| `lastFullRun`, `lastIncrRun` | `BackupState` |
| `data`, `metadata` | backup folders with records; metadata files |
| `updated`, `clock` | the cluster's record per namespace; the time |

A full backup: `FullExecute` (isRunning, time, `retry`), `FullLock` (mutex, flag), `FullGetClient`, `FullStartNamespace` for each
namespace, `FullRead` by backup-go, `FullWait` for each namespace in any order, with its metadata, `FullUpdateState`,
`FullClean`, `FullConfig`, `FullReturn` (success, retry or no retry left). `FullFail` is every error return. An incremental
backup: `IncrExecute`, `IncrCheck` (the three guards), `IncrGetClient`, `IncrBounds` (`LastRun`), `IncrStartNamespace`, `IncrRead`,
`IncrWait`, `IncrFinish` or `IncrPanic`. `Crash` stops the process and reads the state from the storage; `CollectMetrics` is the
metrics goroutine that meets a nil handler, which ends the process.

Abstractions, each on the safe side of what the properties say or named here:

* A namespace has one record, identified with the time of its last update. A backup keeps it if it was updated within its
  bounds. A scan sees the namespace at one point, after `BackupRun` returned; the code waits for it later.
* Events that read the clock have different times; the cluster and the service use the same clock. Skew between the two,
  which no code compensates, is outside the model. So are two backups in one millisecond.
* backup-go, quartz and the Go runtime are external. backup-go refuses bounds out of order; a backup that fails either
  wrote the record or did not; quartz recovers a panic of a job (its other goroutines do not).
* A handler of another namespace that is still running when an attempt fails is dropped from the map and goes on writing
  into the folder of the failed backup. These orphans are not modelled. A retry has the time of the execution that failed and so
  the same folders, so that the metadata it writes also covers what an orphan left there: the data of such a backup may be
  of both.
* A folder that could not be deleted stays whole. Statistics, the cluster configuration file and secondary indexes
  are left out.
* The panic of a nil handler met by the metrics goroutine leads to an immediate restart. The unlocked reads of the handler maps
  by that goroutine and by HTTP are a data race that Go may turn into a crash, which `Crash` covers.

### ClientManager

`clients` and `count` are the map and the counts; `GetClient` is `GetCached` or `GetNew` (with `createClient`, one step under
the mutex; a failure changes nothing), `Close` the loop over the map. `open` are the connections not closed yet. The user
holds at most one client and closes it once, as the deferred `Close` of every caller does.

### Configuration, BackupScheduler and BackupService

`Configuration` is what HTTP requests do to `model.Config` and its file. A request is at one place (`request[q].step`):
`resolved` between `ToModel` of a routine and the mutex of `AddRoutine`, `changed` between the change of the maps and
`WriteConfiguration`, `writing` between the truncation of the file and its content. A write that fails, or a process that
stops, may leave a part of the content (`Partial`): the sections of `dto.Config` in their order up to some entry, or a `Broken` file
that is no YAML. `configs` are the `Config` objects by
the request that brought them, `current` is `s.config`; a request that changed the maps before another one replaced
`s.config` writes either of the two, hence the set `argument`.

| Model | Code |
|---|---|
| `Add`, `Update`, `Delete` with an item | `addStorage`, `updatePolicy`, ..., and the methods of `model.Config` they call under its mutex |
| `ResolveRoutine`, then `AddRoutine` or `UpdateRoutine` | `ToModel(s.config)` outside the mutex, `Config.AddRoutine` under it |
| `UpdateConfig` | `updateConfig`: `s.config` is replaced without a lock |
| `Serialized`, `Loaded` | `NewConfigFromModel`, where pointers become names; `ToModel`, where names become pointers |
| `WriteConfiguration`, `FinishWrite`, `FailWrite` | the managers of the file: `Manager` says which |
| `Restart` | `Load` of the file, all of memory lost |

An object is identified by its name and the request that brought it, which is what pointer equality tells apart. `trait`
keeps the differences between versions that change control: a *small* cluster allows fewer scans than a *large*
routine has sets, a *bare* one has no credentials, a *compressed* policy has a compression policy, a *pathless* storage
lacks what its type requires, and a storage of no type is `Null`. `updateStorage`, which does not validate, may bring the last two.

`BackupScheduler` follows `ApplyNewConfig` in the steps other goroutines can see: `Clear`, `SetData`, `MakeHandlers`, one
`ScheduleRoutine` for each routine, `ApplyReturns`. Every apply, and the start, is a generation: its handlers have their
own mutex, timer and `isRunning`, and their backend its own flag. Jobs are keyed by routine and group as in quartz.
Of a full backup the module keeps what could keep two of them apart: `Execute` and `SkipFull` are `Execute` of the job with `isRunning`,
`Lock` is the mutex with `clearTimer` and the `CompareAndSwap` of the flag, `End` the end of an attempt with or without a
retry, `FireTimer` the timer, which `Lock` cannot stop once it fired. `BackupRoutineHandler` has the rest, and the incremental backups.

`BackupService` composes the two: `ApplyConfig` gives the scheduler the routines of `s.config` step by step, reading the
maps again at each one as the code does, and `RestartService` restarts both.

Abstractions: two ad-hoc jobs of one routine are one; a job whose first execution is retried may start a second one, up to
`Executions`; every routine has an incremental schedule; a request whose body is not accepted changes nothing and is left
out unless the refusal depends on the state; secret agents and service options change only with a whole configuration. Go's fatal
error for concurrent access to a map is a process that stops, which `Restart` covers.

### Documents and RestoreRequests

Documents are records of the fields of `pkg/dto` with small domains: an optional field is absent or a value, texts are empty or
not, numbers are below, at or above their bounds. `Valid...` is `Validate`, `...ToModel` and `...FromModel` the two conversions,
and `BackupOptions`, `ClientPolicy`, `HTTPOptions`, `LoggerOptions`, `RestoreOptions` what the rest of the program or a library gets from
the model, defaults included. `PoliciesSurvive`, `ClustersSurvive`, `StoragesSurvive`, `ServiceSurvives` compare what a document means before
and after it was written and read, field by field; compression is left out of the comparison of policies, since the code loses it, and the
state properties `DocumentsSurviveSave` and `StoragesSurviveSave` say so of the items in the file. `AcceptedAsDocumented` compares what a write of
a restore does to an existing record with the comments of `RestorePolicy` (`Documented`), for every accepted policy but those with both
`unique` and `no-generation`: the two comments exclude each other, so no outcome is documented, and yet `Validate` accepts the pair.

Left out: flags that are absent and flags that are false are one value; seed nodes are a set; connection timeout and services-alternate are
passed on as they are; numeric options that are treated alike are one function over `Limits` or `Counts`; a certificate that cannot be
parsed counts as a file that cannot be read.

### DataRestorer

EXTENDS `BackupRoutineHandler`: the listings read its `metadata` and `data`. A job has one goroutine for each namespace,
at `list` (the incremental backups), `run` (`RestoreRun` of the next backup), `wait` (its handler) or `done`. It holds the set of
backups that are still to be restored, of which the earliest is next (`First`): the code goes through a list sorted by
time, and two backups of a namespace never have the same kind and time. `GetClient`, `Finish` and `Fail`
are the goroutine of the job. `Restored` is what a namespace has after a backup was written to it under the flags of the policy.
`promised` is, for each namespace, the last update that a backup listed at the request holds and another or the same one is newer than; it
exists for `DoneRestoresAll` alone.
`ChangeRoutine` moves the routine to another storage or deletes it: the restorer looks it up for every backup, and one that is gone
is a nil pointer in a goroutine that nobody recovers, so that the process restarts (`RestorePanics`).

Of a job that ended only the status is kept. A restore by path adds the records to its total at the request.
The process stops only by that panic here; a restart loses all jobs in any case.

## 4. Runs

| Run | Question | Result |
|---|---|---|
| `retry` | three calls, two retries each | all properties hold |
| `clients` | three users, two clusters, four connections | all hold |
| `keep_all` | two namespaces, default policy, full backups fail and are retried | flag exact, chain unbroken, `LastFullRun` performed |
| `recovery` | sealed policy, two crashes, listings that fail | chain unbroken, `LastFullRun` performed |
| `all_faults` | `RemoveAll`, sealed, every failure, a crash, fair scheduling | types, flag exact, every job ends |
| `service` | three requests of any kind but conflicting ones, failing writes, one crash, one routine with its items | references, file, documents and generations as promised |
| `overlaps` | two requests of any kind, only an apply alone; harmful items, the storage manager, full backups with retries, one crash | only a stale routine breaks a reference; jobs share the current handler; old handlers start nothing |
| `restore` | one job, two namespaces, four points of time, KeepAll | Done means all was restored, progress bounded |
| `stale_retry` | a retry that fired behind a newer backup | **violated**: `LastFullRun` goes back |
| `failed_incremental` | incremental backups fail | **violated**: `LastIncrRun` set nevertheless |
| `overlap_sealed` | sealed, `RemoveIncremental`, nothing fails | **violated**: an update is in no backup |
| `service_overlap` | one apply while a full backup runs | **violated**: two full backups of a routine |

`ChainUnbroken` is the property the service exists for: after the first full backup, whatever was updated before the point
from which the next incremental backup reads can be restored from the last full backup and the incremental ones after
it. The last full backup is what `FindLastFullBackup` returns: the backups of the latest time of all namespaces. One that has written, or will
ever write, only some namespaces is returned too, and the others are then not restored although older backups have them;
`ChainUnbroken` speaks of the namespaces that are found, and section 5 of the others. Where it does not hold says as much as where it does.
It needs that incremental backups do not fail (`failed_incremental`); that no full backup deletes the folder under a running
incremental one (`overlap_sealed`; with `KeepAll` nothing is deleted, and with `RemoveIncremental` unsealed TLC finds it to hold as long as
there are no retries (`keep_all` with `MaxRetries = 0`), the stale one of which deletes what is newer than it); that no crash leaves a partial full backup of several namespaces,
which `readState` takes for a performed one (`LastFullRunPerformed` fails in `recovery` with `Namespaces = {n1, n2}`); and, under
a sealed policy with several namespaces, that the metrics goroutine does not end the process between them: `Execute` takes its time
before the guards, so a full backup that finishes in between leaves an incremental run with bounds out of order, a nil handler,
and the crash. With one namespace, as in `recovery`, that crash leaves no partial backup. The passing runs
are the configurations in which the chain is sound.

Bounds. `MaxTime` counts events that read the clock: updates, executions of either job. The shortest violation of every
broken variant found takes at most five; the passing runs allow five, which is two full backups, an incremental one
between or across them, and two updates. `Calls` is the number of executions of the full job: two may overlap (one retrying,
one new), a third queues behind them (`retry`). One retry is enough for a stale one; two for the timer to be
replaced (`retry`). Two namespaces make partial backups; namespaces do not otherwise interact. `MaxCrashes`
is two in `recovery` so that the second restart reads what the first left. Namespaces and executions are symmetric in the safety
runs; `retry` and `all_faults`, which check liveness, use no symmetry. Deadlock is not checked where the bounds stop the system: the clock runs out, or all
calls of `retry` are made; in `clients` no connection may be left.

`service`. What the operator must take care of is in the constants, and each condition is there because a property fails without it,
as TLC shows when it is dropped: the pairs of `Conflicts`, kinds of requests not sent at the same time: a routine with an
update or delete of an item (`ReferencesResolve`, `FileLoads`), a whole configuration with any change (`ReferencesResolve`, `FileIsCurrent`), an apply
with another one and with what adds or deletes a routine (`OneGeneration`). An apply and a
whole configuration may overlap: the apply goes on with the `Config` it took. `Manager = "file"` (the storage manager has no
mutex and misses errors of `Close`: `FileIsCurrent`); and `Flawed = {}`, versions of items that are accepted and harmful (`FileLoads` for a small
cluster, a pathless storage and one of no type, `RestartKeeps` for a compressed policy). `FileLoads` and `FileIsCurrent` claim nothing
after a write that failed, until the next one: `FailWrite` may then have left a part of the file. Three requests are enough for a change that
overlaps with another and an apply or a restart after them; a routine, a cluster, a storage and a policy are enough since requests name one of
each. There are no executions of full backups in this run.

`overlaps` drops all of these conditions but the apply's: any two requests overlap, every flawed version may be sent, and the manager is
the worse one. Two requests are an item changed under a routine that is being added, or an apply after, or during, another
change; `e1` is an execution which is called, waits, runs, fails, has a timer that is pending or fired, and is repeated, across an apply.
`NewBackupsAreCurrent` is what remains of one full backup at a time: it needs that no full backup is requested, and no routine added or
deleted, during the apply. `service_overlap` has the conditions of `service`, a single apply and a single execution.

`restore`. Four points of time are two updates, a full and an incremental backup, or two incremental ones; restores are to the last
two. A second full backup with two namespaces is more than TLC finishes in minutes; the theorems have any number. Backups do
not fail here. With failing backups and retries `ProgressBounded` fails: a full backup that is retried writes again to
folders that are already listed and were counted, and an estimate of one record is followed by two that are restored (`FullFaults` and
`MaxRetries = 1`). A namespace is one record here: that a scan which is not sealed reads a later record and misses
an earlier one is among the hazards (`backup_routine_handler.go:271`). `OnlyComplete`: a restore requested while the last full backup is partial is Done without the namespaces that
are not there yet. With `RestoreFlags = {"unique"}`, or with `no-generation` as well, `DoneRestoresAll` fails: no incremental backup updates a record
that the full one created. Under `RemoveIncremental` a full backup between the two listings of a restore removes what the second should find.
The runs of the service and of restores have no deadlock check: requests, times and jobs run out.

Fairness. `RetryService`: the function returns, timers fire, and the mutex starves nobody (Go's starvation mode), hence strong
fairness of `Lock`. `BackupRoutineHandler`: a goroutine that can run does, and backup-go answers every call; since executions
are finite in number, weak fairness of each step is enough, one formula for each of the two goroutines that are at one place at a time. Nothing is
assumed about triggers, updates, crashes and the metrics ticker. Network timeouts of the client and of backup-go justify that a
call returns; a policy without timeouts, on a cluster that hangs, would not.

## 5. Findings

See `findings` in `PROJECT.json`, each with the run that shows it: a failed incremental run is recorded as performed, so
its updates are in no later incremental backup; a stale retry sets `LastFullRun` back; with a sealed policy that removes incremental
backups an overlap loses an update; an apply lets two generations of a routine run full backups at once, which line 223 of the repository's
README rules out.

Seen while modelling, in the hazards of `PROJECT.json` with the constants that show them: a restart takes a partial full backup for a performed
one (`backup_backend.go:62`); a listing never looks at the flag that the backend is said to need "to filter it out" (`backup_backend.go:30`), so
that while a full backup writes its second namespace, `FindLastFullBackup` returns the first alone; a routine is resolved outside the mutex and may be
put with a pointer to a deleted item (`config_routine.go:58`), although an item in use is not deleted; a full backup of a routine that
was removed and applied can still be requested, from `jobStore` (`backup_scheduler.go:19`); compression policies are lost when the
configuration is written (`pkg/dto/backup_policy.go:167`); a cluster without credentials makes every later write fail
(`pkg/dto/aerospike_cluster.go:88`); `updateStorage` does not validate (`config_storage.go:163`); an update of a cluster may leave a file
that does not load (`pkg/dto/backup_routine.go:90`); a write that fails half-way, or a crash in it, may leave a file the service cannot
start with (`configuration_manager_local.go:69`); `WriteFile` ignores the error of `Close` (`storage/operations.go:102`). `Validate` accepts `unique`
with `no-generation` (`pkg/dto/restore_policy.go:92`), which `restore_go.go:134` calls mutually exclusive; `unique` then wins, whatever line 48 of
the policy says of `no-generation`. Outside the models: by default incremental backups are not deleted after a full backup as README line 93
says (`backup_policy.go:109`); `CopySMDDisabled` leaves encryption and compression out of a copy with "identical field values"
(`backup_policy.go:84`); `GetPassword` prefers the password although the path is said to take precedence (`pkg/dto/aerospike_cluster.go:172`);
`TimeBounds.Contains` is inclusive where its comment says exclusive, which `DoneRestoresAll` needs it to be.

## 6. Proofs

All theorems are about specifications without fairness and rest on the constants' named assumptions alone
(`RetryAssumption`, `HandlerAssumption`, `ClientAssumption`, `ConfigurationAssumption`, `DocumentsAssumption`, `ServiceAssumption`,
`RestorerAssumption`, `RestorePolicyAssumption`), and on the hypotheses that a theorem states: `KeepsAll` (`BackupChainProofs`), `Careful`
(`ConfigurationProofs`), `KeepsUpdates`, `RestoresChains` and `WritesOnce` (`DataRestorerProofs`). Each holds of the constants of a run; sections 4 and
5 say which properties fail without them. Sets of calls, namespaces, clusters,
requests, routines and jobs are arbitrary.

* `RetryServiceProofs`: types; `MutexHeld` and `NoLostTimer` together are inductive (a timer is only set by the chain that
  holds the mutex, after `Lock` cancelled the pending one, which by `NoLostTimer` is the only one); with them each step maps to a
  step of `SerialAttempts` or a stutter (`RetryIsSerial`).
* `BackupRoutineHandlerProofs`: `Inv == TypeOK /\ FullFlagExact /\ Retry!MutexHeld`. The flag alone is not inductive: that an
  attempt finds the flag clear follows from the mutex being free exactly when no attempt is running, which links `fullStep`, `mu`
  and `phase`. The steps of the retry service are lifted from `RetryStep`; one lemma for each goroutine shows that its steps keep the invariant.
* `ClientManagerProofs`: `CountExact` needs that no two entries share a client and that a held client has an entry.

* `BackupChainProofs`: `ChainIsUnbroken` and `LastFullRunIsPerformed`, under `KeepsAll`: the policy keeps all files and is not
  sealed, no incremental backup fails and the process does not crash. Each condition excludes a violation a run shows or a
  deletion the argument cannot allow; full backups may fail anywhere, be retried late, set `LastFullRun` back and overlap with
  incremental ones. `ChainInv`, checked with TLC before it was proved (`keep_all` with `MaxTime = 4`), has two halves. For full
  backups: each one, and each handler that has read its namespace, holds the namespace's update or is older than it
  (`Covered`). For incremental ones: an update older than `LastIncrRun`, or than the bound a run reads from, is older than a full backup
  or in a newer incremental one (`Safe`); for the run itself that becomes true handler by handler, and between `IncrRead` and
  `IncrWait`, which writes the metadata, an update that is not yet safe is in the run's own files. `ChainUnbroken` alone is not inductive because it says nothing of a run in progress.
  It follows because the latest full backup, which restore picks, either holds the update or is older than it; then what makes the
  update safe can only be an incremental backup, newer than the update and so applied after that full backup. That a namespace with full backups has a latest one is kept inductively
  (`HasLatest`), since finiteness would need an induction over data.

* `DocumentsProofs`: what the `...Survive` operators and `AcceptedAsDocumented` say, for any set of texts, limits and counts and any numbers. A
  pointer that is absent, zero or set is the case that matters; the conversions are compared field by field.
* `ConfigurationProofs`: for any sets of requests, items and routines, any number of crashes and any failing writes, `FileIsCurrent`,
  if the operator is `Careful`, the part of the constants of `service` that concerns the configuration. `ConfigInv` says that every `Config` is
  `Sound` (plain items, every pointer to the item of its name), that the file, unless it is `Broken`, and the data being written are `SoundFile`s
  (every name defined; `PartialIsSound`: no part of one has a routine without its items, since routines come last), that a resolved
  routine still refers to current items (`SoundRequest`, where the conflicts are needed), that at most one request is writing, and that what
  was changed will be written: `Saved` says that the file is current, or a request is yet to write, or the one that is writing has
  serialized the current maps, or the last write failed. Without it `FileIsCurrent` is not inductive.
* `BackupServiceProofs`: three theorems without any hypothesis, about any requests, overlaps, items, managers, generations, crashes and failing
  writes. `ServiceTypeCorrect` is the types. `JobsAlwaysShareHandler`: `JobsShareHandler` is not inductive, since a second apply that
  puts its full backup's job would leave the other jobs of the routine with the handler of the first; `JobsInv` adds that jobs other
  than requested ones exist only together with the key of the scheduled full backup, at which the second apply stops, and that the initial
  and incremental jobs are added in the same round as it. `OnlyStaleRoutinesBreak`: a step that changes, replaces or deletes
  an item checks or repoints the routines, by pointer equality. That is enough because an object is the item of its own name only (`ItemsInv`, `Own`),
  so that no change of one name takes away what a pointer of another finds; a nil storage needs the second half of `Own`, that only
  a storage is nil.
* `DataRestorerProofs`, for any jobs, namespaces and times, with restores that fail anywhere and routines that change or
  disappear. `RestoreTypeCorrect` has no hypotheses. `DoneRestoresEverything` is about the KeepAll policy,
  unsealed, whatever fails or crashes in the backups (`KeepsUpdates`), for restores of complete backups with policies that
  replace records (`RestoresChains`). It is not about the chain, which failing incremental backups break, but about what the
  listings show: `UpdatesSeen` says that each backup with a record of a namespace has the last update, and every record that any folder has, if it is newer
  than it, or a later one, which makes the order in which files are written and listed harmless; `PromisesKept` says of each goroutine without errors that a backup
  with the promised update is still in its set, or the target has it (`Owed`). The step that matters is the second listing: backups that became
  visible between the two only add to the set, and the one that has the update was listed, is kept by KeepAll, and
  lies within the bounds because they are inclusive. `ChainsInv` was checked with TLC on `restore`, and with failing full and
  incremental backups and a retry for one namespace, before it was proved. `ProgressIsBounded` is about policies that keep backups and
  never repeat one (`WritesOnce`): `ProgressInv` says that a listed backup is not written again (`FullUnlisted`), so that
  what is restored and what is left never exceeds the total, unless it was not counted (`Counted`). The sums are
  cardinalities of finite sets of records (`FiniteSetTheorems`).

Model-checked only: liveness (`EveryCallSettles`, `FullJobsSettle`, `IncrJobEnds`), which the prover cannot do; `ReferencesResolve`, `FileLoads`,
`RestartKeeps` and `DocumentsSurviveSave`, the conditions of which are those of `service`; `OneGeneration` and `NewBackupsAreCurrent`; `ChainUnbroken` and
`LastFullRunPerformed` for sealed policies, for `RemoveIncremental` and across crashes. Outside their hypotheses the other
properties fail or are unknown, as section 4 says. No theorem is about the sorted order of a listing as a list, or a computation by
recursion over it: both would need induction over data.

## 7. Not modelled

* Rate limiter and white list: a token bucket for each address and a lookup, apart from everything else.
* Storage accessors (`pkg/service/storage`): I/O through backup-go; what they do to folders is in `BackupRoutineHandler`.
* HTTP beyond the handlers above: health, version, metrics page, the layout of answers, cron expressions.
* The configuration retriever, which reads files and packs them; estimates and gauges; `LoadingCache`, which nothing uses.
* Logging, signals, packaging; the generated documentation (`docs/docs.go`) has no behaviour.
* Restore jobs end: with a fair scheduler they should, but the state space with liveness is out of TLC's reach.
