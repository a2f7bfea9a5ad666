-------------------------- MODULE BackupRoutineHandler --------------------------
(***************************************************************************)
(* The backups of one routine: the full and the incremental backupJob, the *)
(* RetryService that repeats failed full backups, the BackupRoutineHandler *)
(* both jobs run on, its BackupState, and the storage of its BackupBackend *)
(* (pkg/service/backup_routine_handler.go, backup_job.go, backup_backend.go*)
(* and pkg/model/backup_state.go).                                         *)
(*                                                                         *)
(* Every namespace has one record, known by the time it was last updated.  *)
(* Every event that reads the clock gets a time of its own, and the        *)
(* cluster and the service read the same clock.                            *)
(*                                                                         *)
(* backup-go and quartz are external. A backup handler reads its namespace *)
(* in one step, after BackupRun returned; it keeps the record if it was    *)
(* updated in [from, to), the bounds BackupRun was given.                  *)
(***************************************************************************)
EXTENDS Integers, FiniteSets

CONSTANTS
    Namespaces,  \* the namespaces the routine backs up
    Calls,       \* the executions of the full backup job (a bound)
    NoCall,      \* no execution
    MaxRetries,  \* backupFullPolicy.GetMaxRetriesOrDefault()
    Sealed,      \* backupFullPolicy.IsSealed()
    RemoveFiles, \* backupFullPolicy.RemoveFiles
    FullFaults,  \* full backups may fail, and deletions
    IncrFaults,  \* incremental backups may fail
    MaxCrashes,  \* how often the process may crash (a bound)
    MaxTime      \* how many events may read the clock (a bound)

ASSUME HandlerAssumption ==
    /\ NoCall \notin Calls
    /\ MaxRetries \in Nat
    /\ MaxTime \in Nat
    /\ MaxCrashes \in Nat
    /\ Sealed \in BOOLEAN
    /\ FullFaults \in BOOLEAN
    /\ IncrFaults \in BOOLEAN
    /\ RemoveFiles \in {"KeepAll", "RemoveIncremental", "RemoveAll"}

RemoveFullBackup == RemoveFiles = "RemoveAll"
RemoveIncrementalBackup == RemoveFiles \in {"RemoveAll", "RemoveIncremental"}

Never == 0 \* time.Time{}
Times == Never .. MaxTime

VARIABLES
    clock,    \* the time of the last event
    updated,  \* when the record of each namespace was last updated, or Never
    crashes,  \* how often the process crashed
    \* retry_service.go, see RetryService
    phase, left, mu, timer,
    \* the full backupJob and runFullBackupInternal, executed by the chain mu
    fullJob,              \* the execution that holds isRunning, or NoCall
    fullNow,              \* the time each execution captured
    fullStep,             \* where the running attempt is
    fullBackupInProgress, \* the backend's atomic flag
    fullBackupHandlers,   \* the handler of each namespace
    \* the incremental backupJob and runIncrementalBackup
    incrStep,             \* where the run is; isRunning is set unless "idle"
    incrNow,              \* the time the run captured
    incrFrom,             \* its lower time bound
    incrBackupHandlers,   \* the handler of each namespace
    \* BackupState
    lastFullRun, lastIncrRun,
    \* the storage: the backups with records, and those with a metadata file
    data, metadata

retryVars == <<phase, left, mu, timer>>
fullVars == <<fullJob, fullNow, fullStep, fullBackupInProgress, fullBackupHandlers>>
incrVars == <<incrStep, incrNow, incrFrom, incrBackupHandlers>>
state == <<lastFullRun, lastIncrRun>>
storage == <<data, metadata>>
environment == <<clock, updated, crashes>>
vars == <<environment, retryVars, fullVars, incrVars, state, storage>>

Retry == INSTANCE RetryService

(***************************************************************************)
(* A handler is none before BackupRun and running after it. The handler of *)
(* a full backup is read once it was through the namespace and waited once *)
(* Wait returned and the metadata is written. An incremental handler is    *)
(* empty or nonempty once it was through, failed if it stopped before it   *)
(* read the record, and nil if BackupRun failed.                           *)
(***************************************************************************)
FullHandler == {"none", "running", "read", "waited"}
IncrHandler == {"none", "nil", "running", "empty", "nonempty", "failed", "waited"}

FullSteps == {"idle", "client", "start", "wait", "update", "clean", "config",
              "return", "error"}
IncrSteps == {"idle", "check", "client", "bounds", "start", "wait"}

Backups == [kind : {"full", "incremental"}, created : Times, ns : Namespaces]
Contents == [kind : {"full", "incremental"}, created : Times, ns : Namespaces,
             record : Times]

NoHandlers == [n \in Namespaces |-> "none"]

TypeOK ==
    /\ clock \in Times
    /\ updated \in [Namespaces -> Times]
    /\ crashes \in 0 .. MaxCrashes
    /\ Retry!TypeOK
    /\ fullJob \in Calls \cup {NoCall}
    /\ fullNow \in [Calls -> Times]
    /\ fullStep \in FullSteps
    /\ fullBackupInProgress \in BOOLEAN
    /\ fullBackupHandlers \in [Namespaces -> FullHandler]
    /\ incrStep \in IncrSteps
    /\ incrNow \in Times
    /\ incrFrom \in Times
    /\ incrBackupHandlers \in [Namespaces -> IncrHandler]
    /\ lastFullRun \in Times
    /\ lastIncrRun \in Times
    /\ data \in SUBSET Contents
    /\ metadata \in SUBSET Backups

Init ==
    /\ clock = Never
    /\ updated = [n \in Namespaces |-> Never]
    /\ crashes = 0
    /\ Retry!Init
    /\ fullJob = NoCall
    /\ fullNow = [c \in Calls |-> Never]
    /\ fullStep = "idle"
    /\ fullBackupInProgress = FALSE
    /\ fullBackupHandlers = NoHandlers
    /\ incrStep = "idle"
    /\ incrNow = Never
    /\ incrFrom = Never
    /\ incrBackupHandlers = NoHandlers
    /\ lastFullRun = Never
    /\ lastIncrRun = Never
    /\ data = {}
    /\ metadata = {}

-----------------------------------------------------------------------------
(* The clock, the cluster and the storage *)

ReadClock ==
    /\ clock < MaxTime
    /\ clock' = clock + 1

(***************************************************************************)
(* A client of the cluster updates the record of namespace n.              *)
(***************************************************************************)
Update(n) ==
    /\ ReadClock
    /\ updated' = [updated EXCEPT ![n] = clock']
    /\ UNCHANGED <<crashes, retryVars, fullVars, incrVars, state, storage>>

Backup(kind, t, n) == [kind |-> kind, created |-> t, ns |-> n]

(***************************************************************************)
(* The records of namespace n that were updated in [from, to); to is       *)
(* ignored unless the policy is sealed.                                    *)
(***************************************************************************)
ReadRecords(n, from, to) ==
    { t \in {updated[n]} : t # Never /\ from <= t /\ (Sealed => t < to) }

(***************************************************************************)
(* The folder of backup b, which full backups under RemoveAll share.       *)
(***************************************************************************)
InFolder(d, b) ==
    /\ d.kind = b.kind
    /\ d.ns = b.ns
    /\ d.created = b.created \/ (d.kind = "full" /\ RemoveFullBackup)

WriteRecords(b, records) ==
    data' = { d \in data : ~InFolder(d, b) }
              \cup { [kind |-> b.kind, created |-> b.created, ns |-> b.ns,
                      record |-> t] : t \in records }

Outside(set, b) == { d \in set : ~InFolder(d, b) }

-----------------------------------------------------------------------------
(* The full backup: backupJob.Execute and retry *)

(***************************************************************************)
(* Execute of the full job: isRunning is set, the time captured and retry  *)
(* called. An execution that finds isRunning set does nothing.             *)
(***************************************************************************)
FullExecute(c) ==
    /\ fullJob = NoCall
    /\ Retry!Call(c)
    /\ ReadClock
    /\ fullJob' = c
    /\ fullNow' = [fullNow EXCEPT ![c] = clock']
    /\ UNCHANGED <<updated, crashes, fullStep, fullBackupInProgress,
                   fullBackupHandlers, incrVars, state, storage>>

(***************************************************************************)
(* The retry mutex is taken and runFullBackupInternal starts: it returns   *)
(* nil at once if the flag was set and sets it otherwise.                  *)
(***************************************************************************)
FullLock(c) ==
    /\ Retry!Lock(c)
    /\ fullBackupInProgress' = TRUE
    /\ fullStep' = IF fullBackupInProgress THEN "return" ELSE "client"
    /\ UNCHANGED <<environment, fullJob, fullNow, fullBackupHandlers, incrVars,
                   state, storage>>

FullTimer(c) ==
    /\ Retry!Fire(c)
    /\ UNCHANGED <<environment, fullVars, incrVars, state, storage>>

(***************************************************************************)
(* runFullBackupInternal returned, its deferred calls included, and retry  *)
(* with it. Execute clears isRunning when the retry it called returns;     *)
(* later attempts of the chain run on a timer's goroutine.                 *)
(***************************************************************************)
FullReturn(c) ==
    /\ \/ fullStep = "return" /\ Retry!Succeed(c)
       \/ fullStep = "error" /\ Retry!GiveUp(c)
       \/ fullStep = "error" /\ Retry!Reschedule(c)
    /\ fullStep' = "idle"
    /\ fullJob' = IF fullJob = c THEN NoCall ELSE fullJob
    /\ UNCHANGED <<environment, fullNow, fullBackupInProgress,
                   fullBackupHandlers, incrVars, state, storage>>

-----------------------------------------------------------------------------
(* The full backup: runFullBackupInternal *)

FullBackupOf(n) == Backup("full", fullNow[mu], n)

FullGetClient ==
    /\ fullStep = "client"
    /\ fullStep' = "start"
    /\ UNCHANGED <<environment, retryVars, fullJob, fullNow, fullBackupInProgress,
                   fullBackupHandlers, incrVars, state, storage>>

(***************************************************************************)
(* BackupRun of namespace n. Its writer empties the folder under RemoveAll.*)
(***************************************************************************)
FullStartNamespace(n) ==
    /\ fullStep = "start"
    /\ fullBackupHandlers[n] = "none"
    /\ fullBackupHandlers' = [fullBackupHandlers EXCEPT ![n] = "running"]
    /\ fullStep' = IF \A m \in Namespaces \ {n} : fullBackupHandlers[m] # "none"
                     THEN "wait" ELSE "start"
    /\ data' = IF RemoveFullBackup THEN Outside(data, FullBackupOf(n)) ELSE data
    /\ metadata' = IF RemoveFullBackup THEN Outside(metadata, FullBackupOf(n)) ELSE metadata
    /\ UNCHANGED <<environment, retryVars, fullJob, fullNow, fullBackupInProgress,
                   incrVars, state>>

(***************************************************************************)
(* The handler of namespace n reads the namespace: external.               *)
(***************************************************************************)
FullRead(n) ==
    /\ fullBackupHandlers[n] = "running"
    /\ fullBackupHandlers' = [fullBackupHandlers EXCEPT ![n] = "read"]
    /\ WriteRecords(FullBackupOf(n), ReadRecords(n, Never, fullNow[mu]))
    /\ UNCHANGED <<environment, retryVars, fullJob, fullNow, fullStep,
                   fullBackupInProgress, incrVars, state, metadata>>

\* Mutant of FullWait: the first namespace that is backed up ends the wait.
FullWaitFirst(n) ==
    /\ fullStep = "wait"
    /\ fullBackupHandlers[n] = "read"
    /\ fullBackupHandlers' = [fullBackupHandlers EXCEPT ![n] = "waited"]
    /\ fullStep' = "update"
    /\ metadata' = Outside(metadata, FullBackupOf(n)) \cup {FullBackupOf(n)}
    /\ UNCHANGED <<environment, retryVars, fullJob, fullNow, fullBackupInProgress,
                   incrVars, state, data>>

(***************************************************************************)
(* Wait for namespace n, in the order of a Go map, and write its metadata. *)
(***************************************************************************)
FullWait(n) ==
    /\ fullStep = "wait"
    /\ fullBackupHandlers[n] = "read"
    /\ fullBackupHandlers' = [fullBackupHandlers EXCEPT ![n] = "waited"]
    /\ fullStep' = IF \A m \in Namespaces \ {n} : fullBackupHandlers[m] = "waited"
                     THEN "update" ELSE "wait"
    /\ metadata' = Outside(metadata, FullBackupOf(n)) \cup {FullBackupOf(n)}
    /\ UNCHANGED <<environment, retryVars, fullJob, fullNow, fullBackupInProgress,
                   incrVars, state, data>>

(***************************************************************************)
(* An error return: GetClient failed, a namespace could not be started, a  *)
(* backup failed or its metadata could not be written. The deferred calls  *)
(* clear the flag and the handlers; what is in the storage stays there. A  *)
(* writer that emptied its folder before the backup failed to start leaves *)
(* it empty.                                                               *)
(***************************************************************************)
FullFail ==
    /\ FullFaults
    /\ fullStep \in {"client", "start", "wait"}
    /\ fullStep' = "error"
    /\ fullBackupInProgress' = FALSE
    /\ fullBackupHandlers' = NoHandlers
    /\ \E emptied \in SUBSET { n \in Namespaces : /\ RemoveFullBackup
                                                  /\ fullStep = "start"
                                                  /\ fullBackupHandlers[n] = "none" } :
         /\ Cardinality(emptied) <= 1
         /\ data' = { d \in data : \A n \in emptied : ~InFolder(d, FullBackupOf(n)) }
         /\ metadata' = { b \in metadata : \A n \in emptied : ~InFolder(b, FullBackupOf(n)) }
    /\ UNCHANGED <<environment, retryVars, fullJob, fullNow, incrVars, state>>

\* Mutant of FullUpdateState: the time of the update, not of the backup.
FullUpdateStateNow ==
    /\ fullStep = "update"
    /\ fullStep' = "clean"
    /\ lastFullRun' = clock
    /\ UNCHANGED <<environment, retryVars, fullJob, fullNow, fullBackupInProgress,
                   fullBackupHandlers, incrVars, lastIncrRun, storage>>

(***************************************************************************)
(* SetLastFullRun.                                                         *)
(***************************************************************************)
FullUpdateState ==
    /\ fullStep = "update"
    /\ fullStep' = "clean"
    /\ lastFullRun' = fullNow[mu]
    /\ UNCHANGED <<environment, retryVars, fullJob, fullNow, fullBackupInProgress,
                   fullBackupHandlers, incrVars, lastIncrRun, storage>>

(***************************************************************************)
(* The incremental folder of the routine is deleted if the policy says so; *)
(* a deletion that fails is only logged.                                   *)
(***************************************************************************)
FullClean ==
    /\ fullStep = "clean"
    /\ fullStep' = "config"
    /\ \E deleted \in BOOLEAN :
         /\ deleted => RemoveIncrementalBackup
         /\ RemoveIncrementalBackup /\ ~deleted => FullFaults
         /\ data' = { d \in data : deleted => d.kind = "full" }
         /\ metadata' = { b \in metadata : deleted => b.kind = "full" }
    /\ UNCHANGED <<environment, retryVars, fullJob, fullNow, fullBackupInProgress,
                   fullBackupHandlers, incrVars, state>>

\* Mutant of FullConfig: the deferred Store(false) is missing.
FullConfigKeepsFlag ==
    /\ fullStep = "config"
    /\ fullStep' = "return"
    /\ fullBackupHandlers' = NoHandlers
    /\ UNCHANGED <<environment, retryVars, fullJob, fullNow, fullBackupInProgress,
                   incrVars, state, storage>>

(***************************************************************************)
(* writeClusterConfiguration, which cannot fail the backup, and the        *)
(* deferred calls.                                                         *)
(***************************************************************************)
FullConfig ==
    /\ fullStep = "config"
    /\ fullStep' = "return"
    /\ fullBackupInProgress' = FALSE
    /\ fullBackupHandlers' = NoHandlers
    /\ UNCHANGED <<environment, retryVars, fullJob, fullNow, incrVars, state, storage>>

-----------------------------------------------------------------------------
(* The incremental backup *)

IncrBackupOf(n) == Backup("incremental", incrNow, n)

(***************************************************************************)
(* BackupState.LastRun.                                                    *)
(***************************************************************************)
LastRun == IF lastIncrRun > lastFullRun THEN lastIncrRun ELSE lastFullRun

(***************************************************************************)
(* Execute of the incremental job: isRunning is set and the time captured. *)
(***************************************************************************)
IncrExecute ==
    /\ incrStep = "idle"
    /\ ReadClock
    /\ incrStep' = "check"
    /\ incrNow' = clock'
    /\ UNCHANGED <<updated, crashes, retryVars, fullVars, incrFrom,
                   incrBackupHandlers, state, storage>>

(***************************************************************************)
(* The guards of runIncrementalBackup: nothing is done before the first    *)
(* full backup, while the flag of a full backup is set, or while handlers  *)
(* are left.                                                               *)
(***************************************************************************)
IncrSkips ==
    \/ lastFullRun = Never
    \/ fullBackupInProgress
    \/ incrBackupHandlers # NoHandlers

IncrCheck ==
    /\ incrStep = "check"
    /\ incrStep' = IF IncrSkips THEN "idle" ELSE "client"
    /\ UNCHANGED <<environment, retryVars, fullVars, incrNow, incrFrom,
                   incrBackupHandlers, state, storage>>

IncrGetClient ==
    /\ incrStep = "client"
    /\ \/ incrStep' = "bounds"
       \/ IncrFaults /\ incrStep' = "idle"
    /\ UNCHANGED <<environment, retryVars, fullVars, incrNow, incrFrom,
                   incrBackupHandlers, state, storage>>

\* Mutant of IncrBounds: the bounds start at the time of the run.
IncrBoundsFromNow ==
    /\ incrStep = "bounds"
    /\ incrFrom' = incrNow
    /\ incrBackupHandlers' = NoHandlers
    /\ \/ incrStep' = "start"
       \/ IncrFaults /\ incrStep' = "wait"
    /\ UNCHANGED <<environment, retryVars, fullVars, incrNow, state, storage>>

(***************************************************************************)
(* The time bounds start at LastRun. If the namespaces cannot be listed,   *)
(* startIncrementalBackupForAllNamespaces returns without a handler and    *)
(* the run goes on.                                                        *)
(***************************************************************************)
IncrBounds ==
    /\ incrStep = "bounds"
    /\ incrFrom' = LastRun
    /\ incrBackupHandlers' = NoHandlers
    /\ \/ incrStep' = "start"
       \/ IncrFaults /\ incrStep' = "wait"
    /\ UNCHANGED <<environment, retryVars, fullVars, incrNow, state, storage>>

(***************************************************************************)
(* BackupRun of namespace n. backup-go refuses bounds that are not in      *)
(* order; whatever the error, it is logged and the nil handler is stored.  *)
(***************************************************************************)
BoundsInOrder == Sealed => incrFrom < incrNow

IncrStartNamespace(n) ==
    /\ incrStep = "start"
    /\ incrBackupHandlers[n] = "none"
    /\ \/ /\ BoundsInOrder
          /\ incrBackupHandlers' = [incrBackupHandlers EXCEPT ![n] = "running"]
       \/ /\ ~BoundsInOrder \/ IncrFaults
          /\ incrBackupHandlers' = [incrBackupHandlers EXCEPT ![n] = "nil"]
    /\ incrStep' = IF \A m \in Namespaces \ {n} : incrBackupHandlers[m] # "none"
                     THEN "wait" ELSE "start"
    /\ UNCHANGED <<environment, retryVars, fullVars, incrNow, incrFrom, state, storage>>

(***************************************************************************)
(* The handler of namespace n reads the namespace, or fails before it has  *)
(* read the record: external.                                              *)
(***************************************************************************)
IncrRead(n) ==
    LET records == ReadRecords(n, incrFrom, incrNow) IN
    /\ incrBackupHandlers[n] = "running"
    /\ \/ /\ WriteRecords(IncrBackupOf(n), records)
          /\ incrBackupHandlers' = [incrBackupHandlers EXCEPT
                                      ![n] = IF records = {} THEN "empty" ELSE "nonempty"]
       \/ /\ IncrFaults
          /\ incrBackupHandlers' = [incrBackupHandlers EXCEPT ![n] = "failed"]
          /\ UNCHANGED data
    /\ UNCHANGED <<environment, retryVars, fullVars, incrStep, incrNow, incrFrom,
                   state, metadata>>

(***************************************************************************)
(* Wait for namespace n, in the order of a Go map. An error is only logged;*)
(* the folder of a backup without records is deleted, the metadata of one  *)
(* with records is written, and a failure to write it is logged.           *)
(***************************************************************************)
IncrWait(n) ==
    /\ incrStep = "wait"
    /\ incrBackupHandlers[n] \in {"empty", "nonempty", "failed"}
    /\ incrBackupHandlers' = [incrBackupHandlers EXCEPT ![n] = "waited"]
    /\ \/ /\ incrBackupHandlers[n] # "nonempty"
          /\ data' = Outside(data, IncrBackupOf(n))
          /\ metadata' = Outside(metadata, IncrBackupOf(n))
       \/ /\ incrBackupHandlers[n] = "nonempty"
          /\ metadata' = metadata \cup {IncrBackupOf(n)}
          /\ UNCHANGED data
       \/ /\ incrBackupHandlers[n] = "nonempty"
          /\ IncrFaults
          /\ UNCHANGED storage
    /\ UNCHANGED <<environment, retryVars, fullVars, incrStep, incrNow, incrFrom, state>>

(***************************************************************************)
(* The wait for a nil handler panics. The deferred calls clear the handlers*)
(* and isRunning; quartz recovers the panic: external.                     *)
(***************************************************************************)
IncrPanic ==
    /\ incrStep = "wait"
    /\ \E n \in Namespaces : incrBackupHandlers[n] = "nil"
    /\ incrStep' = "idle"
    /\ incrBackupHandlers' = NoHandlers
    /\ UNCHANGED <<environment, retryVars, fullVars, incrNow, incrFrom, state, storage>>

\* Mutant of IncrFinish: waits for namespaces that were never started.
IncrFinishAll ==
    /\ incrStep = "wait"
    /\ \A n \in Namespaces : incrBackupHandlers[n] = "waited"
    /\ incrStep' = "idle"
    /\ lastIncrRun' = incrNow
    /\ incrBackupHandlers' = NoHandlers
    /\ UNCHANGED <<environment, retryVars, fullVars, incrNow, incrFrom,
                   lastFullRun, storage>>

(***************************************************************************)
(* Every handler was waited for: SetLastIncrRun and the deferred calls. If *)
(* no namespace had records the folder of the run is deleted, but each     *)
(* namespace's folder in it already was.                                   *)
(***************************************************************************)
IncrFinish ==
    /\ incrStep = "wait"
    /\ \A n \in Namespaces : incrBackupHandlers[n] \in {"none", "waited"}
    /\ incrStep' = "idle"
    /\ lastIncrRun' = incrNow
    /\ incrBackupHandlers' = NoHandlers
    /\ UNCHANGED <<environment, retryVars, fullVars, incrNow, incrFrom,
                   lastFullRun, storage>>

-----------------------------------------------------------------------------
(* The listings of BackupBackend *)

\* Mutant of Contains: exclusive at the upper bound, as its comment says.
ContainsNotTo(from, to, t) == from <= t /\ t < to

(***************************************************************************)
(* TimeBounds.Contains: both bounds are inclusive.                         *)
(***************************************************************************)
Contains(from, to, t) == from <= t /\ t <= to

(***************************************************************************)
(* readMetadataList: the backups whose metadata was written.               *)
(***************************************************************************)
BackupList(kind, from, to) ==
    {b \in metadata : b.kind = kind /\ Contains(from, to, b.created)}

(***************************************************************************)
(* The full backups of the latest time, one for each namespace.            *)
(***************************************************************************)
FindLastFullBackup(to) ==
    LET full == BackupList("full", Never, to)
    IN  {b \in full : \A c \in full : c.created <= b.created}

(***************************************************************************)
(* The incremental backups of namespace n, which are taken sorted by their *)
(* time, after the full one.                                               *)
(***************************************************************************)
FindIncrementalBackups(from, to, n) == {b \in BackupList("incremental", from, to) : b.ns = n}

-----------------------------------------------------------------------------
(* Crash and restart *)

BackupTimes(kind) == { b.created : b \in { m \in metadata : m.kind = kind } }

\* Mutant of IsLastBackupTime: the state of a restarted service starts now.
IsLastBackupTimeNow(kind, t) ==
    t = IF BackupTimes(kind) = {} THEN Never ELSE clock

(***************************************************************************)
(* lastBackupTime: t is the latest creation time of any namespace's backup,*)
(* or zero if there is none.                                               *)
(***************************************************************************)
IsLastBackupTime(kind, t) ==
    \/ BackupTimes(kind) = {} /\ t = Never
    \/ t \in BackupTimes(kind) /\ \A u \in BackupTimes(kind) : u <= t

ReadState(kind) ==
    { t \in Times : IsLastBackupTime(kind, t) \/ (FullFaults /\ t = Never) }

(***************************************************************************)
(* The process stops and starts again: nothing but the storage is left.    *)
(* The executions in progress and their retries are gone, the handler and  *)
(* the backend are new, and readState takes the state from the listings;   *)
(* a listing that fails is ignored and leaves its time at zero.            *)
(***************************************************************************)
Restart ==
    /\ phase' = [c \in Calls |-> IF phase[c] \in {"blocked", "running", "scheduled"}
                                   THEN "cancelled" ELSE phase[c]]
    /\ mu' = NoCall
    /\ timer' = NoCall
    /\ fullJob' = NoCall
    /\ fullStep' = "idle"
    /\ fullBackupInProgress' = FALSE
    /\ fullBackupHandlers' = NoHandlers
    /\ incrStep' = "idle"
    /\ incrBackupHandlers' = NoHandlers
    /\ lastFullRun' \in ReadState("full")
    /\ lastIncrRun' \in ReadState("incremental")
    /\ UNCHANGED <<clock, updated, left, fullNow, incrNow, incrFrom, storage>>

Crash ==
    /\ crashes < MaxCrashes
    /\ crashes' = crashes + 1
    /\ Restart

(***************************************************************************)
(* MetricsCollector reads the statistics of all handlers in a goroutine of *)
(* its own: a nil handler ends the process.                                *)
(***************************************************************************)
CollectMetrics ==
    /\ \E n \in Namespaces : incrBackupHandlers[n] = "nil"
    /\ UNCHANGED crashes
    /\ Restart

-----------------------------------------------------------------------------
FullAdvance ==
    \/ FullGetClient \/ FullFail \/ FullUpdateState \/ FullClean \/ FullConfig
    \/ \E n \in Namespaces : FullStartNamespace(n) \/ FullRead(n) \/ FullWait(n)

IncrAdvance ==
    \/ IncrCheck \/ IncrGetClient \/ IncrBounds \/ IncrPanic \/ IncrFinish
    \/ \E n \in Namespaces : IncrStartNamespace(n) \/ IncrRead(n) \/ IncrWait(n)

Next ==
    \/ \E n \in Namespaces : Update(n)
    \/ \E c \in Calls : FullExecute(c) \/ FullLock(c) \/ FullTimer(c) \/ FullReturn(c)
    \/ FullAdvance
    \/ IncrExecute
    \/ IncrAdvance
    \/ Crash
    \/ CollectMetrics

(***************************************************************************)
(* A goroutine that can run does, timers fire, and backup-go returns from  *)
(* every call. Triggers, updates and crashes happen when they happen.      *)
(***************************************************************************)
Fairness ==
    /\ \A c \in Calls : /\ WF_vars(FullLock(c))
                        /\ WF_vars(FullTimer(c))
                        /\ WF_vars(FullReturn(c))
    /\ WF_vars(FullAdvance)
    /\ WF_vars(IncrAdvance)

Safety == Init /\ [][Next]_vars
Spec == Safety /\ Fairness

-----------------------------------------------------------------------------
(* Properties *)

(***************************************************************************)
(* The flag says exactly when an attempt of a full backup is between its   *)
(* CompareAndSwap and its deferred Store(false), and that is only while    *)
(* the retry mutex is held: the flag is never set when an attempt begins,  *)
(* no attempt clears the flag of another, and no handler outlives the      *)
(* attempt that started it.                                                *)
(***************************************************************************)
FullFlagExact ==
    /\ fullBackupInProgress <=> fullStep \notin {"idle", "return", "error"}
    /\ fullStep = "idle" <=> mu = NoCall
    /\ ~fullBackupInProgress => fullBackupHandlers = NoHandlers

(***************************************************************************)
(* What a restore applies to the namespace of full backup f: f and the     *)
(* incremental backups from its time on.                                   *)
(***************************************************************************)
Chain(f) == {f} \cup FindIncrementalBackups(f.created, clock, f.ns)

Restorable(f) == { d.record : d \in { e \in data : Backup(e.kind, e.created, e.ns) \in Chain(f) } }

(***************************************************************************)
(* Once a full backup was performed, every update older than LastRun, from *)
(* where the next incremental backup reads, can be restored if a restore   *)
(* finds a full backup of its namespace: it is in that full backup, the    *)
(* one of the latest time of all namespaces, or in an incremental backup   *)
(* after it. No update falls between two backups. (A partial full backup   *)
(* is found too, and hides the older backups of the namespaces it lacks.)  *)
(***************************************************************************)
ChainUnbroken ==
    lastFullRun # Never =>
        \A f \in FindLastFullBackup(clock) :
            updated[f.ns] # Never /\ updated[f.ns] < LastRun => updated[f.ns] \in Restorable(f)

(***************************************************************************)
(* BackupState.LastFullRun is the time of a full backup that was performed:*)
(* every namespace has one of that time, with its metadata written.        *)
(***************************************************************************)
LastFullRunPerformed ==
    lastFullRun # Never =>
        \A n \in Namespaces : Backup("full", lastFullRun, n) \in metadata

(***************************************************************************)
(* BackupState.LastFullRun is the last time: it does not go back.          *)
(***************************************************************************)
LastFullRunAdvances == [][lastFullRun' >= lastFullRun]_lastFullRun

(***************************************************************************)
(* An incremental run that is recorded in BackupState.LastIncrRun was      *)
(* performed: the backup of every namespace came to its end.               *)
(***************************************************************************)
LastIncrRunPerformed ==
    [][lastIncrRun' = lastIncrRun
         \/ \A n \in Namespaces : incrBackupHandlers[n] = "waited"]_lastIncrRun

(***************************************************************************)
(* Every execution of a full backup settles, and every incremental run     *)
(* gives its isRunning back: no job of the routine is stuck.               *)
(***************************************************************************)
FullJobsSettle ==
    \A c \in Calls : phase[c] = "blocked" ~> phase[c] \in Retry!Settled

IncrJobEnds == incrStep # "idle" ~> incrStep = "idle"
=============================================================================
