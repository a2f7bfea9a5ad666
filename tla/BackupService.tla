----------------------------- MODULE BackupService -----------------------------
(***************************************************************************)
(* The HTTP service over its two parts: requests change the configuration, *)
(* and ApplyConfig gives it to the scheduler.                              *)
(***************************************************************************)
EXTENDS Configuration, Documents

CONSTANT Executions   \* bounds the executions of one full backup job that are not over

VARIABLES jobs, jobStore, backends, handlerHolder, apply, attempts

Scheduler == INSTANCE BackupScheduler
    WITH Generations <- Sources, First <- Initial, None <- Absent

ASSUME ServiceAssumption == Absent \notin Scheduler!Handlers

schedulerVars == <<jobs, jobStore, backends, handlerHolder, apply, attempts>>
serviceVars == <<vars, schedulerVars>>

RoutinesOf(c) == {r \in Routines : c.routines[r] # Absent}

ServiceInit == Init /\ Scheduler!Init(RoutinesOf(config))

-----------------------------------------------------------------------------

(***************************************************************************)
(* POST /v1/config/apply: ApplyNewConfig with the s.config of the moment.  *)
(***************************************************************************)
ApplyConfig(q) ==
    /\ MayStart(q, "apply")
    /\ request' = [request EXCEPT ![q] = [op |-> "apply", step |-> "applying", config |-> current]]
    /\ Scheduler!Clear(q)
    /\ UNCHANGED <<configs, current, file, unsaved, crashes>>

ApplyNewConfig(q) ==
    LET R == RoutinesOf(configs[request[q].config])
    IN  /\ request[q].step = "applying" /\ request[q].op = "apply"
        /\ \/ Scheduler!SetData(q, R)
           \/ Scheduler!MakeHandlers(q, R)
           \/ Scheduler!ScheduleRoutine(q, R)
           \/ Scheduler!ApplyReturns(q, R)
        /\ request' = CASE apply'[q].step = "done"   -> [request EXCEPT ![q] = Answered("ok")]
                        [] apply'[q].step = "failed" -> [request EXCEPT ![q] = Answered("failed")]
                        [] OTHER                     -> request
        /\ UNCHANGED <<configs, current, file, unsaved, crashes>>

(***************************************************************************)
(* POST /v1/backups/schedule/{name}                                        *)
(***************************************************************************)
ScheduleFullBackup(q) ==
    /\ MayStart(q, "schedule")
    /\ \E r \in Routines :
          \/ /\ Scheduler!ScheduleFullBackup(r)
             /\ request' = [request EXCEPT ![q] = Answered("ok")]
          \/ /\ jobStore[r] = Absent
             /\ request' = [request EXCEPT ![q] = Answered("failed")]
             /\ UNCHANGED schedulerVars
    /\ UNCHANGED <<configs, current, file, unsaved, crashes>>

(***************************************************************************)
(* GET /v1/backups/full: every routine of the configuration is looked up   *)
(* in the holder; one that was not applied yet has no backend, and the     *)
(* handler panics.                                                         *)
(***************************************************************************)
ReadAllBackups(q) ==
    /\ Read(q, \A r \in RoutinesOf(config) : backends[r] # Absent)
    /\ UNCHANGED schedulerVars

(***************************************************************************)
(* GET /v1/backups/full/{name} and /v1/backups/currentBackup/{name}, for   *)
(* which the routine is looked up in the holder alone.                     *)
(***************************************************************************)
ReadBackups(q) ==
    /\ \E r \in Routines : Read(q, backends[r] # Absent)
    /\ UNCHANGED schedulerVars

GetCurrentBackupInfo(q) ==
    /\ \E r \in Routines : Read(q, handlerHolder[r] # Absent)
    /\ UNCHANGED schedulerVars

RestartService == Restart /\ Scheduler!Restart(RoutinesOf(configs'[Initial]))

Next ==
    \/ \E q \in Requests :
          \/ (Handle(q) \/ Proceed(q)) /\ UNCHANGED schedulerVars
          \/ ApplyConfig(q) \/ ApplyNewConfig(q) \/ ScheduleFullBackup(q)
          \/ ReadAllBackups(q) \/ ReadBackups(q) \/ GetCurrentBackupInfo(q)
    \/ Scheduler!Run /\ UNCHANGED vars
    \/ RestartService

Spec == ServiceInit /\ [][Next]_serviceVars

-----------------------------------------------------------------------------
(* Properties *)

(***************************************************************************)
(* Every policy and cluster that the file has, and the options of the      *)
(* service, are accepted again when it is loaded, and mean what they meant *)
(* before they were written. A version that is plain stands for every      *)
(* document that Validate accepts; the compression of a policy and         *)
(* clusters without credentials are left out.                              *)
(***************************************************************************)
DocumentsSurviveSave ==
    file \notin {Truncated, Broken} =>
       /\ \A i \in Policies : Trait(file.items[i]) = "plain" => PoliciesSurvive
       /\ \A i \in Clusters : Trait(file.items[i]) \in {"plain", "small"} => ClustersSurvive
       /\ ServiceSurvives

(***************************************************************************)
(* Every storage that the file has is accepted again when it is loaded,    *)
(* and is the storage it was before it was written: the file has the       *)
(* fields of the type it is of. A version that is plain stands for every   *)
(* storage that Validate accepts.                                          *)
(***************************************************************************)
StoragesSurviveSave ==
    file # Broken => \A i \in Storages : Trait(file.items[i]) = "plain" => StoragesSurvive

(***************************************************************************)
(* The maps, the file, the requests, the jobs and the handlers keep their  *)
(* types.                                                                  *)
(***************************************************************************)
ServiceTypeOK == TypeOK /\ Scheduler!TypeOK

(***************************************************************************)
(* A routine has at most one full backup in progress, whatever requests    *)
(* change, apply and schedule.                                             *)
(***************************************************************************)
OneFullBackup == Scheduler!OneFullBackup

(***************************************************************************)
(* Once a configuration was applied, jobs, handlers and backends of a      *)
(* routine belong together.                                                *)
(***************************************************************************)
OneGeneration == Scheduler!OneGeneration

(***************************************************************************)
(* However requests apply configurations, the scheduled jobs of a routine  *)
(* have the handler that a full backup on request gets.                    *)
(***************************************************************************)
JobsShareHandler == Scheduler!JobsShareHandler

(***************************************************************************)
(* After an apply full backups start with the new handlers only.           *)
(***************************************************************************)
NewBackupsAreCurrent == Scheduler!NewBackupsAreCurrent

=============================================================================
