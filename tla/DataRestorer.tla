----------------------------- MODULE DataRestorer -----------------------------
(***************************************************************************)
(* Restores from the backups of a routine: the dataRestorer, the jobs that *)
(* RestoreJobsHolder keeps of it, and the listings of BackupBackend that   *)
(* it works on, while the backups of BackupRoutineHandler go on.           *)
(*                                                                         *)
(* A restored namespace is known by the record it has afterwards. backup-go*)
(* is external: a restore handler reads the records of its folder in one   *)
(* step.                                                                   *)
(***************************************************************************)
EXTENDS BackupRoutineHandler, RestoreRequests

Sets == INSTANCE FiniteSetsExt

CONSTANTS
    Jobs,           \* restore jobs
    RestoreFlags,   \* the restore policy of the requests
    RestoreTimes,   \* the times that are restored
    OnlyComplete,   \* no restore is requested while the last full backup is a partial one
    ConfigChanges,  \* the routine may be changed while it is restored
    RestoreFaults   \* clients, listings and restores may fail

ASSUME RestorerAssumption ==
    /\ RestoreFlags \subseteq WriteFlags /\ RestoreTimes \subseteq Times
    /\ {OnlyComplete, ConfigChanges, RestoreFaults} \subseteq BOOLEAN

ASSUME RestorePolicyAssumption == AcceptedFlags(RestoreFlags)

VARIABLE
    job  \* the jobs of the holder, with the goroutines that run them

allVars == <<vars, job>>

-----------------------------------------------------------------------------
(* The files of a backup *)

First(backups) == CHOOSE b \in backups : \A c \in backups : b.created <= c.created

Records(b) == {d.record : d \in {e \in data : InFolder(e, b)}}

RecordCount(backups) == Cardinality({d \in data : \E b \in backups : InFolder(d, b)})

-----------------------------------------------------------------------------
(* Jobs *)

Steps == {"none", "list", "run", "wait", "done"}

Goroutine(step, backups) == [step |-> step, backups |-> backups]
NoGoroutines == [n \in Namespaces |-> Goroutine("none", {})]

(***************************************************************************)
(* A job with the goroutine of each namespace; routine is the routine it   *)
(* finds in the configuration that the restorer was started with, target   *)
(* the record of each namespace in the destination cluster, and promised   *)
(* is not part of the code, see Promised.                                  *)
(***************************************************************************)
NoJob == [status |-> "none", kind |-> "none", step |-> "none", to |-> Never,
          routine |-> "same", ns |-> NoGoroutines, errors |-> {}, total |-> 0, done |-> 0,
          target |-> [n \in Namespaces |-> Never], promised |-> [n \in Namespaces |-> Never]]

(***************************************************************************)
(* A job has its type; its counters are natural numbers.                   *)
(***************************************************************************)
RestoreTypeOK ==
    job \in [Jobs ->
      [status : {"none", "Running", "Done", "Failed"}, kind : {"none", "path", "time"},
       step : {"none", "client", "namespaces"}, to : Times,
       routine : {"same", "moved", "gone"},
       ns : [Namespaces -> [step : Steps, backups : SUBSET Backups]],
       errors : SUBSET Namespaces, total : Nat, done : Nat,
       target : [Namespaces -> Times], promised : [Namespaces -> Times]]]

RestoreInit == job = [j \in Jobs |-> NoJob]

Set(j, record) == job' = [job EXCEPT ![j] = record]

(***************************************************************************)
(* setFailed and setDone. Of a job that ended only the status is kept.     *)
(***************************************************************************)
SetFailed(j) == Set(j, [NoJob EXCEPT !.status = "Failed"])

SetDone(j) == Set(j, [NoJob EXCEPT !.status = "Done"])

(***************************************************************************)
(* The last update of namespace n that the listed backups up to a time     *)
(* promise: it is in one, and older than one. Not part of the code.        *)
(***************************************************************************)
Promised(n, to) ==
    LET listed == {b \in metadata : b.ns = n /\ b.created <= to}
    IN  Sets!Max({Never} \cup
            UNION {{r \in Records(b) : \E c \in listed : r < c.created} : b \in listed})

(***************************************************************************)
(* POST /v1/restore/full and /v1/restore/incremental: a job for the backup *)
(* at a path, from the storage that the request names. The records in it   *)
(* are counted if its metadata can be read.                                *)
(***************************************************************************)
Restore(j, b) ==
    /\ job[j].status = "none"
    /\ \E count \in {RecordCount({b})} \cup {c \in {0} : RestoreFaults} :
          Set(j, [NoJob EXCEPT
            !.status = "Running", !.kind = "path", !.step = "client", !.total = count,
            !.ns[b.ns] = Goroutine("run", {b}),
            !.promised[b.ns] = Sets!Max({Never} \cup Records(b))])

(***************************************************************************)
(* POST /v1/restore/timestamp: the full backup is found first.             *)
(***************************************************************************)
RestoreByTime(j, to) ==
    LET full == FindLastFullBackup(to)
    IN  /\ job[j].status = "none"
        /\ full # {}
        /\ OnlyComplete => {b.ns : b \in full} = Namespaces
        /\ Set(j, [NoJob EXCEPT
             !.status = "Running", !.kind = "time", !.step = "client", !.to = to,
             !.ns = [n \in Namespaces |->
                LET found == {b \in full : b.ns = n}
                IN  Goroutine(IF found = {} THEN "none" ELSE "list", found)],
             !.promised = [n \in Namespaces |-> Promised(n, to)]])

(***************************************************************************)
(* GetClient, in the goroutine of the job.                                 *)
(***************************************************************************)
GetClient(j) ==
    /\ job[j].step = "client"
    /\ \/ Set(j, [job[j] EXCEPT !.step = "namespaces"])
       \/ RestoreFaults /\ SetFailed(j)

(***************************************************************************)
(* A namespace failed. Its error is appended to the others without a lock: *)
(* of two that are appended at once one may be lost.                       *)
(***************************************************************************)
Fail(j, n) ==
    \E errors \in {job[j].errors \cup {n}, {n}} :
       Set(j, [job[j] EXCEPT !.ns[n] = Goroutine("done", {}), !.errors = errors])

\* Mutant of ListIncrementals: only the records of the full backup are counted.
ListIncrementalsCountFull(j, n) ==
    LET g    == job[j].ns[n]
        all  == g.backups \cup FindIncrementalBackups(First(g.backups).created, job[j].to, n)
    IN  /\ job[j].step = "namespaces" /\ g.step = "list"
        /\ \/ Set(j, [job[j] EXCEPT !.ns[n] = Goroutine("run", all),
                                    !.total = @ + RecordCount(g.backups)])
           \/ RestoreFaults /\ Fail(j, n)

\* Mutant of Wait: the records that are left are counted down from a total
\* that may not have been counted.
WaitCountsDown(j, n) ==
    LET g == job[j].ns[n]
        b == First(g.backups)
        rest == g.backups \ {b}
    IN  /\ g.step = "wait"
        /\ Set(j, [job[j] EXCEPT
             !.total = @ - RecordCount({b}),
             !.ns[n] = Goroutine(IF rest = {} THEN "done" ELSE "run", rest)])

(***************************************************************************)
(* The backups of a namespace: the full one and the incremental ones from  *)
(* its time to the time of the request. Their records are counted.         *)
(***************************************************************************)
ListIncrementals(j, n) ==
    LET g    == job[j].ns[n]
        all  == g.backups \cup FindIncrementalBackups(First(g.backups).created, job[j].to, n)
    IN  /\ job[j].step = "namespaces" /\ g.step = "list"
        /\ \/ Set(j, [job[j] EXCEPT !.ns[n] = Goroutine("run", all),
                                    !.total = @ + RecordCount(all)])
           \/ RestoreFaults /\ Fail(j, n)

(***************************************************************************)
(* RestoreRun of the next backup, at its path in the storage that the      *)
(* routine has now. There is nothing at that path of another storage.      *)
(***************************************************************************)
RestoreRun(j, n) ==
    LET found == First(job[j].ns[n].backups) \in metadata /\ job[j].routine = "same"
    IN  /\ job[j].step = "namespaces" /\ job[j].ns[n].step = "run"
        /\ job[j].routine # "gone"
        /\ \/ found /\ Set(j, [job[j] EXCEPT !.ns[n].step = "wait"])
           \/ (~found \/ RestoreFaults) /\ Fail(j, n)

(***************************************************************************)
(* What a namespace has after the records of backup b were written to it.  *)
(* A later update is of a higher generation.                               *)
(***************************************************************************)
Restored(record, b) ==
    LET options == [action |-> RecordExistsAction(RestoreFlags),
                    generation |-> GenerationPolicy(RestoreFlags)]
        written == {r \in Records(b) : Written(options, record # Never, r > record) # "kept"}
    IN  IF written = {} THEN record ELSE Sets!Max(written)

(***************************************************************************)
(* The handler wrote the records of its backup.                            *)
(***************************************************************************)
Wait(j, n) ==
    LET g == job[j].ns[n]
        b == First(g.backups)
        rest == g.backups \ {b}
    IN  /\ g.step = "wait"
        /\ \/ Set(j, [job[j] EXCEPT
                !.target[n] = Restored(@, b),
                !.done = @ + RecordCount({b}),
                !.ns[n] = Goroutine(IF rest = {} THEN "done" ELSE "run", rest)])
           \/ RestoreFaults /\ Fail(j, n)

(***************************************************************************)
(* All goroutines of the namespaces are done; setDone or setFailed.        *)
(***************************************************************************)
Finish(j) ==
    /\ job[j].step = "namespaces"
    /\ \A n \in Namespaces : job[j].ns[n].step \in {"none", "done"}
    /\ IF job[j].errors = {} THEN SetDone(j) ELSE SetFailed(j)

(***************************************************************************)
(* While restores by time are in progress, requests change the routine, or *)
(* take it out of the configuration.                                       *)
(***************************************************************************)
ByTime(j) == job[j].status = "Running" /\ job[j].kind = "time" /\ job[j].routine = "same"

ChangeRoutine ==
    /\ ConfigChanges
    /\ \E j \in Jobs : ByTime(j)
    /\ \E change \in {"moved", "gone"} :
          job' = [j \in Jobs |-> IF ByTime(j) THEN [job[j] EXCEPT !.routine = change] ELSE job[j]]

(***************************************************************************)
(* The jobs are only in the memory of the process. It may stop at any time *)
(* (see Crash); here it does where a restore stops it.                     *)
(***************************************************************************)
LoseJobs == job' = [j \in Jobs |-> NoJob]

(***************************************************************************)
(* A routine that is gone is a nil pointer: the goroutine of the namespace *)
(* panics, and nothing recovers it.                                        *)
(***************************************************************************)
RestorePanics ==
    /\ \E j \in Jobs, n \in Namespaces :
          job[j].step = "namespaces" /\ job[j].ns[n].step = "run" /\ job[j].routine = "gone"
    /\ Restart /\ UNCHANGED crashes
    /\ LoseJobs

-----------------------------------------------------------------------------

RestoreAdvance(j) ==
    \/ GetClient(j) \/ Finish(j)
    \/ \E n \in Namespaces : ListIncrementals(j, n) \/ RestoreRun(j, n) \/ Wait(j, n)

BackupNext ==
    \/ \E n \in Namespaces : Update(n)
    \/ \E c \in Calls : FullExecute(c) \/ FullLock(c) \/ FullTimer(c) \/ FullReturn(c)
    \/ FullAdvance
    \/ IncrExecute
    \/ IncrAdvance

RestoreNext ==
    \/ BackupNext /\ UNCHANGED job
    \/ \E j \in Jobs :
         /\ \/ \E b \in metadata : Restore(j, b)
            \/ \E to \in RestoreTimes : RestoreByTime(j, to)
            \/ RestoreAdvance(j)
         /\ UNCHANGED vars
    \/ ChangeRoutine /\ UNCHANGED vars
    \/ RestorePanics

RestoreSpec == Init /\ RestoreInit /\ [][RestoreNext]_allVars

-----------------------------------------------------------------------------
(* Properties *)

(***************************************************************************)
(* A job becomes Done only when it restored everything: the last update of *)
(* every namespace that the backups promised when the restore was          *)
(* requested, or a later one.                                              *)
(***************************************************************************)
DoneRestoresAll ==
    [][\A j \in Jobs : job[j].status # "Done" /\ job'[j].status = "Done" =>
          \A n \in Namespaces : job[j].target[n] >= job[j].promised[n]]_allVars

(***************************************************************************)
(* The estimate of a running job: no more records are restored than were   *)
(* counted, if they were counted.                                          *)
(***************************************************************************)
ProgressBounded ==
    \A j \in Jobs : job[j].status = "Running" /\ job[j].total # 0 => job[j].done <= job[j].total

=============================================================================
