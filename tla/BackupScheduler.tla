---------------------------- MODULE BackupScheduler ----------------------------
(***************************************************************************)
(* The generations of jobs, handlers and backends of the routines. Every   *)
(* start of the service and every ApplyNewConfig makes a generation; the   *)
(* backups and retries of the previous one go on.                          *)
(*                                                                         *)
(* Of a full backup only what keeps two of them apart is here: isRunning   *)
(* of the job, the mutex and the timer of RetryService, and the flag of    *)
(* the backend. The rest, and incremental backups, are in                  *)
(* BackupRoutineHandler.                                                   *)
(***************************************************************************)
CONSTANTS
    Routines,
    Generations, First,     \* the start of the service is the First generation
    None,                   \* a nil pointer
    Executions              \* bounds the executions of one full backup job that are not over

Handlers == [routine : Routines, generation : Generations, backend : Generations]

(***************************************************************************)
(* Jobs by the group of their key: "now" is the initial full backup and    *)
(* "adhoc" one that was requested; both run once.                          *)
(***************************************************************************)
Jobs == [routine : Routines, group : {"full", "incremental", "now", "adhoc"},
         handler : Handlers \cup {None}]

(***************************************************************************)
(* An execution of a full backup job with its retries: it was called and   *)
(* waits for the mutex, runs, has a timer that is pending, one that fired  *)
(* and waits for the mutex, or is repeated on the timer's goroutine.       *)
(***************************************************************************)
Attempts == [handler : Handlers, execution : Executions,
             step : {"called", "running", "pending", "fired", "retrying"}]

VARIABLES
    jobs,            \* the jobs in the scheduler
    jobStore,        \* the full backup job put last, by routine
    backends,        \* the generation of the backend that the holder has
    handlerHolder,   \* the handlers HTTP requests see
    apply,           \* the calls of ApplyNewConfig
    attempts         \* the executions of full backup jobs

vars == <<jobs, jobStore, backends, handlerHolder, apply, attempts>>

(***************************************************************************)
(* Jobs, handlers, backends, calls of ApplyNewConfig and executions have   *)
(* their types.                                                            *)
(***************************************************************************)
TypeOK ==
    /\ jobs \subseteq Jobs
    /\ jobStore \in [Routines -> Handlers \cup {None}]
    /\ backends \in [Routines -> Generations \cup {None}]
    /\ handlerHolder \in [Routines -> Handlers \cup {None}]
    /\ apply \in [Generations -> [step : {"idle", "cleared", "backends", "handlers", "done", "failed"},
                                  handlers : [Routines -> Handlers \cup {None}],
                                  scheduled : SUBSET Routines]]
    /\ attempts \subseteq Attempts

-----------------------------------------------------------------------------

Idle(step) == [step |-> step, handlers |-> [r \in Routines |-> None], scheduled |-> {}]

Handler(r, generation) == [routine |-> r, generation |-> generation, backend |-> generation]

Job(r, group, handler) == [routine |-> r, group |-> group, handler |-> handler]

(***************************************************************************)
(* The service starts with the routines R; those in due have a full backup *)
(* to make up for.                                                         *)
(***************************************************************************)
StartJobs(R, due) ==
    {Job(r, g, Handler(r, First)) : r \in R, g \in {"full", "incremental"}}
      \cup {Job(r, "now", Handler(r, First)) : r \in due}

StartHandlers(R) == [r \in Routines |-> IF r \in R THEN Handler(r, First) ELSE None]

BuildBackupBackends(g, R) == [r \in Routines |-> IF r \in R THEN g ELSE None]

Init(R) ==
    /\ \E due \in SUBSET R : jobs = StartJobs(R, due)
    /\ jobStore = StartHandlers(R)
    /\ backends = BuildBackupBackends(First, R)
    /\ handlerHolder = StartHandlers(R)
    /\ apply = [g \in Generations |-> Idle("idle")]
    /\ attempts = {}

(***************************************************************************)
(* The process stops and is started again.                                 *)
(***************************************************************************)
Restart(R) ==
    /\ \E due \in SUBSET R : jobs' = StartJobs(R, due)
    /\ jobStore' = StartHandlers(R)
    /\ backends' = BuildBackupBackends(First, R)
    /\ handlerHolder' = StartHandlers(R)
    /\ apply' = [g \in Generations |-> Idle(IF apply[g].step = "idle" THEN "idle" ELSE "failed")]
    /\ attempts' = {}

-----------------------------------------------------------------------------
(* ApplyNewConfig, by request g, of a configuration with the routines R *)

Clear(g) ==
    /\ apply[g].step = "idle"
    /\ jobs' = {}
    /\ apply' = [apply EXCEPT ![g].step = "cleared"]
    /\ UNCHANGED <<jobStore, backends, handlerHolder, attempts>>

SetData(g, R) ==
    /\ apply[g].step = "cleared"
    /\ backends' = BuildBackupBackends(g, R)
    /\ apply' = [apply EXCEPT ![g].step = "backends"]
    /\ UNCHANGED <<jobs, jobStore, handlerHolder, attempts>>

(***************************************************************************)
(* A handler takes its backend from the holder. A routine without one      *)
(* makes newBackupRoutineHandler panic.                                    *)
(***************************************************************************)
MakeHandlers(g, R) ==
    /\ apply[g].step = "backends"
    /\ apply' = [apply EXCEPT ![g] =
         IF \E r \in R : backends[r] = None
         THEN Idle("failed")
         ELSE [step |-> "handlers", scheduled |-> {},
               handlers |-> [r \in Routines |->
                  IF r \in R THEN [routine |-> r, generation |-> g, backend |-> backends[r]]
                  ELSE None]]]
    /\ UNCHANGED <<jobs, jobStore, backends, handlerHolder, attempts>>

\* Mutant of Stored: a job that is in the store is not replaced.
StoredOnce(r, handler) == IF jobStore[r] # None THEN jobStore ELSE [jobStore EXCEPT ![r] = handler]

Stored(r, handler) == [jobStore EXCEPT ![r] = handler]

HasKey(r, group) == \E j \in jobs : j.routine = r /\ j.group = group

(***************************************************************************)
(* One round of scheduleRoutines, which stops at a key that exists and     *)
(* panics at a routine that was added after the handlers were made.        *)
(***************************************************************************)
ScheduleRoutine(g, R) ==
    \E r \in R \ apply[g].scheduled, due \in BOOLEAN :
       LET handler == apply[g].handlers[r]
           fails   == handler = None \/ HasKey(r, "incremental") \/ (due /\ HasKey(r, "now"))
           groups  == CASE handler = None            -> {"full"}
                        [] due /\ HasKey(r, "now")   -> {"full"}
                        [] due                       -> {"full", "incremental", "now"}
                        [] OTHER                     -> {"full", "incremental"}
       IN  /\ apply[g].step = "handlers"
           /\ IF HasKey(r, "full")
              THEN /\ apply' = [apply EXCEPT ![g] = Idle("failed")]
                   /\ UNCHANGED <<jobs, jobStore>>
              ELSE /\ jobs' = jobs \cup {Job(r, group, handler) : group \in
                                {x \in groups : ~HasKey(r, x)}}
                   /\ jobStore' = Stored(r, handler)
                   /\ apply' = IF fails THEN [apply EXCEPT ![g] = Idle("failed")]
                                        ELSE [apply EXCEPT ![g].scheduled = @ \cup {r}]
           /\ UNCHANGED <<backends, handlerHolder, attempts>>

\* Mutant of ApplyReturns: the HTTP service keeps the handlers it was started with.
ApplyReturnsNothing(g, R) ==
    /\ apply[g].step = "handlers" /\ R \subseteq apply[g].scheduled
    /\ apply' = [apply EXCEPT ![g] = Idle("done")]
    /\ UNCHANGED <<jobs, jobStore, backends, handlerHolder, attempts>>

ApplyReturns(g, R) ==
    /\ apply[g].step = "handlers" /\ R \subseteq apply[g].scheduled
    /\ handlerHolder' = apply[g].handlers
    /\ apply' = [apply EXCEPT ![g] = Idle("done")]
    /\ UNCHANGED <<jobs, jobStore, backends, attempts>>

-----------------------------------------------------------------------------
(* Jobs *)

(***************************************************************************)
(* A full backup on request: the job that was stored for the routine,      *)
(* which nothing ever removes.                                             *)
(***************************************************************************)
ScheduleFullBackup(r) ==
    /\ jobStore[r] # None
    /\ jobs' = jobs \cup {Job(r, "adhoc", jobStore[r])}
    /\ UNCHANGED <<jobStore, backends, handlerHolder, apply, attempts>>

Attempt(handler, execution, step) ==
    [handler |-> handler, execution |-> execution, step |-> step]

Fired(j) == IF j.group \in {"now", "adhoc"} THEN jobs \ {j} ELSE jobs

(***************************************************************************)
(* isRunning of a job. The scheduled full backup of a handler, the initial *)
(* one and those on request are one job.                                   *)
(***************************************************************************)
IsRunning(handler) ==
    \E a \in attempts : a.handler = handler /\ a.step \in {"called", "running"}

InProgress(a) == a.step \in {"running", "retrying"}

(***************************************************************************)
(* A full backup job is triggered. A job that is still running skips the   *)
(* trigger, and a job with a nil handler panics; quartz goes on.           *)
(***************************************************************************)
Execute(j, e) ==
    /\ j.group # "incremental" /\ j.handler # None
    /\ ~IsRunning(j.handler)
    /\ \A a \in attempts : a.handler = j.handler => a.execution # e
    /\ jobs' = Fired(j)
    /\ attempts' = attempts \cup {Attempt(j.handler, e, "called")}
    /\ UNCHANGED <<jobStore, backends, handlerHolder, apply>>

SkipFull(j) ==
    /\ j.group \in {"now", "adhoc"}
    /\ j.handler = None \/ IsRunning(j.handler)
    /\ jobs' = Fired(j)
    /\ UNCHANGED <<jobStore, backends, handlerHolder, apply, attempts>>

(***************************************************************************)
(* The mutex of the handler is taken and its pending timer is stopped. A   *)
(* full backup that finds the flag of its backend set returns.             *)
(***************************************************************************)
Lock(a) ==
    /\ a.step \in {"called", "fired"}
    /\ ~\E b \in attempts : b.handler = a.handler /\ InProgress(b)
    /\ LET others  == {b \in attempts \ {a} : b.handler = a.handler => b.step # "pending"}
           locked  == [a EXCEPT !.step = IF @ = "called" THEN "running" ELSE "retrying"]
           flagged == \E b \in attempts : /\ InProgress(b)
                                          /\ b.handler.routine = a.handler.routine
                                          /\ b.handler.backend = a.handler.backend
       IN  attempts' = IF flagged THEN others ELSE others \cup {locked}
    /\ UNCHANGED <<jobs, jobStore, backends, handlerHolder, apply>>

(***************************************************************************)
(* An attempt ends; one that failed may have a retry left.                 *)
(***************************************************************************)
End(a) ==
    /\ InProgress(a)
    /\ \/ attempts' = attempts \ {a}
       \/ attempts' = (attempts \ {a}) \cup {[a EXCEPT !.step = "pending"]}
    /\ UNCHANGED <<jobs, jobStore, backends, handlerHolder, apply>>

FireTimer(a) ==
    /\ a.step = "pending"
    /\ attempts' = (attempts \ {a}) \cup {[a EXCEPT !.step = "fired"]}
    /\ UNCHANGED <<jobs, jobStore, backends, handlerHolder, apply>>

Run ==
    \/ \E j \in jobs : SkipFull(j) \/ \E e \in Executions : Execute(j, e)
    \/ \E a \in attempts : Lock(a) \/ End(a) \/ FireTimer(a)

-----------------------------------------------------------------------------
(* Properties *)

(***************************************************************************)
(* A full backup of a routine does not start until the previous one is     *)
(* completed, whichever generation it is of and however it was triggered:  *)
(* README.md:221-223, "The service will skip the next startup until the    *)
(* previous backup run is completed".                                      *)
(***************************************************************************)
OneFullBackup ==
    \A a, b \in attempts :
       InProgress(a) /\ InProgress(b) /\ a.handler.routine = b.handler.routine => a = b

NotApplying == \A g \in Generations : apply[g].step \in {"idle", "done", "failed"}

(***************************************************************************)
(* While no configuration is being applied, the jobs, the handlers and the *)
(* backends of a routine are of one generation: the flag that HTTP         *)
(* requests and incremental backups look at is the one that the scheduled  *)
(* full backup and a full backup on request set.                           *)
(***************************************************************************)
OneGeneration ==
    NotApplying =>
       \A r \in Routines :
          /\ handlerHolder[r] # None <=> backends[r] # None
          /\ handlerHolder[r] # None =>
               /\ handlerHolder[r].backend = backends[r]
               /\ jobStore[r] = handlerHolder[r]
               /\ HasKey(r, "full") /\ HasKey(r, "incremental")
          /\ \A j \in jobs : j.routine = r /\ j.group # "adhoc" => j.handler = handlerHolder[r]

(***************************************************************************)
(* However calls of ApplyNewConfig overlap, and wherever one stops: the    *)
(* scheduled and initial jobs of a routine have one handler, that of the   *)
(* full backup put last, which is the one a request gets.                  *)
(***************************************************************************)
JobsShareHandler ==
    \A j \in jobs : j.group # "adhoc" => j.handler = jobStore[j.routine]

(***************************************************************************)
(* Once a configuration was applied, no full backup of a routine that it   *)
(* has starts with a handler of an earlier one, on schedule or on request: *)
(* what is left of the earlier one is what was already started, and        *)
(* overlaps are over once that is.                                         *)
(***************************************************************************)
NewBackupsAreCurrent ==
    [][NotApplying => \A a \in attempts' \ attempts :
          a.step = "called" /\ handlerHolder[a.handler.routine] # None =>
             a.handler = handlerHolder[a.handler.routine]]_vars

=============================================================================
