----------------------- MODULE BackupRoutineHandlerProofs -----------------------
(***************************************************************************)
(* Type correctness of BackupRoutineHandler and the exactness of the       *)
(* full-backup flag, for any number of namespaces, executions and retries, *)
(* every policy, and whatever fails.                                       *)
(***************************************************************************)
EXTENDS BackupRoutineHandler, TLAPS

Inv == TypeOK /\ FullFlagExact /\ Retry!MutexHeld

USE HandlerAssumption

-----------------------------------------------------------------------------
(* Type correctness, variable group by variable group *)

TypeOKEnvironment ==
    /\ clock \in Times
    /\ updated \in [Namespaces -> Times]
    /\ crashes \in 0 .. MaxCrashes

TypeOKFull ==
    /\ fullJob \in Calls \cup {NoCall}
    /\ fullNow \in [Calls -> Times]
    /\ fullStep \in FullSteps
    /\ fullBackupInProgress \in BOOLEAN
    /\ fullBackupHandlers \in [Namespaces -> FullHandler]

TypeOKIncr ==
    /\ incrStep \in IncrSteps
    /\ incrNow \in Times
    /\ incrFrom \in Times
    /\ incrBackupHandlers \in [Namespaces -> IncrHandler]

TypeOKStorage ==
    /\ lastFullRun \in Times
    /\ lastIncrRun \in Times
    /\ data \in SUBSET Contents
    /\ metadata \in SUBSET Backups

LEMMA TypeParts ==
    TypeOK <=> TypeOKEnvironment /\ Retry!TypeOK /\ TypeOKFull /\ TypeOKIncr /\ TypeOKStorage
BY DEF TypeOK, TypeOKEnvironment, TypeOKFull, TypeOKIncr, TypeOKStorage

LEMMA TypePartsAfter ==
    TypeOKEnvironment' /\ Retry!TypeOK' /\ TypeOKFull' /\ TypeOKIncr' /\ TypeOKStorage' => TypeOK'
BY DEF TypeOK, TypeOKEnvironment, TypeOKFull, TypeOKIncr, TypeOKStorage

LEMMA InvInit == Init => Inv
<1> SUFFICES ASSUME Init PROVE Inv
  OBVIOUS
<1>1. TypeOKEnvironment /\ TypeOKFull /\ TypeOKIncr /\ TypeOKStorage
  <2>1. Never \in Times
    BY DEF Never, Times
  <2>2. TypeOKEnvironment /\ TypeOKStorage
    BY <2>1 DEF Init, TypeOKEnvironment, TypeOKStorage
  <2>3. TypeOKFull /\ TypeOKIncr
    BY <2>1 DEF Init, TypeOKFull, TypeOKIncr, FullSteps, IncrSteps, FullHandler, IncrHandler,
                NoHandlers
  <2> QED
    BY <2>2, <2>3
<1>2. Retry!TypeOK /\ Retry!MutexHeld
  BY DEF Init, Retry!Init, Retry!TypeOK, Retry!MutexHeld, Retry!Phases, Retry!Settled
<1>3. FullFlagExact
  BY DEF Init, FullFlagExact, Retry!Init
<1> QED
  BY <1>1, <1>2, <1>3, TypeParts DEF Inv

(***************************************************************************)
(* The times captured and the backups named are well typed.                *)
(***************************************************************************)
LEMMA BackupType ==
    ASSUME TypeOK, NEW n \in Namespaces
    PROVE  /\ IncrBackupOf(n) \in Backups
           /\ mu # NoCall => FullBackupOf(n) \in Backups
           /\ NoHandlers \in [Namespaces -> FullHandler]
           /\ NoHandlers \in [Namespaces -> IncrHandler]
BY DEF IncrBackupOf, FullBackupOf, Backup, Backups, TypeOK, Retry!TypeOK, Times,
       NoHandlers, FullHandler, IncrHandler

(***************************************************************************)
(* The records a handler writes are times at which something was updated.  *)
(***************************************************************************)
LEMMA WriteType ==
    ASSUME TypeOK, NEW b \in Backups, NEW n \in Namespaces, NEW from, NEW to,
           WriteRecords(b, ReadRecords(n, from, to))
    PROVE  data' \in SUBSET Contents
BY DEF WriteRecords, ReadRecords, Backups, Contents, TypeOK

(***************************************************************************)
(* The steps of RetryService keep its state well typed, and keep the mutex *)
(* with the chain that runs.                                               *)
(***************************************************************************)
LEMMA RetryStep ==
    ASSUME Retry!TypeOK, Retry!MutexHeld, NEW c \in Calls,
           \/ Retry!Call(c) \/ Retry!Lock(c) \/ Retry!Fire(c)
           \/ Retry!Succeed(c) \/ Retry!GiveUp(c) \/ Retry!Reschedule(c)
    PROVE  Retry!TypeOK' /\ Retry!MutexHeld'
<1>1. CASE Retry!Call(c)
  BY <1>1 DEF Retry!Call, Retry!TypeOK, Retry!MutexHeld, Retry!Phases, Retry!Settled
<1>2. CASE Retry!Lock(c)
  BY <1>2 DEF Retry!Lock, Retry!ClearTimer, Retry!TypeOK, Retry!MutexHeld,
              Retry!Phases, Retry!Settled
<1>3. CASE Retry!Fire(c)
  BY <1>3 DEF Retry!Fire, Retry!TypeOK, Retry!MutexHeld, Retry!Phases, Retry!Settled
<1>4. CASE Retry!Succeed(c) \/ Retry!GiveUp(c) \/ Retry!Reschedule(c)
  BY <1>4 DEF Retry!Succeed, Retry!GiveUp, Retry!Reschedule, Retry!TypeOK,
              Retry!MutexHeld, Retry!Phases, Retry!Settled
<1> QED
  BY <1>1, <1>2, <1>3, <1>4

LEMMA RetryUnchanged ==
    UNCHANGED retryVars => /\ Retry!TypeOK => Retry!TypeOK'
                           /\ Retry!MutexHeld => Retry!MutexHeld'
BY DEF retryVars, Retry!TypeOK, Retry!MutexHeld

-----------------------------------------------------------------------------
(* The actions of the full backup *)

LEMMA InvFullJob ==
    ASSUME Inv, NEW c \in Calls, FullExecute(c) \/ FullLock(c) \/ FullTimer(c) \/ FullReturn(c)
    PROVE  Inv'
<1> USE DEF Inv
<1> TypeOKEnvironment /\ Retry!TypeOK /\ TypeOKFull /\ TypeOKIncr /\ TypeOKStorage
  BY TypeParts
<1>1. CASE FullExecute(c)
  <2>1. Retry!TypeOK' /\ Retry!MutexHeld'
    BY <1>1, RetryStep DEF FullExecute
  <2>2. TypeOKEnvironment' /\ TypeOKFull' /\ TypeOKIncr' /\ TypeOKStorage'
    BY <1>1 DEF FullExecute, ReadClock, TypeOKEnvironment, TypeOKFull, TypeOKIncr,
                TypeOKStorage, Times, Never, incrVars, state, storage
  <2>3. FullFlagExact'
    BY <1>1 DEF FullExecute, FullFlagExact, Retry!Call
  <2> QED
    BY <2>1, <2>2, <2>3, TypePartsAfter
<1>2. CASE FullLock(c)
  <2>1. Retry!TypeOK' /\ Retry!MutexHeld'
    BY <1>2, RetryStep DEF FullLock
  <2>2. TypeOKEnvironment' /\ TypeOKFull' /\ TypeOKIncr' /\ TypeOKStorage'
    BY <1>2 DEF FullLock, TypeOKEnvironment, TypeOKFull, TypeOKIncr, TypeOKStorage,
                FullSteps, environment, incrVars, state, storage
  <2>3. FullFlagExact'
    BY <1>2 DEF FullLock, FullFlagExact, Retry!Lock
  <2> QED
    BY <2>1, <2>2, <2>3, TypePartsAfter
<1>3. CASE FullTimer(c)
  <2>1. Retry!TypeOK' /\ Retry!MutexHeld'
    BY <1>3, RetryStep DEF FullTimer
  <2>2. TypeOKEnvironment' /\ TypeOKFull' /\ TypeOKIncr' /\ TypeOKStorage'
    BY <1>3 DEF FullTimer, TypeOKEnvironment, TypeOKFull, TypeOKIncr, TypeOKStorage,
                environment, fullVars, incrVars, state, storage
  <2>3. FullFlagExact'
    BY <1>3 DEF FullTimer, FullFlagExact, Retry!Fire, fullVars
  <2> QED
    BY <2>1, <2>2, <2>3, TypePartsAfter
<1>4. CASE FullReturn(c)
  <2>1. Retry!TypeOK' /\ Retry!MutexHeld'
    BY <1>4, RetryStep DEF FullReturn
  <2>2. TypeOKEnvironment' /\ TypeOKFull' /\ TypeOKIncr' /\ TypeOKStorage'
    BY <1>4 DEF FullReturn, TypeOKEnvironment, TypeOKFull, TypeOKIncr, TypeOKStorage,
                FullSteps, environment, incrVars, state, storage
  <2>3. FullFlagExact'
    BY <1>4 DEF FullReturn, FullFlagExact, Retry!Succeed, Retry!GiveUp, Retry!Reschedule
  <2> QED
    BY <2>1, <2>2, <2>3, TypePartsAfter
<1> QED
  BY <1>1, <1>2, <1>3, <1>4

LEMMA InvFullAdvance == Inv /\ FullAdvance => Inv'
<1> SUFFICES ASSUME Inv, FullAdvance PROVE Inv'
  OBVIOUS
<1> USE DEF Inv
<1>r. /\ TypeOKEnvironment /\ Retry!TypeOK /\ TypeOKFull /\ TypeOKIncr /\ TypeOKStorage
      /\ UNCHANGED <<environment, retryVars, fullJob, fullNow, incrVars>>
  BY TypeParts DEF FullAdvance, FullGetClient, FullFail, FullUpdateState, FullClean,
                   FullConfig, FullStartNamespace, FullRead, FullWait
<1>s. /\ Retry!TypeOK' /\ Retry!MutexHeld' /\ TypeOKEnvironment' /\ TypeOKIncr'
      /\ mu' = mu
  BY <1>r, RetryUnchanged DEF TypeOKEnvironment, TypeOKIncr, environment, incrVars, retryVars
<1>1. CASE FullGetClient
  BY <1>1, <1>r, <1>s, TypePartsAfter
     DEF FullGetClient, FullFlagExact, TypeOKFull, TypeOKStorage, FullSteps, state, storage
<1>2. CASE FullFail
  BY <1>2, <1>r, <1>s, TypePartsAfter
     DEF FullFail, FullFlagExact, TypeOKFull, TypeOKStorage, FullSteps, NoHandlers,
         FullHandler, state
<1>3. CASE FullUpdateState
  <2>1. mu \in Calls
    BY <1>3 DEF FullUpdateState, FullFlagExact, TypeOK, Retry!TypeOK
  <2> QED
    BY <1>3, <1>r, <1>s, <2>1, TypePartsAfter
       DEF FullUpdateState, FullFlagExact, TypeOKFull, TypeOKStorage, FullSteps, storage
<1>4. CASE FullClean
  BY <1>4, <1>r, <1>s, TypePartsAfter
     DEF FullClean, FullFlagExact, TypeOKFull, TypeOKStorage, FullSteps, state
<1>5. CASE FullConfig
  BY <1>5, <1>r, <1>s, TypePartsAfter
     DEF FullConfig, FullFlagExact, TypeOKFull, TypeOKStorage, FullSteps, NoHandlers,
         FullHandler, state, storage
<1>6. ASSUME NEW n \in Namespaces, FullStartNamespace(n) PROVE Inv'
  BY <1>6, <1>r, <1>s, TypePartsAfter
     DEF FullStartNamespace, FullFlagExact, TypeOKFull, TypeOKStorage, FullSteps,
         FullHandler, Outside, state
<1>7. ASSUME NEW n \in Namespaces, FullRead(n) PROVE Inv'
  <2>1. fullBackupInProgress /\ mu # NoCall
    BY <1>7 DEF FullRead, FullFlagExact, NoHandlers
  <2>2. data' \in SUBSET Contents
    BY <1>7, <2>1, BackupType, WriteType DEF FullRead
  <2> QED
    BY <1>7, <1>r, <1>s, <2>1, <2>2, TypePartsAfter
       DEF FullRead, FullFlagExact, TypeOKFull, TypeOKStorage, FullHandler, state
<1>8. ASSUME NEW n \in Namespaces, FullWait(n) PROVE Inv'
  <2>1. FullBackupOf(n) \in Backups
    BY <1>8, BackupType DEF FullWait, FullFlagExact
  <2> QED
    BY <1>8, <1>r, <1>s, <2>1, TypePartsAfter
       DEF FullWait, FullFlagExact, TypeOKFull, TypeOKStorage, FullSteps,
           FullHandler, Outside, state
<1> QED
  BY <1>1, <1>2, <1>3, <1>4, <1>5, <1>6, <1>7, <1>8 DEF FullAdvance

-----------------------------------------------------------------------------
(* The actions of the incremental backup, the cluster and a restart *)

LEMMA InvIncr == Inv /\ (IncrExecute \/ IncrAdvance) => Inv'
<1> SUFFICES ASSUME Inv, IncrExecute \/ IncrAdvance PROVE Inv'
  OBVIOUS
<1> USE DEF Inv
<1>r. /\ TypeOKEnvironment /\ Retry!TypeOK /\ TypeOKFull /\ TypeOKIncr /\ TypeOKStorage
      /\ UNCHANGED <<updated, crashes, retryVars, fullVars, lastFullRun>>
  BY TypeParts DEF IncrExecute, IncrAdvance, IncrCheck, IncrGetClient, IncrBounds, IncrPanic,
                   IncrFinish, IncrStartNamespace, IncrRead, IncrWait, environment, state
<1>s. Retry!TypeOK' /\ Retry!MutexHeld' /\ TypeOKFull' /\ FullFlagExact'
  BY <1>r, RetryUnchanged DEF TypeOKFull, FullFlagExact, fullVars, retryVars
<1>1. CASE IncrExecute
  BY <1>1, <1>r, <1>s, TypePartsAfter
     DEF IncrExecute, ReadClock, TypeOKEnvironment, TypeOKIncr, TypeOKStorage,
         IncrSteps, Times, Never, state, storage
<1>2. CASE IncrAdvance
  <2>e. TypeOKEnvironment'
    BY <1>2, <1>r DEF IncrAdvance, IncrCheck, IncrGetClient, IncrBounds, IncrPanic,
                      IncrFinish, IncrStartNamespace, IncrRead, IncrWait, environment,
                      TypeOKEnvironment
  <2>1. CASE IncrCheck \/ IncrGetClient \/ IncrBounds \/ IncrPanic \/ IncrFinish
    BY <2>1, <2>e, <1>r, <1>s, TypePartsAfter
       DEF IncrCheck, IncrGetClient, IncrBounds, IncrPanic, IncrFinish, LastRun,
           TypeOKIncr, TypeOKStorage, IncrSteps, NoHandlers, IncrHandler, state, storage
  <2>2. ASSUME NEW n \in Namespaces, IncrStartNamespace(n) PROVE Inv'
    BY <2>2, <2>e, <1>r, <1>s, TypePartsAfter
       DEF IncrStartNamespace, TypeOKIncr, TypeOKStorage, IncrSteps, IncrHandler,
           state, storage
  <2>3. ASSUME NEW n \in Namespaces, IncrRead(n) PROVE Inv'
    <3>1. data' \in SUBSET Contents
      BY <2>3, <1>r, BackupType, WriteType DEF IncrRead, TypeOKStorage
    <3> QED
      BY <2>3, <3>1, <2>e, <1>r, <1>s, TypePartsAfter
         DEF IncrRead, TypeOKIncr, TypeOKStorage, IncrHandler, state
  <2>4. ASSUME NEW n \in Namespaces, IncrWait(n) PROVE Inv'
    BY <2>4, <2>e, <1>r, <1>s, BackupType, TypePartsAfter
       DEF IncrWait, TypeOKIncr, TypeOKStorage, IncrHandler, Outside, state, storage
  <2> QED
    BY <1>2, <2>1, <2>2, <2>3, <2>4 DEF IncrAdvance
<1> QED
  BY <1>1, <1>2

LEMMA InvUpdate ==
    ASSUME Inv, NEW n \in Namespaces, Update(n)
    PROVE  Inv'
<1> USE DEF Inv
<1>1. /\ TypeOKEnvironment /\ Retry!TypeOK /\ TypeOKFull /\ TypeOKIncr /\ TypeOKStorage
      /\ UNCHANGED <<crashes, retryVars, fullVars, incrVars, state, storage>>
  BY TypeParts DEF Update
<1>2. TypeOKEnvironment'
  BY <1>1 DEF Update, ReadClock, TypeOKEnvironment, Times, Never
<1>3. TypeOKFull' /\ TypeOKIncr' /\ TypeOKStorage' /\ FullFlagExact'
  BY <1>1 DEF TypeOKFull, TypeOKIncr, TypeOKStorage, FullFlagExact, fullVars, incrVars,
              state, storage, retryVars
<1> QED
  BY <1>1, <1>2, <1>3, RetryUnchanged, TypePartsAfter

LEMMA InvRestart == Inv /\ Restart /\ crashes' \in 0 .. MaxCrashes => Inv'
<1> SUFFICES ASSUME Inv, Restart, crashes' \in 0 .. MaxCrashes PROVE Inv'
  OBVIOUS
<1> USE DEF Inv
<1>1. TypeOKEnvironment /\ Retry!TypeOK /\ TypeOKFull /\ TypeOKIncr /\ TypeOKStorage
  BY TypeParts
<1>2. Retry!TypeOK' /\ Retry!MutexHeld'
  <2>1. phase' \in [Calls -> Retry!Phases] /\ \A c \in Calls : phase'[c] # "running"
    BY <1>1 DEF Restart, Retry!TypeOK, Retry!Phases, Retry!Settled
  <2> QED
    BY <1>1, <2>1 DEF Restart, Retry!TypeOK, Retry!MutexHeld
<1>3. TypeOKEnvironment'
  BY <1>1 DEF Restart, TypeOKEnvironment
<1>4. TypeOKFull' /\ TypeOKIncr' /\ FullFlagExact'
  BY <1>1 DEF Restart, TypeOKFull, TypeOKIncr, FullFlagExact, FullSteps, IncrSteps,
              NoHandlers, FullHandler, IncrHandler
<1>5. TypeOKStorage'
  BY <1>1 DEF Restart, ReadState, TypeOKStorage, storage
<1> QED
  BY <1>2, <1>3, <1>4, <1>5, TypePartsAfter

LEMMA InvCrash == Inv /\ (Crash \/ CollectMetrics) => Inv'
<1> SUFFICES ASSUME Inv, Crash \/ CollectMetrics PROVE Inv'
  OBVIOUS
<1>1. crashes' \in 0 .. MaxCrashes
  BY DEF Crash, CollectMetrics, Inv, TypeOK
<1> QED
  BY <1>1, InvRestart DEF Crash, CollectMetrics

LEMMA InvStep == Inv /\ [Next]_vars => Inv'
<1> SUFFICES ASSUME Inv, [Next]_vars PROVE Inv'
  OBVIOUS
<1>1. CASE Next
  BY <1>1, InvUpdate, InvFullJob, InvFullAdvance, InvIncr, InvCrash DEF Next
<1>2. CASE UNCHANGED vars
  <2>1. UNCHANGED <<retryVars, fullVars, incrVars, state, storage, environment>>
    BY <1>2 DEF vars
  <2>2. Retry!TypeOK' /\ Retry!MutexHeld'
    BY <2>1, RetryUnchanged, TypeParts DEF Inv
  <2>3. TypeOKEnvironment' /\ TypeOKFull' /\ TypeOKIncr' /\ TypeOKStorage' /\ FullFlagExact'
    BY <2>1, TypeParts DEF Inv, TypeOKEnvironment, TypeOKFull, TypeOKIncr, TypeOKStorage,
                           FullFlagExact, fullVars, incrVars, state, storage, environment,
                           retryVars
  <2> QED
    BY <2>2, <2>3, TypePartsAfter DEF Inv
<1> QED
  BY <1>1, <1>2

LEMMA InvAlways == Safety => []Inv
BY InvInit, InvStep, PTL DEF Safety

(***************************************************************************)
(* The state of the routine stays well typed, and so does what it stores.  *)
(***************************************************************************)
THEOREM HandlerTypeCorrect == Safety => []TypeOK
BY InvAlways, PTL DEF Inv

(***************************************************************************)
(* The flag of a full backup is set exactly while an attempt is made, the  *)
(* retry mutex being held: no attempt ever finds it set or clears another's*)
(***************************************************************************)
THEOREM FlagIsExact == Safety => []FullFlagExact
BY InvAlways, PTL DEF Inv
=============================================================================
