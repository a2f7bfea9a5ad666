---------------------------- MODULE BackupChainProofs ----------------------------
(***************************************************************************)
(* No update falls between two backups of a routine that keeps its files,  *)
(* is not sealed, and whose incremental backups and process do not fail.   *)
(* Its full backups may fail at any point and be retried, late ones too,   *)
(* and overlap with its incremental backups in any way.                    *)
(***************************************************************************)
EXTENDS BackupRoutineHandlerProofs

(***************************************************************************)
(* The policies and the environment the theorem is about.                  *)
(***************************************************************************)
KeepsAll == RemoveFiles = "KeepAll" /\ ~Sealed /\ ~IncrFaults /\ MaxCrashes = 0

-----------------------------------------------------------------------------
(* The inductive invariant *)

(***************************************************************************)
(* The files of backup b hold the record as updated at t.                  *)
(***************************************************************************)
Holds(b, t) ==
    [kind |-> b.kind, created |-> b.created, ns |-> b.ns, record |-> t] \in data

(***************************************************************************)
(* A full backup covers an update unless the update is newer.              *)
(***************************************************************************)
Covered(b) == updated[b.ns] = Never \/ Holds(b, updated[b.ns]) \/ b.created < updated[b.ns]

(***************************************************************************)
(* The update of namespace n is older than a full backup, or in an         *)
(* incremental backup that is newer than it.                               *)
(***************************************************************************)
Safe(n) ==
    \E b \in metadata : /\ b.ns = n
                        /\ updated[n] < b.created
                        /\ b.kind = "full" \/ Holds(b, updated[n])

(***************************************************************************)
(* If the last update of namespace n is older than t it is safe.           *)
(***************************************************************************)
SafeBefore(n, t) == updated[n] # Never /\ updated[n] < t => Safe(n)

(***************************************************************************)
(* Every time was read from the clock.                                     *)
(***************************************************************************)
Past ==
    /\ lastFullRun <= clock /\ lastIncrRun <= clock
    /\ incrNow <= clock /\ incrFrom <= clock
    /\ \A c \in Calls : fullNow[c] <= clock
    /\ \A b \in metadata : b.created <= clock

(***************************************************************************)
(* Where the handlers are when a run is at one of its steps.               *)
(***************************************************************************)
InStep ==
    /\ incrStep \in {"idle", "check", "client", "bounds"} => incrBackupHandlers = NoHandlers
    /\ incrStep = "wait" => \A n \in Namespaces : incrBackupHandlers[n] # "none"
    /\ fullStep = "update" => \A n \in Namespaces : fullBackupHandlers[n] = "waited"
    /\ \A n \in Namespaces : incrBackupHandlers[n] \notin {"nil", "failed"}

(***************************************************************************)
(* A full backup that was waited for has its metadata.                     *)
(***************************************************************************)
FullWaited ==
    \A n \in Namespaces : fullBackupHandlers[n] = "waited" => FullBackupOf(n) \in metadata

(***************************************************************************)
(* Every full backup covers its namespace, and so does one in progress     *)
(* that has read it.                                                       *)
(***************************************************************************)
FullCovers ==
    /\ \A b \in metadata : b.kind = "full" => Covered(b)
    /\ \A n \in Namespaces :
         fullBackupHandlers[n] \in {"read", "waited"} => Covered(FullBackupOf(n))

(***************************************************************************)
(* What is older than the last incremental run, or than the lower bound of *)
(* the one in progress, is safe; what is older than the run itself becomes *)
(* safe, or is in its files, as its handlers go on.                        *)
(***************************************************************************)
IncrCovers ==
    \A n \in Namespaces :
       /\ SafeBefore(n, lastIncrRun)
       /\ incrStep \in {"start", "wait"} => SafeBefore(n, incrFrom)
       /\ incrBackupHandlers[n] \in {"empty", "waited"} => SafeBefore(n, incrNow)
       /\ incrBackupHandlers[n] = "nonempty" =>
            SafeBefore(n, incrNow) \/ Holds(IncrBackupOf(n), updated[n])
       /\ incrStep # "idle" /\ incrBackupHandlers[n] # "waited" =>
            IncrBackupOf(n) \notin metadata

ChainInv ==
    /\ Past
    /\ InStep
    /\ FullWaited
    /\ LastFullRunPerformed
    /\ FullCovers
    /\ IncrCovers

(***************************************************************************)
(* Nothing was backed up or updated in an initial state.                   *)
(***************************************************************************)
LEMMA ChainInit == Init => ChainInv
<1> SUFFICES ASSUME Init PROVE ChainInv
  OBVIOUS
<1>1. Past
  BY DEF Init, Past, Never
<1>2. InStep /\ FullWaited /\ LastFullRunPerformed /\ FullCovers
  BY DEF Init, InStep, FullWaited, LastFullRunPerformed, FullCovers, NoHandlers
<1>3. IncrCovers
  BY DEF Init, IncrCovers, NoHandlers, SafeBefore
<1> QED
  BY <1>1, <1>2, <1>3 DEF ChainInv

(***************************************************************************)
(* The chain as it is restored: ChainInv implies ChainUnbroken. The update *)
(* is in the full backup that is found, or newer than it; then an          *)
(* incremental backup that is newer still holds it.                        *)
(***************************************************************************)
LEMMA ChainHolds == TypeOK /\ ChainInv => ChainUnbroken
<1> SUFFICES ASSUME TypeOK, ChainInv, lastFullRun # Never, NEW f \in FindLastFullBackup(clock),
                    updated[f.ns] # Never, updated[f.ns] < LastRun
             PROVE  updated[f.ns] \in Restorable(f)
  BY DEF ChainUnbroken
<1> DEFINE n == f.ns
<1>t. /\ f \in metadata /\ f.kind = "full" /\ n \in Namespaces
      /\ updated[n] \in Int /\ lastFullRun \in Int /\ lastIncrRun \in Int
      /\ \A b \in metadata : b \in Backups /\ b.created \in Int /\ Never <= b.created
                             /\ b.created <= clock
  BY DEF TypeOK, Times, Never, Backups, FindLastFullBackup, BackupList, ChainInv, Past
<1>1. \A g \in metadata : g.kind = "full" => g.created <= f.created
  BY <1>t DEF FindLastFullBackup, BackupList, Contains
<1>2. Safe(n)
  <2>1. CASE updated[n] < lastFullRun
    BY <2>1, <1>t DEF Safe, ChainInv, LastFullRunPerformed, Backup
  <2>2. CASE ~(updated[n] < lastFullRun)
    BY <2>2, <1>t DEF LastRun, ChainInv, IncrCovers, SafeBefore
  <2> QED
    BY <2>1, <2>2
<1>r. ASSUME NEW b \in Chain(f), b \in Backups, b.ns = n, Holds(b, updated[n])
      PROVE  updated[n] \in Restorable(f)
  <2> DEFINE d == [kind |-> b.kind, created |-> b.created, ns |-> b.ns, record |-> updated[n]]
  <2>1. Backup(d.kind, d.created, d.ns) = b
    BY <1>r DEF Backup, Backups
  <2>2. d \in data /\ d.record = updated[n]
    BY <1>r DEF Holds
  <2> QED
    BY <2>1, <2>2 DEF Restorable
<1>3. CASE Holds(f, updated[n])
  BY <1>3, <1>r, <1>t DEF Chain
<1>4. CASE ~Holds(f, updated[n])
  <2>1. f.created < updated[n]
    BY <1>4, <1>t DEF ChainInv, FullCovers, Covered
  <2>2. PICK b \in metadata : /\ b.ns = n
                              /\ updated[n] < b.created
                              /\ b.kind = "full" \/ Holds(b, updated[n])
    BY <1>2 DEF Safe
  <2>3. f.created < b.created /\ b.kind = "incremental"
    BY <2>1, <2>2, <1>1, <1>t DEF Backups
  <2>4. b \in Chain(f)
    BY <2>2, <2>3, <1>t DEF Chain, FindIncrementalBackups, BackupList, Contains
  <2> QED
    BY <2>2, <2>3, <2>4, <1>r, <1>t
<1> QED
  BY <1>3, <1>4

-----------------------------------------------------------------------------
(* What the jobs leave alone *)

(***************************************************************************)
(* A step that keeps the incremental backups that have their metadata, and *)
(* every full one, keeps what is safe.                                     *)
(***************************************************************************)
LEMMA SafeStays ==
    ASSUME metadata \in SUBSET Backups, metadata \subseteq metadata', UNCHANGED updated,
           \A b \in metadata, t \in Times : b.kind = "incremental" /\ Holds(b, t) => Holds(b, t)',
           updated \in [Namespaces -> Times], NEW n \in Namespaces, Safe(n)
    PROVE  Safe(n)'
BY DEF Safe, Backups

(***************************************************************************)
(* Steps of the full backup do not touch the incremental ones.             *)
(***************************************************************************)
FullOnly ==
    /\ UNCHANGED <<updated, incrVars, lastIncrRun>>
    /\ metadata \subseteq metadata'
    /\ \A b \in metadata' : b.kind = "incremental" => b \in metadata
    /\ \A d \in Contents : d.kind = "incremental" => (d \in data <=> d \in data')

(***************************************************************************)
(* A step that leaves the incremental job and its files alone and deletes  *)
(* no metadata keeps what the incremental backups cover.                   *)
(***************************************************************************)
LEMMA FullKeepsIncr ==
    ASSUME TypeOK, IncrCovers, FullOnly
    PROVE  IncrCovers'
<1>t. /\ updated \in [Namespaces -> Times] /\ metadata \in SUBSET Backups
      /\ \A n \in Namespaces : IncrBackupOf(n) \in Backups /\ IncrBackupOf(n).kind = "incremental"
      /\ UNCHANGED <<incrStep, incrNow, incrFrom, incrBackupHandlers, updated, lastIncrRun>>
  BY DEF TypeOK, FullOnly, incrVars, IncrBackupOf, Backup, Backups
<1>1. ASSUME NEW b \in Backups, NEW t \in Times, b.kind = "incremental"
      PROVE  Holds(b, t) <=> Holds(b, t)'
  <2>1. [kind |-> b.kind, created |-> b.created, ns |-> b.ns, record |-> t] \in Contents
    BY DEF Backups, Contents
  <2> QED
    BY <1>1, <2>1 DEF FullOnly, Holds
<1>2. ASSUME NEW n \in Namespaces, Safe(n) PROVE Safe(n)'
  BY <1>1, <1>2, <1>t, SafeStays DEF FullOnly
<1>3. ASSUME NEW n \in Namespaces
      PROVE  /\ IncrBackupOf(n)' = IncrBackupOf(n)
             /\ SafeBefore(n, lastIncrRun) => SafeBefore(n, lastIncrRun)'
             /\ SafeBefore(n, incrFrom) => SafeBefore(n, incrFrom)'
             /\ SafeBefore(n, incrNow) => SafeBefore(n, incrNow)'
             /\ Holds(IncrBackupOf(n), updated[n]) => Holds(IncrBackupOf(n), updated[n])'
             /\ IncrBackupOf(n) \notin metadata => IncrBackupOf(n)' \notin metadata'
  <2>1. IncrBackupOf(n)' = IncrBackupOf(n)
    BY <1>t DEF IncrBackupOf
  <2>2. IncrBackupOf(n) \notin metadata => IncrBackupOf(n)' \notin metadata'
    BY <1>t, <2>1 DEF FullOnly
  <2>3. Holds(IncrBackupOf(n), updated[n]) => Holds(IncrBackupOf(n), updated[n])'
    BY <1>1, <1>t, <2>1 DEF Holds
  <2> QED
    BY <1>2, <1>t, <2>1, <2>2, <2>3 DEF SafeBefore
<1> QED
  BY <1>3, <1>t DEF IncrCovers

(***************************************************************************)
(* Steps of the incremental backup do not touch the full ones.             *)
(***************************************************************************)
IncrOnly ==
    /\ UNCHANGED <<updated, retryVars, fullVars, lastFullRun>>
    /\ \A b \in Backups : b.kind = "full" => (b \in metadata <=> b \in metadata')
    /\ metadata' \subseteq Backups
    /\ \A d \in Contents : d.kind = "full" => (d \in data <=> d \in data')

(***************************************************************************)
(* A step that leaves the full job, the full backups and their files alone *)
(* keeps what the full backups cover.                                      *)
(***************************************************************************)
LEMMA IncrKeepsFull ==
    ASSUME Inv, FullWaited, LastFullRunPerformed, FullCovers, IncrOnly
    PROVE  FullWaited' /\ LastFullRunPerformed' /\ FullCovers'
<1>t. /\ updated \in [Namespaces -> Times] /\ metadata \in SUBSET Backups
      /\ lastFullRun \in Times /\ metadata' \in SUBSET Backups
      /\ UNCHANGED <<updated, lastFullRun, fullBackupHandlers, mu, fullNow>>
  BY DEF Inv, TypeOK, IncrOnly, fullVars, retryVars
<1>f. ASSUME NEW n \in Namespaces
      PROVE  /\ fullBackupHandlers[n] # "none" =>
                  FullBackupOf(n) \in Backups /\ FullBackupOf(n).kind = "full"
             /\ FullBackupOf(n)' = FullBackupOf(n)
  <2>1. fullBackupHandlers[n] # "none" => mu # NoCall
    BY DEF Inv, FullFlagExact, NoHandlers
  <2> QED
    BY <1>t, <2>1, BackupType DEF Inv, FullBackupOf, Backup
<1>1. ASSUME NEW b \in Backups, b.kind = "full" PROVE Covered(b) => Covered(b)'
  <2>1. updated[b.ns] \in Times
    BY <1>t DEF Backups
  <2>2. [kind |-> b.kind, created |-> b.created, ns |-> b.ns, record |-> updated[b.ns]] \in Contents
    BY <2>1 DEF Backups, Contents
  <2> QED
    BY <1>1, <1>t, <2>2 DEF IncrOnly, Holds, Covered
<1>2. FullWaited'
  BY <1>t, <1>f DEF IncrOnly, FullWaited
<1>3. LastFullRunPerformed'
  <2>1. \A n \in Namespaces : /\ Backup("full", lastFullRun, n) \in Backups
                              /\ Backup("full", lastFullRun, n).kind = "full"
    BY <1>t DEF Backup, Backups
  <2> QED
    BY <1>t, <2>1 DEF IncrOnly, LastFullRunPerformed, Backup
<1>4. FullCovers'
  <2>1. ASSUME NEW b \in metadata', b.kind = "full" PROVE Covered(b)'
    BY <1>1, <1>t, <2>1 DEF IncrOnly, FullCovers
  <2>2. ASSUME NEW n \in Namespaces, fullBackupHandlers'[n] \in {"read", "waited"}
        PROVE  Covered(FullBackupOf(n))'
    <3>1. Covered(FullBackupOf(n)) /\ FullBackupOf(n) \in Backups /\ FullBackupOf(n).kind = "full"
      BY <1>t, <1>f, <2>2 DEF FullCovers
    <3> DEFINE b == FullBackupOf(n)
    <3>2. b' = b
      BY <1>f
    <3>3. Covered(b)'
      BY <1>t, <3>1, <3>2, <1>1 DEF Covered, Holds, IncrOnly, Contents, Backups
    <3> QED
      BY <3>3
  <2> QED
    BY <2>1, <2>2 DEF FullCovers
<1> QED
  BY <1>2, <1>3, <1>4

-----------------------------------------------------------------------------
(* The actions of the full backup *)

(***************************************************************************)
(* A step that leaves the storage alone, and each handler of the full      *)
(* backup that has read its namespace, keeps what the backups cover.       *)
(***************************************************************************)
LEMMA FullKeepsFull ==
    ASSUME FullWaited, FullCovers, UNCHANGED <<updated, data, metadata>>,
           \A n \in Namespaces :
              fullBackupHandlers'[n] \in {"read", "waited"} =>
                 /\ fullBackupHandlers[n] = fullBackupHandlers'[n]
                 /\ FullBackupOf(n)' = FullBackupOf(n)
    PROVE  FullWaited' /\ FullCovers'
<1>1. FullWaited'
  BY DEF FullWaited
<1>2. FullCovers'
  BY DEF FullCovers, Covered, Holds
<1> QED
  BY <1>1, <1>2

(***************************************************************************)
(* The trigger of a full job, the start and the end of its attempts and    *)
(* its timers keep the invariant.                                          *)
(***************************************************************************)
LEMMA ChainFullJob ==
    ASSUME Inv, ChainInv, NEW c \in Calls,
           FullExecute(c) \/ FullLock(c) \/ FullTimer(c) \/ FullReturn(c)
    PROVE  ChainInv'
<1>t. /\ clock \in Int /\ fullNow \in [Calls -> Times]
      /\ \A x \in Times : x \in Int
      /\ UNCHANGED <<updated, incrVars, state, storage, fullBackupHandlers>>
  BY DEF Inv, TypeOK, Times, Never, FullExecute, FullLock, FullTimer, FullReturn, environment,
         fullVars
<1>u. /\ UNCHANGED <<updated, lastFullRun, lastIncrRun, incrStep, incrNow, incrFrom,
                     incrBackupHandlers, data, metadata>>
  BY <1>t DEF incrVars, state, storage
<1>1. IncrCovers'
  BY <1>t, <1>u, FullKeepsIncr DEF FullOnly, Inv, ChainInv
<1>2. LastFullRunPerformed'
  BY <1>u DEF ChainInv, LastFullRunPerformed
<1>3. Past'
  <2>1. clock <= clock' /\ \A e \in Calls : fullNow'[e] \in Int /\ fullNow'[e] <= clock'
    BY <1>t DEF ChainInv, Past, FullExecute, FullLock, FullTimer, FullReturn, ReadClock,
                environment, fullVars
  <2>2. /\ lastFullRun \in Int /\ lastIncrRun \in Int /\ incrNow \in Int /\ incrFrom \in Int
        /\ \A b \in metadata : b.created \in Int
    BY <1>t DEF Inv, TypeOK, Backups
  <2>3. clock' \in Int
    BY <1>t DEF FullExecute, FullLock, FullTimer, FullReturn, ReadClock, environment
  <2> QED
    BY <1>t, <1>u, <2>1, <2>2, <2>3 DEF ChainInv, Past
<1>4. InStep'
  <2>1. fullStep' # "update"  \/ fullStep' = fullStep
    BY DEF FullExecute, FullLock, FullTimer, FullReturn, fullVars
  <2> QED
    BY <1>t, <1>u, <2>1 DEF ChainInv, InStep
<1>5. FullWaited' /\ FullCovers'
  <2>1. ASSUME NEW n \in Namespaces, fullBackupHandlers[n] # "none"
        PROVE  FullBackupOf(n)' = FullBackupOf(n)
    <3>1. fullStep \notin {"idle", "return", "error"} /\ mu \in Calls /\ phase[mu] = "running"
      BY <2>1 DEF Inv, FullFlagExact, NoHandlers, TypeOK, Retry!TypeOK, Retry!MutexHeld
    <3>2. CASE FullExecute(c)
      BY <3>1, <3>2, <1>t DEF FullExecute, Retry!Call, FullBackupOf, Backup
    <3>3. CASE FullTimer(c)
      BY <3>3 DEF FullTimer, Retry!Fire, fullVars, FullBackupOf
    <3>4. CASE FullLock(c) \/ FullReturn(c)
      BY <3>1, <3>4, HandlerAssumption DEF FullLock, FullReturn, Retry!Lock, Inv, TypeOK
    <3> QED
      BY <3>2, <3>3, <3>4
  <2> QED
    BY <1>t, <1>u, <2>1, FullKeepsFull DEF ChainInv
<1> QED
  BY <1>1, <1>2, <1>3, <1>4, <1>5 DEF ChainInv

(***************************************************************************)
(* So do the steps of an attempt of a full backup.                         *)
(***************************************************************************)
LEMMA ChainFullAdvance ==
    ASSUME KeepsAll, Inv, ChainInv, FullAdvance
    PROVE  ChainInv'
<1>t. /\ UNCHANGED <<environment, retryVars, fullJob, fullNow, incrVars, lastIncrRun>>
      /\ UNCHANGED <<clock, updated, mu, incrStep, incrNow, incrFrom, incrBackupHandlers>>
      /\ \A n \in Namespaces : FullBackupOf(n)' = FullBackupOf(n)
  BY DEF FullAdvance, FullGetClient, FullFail, FullUpdateState, FullClean, FullConfig,
         FullStartNamespace, FullRead, FullWait, environment, incrVars, state, retryVars,
         FullBackupOf
<1>k. ~RemoveFullBackup /\ ~RemoveIncrementalBackup
  BY DEF KeepsAll, RemoveFullBackup, RemoveIncrementalBackup
<1>m. mu \in Calls
  BY DEF FullAdvance, FullGetClient, FullFail, FullUpdateState, FullClean, FullConfig,
         FullStartNamespace, FullRead, FullWait, Inv, FullFlagExact, NoHandlers, TypeOK,
         Retry!TypeOK
<1>b. ASSUME NEW n \in Namespaces
      PROVE  /\ FullBackupOf(n) \in Backups /\ FullBackupOf(n).kind = "full"
             /\ FullBackupOf(n).ns = n /\ FullBackupOf(n).created = fullNow[mu]
             /\ \A b \in Backups : InFolder(b, FullBackupOf(n)) <=> b = FullBackupOf(n)
  <2>1. FullBackupOf(n) \in Backups
    BY <1>m, BackupType, HandlerAssumption DEF Inv
  <2> QED
    BY <1>k, <2>1 DEF FullBackupOf, Backup, Backups, InFolder
<1>1. CASE UNCHANGED <<data, metadata, lastFullRun>> /\ (FullGetClient \/ FullFail \/ FullClean \/
              FullConfig \/ \E n \in Namespaces : FullStartNamespace(n))
  <2>1. \A n \in Namespaces : fullBackupHandlers'[n] \in {"read", "waited"} =>
                                 fullBackupHandlers[n] = fullBackupHandlers'[n]
    BY <1>1 DEF FullGetClient, FullFail, FullClean, FullConfig, FullStartNamespace, NoHandlers,
                Inv, TypeOK
  <2>2. FullWaited' /\ FullCovers'
    BY <1>1, <1>t, <2>1, FullKeepsFull DEF ChainInv
  <2>3. IncrCovers'
    BY <1>1, <1>t, FullKeepsIncr DEF FullOnly, Inv, ChainInv
  <2>4. fullStep' # "update"
    BY <1>1 DEF FullGetClient, FullFail, FullClean, FullConfig, FullStartNamespace
  <2>5. Past' /\ InStep' /\ LastFullRunPerformed'
    BY <1>1, <1>t, <2>4 DEF ChainInv, Past, InStep, LastFullRunPerformed
  <2> QED
    BY <2>2, <2>3, <2>5 DEF ChainInv
<1>2. CASE FullUpdateState
  <2>1. UNCHANGED <<fullBackupHandlers, data, metadata>> /\ lastFullRun' = fullNow[mu]
    BY <1>2 DEF FullUpdateState, storage
  <2>2. FullWaited' /\ FullCovers'
    BY <1>t, <2>1, FullKeepsFull DEF ChainInv
  <2>3. IncrCovers'
    BY <1>t, <2>1, FullKeepsIncr DEF FullOnly, Inv, ChainInv
  <2>4. LastFullRunPerformed'
    BY <1>2, <2>1 DEF FullUpdateState, ChainInv, InStep, FullWaited, FullBackupOf,
                      LastFullRunPerformed
  <2>5. Past' /\ InStep'
    BY <1>2, <1>m, <1>t, <2>1 DEF FullUpdateState, ChainInv, Past, InStep
  <2> QED
    BY <2>2, <2>3, <2>4, <2>5 DEF ChainInv
<1>3. ASSUME NEW n \in Namespaces, FullRead(n) PROVE ChainInv'
  <2> DEFINE f == FullBackupOf(n)
  <2>1. UNCHANGED <<fullStep, metadata, lastFullRun>>
    BY <1>3 DEF FullRead, state
  <2>h. /\ fullBackupHandlers'[n] = "read"
        /\ \A m \in Namespaces \ {n} : fullBackupHandlers'[m] = fullBackupHandlers[m]
    BY <1>3 DEF FullRead, Inv, TypeOK
  <2>2. ASSUME NEW d \in Contents, ~(d.kind = "full" /\ d.ns = n /\ d.created = fullNow[mu])
        PROVE  d \in data <=> d \in data'
    BY <1>3, <1>b, <1>k, <2>2 DEF FullRead, WriteRecords, InFolder
  <2>3. updated[n] # Never => Holds(f, updated[n])'
    <3>1. updated[n] \in Times /\ \A t \in Times : Never <= t
      BY DEF Inv, TypeOK, Times, Never
    <3>2. updated[n] # Never => updated[n] \in ReadRecords(n, Never, fullNow[mu])
      BY <3>1 DEF ReadRecords, KeepsAll
    <3> QED
      BY <1>3, <1>t, <3>2 DEF FullRead, WriteRecords, Holds
  <2>4. IncrCovers'
    BY <1>t, <2>1, <2>2, FullKeepsIncr DEF FullOnly, Inv, ChainInv
  <2>5. ASSUME NEW b \in Backups, b.kind = "full", b = f \/ Covered(b) PROVE Covered(b)'
    <3>1. CASE b = f
      BY <1>b, <1>t, <2>3, <3>1 DEF Covered, Holds
    <3>2. CASE b # f
      <4>1. updated[b.ns] \in Times
        BY DEF Inv, TypeOK, Backups
      <4>2. [kind |-> b.kind, created |-> b.created, ns |-> b.ns, record |-> updated[b.ns]] \in Contents
        BY <4>1 DEF Backups, Contents
      <4>3. ~(b.ns = n /\ b.created = fullNow[mu])
        BY <1>b, <2>5, <3>2 DEF Backups
      <4> QED
        BY <1>t, <2>2, <2>5, <3>2, <4>2, <4>3 DEF Covered, Holds
    <3> QED
      BY <3>1, <3>2
  <2>6. FullCovers'
    <3>1. \A b \in metadata : b.kind = "full" => Covered(b)'
      BY <2>5 DEF ChainInv, FullCovers, Inv, TypeOK
    <3>2. ASSUME NEW m \in Namespaces, fullBackupHandlers'[m] \in {"read", "waited"}
          PROVE  Covered(FullBackupOf(m))'
      <4> DEFINE g == FullBackupOf(m)
      <4>1. g = f \/ Covered(g)
        BY <2>h, <3>2 DEF ChainInv, FullCovers
      <4>2. Covered(g)' <=> Covered(FullBackupOf(m))'
        BY <1>t DEF Covered, Holds
      <4>3. g \in Backups /\ g.kind = "full" /\ g' = g
        BY <1>b, <1>t
      <4>4. Covered(g)'
        BY <4>1, <4>3, <2>5 DEF Covered, Holds
      <4> QED
        BY <4>4
    <3> QED
      BY <2>1, <3>1, <3>2 DEF FullCovers
  <2>7. FullWaited' /\ LastFullRunPerformed'
    BY <1>t, <2>1, <2>h DEF ChainInv, FullWaited, LastFullRunPerformed
  <2>8. Past' /\ InStep'
    <3>1. fullStep # "update"
      BY <1>3, <2>1 DEF FullRead, ChainInv, InStep
    <3> QED
      BY <1>t, <2>1, <3>1 DEF ChainInv, Past, InStep
  <2> QED
    BY <2>4, <2>6, <2>7, <2>8 DEF ChainInv
<1>4. ASSUME NEW n \in Namespaces, FullWait(n) PROVE ChainInv'
  <2> DEFINE f == FullBackupOf(n)
  <2>1. UNCHANGED <<data, lastFullRun>> /\ metadata' = metadata \cup {f}
    BY <1>4, <1>b DEF FullWait, Outside, state, Inv, TypeOK
  <2>h. /\ fullBackupHandlers[n] = "read" /\ fullBackupHandlers'[n] = "waited"
        /\ \A m \in Namespaces \ {n} : fullBackupHandlers'[m] = fullBackupHandlers[m]
        /\ fullStep' = "update" => \A m \in Namespaces : fullBackupHandlers'[m] = "waited"
    BY <1>4 DEF FullWait, Inv, TypeOK
  <2>2. IncrCovers'
    BY <1>b, <1>t, <2>1, FullKeepsIncr DEF FullOnly, Inv, ChainInv
  <2>3. FullCovers'
    BY <1>t, <2>1, <2>h DEF ChainInv, FullCovers, Covered, Holds
  <2>4. FullWaited' /\ LastFullRunPerformed'
    BY <1>t, <2>1, <2>h DEF ChainInv, FullWaited, LastFullRunPerformed
  <2>6. Past' /\ InStep'
    BY <1>b, <1>m, <1>t, <2>1, <2>h DEF ChainInv, Past, InStep
  <2> QED
    BY <2>2, <2>3, <2>4, <2>6 DEF ChainInv
<1> QED
  <2>1. FullGetClient \/ FullConfig => UNCHANGED <<data, metadata, lastFullRun>>
    BY DEF FullGetClient, FullConfig, state, storage
  <2>2. FullFail => UNCHANGED <<data, metadata, lastFullRun>>
    BY <1>k DEF FullFail, state
  <2>3. FullClean => UNCHANGED <<data, metadata, lastFullRun>>
    BY <1>k DEF FullClean, state
  <2>4. \A n \in Namespaces : FullStartNamespace(n) => UNCHANGED <<data, metadata, lastFullRun>>
    BY <1>k DEF FullStartNamespace, state
  <2> QED
    BY <1>1, <1>2, <1>3, <1>4, <2>1, <2>2, <2>3, <2>4 DEF FullAdvance

-----------------------------------------------------------------------------
(* The actions of the incremental backup and the updates *)

(***************************************************************************)
(* A new incremental run starts with no handlers and a time that no file   *)
(* has.                                                                    *)
(***************************************************************************)
LEMMA ChainIncrExecute ==
    ASSUME Inv, ChainInv, IncrExecute
    PROVE  ChainInv'
<1>t. /\ UNCHANGED <<updated, retryVars, fullVars, incrFrom, incrBackupHandlers, state, storage>>
      /\ UNCHANGED <<lastFullRun, lastIncrRun, data, metadata, fullNow, fullStep,
                     fullBackupHandlers>>
      /\ clock' = clock + 1 /\ incrNow' = clock' /\ incrStep = "idle" /\ incrStep' = "check"
      /\ clock \in Int /\ lastFullRun \in Int /\ lastIncrRun \in Int /\ incrFrom \in Int
  BY DEF IncrExecute, ReadClock, fullVars, state, storage, Inv, TypeOK, Times, Never
<1>1. FullWaited' /\ LastFullRunPerformed' /\ FullCovers'
  BY <1>t, IncrKeepsFull DEF IncrOnly, ChainInv, Inv, TypeOK
<1>2. Past'
  <2>1. (\A c \in Calls : fullNow[c] \in Int) /\ \A b \in metadata : b.created \in Int
    BY DEF Inv, TypeOK, Backups, Times, Never
  <2> QED
    BY <1>t, <2>1 DEF ChainInv, Past
<1>3. InStep'
  BY <1>t DEF ChainInv, InStep, NoHandlers
<1>4. IncrCovers'
  <2>1. \A n \in Namespaces : incrBackupHandlers'[n] = "none"
    BY <1>t DEF ChainInv, InStep, NoHandlers
  <2>2. ASSUME NEW n \in Namespaces PROVE IncrBackupOf(n)' \notin metadata'
    <3>1. \A b \in metadata : b.created \in Int /\ b.created <= clock
      BY DEF ChainInv, Past, Inv, TypeOK, Backups, Times, Never
    <3> QED
      BY <1>t, <3>1 DEF IncrBackupOf, Backup
  <2>3. ASSUME NEW n \in Namespaces PROVE SafeBefore(n, lastIncrRun)'
    BY <1>t DEF ChainInv, IncrCovers, SafeBefore, Safe, Holds
  <2> QED
    BY <1>t, <2>1, <2>2, <2>3 DEF IncrCovers
<1> QED
  BY <1>1, <1>2, <1>3, <1>4 DEF ChainInv

(***************************************************************************)
(* The steps that leave the storage alone.                                 *)
(***************************************************************************)
LEMMA ChainIncrRun ==
    ASSUME KeepsAll, Inv, ChainInv,
           \/ IncrCheck \/ IncrGetClient \/ IncrBounds \/ IncrFinish
           \/ \E n \in Namespaces : IncrStartNamespace(n)
    PROVE  ChainInv'
<1>t. /\ UNCHANGED <<clock, updated, retryVars, fullVars, lastFullRun, data, metadata, incrNow>>
      /\ UNCHANGED <<fullNow, fullStep, fullBackupHandlers>>
  BY DEF IncrCheck, IncrGetClient, IncrBounds, IncrFinish, IncrStartNamespace, environment,
         fullVars, state, storage
<1>1. FullWaited' /\ LastFullRunPerformed' /\ FullCovers'
  BY <1>t, IncrKeepsFull DEF IncrOnly, ChainInv, Inv, TypeOK
<1>h. ASSUME NEW n \in Namespaces
      PROVE  /\ IncrBackupOf(n)' = IncrBackupOf(n)
             /\ Holds(IncrBackupOf(n), updated[n]) <=> Holds(IncrBackupOf(n), updated[n])'
  BY <1>t DEF IncrBackupOf, Holds, Backup
<1>2. CASE IncrCheck \/ IncrGetClient
  <2>1. /\ UNCHANGED <<incrFrom, incrBackupHandlers, lastIncrRun>>
        /\ incrBackupHandlers = NoHandlers /\ incrStep # "idle"
        /\ incrStep' \in {"idle", "client", "bounds"}
    BY <1>2 DEF IncrCheck, IncrGetClient, state, ChainInv, InStep
  <2>2. Past' /\ InStep'
    BY <1>t, <2>1 DEF ChainInv, Past, InStep, NoHandlers
  <2>3. IncrCovers'
    BY <1>t, <1>h, <2>1, ZenonT(30) DEF ChainInv, IncrCovers, SafeBefore, Safe, Holds, NoHandlers
  <2> QED
    BY <1>1, <2>2, <2>3 DEF ChainInv
<1>3. CASE IncrBounds
  <2>1. /\ incrStep = "bounds" /\ incrStep' = "start" /\ incrFrom' = LastRun
        /\ incrBackupHandlers' = NoHandlers /\ UNCHANGED lastIncrRun
        /\ incrBackupHandlers = NoHandlers
    BY <1>3 DEF IncrBounds, KeepsAll, state, ChainInv, InStep
  <2>2. /\ lastFullRun \in Int /\ lastIncrRun \in Int
        /\ \A n \in Namespaces : updated[n] \in Int
    BY DEF Inv, TypeOK, Times, Never
  <2>3. Past' /\ InStep'
    BY <1>t, <2>1, <2>2 DEF ChainInv, Past, InStep, NoHandlers, LastRun
  <2>4. ASSUME NEW n \in Namespaces, updated[n] < lastFullRun PROVE Safe(n)
    <3>1. 0 <= updated[n]
      BY DEF Inv, TypeOK, Times, Never
    <3>2. Backup("full", lastFullRun, n) \in metadata
      BY <2>2, <2>4, <3>1 DEF ChainInv, LastFullRunPerformed, Never
    <3> QED
      BY <2>4, <3>2 DEF Safe, Backup
  <2>5. ASSUME NEW n \in Namespaces PROVE SafeBefore(n, LastRun)
    BY <2>2, <2>4 DEF LastRun, SafeBefore, ChainInv, IncrCovers
  <2>6. ASSUME NEW n \in Namespaces PROVE SafeBefore(n, incrFrom)'
    BY <1>t, <2>1, <2>5 DEF SafeBefore, Safe, Holds
  <2>7. IncrCovers'
    <3>1. ASSUME NEW n \in Namespaces PROVE SafeBefore(n, lastIncrRun)'
      BY <1>t, <2>1 DEF ChainInv, IncrCovers, SafeBefore, Safe, Holds
    <3>2. ASSUME NEW n \in Namespaces
          PROVE  incrBackupHandlers'[n] = "none" /\ IncrBackupOf(n)' \notin metadata'
      BY <1>t, <1>h, <2>1 DEF ChainInv, IncrCovers, NoHandlers
    <3> QED
      BY <2>6, <3>1, <3>2 DEF IncrCovers
  <2> QED
    BY <1>1, <2>3, <2>7 DEF ChainInv
<1>4. ASSUME NEW m \in Namespaces, IncrStartNamespace(m) PROVE ChainInv'
  <2>1. /\ UNCHANGED <<incrFrom, lastIncrRun>>
        /\ incrStep = "start" /\ incrStep' \in {"start", "wait"}
        /\ incrStep' = "wait" => \A n \in Namespaces : incrBackupHandlers'[n] # "none"
        /\ incrBackupHandlers[m] = "none" /\ incrBackupHandlers'[m] = "running"
        /\ \A n \in Namespaces \ {m} : incrBackupHandlers'[n] = incrBackupHandlers[n]
    BY <1>4 DEF IncrStartNamespace, BoundsInOrder, KeepsAll, state, Inv, TypeOK
  <2>2. Past' /\ InStep'
    BY <1>t, <2>1 DEF ChainInv, Past, InStep
  <2>3. IncrCovers'
    BY <1>t, <1>h, <2>1, ZenonT(30) DEF ChainInv, IncrCovers, SafeBefore, Safe, Holds
  <2> QED
    BY <1>1, <2>2, <2>3 DEF ChainInv
<1>5. CASE IncrFinish
  <2>1. /\ UNCHANGED incrFrom /\ lastIncrRun' = incrNow /\ incrStep' = "idle"
        /\ incrStep = "wait" /\ incrBackupHandlers' = NoHandlers
        /\ \A n \in Namespaces : incrBackupHandlers[n] = "waited"
    BY <1>5 DEF IncrFinish, ChainInv, InStep
  <2>2. Past' /\ InStep'
    BY <1>t, <2>1 DEF ChainInv, Past, InStep, NoHandlers
  <2>3. IncrCovers'
    BY <1>t, <2>1, SMTT(30) DEF ChainInv, IncrCovers, SafeBefore, Safe, Holds, NoHandlers
  <2> QED
    BY <1>1, <2>2, <2>3 DEF ChainInv
<1> QED
  BY <1>2, <1>3, <1>4, <1>5

(***************************************************************************)
(* A handler reads its namespace: the record, unless it is older than the  *)
(* lower bound, and then it is safe already.                               *)
(***************************************************************************)
LEMMA ChainIncrRead ==
    ASSUME KeepsAll, Inv, ChainInv, NEW m \in Namespaces, IncrRead(m)
    PROVE  ChainInv'
<1> DEFINE i == IncrBackupOf(m)
<1>t. /\ UNCHANGED <<clock, updated, retryVars, fullVars, lastFullRun, lastIncrRun, metadata>>
      /\ UNCHANGED <<fullNow, fullStep, fullBackupHandlers, incrStep, incrNow, incrFrom>>
      /\ updated \in [Namespaces -> Times]
      /\ \A n \in Namespaces : IncrBackupOf(n)' = IncrBackupOf(n)
  BY DEF IncrRead, environment, fullVars, state, IncrBackupOf, Inv, TypeOK
<1>n. i \in Backups /\ i.kind = "incremental" /\ i.ns = m /\ i.created = incrNow
  BY BackupType DEF Inv, IncrBackupOf, Backup
<1>h. /\ incrBackupHandlers[m] = "running" /\ incrBackupHandlers'[m] \in {"empty", "nonempty"}
      /\ \A n \in Namespaces \ {m} : incrBackupHandlers'[n] = incrBackupHandlers[n]
      /\ incrBackupHandlers'[m] = "empty" <=> ReadRecords(m, incrFrom, incrNow) = {}
      /\ WriteRecords(i, ReadRecords(m, incrFrom, incrNow))
  BY DEF IncrRead, KeepsAll, Inv, TypeOK
<1>s. incrStep \in {"start", "wait"}
  BY <1>h DEF ChainInv, InStep, NoHandlers, Inv, TypeOK, IncrSteps
<1>i. i \notin metadata
  BY <1>h, <1>s DEF ChainInv, IncrCovers
<1>d. ASSUME NEW d \in Contents, ~(d.kind = "incremental" /\ d.ns = m /\ d.created = incrNow)
      PROVE  d \in data <=> d \in data'
  BY <1>d, <1>h, <1>n DEF WriteRecords, InFolder, Contents
<1>1. FullWaited' /\ LastFullRunPerformed' /\ FullCovers'
  <2>1. IncrOnly
    BY <1>t, <1>d DEF IncrOnly, Inv, TypeOK
  <2> QED
    BY <2>1, IncrKeepsFull DEF ChainInv
<1>2. Past' /\ InStep'
  BY <1>t, <1>h, <1>s DEF ChainInv, Past, InStep
<1>3. ASSUME NEW b \in Backups, b # i, b.kind = "incremental", NEW t \in Times
      PROVE  Holds(b, t) <=> Holds(b, t)'
  <2>1. [kind |-> b.kind, created |-> b.created, ns |-> b.ns, record |-> t] \in Contents
    BY DEF Backups, Contents
  <2>2. ~(b.ns = m /\ b.created = incrNow)
    BY <1>3, <1>n DEF Backups
  <2> QED
    BY <1>d, <2>1, <2>2 DEF Holds
<1>4. ASSUME NEW n \in Namespaces, Safe(n) PROVE Safe(n)'
  <2>1. metadata \in SUBSET Backups
    BY DEF Inv, TypeOK
  <2>2. \A b \in metadata, t \in Times : b.kind = "incremental" /\ Holds(b, t) => Holds(b, t)'
    BY <1>3, <1>i, <2>1
  <2> QED
    BY <1>4, <1>t, <2>1, <2>2, SafeStays
<1>5. ASSUME NEW n \in Namespaces
      PROVE  /\ SafeBefore(n, lastIncrRun) => SafeBefore(n, lastIncrRun)'
             /\ SafeBefore(n, incrFrom) => SafeBefore(n, incrFrom)'
             /\ SafeBefore(n, incrNow) => SafeBefore(n, incrNow)'
  BY <1>4, <1>t DEF SafeBefore
<1>6. /\ incrBackupHandlers'[m] = "empty" => SafeBefore(m, incrNow)'
      /\ incrBackupHandlers'[m] = "nonempty" => Holds(IncrBackupOf(m), updated[m])'
  <2>1. ReadRecords(m, incrFrom, incrNow) = { t \in {updated[m]} : t # Never /\ incrFrom <= t }
    BY DEF ReadRecords, KeepsAll
  <2>2. CASE incrBackupHandlers'[m] = "empty"
    <3>1. updated[m] = Never \/ ~(incrFrom <= updated[m])
      BY <1>h, <2>1, <2>2
    <3>2. updated[m] = Never \/ updated[m] < incrFrom
      BY <3>1, <1>t DEF Inv, TypeOK, Times, Never
    <3>3. SafeBefore(m, incrFrom)
      BY <1>s DEF ChainInv, IncrCovers
    <3>4. updated[m] # Never => Safe(m)'
      BY <1>4, <3>2, <3>3 DEF SafeBefore
    <3> QED
      BY <1>t, <2>2, <3>4 DEF SafeBefore
  <2>3. CASE incrBackupHandlers'[m] = "nonempty"
    <3>1. updated[m] \in ReadRecords(m, incrFrom, incrNow)
      BY <1>h, <2>1, <2>3
    <3>2. Holds(i, updated[m])'
      BY <1>h, <1>t, <3>1 DEF WriteRecords, Holds
    <3> QED
      BY <2>3, <3>2
  <2> QED
    BY <1>h, <2>2, <2>3
<1>7. IncrCovers'
  <2>1. ASSUME NEW n \in Namespaces, n # m, incrBackupHandlers'[n] = "nonempty"
        PROVE  SafeBefore(n, incrNow)' \/ Holds(IncrBackupOf(n), updated[n])'
    <3>1. SafeBefore(n, incrNow) \/ Holds(IncrBackupOf(n), updated[n])
      BY <1>h, <2>1 DEF ChainInv, IncrCovers
    <3>2. IncrBackupOf(n) \in Backups /\ IncrBackupOf(n) # i /\ IncrBackupOf(n).kind = "incremental"
      BY <2>1, BackupType DEF Inv, IncrBackupOf, Backup
    <3> DEFINE j == IncrBackupOf(n)
    <3>3. Holds(j, updated[n]) <=> Holds(j, updated[n])'
      BY <1>3, <1>t, <3>2 DEF Holds
    <3> QED
      BY <1>5, <3>1, <3>3
  <2> QED
    BY <1>t, <1>h, <1>5, <1>6, <2>1 DEF ChainInv, IncrCovers
<1> QED
  BY <1>1, <1>2, <1>7 DEF ChainInv

(***************************************************************************)
(* A handler is waited for: the files of an empty backup go, those of the  *)
(* others get their metadata and become safe.                              *)
(***************************************************************************)
LEMMA ChainIncrWait ==
    ASSUME KeepsAll, Inv, ChainInv, NEW m \in Namespaces, IncrWait(m)
    PROVE  ChainInv'
<1> DEFINE i == IncrBackupOf(m)
<1>t. /\ UNCHANGED <<clock, updated, retryVars, fullVars, lastFullRun, lastIncrRun>>
      /\ UNCHANGED <<fullNow, fullStep, fullBackupHandlers, incrStep, incrNow, incrFrom>>
      /\ updated \in [Namespaces -> Times] /\ metadata \in SUBSET Backups
      /\ \A n \in Namespaces : IncrBackupOf(n)' = IncrBackupOf(n)
  BY DEF IncrWait, environment, fullVars, state, IncrBackupOf, Inv, TypeOK
<1>n. i \in Backups /\ i.kind = "incremental" /\ i.ns = m /\ i.created = incrNow
  BY BackupType DEF Inv, IncrBackupOf, Backup
<1>h. /\ incrBackupHandlers[m] \in {"empty", "nonempty"} /\ incrBackupHandlers'[m] = "waited"
      /\ \A n \in Namespaces \ {m} : incrBackupHandlers'[n] = incrBackupHandlers[n]
      /\ incrStep = "wait"
  BY DEF IncrWait, ChainInv, InStep, Inv, TypeOK
<1>i. i \notin metadata
  BY <1>h DEF ChainInv, IncrCovers
<1>f. \A b \in Backups : InFolder(b, i) => b = i
  BY <1>n DEF InFolder, Backups
<1>d. /\ metadata \subseteq metadata' /\ metadata' \subseteq metadata \cup {i}
      /\ \A d \in Contents : ~(d.kind = "incremental" /\ d.ns = m /\ d.created = incrNow)
                                => (d \in data <=> d \in data')
      /\ incrBackupHandlers[m] = "nonempty" => i \in metadata' /\ data' = data
  <2>1. CASE incrBackupHandlers[m] = "empty"
    <3>1. data' = Outside(data, i) /\ metadata' = Outside(metadata, i)
      BY <2>1 DEF IncrWait
    <3>2. metadata' = metadata
      BY <1>f, <1>i, <1>t, <3>1 DEF Outside
    <3>3. \A d \in Contents : InFolder(d, i) =>
                                d.kind = "incremental" /\ d.ns = m /\ d.created = incrNow
      BY <1>n DEF InFolder
    <3> QED
      BY <2>1, <3>1, <3>2, <3>3 DEF Outside
  <2>2. CASE incrBackupHandlers[m] = "nonempty"
    BY <2>2 DEF IncrWait, KeepsAll
  <2> QED
    BY <1>h, <2>1, <2>2
<1>1. FullWaited' /\ LastFullRunPerformed' /\ FullCovers'
  <2>1. IncrOnly
    BY <1>t, <1>n, <1>d DEF IncrOnly
  <2> QED
    BY <2>1, IncrKeepsFull DEF ChainInv
<1>2. Past' /\ InStep'
  BY <1>t, <1>h, <1>n, <1>d DEF ChainInv, Past, InStep
<1>3. ASSUME NEW b \in Backups, b # i, b.kind = "incremental", NEW t \in Times
      PROVE  Holds(b, t) <=> Holds(b, t)'
  <2>1. [kind |-> b.kind, created |-> b.created, ns |-> b.ns, record |-> t] \in Contents
    BY DEF Backups, Contents
  <2>2. ~(b.ns = m /\ b.created = incrNow)
    BY <1>3, <1>n DEF Backups
  <2> QED
    BY <1>d, <2>1, <2>2 DEF Holds
<1>4. ASSUME NEW n \in Namespaces, Safe(n) PROVE Safe(n)'
  <2>1. \A b \in metadata, t \in Times : b.kind = "incremental" /\ Holds(b, t) => Holds(b, t)'
    BY <1>3, <1>i, <1>t
  <2> QED
    BY <1>4, <1>t, <1>d, <2>1, SafeStays
<1>5. ASSUME NEW n \in Namespaces
      PROVE  /\ SafeBefore(n, lastIncrRun) => SafeBefore(n, lastIncrRun)'
             /\ SafeBefore(n, incrFrom) => SafeBefore(n, incrFrom)'
             /\ SafeBefore(n, incrNow) => SafeBefore(n, incrNow)'
  BY <1>4, <1>t DEF SafeBefore
<1>6. SafeBefore(m, incrNow)'
  <2>1. CASE SafeBefore(m, incrNow)
    BY <1>5, <2>1
  <2>2. CASE ~SafeBefore(m, incrNow)
    <3>1. incrBackupHandlers[m] = "nonempty" /\ Holds(i, updated[m])
      BY <1>h, <2>2 DEF ChainInv, IncrCovers
    <3>2. i \in metadata' /\ Holds(i, updated[m])'
      BY <1>d, <1>t, <3>1 DEF Holds
    <3>3. updated[m] < incrNow
      BY <2>2 DEF SafeBefore
    <3>4. Safe(m)'
      BY <1>n, <1>t, <3>2, <3>3 DEF Safe
    <3> QED
      BY <3>4 DEF SafeBefore
  <2> QED
    BY <2>1, <2>2
<1>7. IncrCovers'
  <2>1. ASSUME NEW n \in Namespaces, n # m, incrBackupHandlers'[n] = "nonempty"
        PROVE  SafeBefore(n, incrNow)' \/ Holds(IncrBackupOf(n), updated[n])'
    <3>1. SafeBefore(n, incrNow) \/ Holds(IncrBackupOf(n), updated[n])
      BY <1>h, <2>1 DEF ChainInv, IncrCovers
    <3>2. IncrBackupOf(n) \in Backups /\ IncrBackupOf(n) # i /\ IncrBackupOf(n).kind = "incremental"
      BY <2>1, BackupType DEF Inv, IncrBackupOf, Backup
    <3> DEFINE j == IncrBackupOf(n)
    <3>3. Holds(j, updated[n]) <=> Holds(j, updated[n])'
      BY <1>3, <1>t, <3>2 DEF Holds
    <3> QED
      BY <1>5, <3>1, <3>3
  <2>2. ASSUME NEW n \in Namespaces, n # m, IncrBackupOf(n) \notin metadata
        PROVE  IncrBackupOf(n)' \notin metadata'
    <3>1. IncrBackupOf(n) # i
      BY <2>2 DEF IncrBackupOf, Backup
    <3> QED
      BY <1>t, <1>d, <2>2, <3>1
  <2> QED
    BY <1>t, <1>h, <1>5, <1>6, <2>1, <2>2 DEF ChainInv, IncrCovers
<1> QED
  BY <1>1, <1>2, <1>7 DEF ChainInv

(***************************************************************************)
(* An update gets a time later than all backups, so nothing covers it yet  *)
(* and nothing has to.                                                     *)
(***************************************************************************)
LEMMA ChainUpdate ==
    ASSUME Inv, ChainInv, NEW m \in Namespaces, Update(m)
    PROVE  ChainInv'
<1>t. /\ UNCHANGED <<incrStep, incrNow, incrFrom, incrBackupHandlers, lastFullRun, lastIncrRun,
                     data, metadata, fullStep, fullNow, fullBackupHandlers, mu>>
      /\ clock \in Int /\ clock' = clock + 1 /\ updated'[m] = clock'
      /\ \A n \in Namespaces \ {m} : updated'[n] = updated[n]
      /\ \A n \in Namespaces : FullBackupOf(n)' = FullBackupOf(n)
      /\ \A n \in Namespaces : IncrBackupOf(n)' = IncrBackupOf(n)
  BY DEF Update, ReadClock, incrVars, state, storage, fullVars, retryVars, FullBackupOf,
         IncrBackupOf, Inv, TypeOK, Times, Never
<1>i. /\ lastFullRun \in Int /\ lastIncrRun \in Int /\ incrNow \in Int /\ incrFrom \in Int
      /\ \A c \in Calls : fullNow[c] \in Int
      /\ \A b \in metadata : b.created \in Int /\ b.ns \in Namespaces
  BY DEF Inv, TypeOK, Backups, Times, Never
<1>1. Past' /\ InStep' /\ FullWaited' /\ LastFullRunPerformed'
  BY <1>t, <1>i DEF ChainInv, Past, InStep, FullWaited, LastFullRunPerformed
<1>2. ASSUME NEW b, b.ns \in Namespaces, b.created \in Int, b.created <= clock, Covered(b)
      PROVE  Covered(b)'
  BY <1>2, <1>t DEF Covered, Holds
<1>3. FullCovers'
  <2>1. \A b \in metadata : b.kind = "full" => Covered(b)'
    BY <1>2, <1>i DEF ChainInv, FullCovers, Past
  <2>2. ASSUME NEW n \in Namespaces, fullBackupHandlers'[n] \in {"read", "waited"}
        PROVE  Covered(FullBackupOf(n))'
    <3> DEFINE f == FullBackupOf(n)
    <3>1. Covered(f) /\ mu \in Calls
      BY <1>t, <2>2 DEF ChainInv, FullCovers, Inv, FullFlagExact, NoHandlers, TypeOK, Retry!TypeOK
    <3>2. f.ns = n /\ f.created \in Int /\ f.created <= clock /\ f' = f
      BY <1>t, <1>i, <3>1 DEF FullBackupOf, Backup, ChainInv, Past
    <3>3. Covered(f)'
      BY <1>t, <3>1, <3>2 DEF Covered, Holds
    <3> QED
      BY <3>3
  <2> QED
    BY <1>t, <2>1, <2>2 DEF FullCovers
<1>4. ASSUME NEW n \in Namespaces, NEW t \in Int, t <= clock, SafeBefore(n, t)
      PROVE  updated'[n] # Never /\ updated'[n] < t => Safe(n)'
  BY <1>4, <1>t DEF SafeBefore, Safe, Holds
<1>5. IncrCovers'
  <2>1. ASSUME NEW n \in Namespaces
        PROVE  /\ SafeBefore(n, lastIncrRun) => SafeBefore(n, lastIncrRun)'
               /\ SafeBefore(n, incrFrom) => SafeBefore(n, incrFrom)'
               /\ SafeBefore(n, incrNow) => SafeBefore(n, incrNow)'
    BY <1>4, <1>t, <1>i DEF SafeBefore, ChainInv, Past
  <2>2. ASSUME NEW n \in Namespaces, Holds(IncrBackupOf(n), updated[n])
        PROVE  SafeBefore(n, incrNow)' \/ Holds(IncrBackupOf(n), updated[n])'
    <3>1. CASE n = m
      BY <1>t, <1>i, <3>1 DEF SafeBefore, ChainInv, Past
    <3>2. CASE n # m
      BY <1>t, <2>2, <3>2 DEF Holds
    <3> QED
      BY <3>1, <3>2
  <2> QED
    BY <1>t, <2>1, <2>2 DEF ChainInv, IncrCovers
<1> QED
  BY <1>1, <1>3, <1>5 DEF ChainInv

-----------------------------------------------------------------------------
(***************************************************************************)
(* A stuttering step keeps the invariant.                                  *)
(***************************************************************************)
LEMMA ChainStutter == ChainInv /\ UNCHANGED vars => ChainInv'
<1> SUFFICES ASSUME ChainInv, UNCHANGED vars PROVE ChainInv'
  OBVIOUS
<1>1. UNCHANGED <<clock, updated, mu, fullNow, fullStep, fullBackupHandlers, incrStep, incrNow,
                  incrFrom, incrBackupHandlers, lastFullRun, lastIncrRun, data, metadata>>
  BY DEF vars, environment, retryVars, fullVars, incrVars, state, storage
<1>2. Past' /\ InStep' /\ LastFullRunPerformed'
  BY <1>1 DEF ChainInv, Past, InStep, LastFullRunPerformed
<1>3. FullWaited' /\ FullCovers'
  BY <1>1 DEF ChainInv, FullWaited, FullCovers, FullBackupOf, Covered,
              Holds
<1>4. IncrCovers'
  BY <1>1 DEF ChainInv, IncrCovers, SafeBefore, Safe, Holds, IncrBackupOf
<1> QED
  BY <1>2, <1>3, <1>4 DEF ChainInv

(***************************************************************************)
(* Every step keeps the invariant: the process does not crash, and no      *)
(* handler is nil when the metrics are collected.                          *)
(***************************************************************************)
LEMMA ChainStep == KeepsAll /\ Inv /\ ChainInv /\ [Next]_vars => ChainInv'
<1> SUFFICES ASSUME KeepsAll, Inv, ChainInv, [Next]_vars PROVE ChainInv'
  OBVIOUS
<1>1. CASE IncrAdvance
  <2>1. ~IncrPanic
    BY DEF IncrPanic, ChainInv, InStep
  <2> QED
    BY <1>1, <2>1, ChainIncrRun, ChainIncrRead, ChainIncrWait DEF IncrAdvance
<1>2. ~Crash /\ ~CollectMetrics
  BY DEF Crash, CollectMetrics, KeepsAll, ChainInv, InStep, Inv, TypeOK
<1>3. CASE Next
  BY <1>1, <1>2, <1>3, ChainUpdate, ChainFullJob, ChainFullAdvance, ChainIncrExecute DEF Next
<1> QED
  BY <1>3, ChainStutter

(***************************************************************************)
(* The invariant holds throughout every behaviour.                         *)
(***************************************************************************)
LEMMA ChainAlways ==
  ASSUME KeepsAll
  PROVE  Safety => [](Inv /\ ChainInv)
<1>1. Init => Inv /\ ChainInv
  BY InvInit, ChainInit
<1>2. (Inv /\ ChainInv) /\ [Next]_vars => (Inv /\ ChainInv)'
  BY InvStep, ChainStep
<1> QED
  BY <1>1, <1>2, PTL DEF Safety

(***************************************************************************)
(* Under a policy that keeps all files and is not sealed, and while no     *)
(* incremental backup fails and the process does not crash, every update   *)
(* before LastRun can be restored, if FindLastFullBackup finds a full      *)
(* backup of its namespace, for any number of namespaces, executions and   *)
(* retries. It does not when the latest full backup is a partial one of    *)
(* other namespaces.                                                       *)
(***************************************************************************)
THEOREM ChainIsUnbroken ==
  ASSUME KeepsAll
  PROVE  Safety => []ChainUnbroken
<1>1. Inv /\ ChainInv => ChainUnbroken
  BY ChainHolds DEF Inv
<1> QED
  BY <1>1, ChainAlways, PTL

(***************************************************************************)
(* LastFullRun is the time of a full backup that was performed in every    *)
(* namespace, under the same conditions.                                   *)
(***************************************************************************)
THEOREM LastFullRunIsPerformed ==
  ASSUME KeepsAll
  PROVE  Safety => []LastFullRunPerformed
<1>1. Inv /\ ChainInv => LastFullRunPerformed
  BY DEF ChainInv
<1> QED
  BY <1>1, ChainAlways, PTL
=============================================================================
