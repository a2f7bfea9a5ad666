--------------------------- MODULE DataRestorerProofs ---------------------------
(***************************************************************************)
(* Restores from a routine that keeps its files: a job that is done        *)
(* restored everything, and its progress is bounded, for any number of     *)
(* jobs, namespaces, backups and points of time.                           *)
(***************************************************************************)
EXTENDS DataRestorer, BackupRoutineHandlerProofs, FiniteSetTheorems, WellFoundedInduction

-----------------------------------------------------------------------------
(* The hypotheses *)

(***************************************************************************)
(* No backup is deleted, and none leaves out what is updated during it.    *)
(***************************************************************************)
KeepsUpdates == RemoveFiles = "KeepAll" /\ ~Sealed

(***************************************************************************)
(* A restore is requested while the last full backup is complete, and its  *)
(* policy lets a newer record replace one that exists.                     *)
(***************************************************************************)
RestoresChains == OnlyComplete /\ "unique" \notin RestoreFlags

(***************************************************************************)
(* No backup is deleted, and no full backup is repeated: none fails, or    *)
(* there are no retries. What is listed is not written again.              *)
(***************************************************************************)
WritesOnce == RemoveFiles = "KeepAll" /\ (FullFaults => MaxRetries = 0)

-----------------------------------------------------------------------------
(* The inductive invariants *)

(***************************************************************************)
(* Every time was read from the clock.                                     *)
(***************************************************************************)
Clocked ==
    /\ incrNow <= clock
    /\ \A c \in Calls : fullNow[c] <= clock
    /\ \A n \in Namespaces : updated[n] <= clock
    /\ \A b \in metadata : b.created <= clock

(***************************************************************************)
(* No incremental backup is listed before it was waited for.               *)
(***************************************************************************)
IncrUnlisted ==
    /\ incrStep \in {"idle", "check", "client", "bounds"} => incrBackupHandlers = NoHandlers
    /\ incrStep # "idle" =>
          \A n \in Namespaces : incrBackupHandlers[n] # "waited" => IncrBackupOf(n) \notin metadata

(***************************************************************************)
(* The invariant of the backups, and that of the restores as far as types  *)
(* go.                                                                     *)
(***************************************************************************)
HandlerInv == Inv /\ IsFiniteSet(data) /\ Clocked /\ IncrUnlisted

TypeInv == HandlerInv /\ RestoreTypeOK

(***************************************************************************)
(* The backups of namespace n that have read it.                           *)
(***************************************************************************)
ReadBackups(n) ==
    {b \in metadata : b.ns = n}
      \cup {FullBackupOf(n) : h \in {fullBackupHandlers[n]} \cap {"read", "waited"}}
      \cup {IncrBackupOf(n) : h \in {incrBackupHandlers[n]} \cap {"nonempty"}}

(***************************************************************************)
(* Backup b has an update that was made at t, or a later one of the same   *)
(* record.                                                                 *)
(***************************************************************************)
Has(b, t) == \E u \in Records(b) : t <= u

(***************************************************************************)
(* An update of namespace n that was made at t, or never: whatever backup  *)
(* is newer has it, or a later one.                                        *)
(***************************************************************************)
Seen(n, t) ==
    /\ t <= updated[n]
    /\ \A b \in ReadBackups(n) : t # Never /\ t < b.created => Has(b, t)

(***************************************************************************)
(* The last update of every namespace, and every record that was written,  *)
(* is in every backup that is newer than it.                               *)
(***************************************************************************)
UpdatesSeen ==
    /\ \A n \in Namespaces : Seen(n, updated[n])
    /\ \A d \in data : Seen(d.ns, d.record)

(***************************************************************************)
(* Backup b is newer than an update that was made at t, if there was one.  *)
(***************************************************************************)
Newer(b, t) == t = Never \/ t < b.created

(***************************************************************************)
(* What the goroutine of namespace n still has to do for what was          *)
(* promised: a backup that is newer than it, or that has it, is left; or   *)
(* it is restored.                                                         *)
(***************************************************************************)
Owed(r, n) ==
    LET g == r.ns[n]
        t == r.promised[n]
    IN  /\ g.step = "none" => t = Never
        /\ g.step = "list" =>
              \E f \in metadata :
                 /\ g.backups = {f} /\ f.ns = n
                 /\ \E b \in {f} \cup FindIncrementalBackups(f.created, r.to, n) : Newer(b, t)
        /\ g.step \in {"run", "wait"} =>
              /\ g.backups # {} /\ \A b \in g.backups : b \in metadata /\ b.ns = n
              /\ \/ \E b \in g.backups : Newer(b, t)
                 \/ \E b \in g.backups : g.backups = {b} /\ Has(b, t)
        /\ g.step = "done" => t <= r.target[n]

(***************************************************************************)
(* Job r keeps its promises: what it promised was seen, and unless it will *)
(* fail it has, or will restore, it.                                       *)
(***************************************************************************)
Kept(r) ==
    \A n \in Namespaces : /\ Seen(n, r.promised[n])
                          /\ r.errors = {} => Owed(r, n)

PromisesKept == \A j \in Jobs : Kept(job[j])

ChainsInv == TypeInv /\ UpdatesSeen /\ PromisesKept

(***************************************************************************)
(* No full backup is listed before it was waited for.                      *)
(***************************************************************************)
FullUnlisted ==
    /\ fullStep = "error" => FullFaults
    /\ \A c \in Calls : phase[c] # "scheduled"
    /\ \A c \in Calls : phase[c] \in {"blocked", "running"} => fullNow[c] # Never
    /\ \A c, d \in Calls : fullNow[c] = fullNow[d] => c = d \/ fullNow[c] = Never
    /\ \A c \in Calls, n \in Namespaces :
          phase[c] = "blocked" => Backup("full", fullNow[c], n) \notin metadata
    /\ fullBackupInProgress =>
          \A n \in Namespaces : fullBackupHandlers[n] # "waited" => FullBackupOf(n) \notin metadata

(***************************************************************************)
(* The listed backups that a job has counted and not restored.             *)
(***************************************************************************)
Left(r) == UNION {r.ns[n].backups : n \in {m \in Namespaces : r.ns[m].step \in {"run", "wait"}}}

(***************************************************************************)
(* The goroutines of a job hold listed backups of their namespaces, and    *)
(* what is restored and what is left was counted.                          *)
(***************************************************************************)
Counted(r) ==
    /\ \A n \in Namespaces :
          /\ \A b \in r.ns[n].backups : b \in metadata /\ b.ns = n
          /\ r.ns[n].step \in {"list", "run", "wait"} => r.ns[n].backups # {}
          /\ r.ns[n].step = "list" => r.kind # "path"
    /\ \/ r.kind = "path" /\ r.total = 0
       \/ r.done + RecordCount(Left(r)) <= r.total

(***************************************************************************)
(* The invariant that bounds the progress of every job.                    *)
(***************************************************************************)
ProgressInv == TypeInv /\ FullUnlisted /\ \A j \in Jobs : Counted(job[j])

-----------------------------------------------------------------------------
(* Times *)

(***************************************************************************)
(* Times are natural numbers up to a bound.                                *)
(***************************************************************************)
LEMMA TimesAreNumbers ==
    /\ Never \in Times /\ Times \subseteq Nat /\ \A t \in Times : t <= MaxTime
    /\ MaxTime \in Nat
BY HandlerAssumption DEF Times, Never

(***************************************************************************)
(* A set of numbers has a least one.                                       *)
(***************************************************************************)
LEMMA LeastNumber ==
    ASSUME NEW S \in SUBSET Nat, S # {}
    PROVE  \E x \in S : \A y \in S : x <= y
<1>1. PICK x \in S : \A y \in S : ~(<<y, x>> \in OpToRel(<, Nat))
  BY NatLessThanWellFounded, WFMin
<1>2. ASSUME NEW y \in S PROVE x <= y
  <2>1. y < x => <<y, x>> \in OpToRel(<, Nat)
    BY DEF OpToRel
  <2>2. x \in Nat /\ y \in Nat /\ ~(y < x)
    BY <1>1, <2>1
  <2> QED
    BY <2>2
<1> QED
  BY <1>2

(***************************************************************************)
(* The latest of some times is one of them.                                *)
(***************************************************************************)
LEMMA MaxOfTimes ==
    ASSUME NEW S \in SUBSET Times, S # {}
    PROVE  Sets!Max(S) \in S /\ \A t \in S : t <= Sets!Max(S)
<1> DEFINE D == {MaxTime - t : t \in S}
<1>1. D \in SUBSET Nat /\ D # {}
  <2>1. \A t \in S : t \in Nat /\ t <= MaxTime /\ MaxTime \in Nat
    BY TimesAreNumbers
  <2>2. \A t \in S : MaxTime - t \in Nat
    BY <2>1
  <2> QED
    BY <2>2
<1>2. PICK d \in D : \A e \in D : d <= e
  BY <1>1, LeastNumber
<1>3. PICK m \in S : d = MaxTime - m
  BY <1>2
<1>4. \A t \in S : m >= t
  BY <1>2, <1>3, TimesAreNumbers
<1>5. Sets!Max(S) \in S /\ \A t \in S : Sets!Max(S) >= t
  BY <1>3, <1>4 DEF Sets!Max
<1> QED
  BY <1>5, TimesAreNumbers

(***************************************************************************)
(* The backup that is restored first is one of those that are left.        *)
(***************************************************************************)
LEMMA FirstOfBackups ==
    ASSUME NEW S \in SUBSET Backups, S # {}
    PROVE  First(S) \in S /\ \A b \in S : First(S).created <= b.created
<1> DEFINE T == {b.created : b \in S}
<1>1. T \in SUBSET Nat /\ T # {}
  BY TimesAreNumbers DEF Backups
<1>2. PICK t \in T : \A u \in T : t <= u
  BY <1>1, LeastNumber
<1>3. \E b \in S : \A c \in S : b.created <= c.created
  BY <1>2
<1> QED
  BY <1>3 DEF First

(***************************************************************************)
(* The records of a backup are times.                                      *)
(***************************************************************************)
LEMMA RecordsAreTimes ==
    ASSUME data \in SUBSET Contents, NEW b
    PROVE  Records(b) \in SUBSET Times
BY DEF Records, Contents

(***************************************************************************)
(* Backups are counted by a number.                                        *)
(***************************************************************************)
LEMMA CountIsNumber ==
    ASSUME IsFiniteSet(data), NEW S
    PROVE  RecordCount(S) \in Nat
<1>1. {d \in data : \E b \in S : InFolder(d, b)} \in SUBSET data
  OBVIOUS
<1> QED
  BY <1>1, FS_Subset, FS_CardinalityType DEF RecordCount

-----------------------------------------------------------------------------
(* The backups go on *)

(***************************************************************************)
(* The times in the state are numbers.                                     *)
(***************************************************************************)
LEMMA StateTimes ==
    ASSUME TypeOK
    PROVE  /\ clock \in Nat /\ incrNow \in Nat
           /\ \A c \in Calls : fullNow[c] \in Nat
           /\ \A n \in Namespaces : updated[n] \in Nat
           /\ \A b \in metadata : b.created \in Nat /\ b \in Backups
BY TimesAreNumbers DEF TypeOK, Backups

(***************************************************************************)
(* A handler writes at most one record.                                    *)
(***************************************************************************)
LEMMA WriteIsFinite ==
    ASSUME IsFiniteSet(data), NEW b, NEW n, NEW from, NEW to,
           WriteRecords(b, ReadRecords(n, from, to))
    PROVE  IsFiniteSet(data')
<1> DEFINE kept == {d \in data : ~InFolder(d, b)}
           new  == [kind |-> b.kind, created |-> b.created, ns |-> b.ns, record |-> updated[n]]
<1>1. IsFiniteSet(kept) /\ IsFiniteSet(kept \cup {new})
  <2>1. kept \in SUBSET data
    OBVIOUS
  <2>2. IsFiniteSet(kept)
    BY <2>1, FS_Subset
  <2> QED
    BY <2>2, FS_AddElement
<1>2. data' = kept \/ data' = kept \cup {new}
  <2>1. ReadRecords(n, from, to) = {} \/ ReadRecords(n, from, to) = {updated[n]}
    BY DEF ReadRecords
  <2> QED
    BY <2>1 DEF WriteRecords
<1> QED
  BY <1>1, <1>2

(***************************************************************************)
(* Steps of the full backup that only change it, or take backups away.     *)
(***************************************************************************)
LEMMA SmallerStorage ==
    ASSUME HandlerInv, Inv', UNCHANGED <<environment, fullNow, incrVars>>,
           data' \subseteq data, metadata' \subseteq metadata
    PROVE  HandlerInv'
<1>1. IsFiniteSet(data')
  BY FS_Subset DEF HandlerInv
<1>2. Clocked'
  BY DEF HandlerInv, Clocked, environment, incrVars
<1>3. IncrUnlisted'
  BY DEF HandlerInv, IncrUnlisted, IncrBackupOf, incrVars
<1> QED
  BY <1>1, <1>2, <1>3 DEF HandlerInv

(***************************************************************************)
(* Full backups and their retries.                                         *)
(***************************************************************************)
LEMMA FullJobHandlerInv ==
    ASSUME HandlerInv, NEW c \in Calls,
           FullExecute(c) \/ FullLock(c) \/ FullTimer(c) \/ FullReturn(c)
    PROVE  HandlerInv'
<1>i. Inv'
  BY InvFullJob DEF HandlerInv
<1>1. CASE FullExecute(c)
  <2>1. TypeOK /\ Clocked
    BY DEF HandlerInv, Inv
  <2>c. /\ clock' = clock + 1 /\ UNCHANGED <<incrNow, updated, metadata>>
        /\ \A d \in Calls : fullNow'[d] = fullNow[d] \/ fullNow'[d] = clock'
    BY <1>1, <2>1 DEF FullExecute, ReadClock, incrVars, storage, TypeOK
  <2>2. Clocked'
    BY <2>1, <2>c, StateTimes DEF Clocked
  <2>3. IncrUnlisted' /\ IsFiniteSet(data')
    BY <1>1 DEF HandlerInv, IncrUnlisted, IncrBackupOf, FullExecute, incrVars, storage
  <2> QED
    BY <1>i, <2>2, <2>3 DEF HandlerInv
<1>2. CASE FullLock(c) \/ FullTimer(c) \/ FullReturn(c)
  BY <1>2, <1>i, SmallerStorage DEF FullLock, FullTimer, FullReturn, fullVars, storage
<1> QED
  BY <1>1, <1>2

(***************************************************************************)
(* An attempt of a full backup.                                            *)
(***************************************************************************)
LEMMA FullAdvanceHandlerInv == HandlerInv /\ FullAdvance => HandlerInv'
<1> SUFFICES ASSUME HandlerInv, FullAdvance PROVE HandlerInv'
  OBVIOUS
<1>i. Inv' /\ UNCHANGED <<environment, fullNow, incrVars>>
  BY InvFullAdvance
     DEF HandlerInv, FullAdvance, FullGetClient, FullFail, FullUpdateState, FullClean,
         FullConfig, FullStartNamespace, FullRead, FullWait
<1>1. CASE FullGetClient \/ FullUpdateState \/ FullConfig
  BY <1>1, <1>i, SmallerStorage DEF FullGetClient, FullUpdateState, FullConfig, storage
<1>2. CASE FullFail \/ FullClean
  BY <1>2, <1>i, SmallerStorage DEF FullFail, FullClean
<1>3. ASSUME NEW n \in Namespaces, FullStartNamespace(n) PROVE HandlerInv'
  BY <1>3, <1>i, SmallerStorage DEF FullStartNamespace, Outside
<1>4. ASSUME NEW n \in Namespaces, FullRead(n) PROVE HandlerInv'
  <2>1. IsFiniteSet(data')
    BY <1>4, WriteIsFinite DEF FullRead, HandlerInv
  <2>2. Clocked' /\ IncrUnlisted'
    BY <1>4, <1>i DEF FullRead, HandlerInv, Clocked, IncrUnlisted, IncrBackupOf, environment,
                      incrVars
  <2> QED
    BY <1>i, <2>1, <2>2 DEF HandlerInv
<1>5. ASSUME NEW n \in Namespaces, FullWait(n) PROVE HandlerInv'
  <2>1. mu \in Calls /\ FullBackupOf(n).created = fullNow[mu] /\ FullBackupOf(n).kind = "full"
    BY <1>5 DEF FullWait, FullBackupOf, Backup, HandlerInv, Inv, FullFlagExact, TypeOK, Retry!TypeOK
  <2>2. \A b \in metadata' : b \in metadata \/ b = FullBackupOf(n)
    BY <1>5 DEF FullWait, Outside
  <2>3. Clocked' /\ IncrUnlisted'
    BY <2>1, <2>2, <1>i
       DEF HandlerInv, Clocked, IncrUnlisted, IncrBackupOf, Backup, environment, incrVars
  <2> QED
    BY <1>5, <1>i, <2>3 DEF HandlerInv, FullWait
<1> QED
  BY <1>1, <1>2, <1>3, <1>4, <1>5 DEF FullAdvance

(***************************************************************************)
(* Incremental backups.                                                    *)
(***************************************************************************)
LEMMA IncrHandlerInv == HandlerInv /\ (IncrExecute \/ IncrAdvance) => HandlerInv'
<1> SUFFICES ASSUME HandlerInv, IncrExecute \/ IncrAdvance PROVE HandlerInv'
  OBVIOUS
<1>i. Inv' /\ UNCHANGED <<updated, fullVars>>
  BY InvIncr
     DEF HandlerInv, IncrExecute, IncrAdvance, IncrCheck, IncrGetClient, IncrBounds, IncrPanic,
         IncrFinish, IncrStartNamespace, IncrRead, IncrWait, environment
<1>t. /\ clock \in Nat /\ fullNow \in [Calls -> Times] /\ updated \in [Namespaces -> Times]
      /\ incrNow \in Nat /\ metadata \in SUBSET Backups /\ IsFiniteSet(data)
      /\ incrBackupHandlers \in [Namespaces -> IncrHandler]
  BY TimesAreNumbers DEF HandlerInv, Inv, TypeOK
<1>1. CASE IncrExecute
  <2>1. clock' = clock + 1 /\ incrNow' = clock + 1 /\ UNCHANGED <<data, metadata, incrBackupHandlers>>
    BY <1>1 DEF IncrExecute, ReadClock, storage
  <2>2. Clocked'
    <3>1. TypeOK /\ Clocked /\ UNCHANGED <<updated, fullNow, metadata>>
      BY <1>i, <2>1 DEF HandlerInv, Inv, fullVars
    <3> QED
      BY <2>1, <3>1, StateTimes DEF Clocked
  <2>3. ASSUME NEW n \in Namespaces PROVE IncrBackupOf(n)' \notin metadata'
    <3>1. IncrBackupOf(n)'.created = clock + 1
      BY <2>1 DEF IncrBackupOf, Backup
    <3>2. \A b \in metadata : b.created # clock + 1
      BY <1>t, StateTimes DEF HandlerInv, Inv, Clocked
    <3> QED
      BY <2>1, <3>1, <3>2
  <2>4. incrStep' = "check" /\ incrBackupHandlers' = NoHandlers
    BY <1>1, <2>1 DEF IncrExecute, HandlerInv, IncrUnlisted
  <2>5. IncrUnlisted' /\ IsFiniteSet(data')
    BY <1>t, <2>1, <2>3, <2>4 DEF IncrUnlisted
  <2> QED
    BY <1>i, <2>2, <2>5 DEF HandlerInv
<1>2. CASE IncrAdvance
  <2>1. UNCHANGED <<environment, incrNow>>
    BY <1>2 DEF IncrAdvance, IncrCheck, IncrGetClient, IncrBounds, IncrPanic,
                IncrFinish, IncrStartNamespace, IncrRead, IncrWait
  <2>2. \A n \in Namespaces : IncrBackupOf(n)' = IncrBackupOf(n)
    BY <2>1 DEF IncrBackupOf
  <2>3. CASE IncrCheck \/ IncrGetClient
    BY <2>3, <2>1, <2>2, <1>i, <1>t
       DEF IncrCheck, IncrGetClient, HandlerInv, Clocked, IncrUnlisted, environment, fullVars, storage
  <2>4. CASE IncrBounds \/ IncrPanic \/ IncrFinish
    <3>1. incrBackupHandlers' = NoHandlers /\ UNCHANGED storage /\ incrStep # "idle"
          /\ incrStep' \in {"idle", "start", "wait"}
      BY <2>4 DEF IncrBounds, IncrPanic, IncrFinish
    <3>2. Clocked' /\ IsFiniteSet(data')
      BY <3>1, <2>1, <1>i, <1>t DEF HandlerInv, Clocked, environment, fullVars, storage
    <3>3. IncrUnlisted'
      BY <3>1, <2>1, <2>2, <2>4, <1>t
         DEF HandlerInv, IncrUnlisted, IncrBounds, IncrPanic, IncrFinish, NoHandlers, storage
    <3> QED
      BY <1>i, <3>2, <3>3 DEF HandlerInv
  <2>5. ASSUME NEW n \in Namespaces, IncrStartNamespace(n) PROVE HandlerInv'
    BY <2>5, <2>1, <2>2, <1>i, <1>t
       DEF IncrStartNamespace, HandlerInv, Clocked, IncrUnlisted, environment, fullVars, storage
  <2>6. ASSUME NEW n \in Namespaces, IncrRead(n) PROVE HandlerInv'
    <3>1. IsFiniteSet(data')
      BY <2>6, <1>t, WriteIsFinite DEF IncrRead
    <3>2. Clocked'
      BY <2>6, <2>1, <1>i DEF IncrRead, HandlerInv, Clocked, environment, fullVars
    <3>3. IncrUnlisted'
      <4>1. incrBackupHandlers[n] = "running" /\ incrStep' = incrStep /\ metadata' = metadata
        BY <2>6, <1>t DEF IncrRead
      <4>2. incrStep \notin {"idle", "check", "client", "bounds"}
        BY <4>1 DEF HandlerInv, IncrUnlisted, NoHandlers
      <4>3. incrStep # "idle" /\ IncrUnlisted
        BY <4>2 DEF HandlerInv
      <4>4. \A m \in Namespaces :
               incrBackupHandlers'[m] # "waited" => IncrBackupOf(m)' \notin metadata'
        <5> SUFFICES ASSUME NEW m \in Namespaces, incrBackupHandlers'[m] # "waited"
                     PROVE  IncrBackupOf(m)' \notin metadata'
          OBVIOUS
        <5>1. incrBackupHandlers[m] # "waited"
          <6>1. CASE m = n
            BY <6>1, <4>1
          <6>2. CASE m # n
            BY <6>2, <2>6, <1>t DEF IncrRead
          <6> QED
            BY <6>1, <6>2
        <5> QED
          BY <5>1, <4>1, <4>3, <2>2 DEF IncrUnlisted
      <4> QED
        BY <4>1, <4>2, <4>4 DEF IncrUnlisted
    <3> QED
      BY <1>i, <3>1, <3>2, <3>3 DEF HandlerInv
  <2>7. ASSUME NEW n \in Namespaces, IncrWait(n) PROVE HandlerInv'
    <3>1. data' \subseteq data /\ metadata' \subseteq metadata \cup {IncrBackupOf(n)}
      BY <2>7 DEF IncrWait, Outside, storage
    <3>2. IsFiniteSet(data')
      BY <3>1, <1>t, FS_Subset
    <3>3. Clocked'
      BY <3>1, <2>1, <1>i DEF HandlerInv, Clocked, IncrBackupOf, Backup, environment, fullVars
    <3>4. IncrUnlisted'
      <4>1. ASSUME NEW m \in Namespaces, incrBackupHandlers'[m] # "waited"
            PROVE  IncrBackupOf(m) \notin metadata'
        <5>1. m # n /\ incrBackupHandlers[m] # "waited" /\ incrStep = "wait"
          BY <2>7, <4>1, <1>t DEF IncrWait
        <5>2. IncrBackupOf(m) # IncrBackupOf(n)
          BY <5>1 DEF IncrBackupOf, Backup
        <5> QED
          BY <3>1, <5>1, <5>2 DEF HandlerInv, IncrUnlisted
      <4>2. incrStep' = "wait"
        BY <2>7 DEF IncrWait
      <4> QED
        BY <4>1, <4>2, <2>2 DEF IncrUnlisted
    <3> QED
      BY <1>i, <3>2, <3>3, <3>4 DEF HandlerInv
  <2> QED
    BY <1>2, <2>3, <2>4, <2>5, <2>6, <2>7 DEF IncrAdvance
<1> QED
  BY <1>1, <1>2

(***************************************************************************)
(* Everything but the restores, and the end of the process.                *)
(***************************************************************************)
LEMMA BackupHandlerInv ==
    ASSUME HandlerInv,
           BackupNext \/ UNCHANGED vars \/ (Restart /\ UNCHANGED crashes)
    PROVE  HandlerInv'
<1>1. ASSUME NEW n \in Namespaces, Update(n) PROVE HandlerInv'
  <2>1. Inv'
    BY <1>1, InvUpdate DEF HandlerInv
  <2>2. TypeOK /\ Clocked
    BY DEF HandlerInv, Inv
  <2>c. /\ clock' = clock + 1 /\ UNCHANGED <<incrNow, fullNow, metadata>>
        /\ \A m \in Namespaces : updated'[m] = updated[m] \/ updated'[m] = clock'
    BY <1>1, <2>2 DEF Update, ReadClock, fullVars, incrVars, storage, TypeOK
  <2>3. Clocked'
    BY <2>2, <2>c, StateTimes DEF Clocked
  <2>4. IncrUnlisted' /\ IsFiniteSet(data')
    BY <1>1 DEF HandlerInv, IncrUnlisted, IncrBackupOf, Update, incrVars, storage
  <2> QED
    BY <2>1, <2>3, <2>4 DEF HandlerInv
<1>2. CASE Restart /\ UNCHANGED crashes
  <2>1. Inv'
    BY <1>2, InvRestart DEF HandlerInv, Inv, TypeOK
  <2>2. Clocked' /\ IncrUnlisted' /\ IsFiniteSet(data')
    BY <1>2 DEF HandlerInv, Clocked, IncrUnlisted, Restart, storage
  <2> QED
    BY <2>1, <2>2 DEF HandlerInv
<1>3. CASE UNCHANGED vars
  <2>1. Inv'
    BY <1>3, InvStep DEF HandlerInv
  <2>2. Clocked' /\ IncrUnlisted' /\ IsFiniteSet(data')
    BY <1>3 DEF HandlerInv, Clocked, IncrUnlisted, IncrBackupOf, vars, environment, fullVars,
                incrVars, storage
  <2> QED
    BY <2>1, <2>2 DEF HandlerInv
<1> QED
  BY <1>1, <1>2, <1>3, FullJobHandlerInv, FullAdvanceHandlerInv, IncrHandlerInv DEF BackupNext

-----------------------------------------------------------------------------
(* The jobs keep their types *)

(***************************************************************************)
(* The type of a job, by itself.                                           *)
(***************************************************************************)
Goroutines == [step : Steps, backups : SUBSET Backups]

JobType ==
    [status : {"none", "Running", "Done", "Failed"}, kind : {"none", "path", "time"},
     step : {"none", "client", "namespaces"}, to : Times,
     routine : {"same", "moved", "gone"}, ns : [Namespaces -> Goroutines],
     errors : SUBSET Namespaces, total : Nat, done : Nat,
     target : [Namespaces -> Times], promised : [Namespaces -> Times]]

(***************************************************************************)
(* The type invariant says that every job is of the type.                  *)
(***************************************************************************)
LEMMA JobsAreTyped == RestoreTypeOK <=> job \in [Jobs -> JobType]
BY DEF RestoreTypeOK, JobType, Goroutines

(***************************************************************************)
(* A job is replaced by one of the type.                                   *)
(***************************************************************************)
LEMMA SetIsTyped ==
    ASSUME RestoreTypeOK, NEW j \in Jobs, NEW record \in JobType, Set(j, record)
    PROVE  RestoreTypeOK'
<1>1. job' \in [Jobs -> JobType]
  BY JobsAreTyped DEF Set
<1> QED
  BY <1>1 DEF RestoreTypeOK, JobType, Goroutines

(***************************************************************************)
(* The job that has not started, or ended.                                 *)
(***************************************************************************)
LEMMA NoJobIsTyped ==
    /\ NoJob \in JobType
    /\ \A status \in {"Done", "Failed"} : [NoJob EXCEPT !.status = status] \in JobType
<1>1. NoGoroutines \in [Namespaces -> Goroutines] /\ Never \in Times
  BY TimesAreNumbers DEF NoGoroutines, Goroutine, Goroutines, Steps
<1>2. [n \in Namespaces |-> Never] \in [Namespaces -> Times]
  BY <1>1
<1> HIDE DEF Never
<1> QED
  BY <1>1, <1>2 DEF NoJob, JobType

(***************************************************************************)
(* What is promised is a time.                                             *)
(***************************************************************************)
LEMMA PromisedIsTyped ==
    ASSUME data \in SUBSET Contents, NEW n, NEW to
    PROVE  Promised(n, to) \in Times
<1> DEFINE listed == {b \in metadata : b.ns = n /\ b.created <= to}
           S == {Never} \cup UNION {{r \in Records(b) : \E c \in listed : r < c.created} : b \in listed}
<1>1. S \in SUBSET Times /\ S # {}
  BY RecordsAreTimes, TimesAreNumbers
<1> QED
  BY <1>1, MaxOfTimes DEF Promised

(***************************************************************************)
(* A restore from a path.                                                  *)
(***************************************************************************)
LEMMA RestoreIsTyped ==
    ASSUME TypeInv, NEW j \in Jobs, NEW b \in metadata, Restore(j, b)
    PROVE  RestoreTypeOK'
<1>t. /\ data \in SUBSET Contents /\ metadata \in SUBSET Backups /\ IsFiniteSet(data)
      /\ RestoreTypeOK
  BY DEF TypeInv, HandlerInv, Inv, TypeOK
<1> DEFINE promised == Sets!Max({Never} \cup Records(b))
           g == Goroutine("run", {b})
           record(count) == [NoJob EXCEPT
            !.status = "Running", !.kind = "path", !.step = "client", !.total = count,
            !.ns[b.ns] = g, !.promised[b.ns] = promised]
<1>1. PICK count \in {RecordCount({b})} \cup {c \in {0} : RestoreFaults} : Set(j, record(count))
  BY DEF Restore
<1>2. count \in Nat
  BY <1>t, <1>1, CountIsNumber
<1>3. promised \in Times
  BY <1>t, RecordsAreTimes, TimesAreNumbers, MaxOfTimes
<1>4. g \in Goroutines /\ b.ns \in Namespaces
  BY <1>t DEF Goroutine, Goroutines, Steps, Backups
<1> HIDE DEF g, promised
<1>5. record(count) \in JobType
  BY <1>2, <1>3, <1>4, NoJobIsTyped DEF JobType
<1> QED
  BY <1>1, <1>5, <1>t, SetIsTyped

(***************************************************************************)
(* A restore by time.                                                      *)
(***************************************************************************)
LEMMA RestoreByTimeIsTyped ==
    ASSUME TypeInv, NEW j \in Jobs, NEW to \in RestoreTimes, RestoreByTime(j, to)
    PROVE  RestoreTypeOK'
<1>t. /\ data \in SUBSET Contents /\ metadata \in SUBSET Backups /\ RestoreTypeOK
  BY DEF TypeInv, HandlerInv, Inv, TypeOK
<1> DEFINE full == FindLastFullBackup(to)
           found(n) == {b \in full : b.ns = n}
           ns == [n \in Namespaces |-> Goroutine(IF found(n) = {} THEN "none" ELSE "list", found(n))]
           promised == [n \in Namespaces |-> Promised(n, to)]
           record == [NoJob EXCEPT
             !.status = "Running", !.kind = "time", !.step = "client", !.to = to,
             !.ns = ns, !.promised = promised]
<1>1. Set(j, record)
  BY DEF RestoreByTime
<1>2. promised \in [Namespaces -> Times]
  BY <1>t, PromisedIsTyped
<1>3. ns \in [Namespaces -> Goroutines]
  BY <1>t DEF FindLastFullBackup, BackupList, Goroutine, Goroutines, Steps
<1>4. to \in Times
  BY RestorerAssumption
<1> HIDE DEF ns, promised
<1>5. record \in JobType
  BY <1>2, <1>3, <1>4, NoJobIsTyped DEF JobType
<1> QED
  BY <1>1, <1>5, <1>t, SetIsTyped

(***************************************************************************)
(* The failure of a namespace.                                             *)
(***************************************************************************)
LEMMA FailIsTyped ==
    ASSUME RestoreTypeOK, NEW j \in Jobs, NEW n \in Namespaces, Fail(j, n)
    PROVE  RestoreTypeOK'
<1> DEFINE g == Goroutine("done", {})
           record(errors) == [job[j] EXCEPT !.ns[n] = g, !.errors = errors]
<1>1. PICK errors \in {job[j].errors \cup {n}, {n}} : Set(j, record(errors))
  BY DEF Fail
<1>2. job[j] \in JobType
  BY JobsAreTyped
<1>3. errors \in SUBSET Namespaces /\ g \in Goroutines
  BY <1>1, <1>2 DEF JobType, Goroutine, Goroutines, Steps
<1> HIDE DEF g
<1>4. record(errors) \in JobType
  BY <1>2, <1>3 DEF JobType
<1> QED
  BY <1>1, <1>4, SetIsTyped

(***************************************************************************)
(* The listing of the incremental backups.                                 *)
(***************************************************************************)
LEMMA ListIsTyped ==
    ASSUME TypeInv, NEW j \in Jobs, NEW n \in Namespaces, ListIncrementals(j, n)
    PROVE  RestoreTypeOK'
<1>t. metadata \in SUBSET Backups /\ IsFiniteSet(data) /\ RestoreTypeOK /\ job[j] \in JobType
  BY JobsAreTyped DEF TypeInv, HandlerInv, Inv, TypeOK
<1> DEFINE all == job[j].ns[n].backups
                    \cup FindIncrementalBackups(First(job[j].ns[n].backups).created, job[j].to, n)
           g == Goroutine("run", all)
           count == RecordCount(all)
           total == job[j].total + count
           record == [job[j] EXCEPT !.ns[n] = g, !.total = total]
<1>1. Set(j, record) \/ Fail(j, n)
  BY DEF ListIncrementals
<1>2. total \in Nat
  BY <1>t, CountIsNumber DEF JobType
<1>3. g \in Goroutines
  BY <1>t DEF FindIncrementalBackups, BackupList, JobType, Goroutine, Goroutines, Steps
<1> HIDE DEF g, total
<1>4. record \in JobType
  BY <1>2, <1>3, <1>t DEF JobType
<1> QED
  BY <1>1, <1>4, <1>t, SetIsTyped, FailIsTyped

(***************************************************************************)
(* A restore of the next backup.                                           *)
(***************************************************************************)
LEMMA RunIsTyped ==
    ASSUME RestoreTypeOK, NEW j \in Jobs, NEW n \in Namespaces, RestoreRun(j, n)
    PROVE  RestoreTypeOK'
<1> DEFINE g == [job[j].ns[n] EXCEPT !.step = "wait"]
           record == [job[j] EXCEPT !.ns[n] = g]
<1>1. Set(j, record) \/ Fail(j, n)
  BY DEF RestoreRun
<1>2. job[j] \in JobType
  BY JobsAreTyped
<1>4. job[j].ns[n] \in Goroutines
  BY <1>2 DEF JobType
<1>5. g \in Goroutines
  BY <1>4 DEF Goroutines, Steps
<1> HIDE DEF g
<1>3. record \in JobType
  BY <1>2, <1>5 DEF JobType
<1> QED
  BY <1>1, <1>3, SetIsTyped, FailIsTyped

(***************************************************************************)
(* What is restored is a time.                                             *)
(***************************************************************************)
LEMMA RestoredIsTyped ==
    ASSUME data \in SUBSET Contents, NEW record \in Times, NEW b
    PROVE  Restored(record, b) \in Times
<1> DEFINE options == [action |-> RecordExistsAction(RestoreFlags),
                       generation |-> GenerationPolicy(RestoreFlags)]
           written == {r \in Records(b) : Written(options, record # Never, r > record) # "kept"}
<1>1. Restored(record, b) = IF written = {} THEN record ELSE Sets!Max(written)
  BY Zenon DEF Restored
<1>2. written \in SUBSET Times
  BY RecordsAreTimes
<1> QED
  BY <1>1, <1>2, MaxOfTimes

(***************************************************************************)
(* The end of the restore of a backup.                                     *)
(***************************************************************************)
LEMMA WaitIsTyped ==
    ASSUME TypeInv, NEW j \in Jobs, NEW n \in Namespaces, Wait(j, n)
    PROVE  RestoreTypeOK'
<1>t. data \in SUBSET Contents /\ IsFiniteSet(data) /\ RestoreTypeOK /\ job[j] \in JobType
  BY JobsAreTyped DEF TypeInv, HandlerInv, Inv, TypeOK
<1> DEFINE b == First(job[j].ns[n].backups)
           rest == job[j].ns[n].backups \ {b}
           g == Goroutine(IF rest = {} THEN "done" ELSE "run", rest)
           done == job[j].done + RecordCount({b})
           restored == Restored(job[j].target[n], b)
           record == [job[j] EXCEPT !.target[n] = restored, !.done = done, !.ns[n] = g]
<1>1. Set(j, record) \/ Fail(j, n)
  BY DEF Wait
<1>2. done \in Nat
  BY <1>t, CountIsNumber DEF JobType
<1>3. g \in Goroutines
  BY <1>t DEF JobType, Goroutine, Goroutines, Steps
<1>4. restored \in Times
  BY <1>t, RestoredIsTyped DEF JobType
<1> HIDE DEF g, done, restored
<1>5. record \in JobType
  BY <1>2, <1>3, <1>4, <1>t DEF JobType
<1> QED
  BY <1>1, <1>5, <1>t, SetIsTyped, FailIsTyped

(***************************************************************************)
(* A step of a job, in one formula.                                        *)
(***************************************************************************)
JobStep(j) ==
    \/ \E b \in metadata : Restore(j, b)
    \/ \E to \in RestoreTimes : RestoreByTime(j, to)
    \/ RestoreAdvance(j)

(***************************************************************************)
(* A step of a job keeps the types, whatever step it is.                   *)
(***************************************************************************)
LEMMA JobStepIsTyped ==
    ASSUME TypeInv, NEW j \in Jobs, JobStep(j)
    PROVE  RestoreTypeOK'
<1>t. RestoreTypeOK /\ job[j] \in JobType
  BY JobsAreTyped DEF TypeInv
<1>1. ASSUME SetFailed(j) \/ SetDone(j) PROVE RestoreTypeOK'
  BY <1>1, <1>t, NoJobIsTyped, SetIsTyped DEF SetFailed, SetDone
<1>2. CASE GetClient(j)
  <2>1. [job[j] EXCEPT !.step = "namespaces"] \in JobType
    BY <1>t DEF JobType
  <2> QED
    BY <1>1, <1>2, <1>t, <2>1, SetIsTyped DEF GetClient
<1>3. CASE Finish(j)
  BY <1>1, <1>3 DEF Finish
<1> QED
  BY <1>2, <1>3, <1>t, RestoreIsTyped, RestoreByTimeIsTyped, ListIsTyped, RunIsTyped, WaitIsTyped
     DEF JobStep, RestoreAdvance

(***************************************************************************)
(* Initially everything has its type.                                      *)
(***************************************************************************)
LEMMA InitIsTyped == Init /\ RestoreInit => TypeInv
<1> SUFFICES ASSUME Init, RestoreInit PROVE TypeInv
  OBVIOUS
<1>1. Inv
  BY InvInit
<1>2. IsFiniteSet(data) /\ Clocked /\ IncrUnlisted
  BY FS_EmptySet DEF Init, Clocked, IncrUnlisted, Never, NoHandlers
<1>3. RestoreTypeOK
  BY JobsAreTyped, NoJobIsTyped DEF RestoreInit
<1> QED
  BY <1>1, <1>2, <1>3 DEF TypeInv, HandlerInv

(***************************************************************************)
(* Every step keeps the types.                                             *)
(***************************************************************************)
LEMMA NextIsTyped == TypeInv /\ [RestoreNext]_allVars => TypeInv'
<1> SUFFICES ASSUME TypeInv, [RestoreNext]_allVars PROVE TypeInv'
  OBVIOUS
<1>t. HandlerInv /\ RestoreTypeOK
  BY DEF TypeInv
<1>j. ASSUME UNCHANGED job PROVE RestoreTypeOK'
  BY <1>j, <1>t DEF RestoreTypeOK
<1>1. CASE (BackupNext \/ UNCHANGED vars) /\ UNCHANGED job
  BY <1>1, <1>j, <1>t, BackupHandlerInv DEF TypeInv
<1>2. ASSUME NEW j \in Jobs, JobStep(j), UNCHANGED vars PROVE TypeInv'
  BY <1>2, <1>t, BackupHandlerInv, JobStepIsTyped DEF TypeInv
<1>3. CASE ChangeRoutine /\ UNCHANGED vars
  <2>1. PICK change \in {"moved", "gone"} :
           job' = [j \in Jobs |-> IF ByTime(j) THEN [job[j] EXCEPT !.routine = change] ELSE job[j]]
    BY <1>3 DEF ChangeRoutine
  <2>2. job' \in [Jobs -> JobType]
    <3>1. ASSUME NEW r \in JobType PROVE [r EXCEPT !.routine = change] \in JobType
      BY <3>1 DEF JobType
    <3>2. \A j \in Jobs : job[j] \in JobType
      BY <1>t, JobsAreTyped
    <3> QED
      BY <2>1, <3>1, <3>2
  <2>3. RestoreTypeOK'
    BY <2>2 DEF RestoreTypeOK, JobType, Goroutines
  <2> QED
    BY <1>3, <1>t, <2>3, BackupHandlerInv DEF TypeInv
<1>4. CASE RestorePanics
  <2>1. HandlerInv'
    BY <1>4, <1>t, BackupHandlerInv DEF RestorePanics
  <2>2. job' \in [Jobs -> JobType]
    BY <1>4, NoJobIsTyped DEF RestorePanics, LoseJobs
  <2>3. RestoreTypeOK'
    BY <2>2 DEF RestoreTypeOK, JobType, Goroutines
  <2> QED
    BY <2>1, <2>3 DEF TypeInv
<1> QED
  BY <1>1, <1>2, <1>3, <1>4 DEF RestoreNext, JobStep, allVars

(***************************************************************************)
(* The jobs of the restorer have their type while backups go on and the    *)
(* routine changes: the counters of records (jobInfo) stay natural.        *)
(***************************************************************************)
THEOREM RestoreTypeCorrect == RestoreSpec => []RestoreTypeOK
<1>1. TypeInv => RestoreTypeOK
  BY DEF TypeInv
<1> QED
  BY <1>1, InitIsTyped, NextIsTyped, PTL DEF RestoreSpec

-----------------------------------------------------------------------------
(* What the backups have read *)

(***************************************************************************)
(* A step that keeps what namespace n was read for, or reads its update.   *)
(***************************************************************************)
ReadStep(n) ==
    /\ updated[n] <= updated'[n]
    /\ \A b \in ReadBackups(n)' : \/ b \in ReadBackups(n) /\ Records(b) \subseteq Records(b)'
                                  \/ updated[n] \in Records(b)'
                                  \/ updated[n] = Never

(***************************************************************************)
(* What was seen stays so.                                                 *)
(***************************************************************************)
LEMMA SeenStays ==
    ASSUME TypeOK, TypeOK', NEW n \in Namespaces, NEW t \in Times, Seen(n, t), ReadStep(n)
    PROVE  Seen(n, t)'
<1>1. t \in Nat /\ updated[n] \in Nat /\ updated'[n] \in Nat /\ Never = 0
  BY TimesAreNumbers DEF TypeOK, Never
<1>2. t <= updated'[n]
  BY <1>1 DEF Seen, ReadStep
<1>3. ASSUME NEW b \in ReadBackups(n)', t # Never, t < b.created PROVE Has(b, t)'
  <2>1. CASE b \in ReadBackups(n) /\ Records(b) \subseteq Records(b)'
    BY <1>3, <2>1 DEF Seen, Has
  <2>2. CASE updated[n] \in Records(b)'
    BY <2>2, <1>1 DEF Seen, Has
  <2>3. CASE updated[n] = Never
    BY <1>1, <1>3, <2>3 DEF Seen
  <2> QED
    BY <2>1, <2>2, <2>3 DEF ReadStep
<1> QED
  BY <1>2, <1>3 DEF Seen

(***************************************************************************)
(* Under KeepAll every backup has a folder of its own.                     *)
(***************************************************************************)
LEMMA WriteOneFolder ==
    ASSUME RemoveFiles = "KeepAll", TypeOK, NEW b \in Backups, NEW R, WriteRecords(b, R)
    PROVE  /\ Records(b)' = R
           /\ \A c \in Backups : c # b => Records(c)' = Records(c)
<1>f. \A d, c : InFolder(d, c) <=> d.kind = c.kind /\ d.ns = c.ns /\ d.created = c.created
  BY DEF InFolder, RemoveFullBackup
<1> DEFINE new(t) == [kind |-> b.kind, created |-> b.created, ns |-> b.ns, record |-> t]
<1>1. data' = {d \in data : ~InFolder(d, b)} \cup {new(t) : t \in R}
  BY DEF WriteRecords
<1>2. \A t \in R : InFolder(new(t), b) /\ new(t).record = t
  BY <1>f
<1>3. Records(b)' = R
  <2>1. Records(b)' = {d.record : d \in {e \in data' : InFolder(e, b)}}
    BY DEF Records, InFolder
  <2>2. {e \in data' : InFolder(e, b)} = {new(t) : t \in R}
    BY <1>1, <1>2
  <2> HIDE DEF new
  <2>3. \A u : u \in Records(b)' <=> \E t \in R : u = new(t).record
    BY <2>1, <2>2
  <2>4. \A u : u \in Records(b)' <=> u \in R
    BY <1>2, <2>3
  <2> QED
    BY <2>4
<1>4. ASSUME NEW c \in Backups, c # b PROVE Records(c)' = Records(c)
  <2>1. \A d : ~(InFolder(d, c) /\ InFolder(d, b))
    BY <1>f, <1>4 DEF Backups
  <2>2. {e \in data' : InFolder(e, c)} = {e \in data : InFolder(e, c)}
    BY <1>1, <1>2, <2>1
  <2>3. Records(c)' = {d.record : d \in {e \in data' : InFolder(e, c)}}
    BY DEF Records, InFolder
  <2> QED
    BY <2>2, <2>3 DEF Records
<1> QED
  BY <1>3, <1>4

(***************************************************************************)
(* A handler reads the update, if there was one since the backup's from.   *)
(***************************************************************************)
LEMMA WriteReads ==
    ASSUME RemoveFiles = "KeepAll", TypeOK, NEW b \in Backups, NEW R,
           R = {} => updated[b.ns] = Never, R \subseteq {updated[b.ns]}, WriteRecords(b, R)
    PROVE  updated[b.ns] \in Records(b)' \/ updated[b.ns] = Never
BY WriteOneFolder

(***************************************************************************)
(* A step that reads and writes nothing, and lets handlers go at most.     *)
(***************************************************************************)
LEMMA ReadsNothing ==
    ASSUME UNCHANGED <<data, metadata>>,
           \A n \in Namespaces :
              /\ updated[n] <= updated'[n]
              /\ fullBackupHandlers'[n] \in {"read", "waited"} =>
                   /\ fullBackupHandlers[n] \in {"read", "waited"}
                   /\ FullBackupOf(n)' = FullBackupOf(n)
              /\ incrBackupHandlers'[n] = "nonempty" =>
                   /\ incrBackupHandlers[n] = "nonempty"
                   /\ IncrBackupOf(n)' = IncrBackupOf(n)
    PROVE  \A n \in Namespaces : ReadStep(n)
<1> SUFFICES ASSUME NEW n \in Namespaces PROVE ReadStep(n)
  OBVIOUS
<1>1. \A b : Records(b)' = Records(b)
  BY DEF Records, InFolder
<1>2. ReadBackups(n)' \subseteq ReadBackups(n)
  BY DEF ReadBackups
<1> QED
  BY <1>1, <1>2 DEF ReadStep

(***************************************************************************)
(* A full backup whose handlers are there holds the retry mutex, and its   *)
(* flag.                                                                   *)
(***************************************************************************)
LEMMA FullBackupType ==
    ASSUME Inv, NEW n \in Namespaces, fullBackupHandlers[n] # "none"
    PROVE  /\ mu \in Calls /\ fullBackupInProgress /\ phase[mu] = "running"
           /\ FullBackupOf(n) \in Backups
           /\ FullBackupOf(n) = Backup("full", fullNow[mu], n)
<1>1. fullBackupInProgress /\ fullStep # "idle" /\ mu # NoCall
  BY DEF Inv, FullFlagExact, NoHandlers
<1>2. mu \in Calls
  BY <1>1 DEF Inv, TypeOK, Retry!TypeOK
<1>3. phase[mu] = "running"
  BY <1>2 DEF Inv, Retry!MutexHeld
<1> QED
  BY <1>1, <1>2, <1>3, BackupType DEF Inv, FullBackupOf

(***************************************************************************)
(* What attempts of full backups have read stays read while calls come,    *)
(* wait and end.                                                           *)
(***************************************************************************)
LEMMA FullJobReads ==
    ASSUME Inv, NEW c \in Calls, FullExecute(c) \/ FullLock(c) \/ FullTimer(c) \/ FullReturn(c)
    PROVE  \A n \in Namespaces : ReadStep(n)
<1>1. UNCHANGED <<data, metadata, updated, incrVars>>
  BY DEF FullExecute, FullLock, FullTimer, FullReturn, environment, storage
<1>2. \A n \in Namespaces : /\ updated[n] <= updated'[n]
                            /\ IncrBackupOf(n)' = IncrBackupOf(n)
                            /\ incrBackupHandlers'[n] = incrBackupHandlers[n]
  BY <1>1, StateTimes DEF Inv, IncrBackupOf, incrVars
<1>3. ASSUME NEW n \in Namespaces, fullBackupHandlers'[n] \in {"read", "waited"}
      PROVE  fullBackupHandlers'[n] = fullBackupHandlers[n] /\ FullBackupOf(n)' = FullBackupOf(n)
  <2>1. fullBackupHandlers' = fullBackupHandlers
    BY DEF FullExecute, FullLock, FullTimer, FullReturn, fullVars
  <2>2. mu \in Calls /\ fullBackupInProgress /\ phase[mu] = "running"
    BY <1>3, <2>1, FullBackupType
  <2>3. CASE FullExecute(c)
    <3>1. c # mu /\ mu' = mu
      BY <2>2, <2>3 DEF FullExecute, Retry!Call
    <3>2. fullNow'[mu] = fullNow[mu]
      BY <2>3, <2>2, <3>1 DEF FullExecute, Inv, TypeOK
    <3> QED
      BY <2>1, <3>1, <3>2 DEF FullBackupOf
  <2>4. CASE FullLock(c)
    BY <2>2, <2>4, HandlerAssumption DEF FullLock, Retry!Lock
  <2>5. CASE FullTimer(c)
    BY <2>1, <2>5 DEF FullTimer, Retry!Fire, FullBackupOf, fullVars
  <2>6. CASE FullReturn(c)
    BY <2>2, <2>6 DEF FullReturn, Inv, FullFlagExact
  <2> QED
    BY <2>3, <2>4, <2>5, <2>6
<1> QED
  BY <1>1, <1>2, <1>3, ReadsNothing

(***************************************************************************)
(* An attempt of a full backup that goes on reads what it lists.           *)
(***************************************************************************)
LEMMA FullAdvanceReads ==
    ASSUME Inv, KeepsUpdates, FullAdvance
    PROVE  \A n \in Namespaces : ReadStep(n)
<1>1. UNCHANGED <<updated, retryVars, fullNow, incrVars>> /\ mu' = mu /\ ~RemoveFullBackup
  BY DEF FullAdvance, FullGetClient, FullFail, FullUpdateState, FullClean, FullConfig,
         FullStartNamespace, FullRead, FullWait, environment, KeepsUpdates, RemoveFullBackup, retryVars
<1>2. \A n \in Namespaces : /\ updated[n] \in Times /\ updated[n] <= updated'[n]
                            /\ IncrBackupOf(n)' = IncrBackupOf(n)
                            /\ FullBackupOf(n)' = FullBackupOf(n)
                            /\ incrBackupHandlers'[n] = incrBackupHandlers[n]
  BY <1>1, StateTimes DEF Inv, TypeOK, IncrBackupOf, FullBackupOf, incrVars
<1>3. ASSUME UNCHANGED <<data, metadata>>,
             \A n \in Namespaces : fullBackupHandlers'[n] \in {"read", "waited"} =>
                fullBackupHandlers[n] \in {"read", "waited"}
      PROVE  \A n \in Namespaces : ReadStep(n)
  BY <1>2, <1>3, ReadsNothing
<1>4. CASE FullGetClient \/ FullUpdateState
  BY <1>3, <1>4 DEF FullGetClient, FullUpdateState, storage
<1>5. CASE FullConfig
  BY <1>3, <1>5 DEF FullConfig, storage, NoHandlers
<1>6. CASE FullFail
  <2>1. data' = data /\ metadata' = metadata
    BY <1>1, <1>6 DEF FullFail
  <2> QED
    BY <1>3, <1>6, <2>1 DEF FullFail, NoHandlers
<1>7. CASE FullClean
  <2>1. ~RemoveIncrementalBackup
    BY DEF KeepsUpdates, RemoveIncrementalBackup
  <2>2. data' = data /\ metadata' = metadata
    BY <1>7, <2>1 DEF FullClean
  <2> QED
    BY <1>3, <1>7, <2>2 DEF FullClean
<1>8. ASSUME NEW m \in Namespaces, FullStartNamespace(m) PROVE \A n \in Namespaces : ReadStep(n)
  <2>1. UNCHANGED <<data, metadata>>
    BY <1>1, <1>8 DEF FullStartNamespace
  <2>2. \A n \in Namespaces : fullBackupHandlers'[n] \in {"read", "waited"} =>
           fullBackupHandlers[n] \in {"read", "waited"}
    BY <1>8 DEF FullStartNamespace, Inv, TypeOK
  <2> QED
    BY <1>3, <2>1, <2>2
<1>9. ASSUME NEW m \in Namespaces, FullRead(m), NEW n \in Namespaces PROVE ReadStep(n)
  <2>b. FullBackupOf(m) \in Backups /\ FullBackupOf(m).ns = m /\ FullBackupOf(m).kind = "full"
    BY <1>9, FullBackupType DEF FullRead, Backup
  <2>p. PICK b \in Backups : b = FullBackupOf(m)
    BY <2>b
  <2>q. PICK R : R = ReadRecords(m, Never, fullNow[mu])
    OBVIOUS
  <2>1. b.ns = m /\ b.kind = "full" /\ b \in Backups
    BY <2>b, <2>p
  <2>2. WriteRecords(b, R) /\ metadata' = metadata
    BY <1>9, <2>p, <2>q DEF FullRead
  <2>3. R \subseteq {updated[m]} /\ (R = {} => updated[m] = Never)
    <3>1. updated[m] \in Nat /\ Never = 0
      BY StateTimes DEF Never, Inv
    <3> QED
      BY <3>1, <2>q DEF ReadRecords, KeepsUpdates
  <2>4. updated[b.ns] \in Records(b)' \/ updated[b.ns] = Never
    BY <2>1, <2>2, <2>3, WriteReads DEF KeepsUpdates, Inv
  <2>5. \A c \in Backups : c # b => Records(c)' = Records(c)
    BY <2>1, <2>2, WriteOneFolder DEF KeepsUpdates, Inv
  <2>6. ASSUME NEW c \in ReadBackups(n)', ~(c = b /\ n = m) PROVE c \in ReadBackups(n) /\ c # b /\ c \in Backups
    <3>1. CASE c \in metadata /\ c.ns = n
      BY <2>1, <2>6, <3>1 DEF ReadBackups, Inv, TypeOK
    <3>2. CASE fullBackupHandlers'[n] \in {"read", "waited"} /\ c = FullBackupOf(n)
      <4>1. n # m
        BY <2>6, <2>p, <3>2
      <4>2. fullBackupHandlers[n] \in {"read", "waited"}
        BY <1>9, <3>2, <4>1 DEF FullRead, Inv, TypeOK
      <4>3. c \in Backups /\ c.ns = n
        BY <3>2, <4>2, FullBackupType DEF Backup
      <4> QED
        BY <1>2, <2>1, <3>2, <4>1, <4>2, <4>3 DEF ReadBackups
    <3>3. CASE incrBackupHandlers'[n] = "nonempty" /\ c = IncrBackupOf(n)
      <4>1. c \in Backups /\ c.kind = "incremental"
        BY <1>2, <3>3, BackupType DEF Inv, IncrBackupOf, Backup
      <4> QED
        BY <1>2, <2>1, <3>3, <4>1 DEF ReadBackups
    <3> QED
      BY <2>2, <2>6, <3>1, <3>2, <3>3, <1>2 DEF ReadBackups
  <2> QED
    BY <1>2, <2>1, <2>4, <2>5, <2>6 DEF ReadStep
<1>10. ASSUME NEW m \in Namespaces, FullWait(m), NEW n \in Namespaces PROVE ReadStep(n)
  <2> DEFINE b == FullBackupOf(m)
  <2>1. b \in Backups /\ b.ns = m
    BY <1>10, FullBackupType DEF FullWait, Backup
  <2>2. data' = data /\ metadata' \subseteq metadata \cup {b} /\ fullBackupHandlers[m] = "read"
    BY <1>10 DEF FullWait, Outside
  <2>3. \A k \in Namespaces : fullBackupHandlers'[k] \in {"read", "waited"} =>
           fullBackupHandlers[k] \in {"read", "waited"}
    BY <1>10 DEF FullWait, Inv, TypeOK
  <2>4. ReadBackups(n)' \subseteq ReadBackups(n)
    BY <1>2, <2>1, <2>2, <2>3, ZenonT(30) DEF ReadBackups
  <2>5. \A c : Records(c)' = Records(c)
    BY <2>2 DEF Records, InFolder
  <2> QED
    BY <1>2, <2>4, <2>5 DEF ReadStep
<1> QED
  BY <1>4, <1>5, <1>6, <1>7, <1>8, <1>9, <1>10 DEF FullAdvance

(***************************************************************************)
(* So have the incremental ones.                                           *)
(***************************************************************************)
LEMMA IncrReads ==
    ASSUME HandlerInv, KeepsUpdates, IncrExecute \/ IncrAdvance
    PROVE  \A n \in Namespaces : ReadStep(n)
<1>1. UNCHANGED <<updated, retryVars, fullVars>> /\ mu' = mu /\ ~RemoveFullBackup
  BY DEF IncrExecute, IncrAdvance, IncrCheck, IncrGetClient, IncrBounds, IncrPanic, IncrFinish,
         IncrStartNamespace, IncrRead, IncrWait, environment, KeepsUpdates, RemoveFullBackup, retryVars
<1>2. /\ \A n \in Namespaces : /\ updated[n] \in Times /\ updated[n] <= updated'[n]
                               /\ FullBackupOf(n)' = FullBackupOf(n)
                               /\ IncrBackupOf(n) \in Backups
      /\ fullBackupHandlers' = fullBackupHandlers
      /\ incrBackupHandlers \in [Namespaces -> IncrHandler] /\ metadata \in SUBSET Backups
  BY <1>1, StateTimes, BackupType DEF HandlerInv, Inv, TypeOK, FullBackupOf, fullVars
<1>3. ASSUME UNCHANGED <<data, metadata>>,
             \A n \in Namespaces : incrBackupHandlers'[n] = "nonempty" =>
                incrBackupHandlers[n] = "nonempty" /\ incrNow' = incrNow
      PROVE  \A n \in Namespaces : ReadStep(n)
  <2>1. \A n \in Namespaces : incrBackupHandlers'[n] = "nonempty" => IncrBackupOf(n)' = IncrBackupOf(n)
    BY <1>3 DEF IncrBackupOf
  <2> QED
    BY <1>2, <1>3, <2>1, ReadsNothing
<1>4. CASE IncrExecute
  <2>1. incrBackupHandlers' = NoHandlers
    BY <1>4 DEF IncrExecute, HandlerInv, IncrUnlisted
  <2> QED
    BY <1>3, <1>4, <2>1 DEF IncrExecute, storage, NoHandlers
<1>5. CASE IncrCheck \/ IncrGetClient
  BY <1>3, <1>5 DEF IncrCheck, IncrGetClient, storage
<1>6. CASE IncrBounds \/ IncrPanic \/ IncrFinish
  BY <1>3, <1>6 DEF IncrBounds, IncrPanic, IncrFinish, storage, NoHandlers
<1>7. ASSUME NEW m \in Namespaces, IncrStartNamespace(m) PROVE \A n \in Namespaces : ReadStep(n)
  <2>1. \A n \in Namespaces : incrBackupHandlers'[n] = "nonempty" => incrBackupHandlers[n] = "nonempty"
    BY <1>2, <1>7 DEF IncrStartNamespace
  <2> QED
    BY <1>3, <1>7, <2>1 DEF IncrStartNamespace, storage
<1>8. ASSUME NEW m \in Namespaces, IncrRead(m), NEW n \in Namespaces PROVE ReadStep(n)
  <2>b. IncrBackupOf(m) \in Backups /\ IncrBackupOf(m).ns = m /\ IncrBackupOf(m).kind = "incremental"
    BY <1>2 DEF IncrBackupOf, Backup
  <2>p. PICK b \in Backups : b = IncrBackupOf(m)
    BY <2>b
  <2>q. PICK R : R = ReadRecords(m, incrFrom, incrNow)
    OBVIOUS
  <2>1. /\ b.ns = m /\ b.kind = "incremental" /\ b \in Backups
        /\ \A k \in Namespaces : IncrBackupOf(k)' = IncrBackupOf(k)
        /\ metadata' = metadata
    BY <1>8, <2>b, <2>p DEF IncrRead, IncrBackupOf
  <2>2. CASE incrBackupHandlers' = [incrBackupHandlers EXCEPT ![m] = "failed"] /\ UNCHANGED data
    <3>1. \A k \in Namespaces : incrBackupHandlers'[k] = "nonempty" => incrBackupHandlers[k] = "nonempty"
      BY <1>2, <2>2
    <3> QED
      BY <1>2, <2>1, <2>2, <3>1, ReadsNothing
  <2>3. CASE /\ WriteRecords(b, R)
             /\ incrBackupHandlers' = [incrBackupHandlers EXCEPT ![m] = IF R = {} THEN "empty" ELSE "nonempty"]
    <3>1. Records(b)' = R /\ \A c \in Backups : c # b => Records(c)' = Records(c)
      BY <2>3, WriteOneFolder DEF KeepsUpdates, HandlerInv, Inv
    <3>2. incrBackupHandlers'[m] = "nonempty" => updated[m] \in Records(b)'
      BY <1>2, <2>3, <2>q, <3>1 DEF ReadRecords
    <3>u. b \notin metadata
      BY <1>8, <2>p DEF IncrRead, HandlerInv, IncrUnlisted, NoHandlers
    <3>3. ASSUME NEW c \in ReadBackups(n)', ~(c = b /\ n = m /\ incrBackupHandlers'[m] = "nonempty")
          PROVE  c \in ReadBackups(n) /\ c # b /\ c \in Backups
      <4>1. CASE c \in metadata /\ c.ns = n
        BY <1>2, <3>u, <4>1 DEF ReadBackups
      <4>2. CASE fullBackupHandlers[n] \in {"read", "waited"} /\ c = FullBackupOf(n)
        <5>1. c \in Backups /\ c.kind = "full"
          BY <4>2, FullBackupType DEF HandlerInv, Backup
        <5> QED
          BY <2>1, <4>2, <5>1 DEF ReadBackups
      <4>3. CASE incrBackupHandlers'[n] = "nonempty" /\ c = IncrBackupOf(n)
        <5>1. n # m
          BY <2>p, <3>3, <4>3
        <5>2. incrBackupHandlers[n] = "nonempty"
          BY <1>2, <2>3, <4>3, <5>1
        <5>3. c.ns = n /\ c \in Backups
          BY <1>2, <4>3 DEF IncrBackupOf, Backup
        <5> QED
          BY <2>1, <4>3, <5>1, <5>2, <5>3 DEF ReadBackups
      <4> QED
        BY <1>2, <2>1, <3>3, <4>1, <4>2, <4>3 DEF ReadBackups
    <3> QED
      BY <1>2, <3>1, <3>2, <3>3 DEF ReadStep
  <2> QED
    BY <1>8, <2>2, <2>3, <2>p, <2>q DEF IncrRead
<1>9. ASSUME NEW m \in Namespaces, IncrWait(m), NEW n \in Namespaces PROVE ReadStep(n)
  <2>b. IncrBackupOf(m) \in Backups /\ IncrBackupOf(m).ns = m /\ IncrBackupOf(m).kind = "incremental"
    BY <1>2 DEF IncrBackupOf, Backup
  <2>1. /\ \A k \in Namespaces : IncrBackupOf(k)' = IncrBackupOf(k)
        /\ incrBackupHandlers' = [incrBackupHandlers EXCEPT ![m] = "waited"]
    BY <1>9 DEF IncrWait, IncrBackupOf
  <2>2. \A k \in Namespaces : incrBackupHandlers'[k] = "nonempty" =>
           incrBackupHandlers[k] = "nonempty" /\ k # m
    BY <1>2, <2>1
  <2>3. CASE incrBackupHandlers[m] = "nonempty" /\ metadata' \subseteq metadata \cup {IncrBackupOf(m)}
             /\ UNCHANGED data
    <3>1. ReadBackups(n)' \subseteq ReadBackups(n)
      BY <1>2, <2>b, <2>1, <2>2, <2>3 DEF ReadBackups
    <3>2. \A c : Records(c)' = Records(c)
      BY <2>3 DEF Records, InFolder
    <3> QED
      BY <1>2, <3>1, <3>2 DEF ReadStep
  <2>4. CASE /\ incrBackupHandlers[m] # "nonempty"
             /\ data' = Outside(data, IncrBackupOf(m))
             /\ metadata' = Outside(metadata, IncrBackupOf(m))
    <3>1. ASSUME NEW c \in ReadBackups(n)' PROVE c \in ReadBackups(n) /\ c # IncrBackupOf(m) /\ c \in Backups
      <4>1. CASE c \in metadata' /\ c.ns = n
        <5>1. c \in metadata /\ ~InFolder(c, IncrBackupOf(m))
          BY <2>4, <4>1 DEF Outside
        <5> QED
          BY <1>2, <4>1, <5>1 DEF ReadBackups, InFolder
      <4>2. CASE fullBackupHandlers[n] \in {"read", "waited"} /\ c = FullBackupOf(n)
        <5>1. c \in Backups /\ c.kind = "full"
          BY <4>2, FullBackupType DEF HandlerInv, Backup
        <5> QED
          BY <2>b, <4>2, <5>1 DEF ReadBackups
      <4>3. CASE incrBackupHandlers'[n] = "nonempty" /\ c = IncrBackupOf(n)
        <5>1. n # m /\ incrBackupHandlers[n] = "nonempty"
          BY <2>2, <4>3
        <5>2. c.ns = n /\ c \in Backups
          BY <1>2, <4>3 DEF IncrBackupOf, Backup
        <5> QED
          BY <2>b, <4>3, <5>1, <5>2 DEF ReadBackups
      <4> QED
        BY <1>2, <2>1, <3>1, <4>1, <4>2, <4>3 DEF ReadBackups
    <3>2. ASSUME NEW c \in Backups, c # IncrBackupOf(m) PROVE Records(c)' = Records(c)
      <4>1. \A d : ~(InFolder(d, c) /\ InFolder(d, IncrBackupOf(m)))
        BY <1>1, <1>2, <3>2 DEF InFolder, Backups
      <4>2. {e \in data' : InFolder(e, c)} = {e \in data : InFolder(e, c)}
        BY <2>4, <4>1 DEF Outside
      <4>3. Records(c)' = {d.record : d \in {e \in data' : InFolder(e, c)}}
        BY DEF Records, InFolder
      <4> QED
        BY <4>2, <4>3 DEF Records
    <3> QED
      BY <1>2, <3>1, <3>2 DEF ReadStep
  <2> QED
    BY <1>9, <2>3, <2>4 DEF IncrWait, storage
<1> QED
  BY <1>4, <1>5, <1>6, <1>7, <1>8, <1>9 DEF IncrAdvance

(***************************************************************************)
(* No step of the backups loses what was read.                             *)
(***************************************************************************)
LEMMA BackupReads ==
    ASSUME HandlerInv, KeepsUpdates,
           BackupNext \/ UNCHANGED vars \/ (Restart /\ UNCHANGED crashes)
    PROVE  \A n \in Namespaces : ReadStep(n)
<1>t. TypeOK /\ Inv /\ Clocked
  BY DEF HandlerInv, Inv
<1>1. ASSUME NEW m \in Namespaces, Update(m) PROVE \A n \in Namespaces : ReadStep(n)
  <2>1. UNCHANGED <<data, metadata, retryVars, fullVars, incrVars>>
    BY <1>1 DEF Update, storage
  <2>2. \A n \in Namespaces : updated[n] <= updated'[n]
    BY <1>1, <1>t, StateTimes DEF Update, ReadClock, TypeOK, Clocked
  <2>3. \A n \in Namespaces : /\ fullBackupHandlers'[n] = fullBackupHandlers[n]
                              /\ incrBackupHandlers'[n] = incrBackupHandlers[n]
                              /\ FullBackupOf(n)' = FullBackupOf(n)
                              /\ IncrBackupOf(n)' = IncrBackupOf(n)
    BY <2>1 DEF retryVars, fullVars, incrVars, FullBackupOf, IncrBackupOf
  <2> QED
    BY <2>1, <2>2, <2>3, ReadsNothing
<1>2. CASE Restart
  BY <1>2, <1>t, StateTimes, ReadsNothing DEF Restart, NoHandlers, storage
<1>3. CASE UNCHANGED vars
  <2>1. UNCHANGED <<data, metadata, updated, retryVars, fullVars, incrVars>>
    BY <1>3 DEF vars, storage, environment
  <2>2. \A n \in Namespaces : /\ fullBackupHandlers'[n] = fullBackupHandlers[n]
                              /\ incrBackupHandlers'[n] = incrBackupHandlers[n]
                              /\ FullBackupOf(n)' = FullBackupOf(n)
                              /\ IncrBackupOf(n)' = IncrBackupOf(n)
                              /\ updated[n] <= updated'[n]
    BY <1>t, <2>1, StateTimes DEF retryVars, fullVars, incrVars, FullBackupOf, IncrBackupOf
  <2> QED
    BY <2>1, <2>2, ReadsNothing
<1> QED
  BY <1>1, <1>2, <1>3, <1>t, FullJobReads, FullAdvanceReads, IncrReads DEF BackupNext

(***************************************************************************)
(* A backup that has read its namespace started in the past.               *)
(***************************************************************************)
LEMMA ReadIsPast ==
    ASSUME HandlerInv, NEW n \in Namespaces, NEW b \in ReadBackups(n)
    PROVE  b \in Backups /\ b.created <= clock /\ b.created \in Nat
<1>t. TypeOK /\ Inv /\ Clocked
  BY DEF HandlerInv, Inv
<1>1. CASE b \in metadata
  BY <1>1, <1>t, StateTimes DEF Clocked
<1>2. CASE fullBackupHandlers[n] \in {"read", "waited"} /\ b = FullBackupOf(n)
  <2>1. b \in Backups /\ mu \in Calls /\ b.created = fullNow[mu]
    BY <1>2, <1>t, FullBackupType DEF Backup
  <2> QED
    BY <1>t, <2>1, StateTimes DEF Clocked
<1>3. CASE b = IncrBackupOf(n)
  <2>1. b \in Backups /\ b.created = incrNow
    BY <1>3, <1>t, BackupType DEF IncrBackupOf, Backup
  <2> QED
    BY <1>t, <2>1, StateTimes DEF Clocked
<1> QED
  BY <1>1, <1>2, <1>3 DEF ReadBackups

(***************************************************************************)
(* What a step of the backups may do to the cluster and the files: a       *)
(* record is updated now, or the one that there is is written.             *)
(***************************************************************************)
StorageStep ==
    /\ \A n \in Namespaces :
          \/ updated'[n] = updated[n]
          \/ updated'[n] = clock + 1 /\ ReadBackups(n)' = ReadBackups(n)
    /\ \A d \in data' : d \in data \/ (d.ns \in Namespaces /\ d.record = updated[d.ns])

(***************************************************************************)
(* A handler writes the record that there is.                              *)
(***************************************************************************)
LEMMA WriteStep ==
    ASSUME NEW b, b.ns \in Namespaces, NEW from, NEW to,
           WriteRecords(b, ReadRecords(b.ns, from, to)), UNCHANGED updated
    PROVE  StorageStep
<1>1. \A t \in ReadRecords(b.ns, from, to) : t = updated[b.ns]
  BY DEF ReadRecords
<1>2. ASSUME NEW d \in data', d \notin data PROVE d.ns \in Namespaces /\ d.record = updated[d.ns]
  <2>1. PICK t \in ReadRecords(b.ns, from, to) :
           d = [kind |-> b.kind, created |-> b.created, ns |-> b.ns, record |-> t]
    BY <1>2 DEF WriteRecords
  <2> QED
    BY <1>1, <2>1
<1> QED
  BY <1>2 DEF StorageStep

(***************************************************************************)
(* Every step of the backups is such a step.                               *)
(***************************************************************************)
LEMMA BackupStorage ==
    ASSUME HandlerInv,
           BackupNext \/ UNCHANGED vars \/ (Restart /\ UNCHANGED crashes)
    PROVE  StorageStep
<1>t. TypeOK
  BY DEF HandlerInv, Inv
<1>1. ASSUME NEW m \in Namespaces, Update(m) PROVE StorageStep
  <2>1. UNCHANGED <<data, metadata, retryVars, fullVars, incrVars>>
    BY <1>1 DEF Update, storage
  <2>2. \A n \in Namespaces : ReadBackups(n)' = ReadBackups(n)
    BY <2>1 DEF retryVars, fullVars, incrVars, ReadBackups, FullBackupOf, IncrBackupOf
  <2> QED
    BY <1>1, <1>t, <2>1, <2>2 DEF Update, ReadClock, TypeOK, StorageStep
<1>2. CASE Restart \/ UNCHANGED vars
  BY <1>2 DEF Restart, vars, storage, environment, StorageStep
<1>3. ASSUME NEW c \in Calls, FullExecute(c) \/ FullLock(c) \/ FullTimer(c) \/ FullReturn(c)
      PROVE  StorageStep
  BY <1>3 DEF FullExecute, FullLock, FullTimer, FullReturn, environment, storage, StorageStep
<1>4. CASE FullAdvance
  <2>1. CASE FullGetClient \/ FullFail \/ FullUpdateState \/ FullClean \/ FullConfig
    <3>1. data' \subseteq data /\ UNCHANGED updated
      BY <2>1 DEF FullGetClient, FullFail, FullUpdateState, FullClean, FullConfig, storage, environment
    <3> QED
      BY <3>1 DEF StorageStep
  <2>2. ASSUME NEW n \in Namespaces, FullStartNamespace(n) \/ FullWait(n) PROVE StorageStep
    <3>1. data' \subseteq data /\ UNCHANGED updated
      BY <2>2 DEF FullStartNamespace, FullWait, Outside, environment
    <3> QED
      BY <3>1 DEF StorageStep
  <2>3. ASSUME NEW n \in Namespaces, FullRead(n) PROVE StorageStep
    <3>1. FullBackupOf(n).ns = n
      BY DEF FullBackupOf, Backup
    <3>2. WriteRecords(FullBackupOf(n), ReadRecords(n, Never, fullNow[mu])) /\ UNCHANGED updated
      BY <2>3 DEF FullRead, environment
    <3> QED
      BY <3>1, <3>2, WriteStep
  <2> QED
    BY <1>4, <2>1, <2>2, <2>3 DEF FullAdvance
<1>5. CASE IncrExecute \/ IncrAdvance
  <2>1. CASE IncrExecute \/ IncrCheck \/ IncrGetClient \/ IncrBounds \/ IncrPanic \/ IncrFinish
    <3>1. data' = data /\ UNCHANGED updated
      BY <2>1 DEF IncrExecute, IncrCheck, IncrGetClient, IncrBounds, IncrPanic, IncrFinish, storage,
                  environment
    <3> QED
      BY <3>1 DEF StorageStep
  <2>2. ASSUME NEW n \in Namespaces, IncrStartNamespace(n) \/ IncrWait(n) PROVE StorageStep
    <3>1. data' \subseteq data /\ UNCHANGED updated
      BY <2>2 DEF IncrStartNamespace, IncrWait, Outside, storage, environment
    <3> QED
      BY <3>1 DEF StorageStep
  <2>3. ASSUME NEW n \in Namespaces, IncrRead(n) PROVE StorageStep
    <3>1. IncrBackupOf(n).ns = n
      BY DEF IncrBackupOf, Backup
    <3>2. UNCHANGED updated
      BY <2>3 DEF IncrRead, environment
    <3>3. CASE WriteRecords(IncrBackupOf(n), ReadRecords(n, incrFrom, incrNow))
      BY <3>1, <3>2, <3>3, WriteStep
    <3>4. CASE UNCHANGED data
      BY <3>2, <3>4 DEF StorageStep
    <3> QED
      BY <2>3, <3>3, <3>4 DEF IncrRead
  <2> QED
    BY <1>5, <2>1, <2>2, <2>3 DEF IncrAdvance
<1> QED
  BY <1>1, <1>2, <1>3, <1>4, <1>5 DEF BackupNext

(***************************************************************************)
(* Every newer backup has every update, whatever step the backups make.    *)
(***************************************************************************)
LEMMA UpdatesStaySeen ==
    ASSUME HandlerInv, KeepsUpdates, UpdatesSeen,
           BackupNext \/ UNCHANGED vars \/ (Restart /\ UNCHANGED crashes)
    PROVE  UpdatesSeen'
<1>t. TypeOK /\ Clocked
  BY DEF HandlerInv, Inv
<1>p. HandlerInv' /\ TypeOK'
  <2>1. HandlerInv'
    BY BackupHandlerInv
  <2> QED
    BY <2>1 DEF HandlerInv, Inv
<1>s. StorageStep /\ \A n \in Namespaces : ReadStep(n)
  BY BackupStorage, BackupReads
<1>k. ASSUME NEW n \in Namespaces, NEW t \in Times, Seen(n, t) PROVE Seen(n, t)'
  BY <1>k, <1>t, <1>p, <1>s, SeenStays
<1>u. ASSUME NEW n \in Namespaces, NEW t \in {updated[n]} PROVE t \in Times /\ Seen(n, t)'
  <2>1. t \in Times /\ Seen(n, t)
    BY <1>t, <1>u DEF TypeOK, UpdatesSeen
  <2> QED
    BY <1>k, <2>1
<1>1. ASSUME NEW n \in Namespaces PROVE Seen(n, updated[n])'
  <2>1. CASE updated'[n] = updated[n]
    <3>1. PICK t : t = updated[n]
      OBVIOUS
    <3> QED
      BY <1>u, <2>1, <3>1 DEF Seen
  <2>2. CASE updated'[n] = clock + 1 /\ ReadBackups(n)' = ReadBackups(n)
    <3>1. \A b \in ReadBackups(n)' : ~(clock + 1 < b.created)
      BY <2>2, <1>t, ReadIsPast, StateTimes
    <3>2. updated'[n] <= updated'[n]
      BY <2>2, <1>t, StateTimes
    <3> QED
      BY <2>2, <3>1, <3>2 DEF Seen
  <2> QED
    BY <1>s, <2>1, <2>2 DEF StorageStep
<1>2. ASSUME NEW d \in data' PROVE Seen(d.ns, d.record)'
  <2>1. CASE d \in data
    <3>1. d.ns \in Namespaces /\ d.record \in Times /\ Seen(d.ns, d.record)
      BY <2>1, <1>t DEF UpdatesSeen, TypeOK, Contents
    <3> QED
      BY <1>k, <3>1
  <2>2. CASE d.ns \in Namespaces /\ d.record = updated[d.ns]
    BY <1>u, <2>2
  <2> QED
    BY <1>s, <2>1, <2>2 DEF StorageStep
<1> QED
  BY <1>1, <1>2 DEF UpdatesSeen

-----------------------------------------------------------------------------
(* What jobs owe *)

(***************************************************************************)
(* While the backups go on, no backup that a job holds is taken from the   *)
(* storage, and its records only become newer.                             *)
(***************************************************************************)
LEMMA BackupsStayListed ==
    ASSUME HandlerInv, RemoveFiles = "KeepAll",
           BackupNext \/ UNCHANGED vars \/ (Restart /\ UNCHANGED crashes)
    PROVE  metadata \subseteq metadata'
<1>r. ~RemoveFullBackup /\ ~RemoveIncrementalBackup
  BY DEF RemoveFullBackup, RemoveIncrementalBackup
<1>1. CASE \/ UNCHANGED vars \/ Restart
           \/ \E n \in Namespaces : Update(n)
           \/ \E c \in Calls : FullExecute(c) \/ FullLock(c) \/ FullTimer(c) \/ FullReturn(c)
           \/ IncrExecute
  BY <1>1 DEF vars, Restart, Update, FullExecute, FullLock, FullTimer, FullReturn, IncrExecute, storage
<1>2. CASE FullAdvance
  <2>1. CASE FullGetClient \/ FullFail \/ FullUpdateState \/ FullClean \/ FullConfig
    BY <2>1, <1>r DEF FullGetClient, FullFail, FullUpdateState, FullClean, FullConfig, storage
  <2>2. ASSUME NEW n \in Namespaces, FullStartNamespace(n) \/ FullRead(n) PROVE metadata \subseteq metadata'
    BY <2>2, <1>r DEF FullStartNamespace, FullRead
  <2>3. ASSUME NEW n \in Namespaces, FullWait(n) PROVE metadata \subseteq metadata'
    <3>1. FullBackupOf(n) \in Backups /\ metadata \in SUBSET Backups
      BY <2>3, FullBackupType DEF FullWait, HandlerInv, Inv, TypeOK
    <3>2. ASSUME NEW b \in metadata, InFolder(b, FullBackupOf(n)) PROVE b = FullBackupOf(n)
      BY <1>r, <3>1, <3>2 DEF InFolder, Backups
    <3> QED
      BY <2>3, <3>2 DEF FullWait, Outside
  <2> QED
    BY <1>2, <2>1, <2>2, <2>3 DEF FullAdvance
<1>3. CASE IncrAdvance
  <2>1. CASE IncrCheck \/ IncrGetClient \/ IncrBounds \/ IncrPanic \/ IncrFinish
    BY <2>1 DEF IncrCheck, IncrGetClient, IncrBounds, IncrPanic, IncrFinish, storage
  <2>2. ASSUME NEW n \in Namespaces, IncrStartNamespace(n) \/ IncrRead(n) PROVE metadata \subseteq metadata'
    BY <2>2 DEF IncrStartNamespace, IncrRead, storage
  <2>3. ASSUME NEW n \in Namespaces, IncrWait(n) PROVE metadata \subseteq metadata'
    <3>1. IncrBackupOf(n) \in Backups /\ metadata \in SUBSET Backups /\ IncrBackupOf(n).kind = "incremental"
      BY BackupType DEF HandlerInv, Inv, TypeOK, IncrBackupOf, Backup
    <3>2. IncrBackupOf(n) \notin metadata
      BY <2>3 DEF IncrWait, HandlerInv, IncrUnlisted
    <3>3. ASSUME NEW b \in metadata PROVE ~InFolder(b, IncrBackupOf(n))
      BY <1>r, <3>1, <3>2 DEF InFolder, Backups
    <3> QED
      BY <2>3, <3>3 DEF IncrWait, Outside, storage
  <2> QED
    BY <1>3, <2>1, <2>2, <2>3 DEF IncrAdvance
<1> QED
  BY <1>1, <1>2, <1>3 DEF BackupNext

(***************************************************************************)
(* A listed backup that has an update keeps it, or gets a later one.       *)
(***************************************************************************)
LEMMA BackupsStayRead ==
    ASSUME HandlerInv, KeepsUpdates, UpdatesSeen, metadata \subseteq metadata',
           \A n \in Namespaces : ReadStep(n),
           NEW b \in metadata, NEW t \in Times \ {Never}, Has(b, t)
    PROVE  Has(b, t)'
<1>t. TypeOK /\ b \in Backups
  BY DEF HandlerInv, Inv, TypeOK
<1>1. PICK u \in Records(b) : t <= u
  BY DEF Has
<1>2. PICK d \in data : InFolder(d, b) /\ d.record = u
  BY <1>1 DEF Records
<1>3. t \in Nat /\ t # 0 /\ Never = 0 /\ u \in Nat /\ updated[b.ns] \in Nat /\ d.ns = b.ns /\ b.ns \in Namespaces
  BY <1>2, <1>t, TimesAreNumbers, StateTimes DEF TypeOK, Contents, Backups, InFolder, Never
<1>4. u <= updated[b.ns]
  BY <1>2, <1>3 DEF UpdatesSeen, Seen
<1>5. b \in ReadBackups(b.ns)'
  BY DEF ReadBackups
<1>6. CASE Records(b) \subseteq Records(b)'
  BY <1>1, <1>6 DEF Has
<1>7. CASE updated[b.ns] \in Records(b)'
  <2>1. t <= updated[b.ns]
    BY <1>1, <1>3, <1>4
  <2> QED
    BY <1>7, <2>1 DEF Has
<1>8. CASE updated[b.ns] = Never
  BY <1>1, <1>3, <1>4, <1>8
<1> QED
  BY <1>3, <1>5, <1>6, <1>7, <1>8 DEF ReadStep

(***************************************************************************)
(* So every job keeps its promises while they go on.                       *)
(***************************************************************************)
LEMMA BackupsKeepPromises ==
    ASSUME TypeInv, KeepsUpdates, UpdatesSeen,
           BackupNext \/ UNCHANGED vars \/ (Restart /\ UNCHANGED crashes),
           NEW r \in JobType, Kept(r)
    PROVE  Kept(r)'
<1>1. HandlerInv /\ TypeOK
  BY DEF TypeInv, HandlerInv, Inv
<1>2. TypeOK' /\ metadata \subseteq metadata' /\ \A n \in Namespaces : ReadStep(n)
  BY <1>1, BackupHandlerInv, BackupsStayListed, BackupReads DEF HandlerInv, Inv, KeepsUpdates
<1> SUFFICES ASSUME NEW n \in Namespaces
             PROVE  Seen(n, r.promised[n])' /\ (r.errors = {} => Owed(r, n)')
  BY DEF Kept
<1>3. r.promised[n] \in Times /\ Seen(n, r.promised[n])
  BY DEF JobType, Kept
<1>4. Seen(n, r.promised[n])'
  BY <1>1, <1>2, <1>3, SeenStays
<1>5. ASSUME r.errors = {} PROVE Owed(r, n)'
  <2> DEFINE g == r.ns[n]
             t == r.promised[n]
  <2>1. Owed(r, n)
    BY <1>5 DEF Kept
  <2>2. ASSUME NEW b \in metadata, Has(b, t), t # Never PROVE Has(b, t)'
    BY <1>1, <1>2, <1>3, <2>2, BackupsStayRead
  <2>3. \A from : FindIncrementalBackups(from, r.to, n) \subseteq FindIncrementalBackups(from, r.to, n)'
    BY <1>2 DEF FindIncrementalBackups, BackupList
  <2>4. CASE g.step = "list"
    BY <1>2, <2>1, <2>3, <2>4 DEF Owed, Newer
  <2>5. CASE g.step \in {"run", "wait"}
    BY <1>2, <2>1, <2>2, <2>5 DEF Owed, Newer
  <2> QED
    BY <2>1, <2>4, <2>5 DEF Owed
<1> QED
  BY <1>4, <1>5

(***************************************************************************)
(* Nothing is owed to a namespace that nothing was promised to.            *)
(***************************************************************************)
LEMMA NothingOwed ==
    ASSUME TypeInv,
           NEW status \in {"none", "Done", "Failed"}
    PROVE  Kept([NoJob EXCEPT !.status = status])
<1>1. ASSUME NEW n \in Namespaces PROVE Never <= updated[n] /\ Never <= Never
  BY StateTimes DEF TypeInv, HandlerInv, Inv, Never
<1> DEFINE r == [NoJob EXCEPT !.status = status]
<1>2. \A n \in Namespaces : r.promised[n] = Never /\ r.ns[n].step = "none"
  BY DEF NoJob, NoGoroutines, Goroutine
<1> HIDE DEF r
<1>3. ASSUME NEW n \in Namespaces PROVE Seen(n, r.promised[n]) /\ Owed(r, n)
  BY <1>1, <1>2 DEF Seen, Owed
<1> QED
  BY <1>3 DEF Kept, r

(***************************************************************************)
(* A job is replaced by one that keeps its promises.                       *)
(***************************************************************************)
LEMMA SetKeeps ==
    ASSUME TypeInv, KeepsUpdates, UpdatesSeen, PromisesKept, UNCHANGED vars,
           NEW j \in Jobs, NEW r \in JobType, Set(j, r), Kept(r)
    PROVE  PromisesKept'
<1>1. job \in [Jobs -> JobType]
  BY JobsAreTyped DEF TypeInv
<1>2. ASSUME NEW q \in JobType, Kept(q) PROVE Kept(q)'
  BY <1>2, BackupsKeepPromises
<1>3. ASSUME NEW i \in Jobs PROVE Kept(job[i])'
  <2>1. PICK q \in JobType : q = job'[i]
    <3>1. job'[i] = r \/ job'[i] = job[i]
      BY <1>1 DEF Set
    <3> QED
      BY <1>1, <3>1
  <2>2. q = r \/ q = job[i]
    BY <1>1, <2>1 DEF Set
  <2>3. Kept(q)
    BY <2>2 DEF PromisesKept
  <2>4. Kept(q)'
    BY <1>2, <2>3
  <2> QED
    BY <2>1, <2>4 DEF Kept, Owed, Seen, Has
<1> QED
  BY <1>3 DEF PromisesKept

(***************************************************************************)
(* What was promised of a backup is a record in it, or nothing.            *)
(***************************************************************************)
LEMMA RecordsAreSeen ==
    ASSUME TypeInv, UpdatesSeen, NEW b \in metadata, NEW t \in {Never} \cup Records(b)
    PROVE  /\ b.ns \in Namespaces /\ t \in Times
           /\ Seen(b.ns, t)
           /\ t # Never => Has(b, t)
<1>t. TypeOK /\ b \in Backups /\ b.ns \in Namespaces
  BY DEF TypeInv, HandlerInv, Inv, TypeOK, Backups
<1>1. CASE t = Never
  BY <1>1, <1>t, StateTimes, TimesAreNumbers DEF Seen, Never
<1>2. CASE t \in Records(b)
  <2>1. PICK d \in data : InFolder(d, b) /\ d.record = t
    BY <1>2 DEF Records
  <2>2. d.ns = b.ns /\ t \in Times
    BY <2>1, <1>t DEF InFolder, TypeOK, Contents
  <2>3. t <= t
    BY <2>2, TimesAreNumbers
  <2> QED
    BY <1>2, <1>t, <2>1, <2>2, <2>3 DEF UpdatesSeen, Has
<1> QED
  BY <1>1, <1>2

(***************************************************************************)
(* A restore from a path promises the last record of its backup.           *)
(***************************************************************************)
LEMMA RestoreKeeps ==
    ASSUME ChainsInv, KeepsUpdates, UNCHANGED vars,
           NEW j \in Jobs, NEW b \in metadata, Restore(j, b)
    PROVE  PromisesKept'
<1>t. /\ TypeInv /\ UpdatesSeen /\ PromisesKept
      /\ data \in SUBSET Contents /\ metadata \in SUBSET Backups /\ IsFiniteSet(data)
  BY DEF ChainsInv, TypeInv, HandlerInv, Inv, TypeOK
<1> DEFINE promised == Sets!Max({Never} \cup Records(b))
           g == Goroutine("run", {b})
           record(count) == [NoJob EXCEPT
            !.status = "Running", !.kind = "path", !.step = "client", !.total = count,
            !.ns[b.ns] = g, !.promised[b.ns] = promised]
<1>1. PICK count \in {RecordCount({b})} \cup {c \in {0} : RestoreFaults} : Set(j, record(count))
  BY DEF Restore
<1>2. count \in Nat
  BY <1>t, <1>1, CountIsNumber
<1>3. promised \in {Never} \cup Records(b) /\ promised \in Times
  BY <1>t, RecordsAreTimes, TimesAreNumbers, MaxOfTimes
<1>4. g \in Goroutines /\ b.ns \in Namespaces /\ g.step = "run" /\ g.backups = {b}
  BY <1>t DEF Goroutine, Goroutines, Steps, Backups
<1>s. Seen(b.ns, promised) /\ (promised # Never => Has(b, promised))
  BY <1>t, <1>3, RecordsAreSeen
<1> HIDE DEF g, promised
<1>5. record(count) \in JobType
  BY <1>2, <1>3, <1>4, NoJobIsTyped DEF JobType
<1>6. PICK r \in JobType : r = record(count)
  BY <1>5
<1>7. /\ r.ns[b.ns] = g /\ r.promised[b.ns] = promised
      /\ \A n \in Namespaces \ {b.ns} : r.ns[n].step = "none" /\ r.promised[n] = Never
  BY <1>4, <1>6 DEF NoJob, NoGoroutines, Goroutine
<1>8. ASSUME NEW n \in Namespaces PROVE Seen(n, r.promised[n]) /\ Owed(r, n)
  <2>1. CASE n = b.ns
    BY <1>4, <1>7, <1>s, <2>1 DEF Owed, Newer
  <2>2. CASE n # b.ns
    <3>1. Never <= updated[n]
      BY <1>t, StateTimes DEF TypeInv, HandlerInv, Inv, Never
    <3> QED
      BY <1>7, <2>2, <3>1 DEF Owed, Seen
  <2> QED
    BY <2>1, <2>2
<1>9. Kept(r) /\ Set(j, r)
  BY <1>1, <1>6, <1>8 DEF Kept
<1> QED
  BY <1>9, <1>t, SetKeeps

(***************************************************************************)
(* What is promised up to a time is a record that a listed backup has and  *)
(* a later one is newer than, or nothing.                                  *)
(***************************************************************************)
LEMMA PromiseIsNewer ==
    ASSUME TypeInv, UpdatesSeen, NEW n \in Namespaces, NEW to
    PROVE  /\ Seen(n, Promised(n, to))
           /\ \/ Promised(n, to) = Never
              \/ \E c \in metadata : c.ns = n /\ c.created <= to /\ Promised(n, to) < c.created
<1>t. data \in SUBSET Contents /\ Never <= updated[n]
  BY StateTimes DEF TypeInv, HandlerInv, Inv, TypeOK, Never
<1> DEFINE listed == {b \in metadata : b.ns = n /\ b.created <= to}
           S == {Never} \cup UNION {{r \in Records(b) : \E c \in listed : r < c.created} : b \in listed}
<1>1. S \in SUBSET Times /\ S # {}
  BY <1>t, RecordsAreTimes, TimesAreNumbers
<1>2. Promised(n, to) \in S
  BY <1>1, MaxOfTimes DEF Promised
<1>3. CASE Promised(n, to) = Never
  BY <1>3, <1>t DEF Seen
<1>4. ASSUME NEW b \in listed, Promised(n, to) \in Records(b) PROVE Seen(n, Promised(n, to))
  BY <1>4, RecordsAreSeen
<1> QED
  BY <1>2, <1>3, <1>4

(***************************************************************************)
(* A restore by time starts from the last full backup of each namespace,   *)
(* and lists what it promises.                                             *)
(***************************************************************************)
LEMMA LastFullIsListed ==
    ASSUME metadata \in SUBSET Backups, NEW to \in Times, NEW n \in Namespaces,
           {b.ns : b \in FindLastFullBackup(to)} = Namespaces
    PROVE  \E f \in metadata :
             /\ {b \in FindLastFullBackup(to) : b.ns = n} = {f}
             /\ f.ns = n /\ f.created \in Nat
             /\ \A c \in metadata : c.ns = n /\ c.created <= to =>
                   \/ c.created <= f.created
                   \/ c \in FindIncrementalBackups(f.created, to, n)
<1>1. PICK f \in FindLastFullBackup(to) : f.ns = n
  OBVIOUS
<1>2. /\ f \in metadata /\ f.kind = "full" /\ f.created \in Nat
      /\ \A c \in metadata : c.kind = "full" /\ c.created <= to => c.created <= f.created
  BY <1>1, TimesAreNumbers DEF FindLastFullBackup, BackupList, Contains, Backups, Never
<1>3. ASSUME NEW b \in FindLastFullBackup(to), b.ns = n PROVE b = f
  <2>1. b \in metadata /\ b.kind = "full" /\ b.created <= f.created /\ f.created <= b.created
    BY <1>1, <1>3 DEF FindLastFullBackup
       , BackupList
  <2>2. b.created = f.created
    BY <1>2, <2>1, TimesAreNumbers DEF Backups
  <2> QED
    BY <1>1, <1>2, <1>3, <2>1, <2>2 DEF Backups
<1>4. ASSUME NEW c \in metadata, c.ns = n, c.created <= to, ~(c.created <= f.created)
      PROVE  c \in FindIncrementalBackups(f.created, to, n)
  <2>1. c.kind = "incremental" /\ c.created \in Nat
    BY <1>2, <1>4, TimesAreNumbers DEF Backups
  <2> QED
    BY <1>2, <1>4, <2>1 DEF FindIncrementalBackups, BackupList, Contains
<1>5. {b \in FindLastFullBackup(to) : b.ns = n} = {f}
  BY <1>1, <1>3
<1> QED
  BY <1>1, <1>2, <1>4, <1>5

(***************************************************************************)
(* So a restore by time keeps what it promises.                            *)
(***************************************************************************)
LEMMA RestoreByTimeKeeps ==
    ASSUME ChainsInv, KeepsUpdates, OnlyComplete, UNCHANGED vars,
           NEW j \in Jobs, NEW to \in RestoreTimes, RestoreByTime(j, to)
    PROVE  PromisesKept'
<1>t. /\ TypeInv /\ UpdatesSeen /\ PromisesKept
      /\ data \in SUBSET Contents /\ metadata \in SUBSET Backups
  BY DEF ChainsInv, TypeInv, HandlerInv, Inv, TypeOK
<1> DEFINE full == FindLastFullBackup(to)
           found(n) == {b \in full : b.ns = n}
           ns == [n \in Namespaces |-> Goroutine(IF found(n) = {} THEN "none" ELSE "list", found(n))]
           promised == [n \in Namespaces |-> Promised(n, to)]
           record == [NoJob EXCEPT
             !.status = "Running", !.kind = "time", !.step = "client", !.to = to,
             !.ns = ns, !.promised = promised]
<1>1. Set(j, record) /\ {b.ns : b \in full} = Namespaces
  BY DEF RestoreByTime
<1>2. promised \in [Namespaces -> Times]
  BY <1>t, PromisedIsTyped
<1>3. ns \in [Namespaces -> Goroutines]
  BY <1>t DEF FindLastFullBackup, BackupList, Goroutine, Goroutines, Steps
<1>4. to \in Times
  BY RestorerAssumption
<1>a. ASSUME NEW n \in Namespaces
      PROVE  \E f \in metadata :
                /\ ns[n].step = "list" /\ ns[n].backups = {f} /\ f.ns = n
                /\ \E b \in {f} \cup FindIncrementalBackups(f.created, to, n) : Newer(b, promised[n])
  <2>1. PICK f \in metadata :
             /\ found(n) = {f}
             /\ f.ns = n /\ f.created \in Nat
             /\ \A c \in metadata : c.ns = n /\ c.created <= to =>
                   \/ c.created <= f.created
                   \/ c \in FindIncrementalBackups(f.created, to, n)
    BY <1>1, <1>4, <1>t, LastFullIsListed
  <2>2. ns[n].step = "list" /\ ns[n].backups = {f}
    BY <2>1 DEF Goroutine
  <2>3. promised[n] = Promised(n, to) /\ promised[n] \in Nat
    BY <1>2, TimesAreNumbers
  <2> HIDE DEF promised
  <2>4. CASE promised[n] = Never
    BY <2>1, <2>2, <2>4 DEF Newer
  <2>5. ASSUME NEW c \in metadata, c.ns = n, c.created <= to, promised[n] < c.created
        PROVE  \E b \in {f} \cup FindIncrementalBackups(f.created, to, n) : Newer(b, promised[n])
    <3>1. CASE c \in FindIncrementalBackups(f.created, to, n)
      BY <2>5, <3>1 DEF Newer
    <3>2. CASE c.created <= f.created
      <4>1. c.created \in Nat /\ f.created \in Nat
        BY <1>t, <2>1, TimesAreNumbers DEF Backups
      <4>2. promised[n] < f.created
        BY <2>3, <2>5, <3>2, <4>1
      <4> QED
        BY <4>2 DEF Newer
    <3> QED
      BY <2>1, <2>5, <3>1, <3>2
  <2> QED
    BY <1>t, <2>1, <2>2, <2>3, <2>4, <2>5, PromiseIsNewer, ZenonT(30)
<1>b. \A n \in Namespaces : Seen(n, promised[n])
  BY <1>t, PromiseIsNewer
<1> HIDE DEF ns, promised
<1>5. record \in JobType
  BY <1>2, <1>3, <1>4, NoJobIsTyped DEF JobType
<1>6. PICK r \in JobType : r = record
  BY <1>5
<1>7. r.ns = ns /\ r.promised = promised /\ r.to = to
  BY <1>6 DEF NoJob
<1>8. ASSUME NEW n \in Namespaces PROVE Owed(r, n)
  BY <1>7, <1>a DEF Owed
<1>9. Kept(r)
  BY <1>7, <1>8, <1>b DEF Kept
<1> QED
  BY <1>1, <1>6, <1>9, <1>t, SetKeeps

(***************************************************************************)
(* A job that fails in a namespace owes nothing any more.                  *)
(***************************************************************************)
LEMMA FailKeeps ==
    ASSUME ChainsInv, KeepsUpdates, UNCHANGED vars,
           NEW j \in Jobs, NEW n \in Namespaces, Fail(j, n)
    PROVE  PromisesKept'
<1>t. TypeInv /\ UpdatesSeen /\ PromisesKept /\ RestoreTypeOK
  BY DEF ChainsInv, TypeInv
<1> DEFINE g == Goroutine("done", {})
           record(errors) == [job[j] EXCEPT !.ns[n] = g, !.errors = errors]
<1>1. PICK errors \in {job[j].errors \cup {n}, {n}} : Set(j, record(errors))
  BY DEF Fail
<1>2. job[j] \in JobType
  BY <1>t, JobsAreTyped
<1>3. errors \in SUBSET Namespaces /\ errors # {} /\ g \in Goroutines
  BY <1>1, <1>2 DEF JobType, Goroutine, Goroutines, Steps
<1> HIDE DEF g
<1>4. record(errors) \in JobType
  BY <1>2, <1>3 DEF JobType
<1>5. PICK r \in JobType : r = record(errors)
  BY <1>4
<1>6. r.promised = job[j].promised /\ r.errors # {}
  BY <1>2, <1>3, <1>5 DEF JobType
<1>7. Kept(r)
  BY <1>6, <1>t DEF Kept, PromisesKept
<1> QED
  BY <1>1, <1>5, <1>7, <1>t, SetKeeps

(***************************************************************************)
(* A goroutine that goes on, with what it owes afterwards.                 *)
(***************************************************************************)
LEMMA GoroutineKeeps ==
    ASSUME ChainsInv, KeepsUpdates, UNCHANGED vars,
           NEW j \in Jobs, NEW n \in Namespaces, NEW r \in JobType, Set(j, r),
           r.promised = job[j].promised, r.errors = job[j].errors, r.to = job[j].to,
           \A m \in Namespaces \ {n} : r.ns[m] = job[j].ns[m] /\ r.target[m] = job[j].target[m],
           r.errors = {} /\ Owed(job[j], n) => Owed(r, n)
    PROVE  PromisesKept'
<1>t. TypeInv /\ UpdatesSeen /\ PromisesKept
  BY DEF ChainsInv
<1>1. ASSUME NEW m \in Namespaces, r.errors = {} PROVE Owed(r, m)
  <2>1. Owed(job[j], m)
    BY <1>1, <1>t DEF PromisesKept, Kept
  <2>2. CASE m # n
    BY <2>1, <2>2 DEF Owed
  <2> QED
    BY <1>1, <2>1, <2>2
<1>2. Kept(r)
  BY <1>1, <1>t DEF Kept, PromisesKept
<1> QED
  BY <1>2, <1>t, SetKeeps

(***************************************************************************)
(* The listing has a backup that is newer than what was promised.          *)
(***************************************************************************)
LEMMA ListKeeps ==
    ASSUME ChainsInv, KeepsUpdates, UNCHANGED vars,
           NEW j \in Jobs, NEW n \in Namespaces, ListIncrementals(j, n)
    PROVE  PromisesKept'
<1>t. /\ TypeInv /\ UpdatesSeen /\ PromisesKept
      /\ metadata \in SUBSET Backups /\ IsFiniteSet(data) /\ RestoreTypeOK /\ job[j] \in JobType
  BY JobsAreTyped DEF ChainsInv, TypeInv, HandlerInv, Inv, TypeOK
<1> DEFINE all == job[j].ns[n].backups
                    \cup FindIncrementalBackups(First(job[j].ns[n].backups).created, job[j].to, n)
           g == Goroutine("run", all)
           count == RecordCount(all)
           total == job[j].total + count
           record == [job[j] EXCEPT !.ns[n] = g, !.total = total]
<1>1. (Set(j, record) \/ Fail(j, n)) /\ job[j].ns[n].step = "list"
  BY DEF ListIncrementals
<1>2. total \in Nat
  BY <1>t, CountIsNumber DEF JobType
<1>3. g \in Goroutines /\ g.step = "run" /\ g.backups = all
  BY <1>t DEF FindIncrementalBackups, BackupList, JobType, Goroutine, Goroutines, Steps
<1>a. ASSUME Owed(job[j], n)
      PROVE  /\ all # {} /\ \A b \in all : b \in metadata /\ b.ns = n
             /\ \E b \in all : Newer(b, job[j].promised[n])
  <2>1. PICK f \in metadata :
               /\ job[j].ns[n].backups = {f} /\ f.ns = n
               /\ \E b \in {f} \cup FindIncrementalBackups(f.created, job[j].to, n) :
                     Newer(b, job[j].promised[n])
    BY <1>1, <1>a DEF Owed
  <2>2. First({f}) = f
    <3>1. {f} \in SUBSET Backups /\ {f} # {}
      BY <1>t
    <3> QED
      BY <3>1, FirstOfBackups
  <2>3. all = {f} \cup FindIncrementalBackups(f.created, job[j].to, n)
    BY <2>1, <2>2
  <2> QED
    BY <2>1, <2>3 DEF FindIncrementalBackups, BackupList
<1> HIDE DEF g, total, all
<1>4. record \in JobType
  BY <1>2, <1>3, <1>t DEF JobType
<1>5. PICK r \in JobType : r = record
  BY <1>4
<1>6. /\ r.promised = job[j].promised /\ r.errors = job[j].errors /\ r.to = job[j].to
      /\ r.ns[n] = g
      /\ \A m \in Namespaces \ {n} : r.ns[m] = job[j].ns[m] /\ r.target[m] = job[j].target[m]
  BY <1>5, <1>t DEF JobType
<1>7. ASSUME Owed(job[j], n) PROVE Owed(r, n)
  BY <1>6, <1>3, <1>7, <1>a DEF Owed
<1>8. ASSUME Set(j, r) PROVE PromisesKept'
  BY <1>6, <1>7, <1>8, GoroutineKeeps
<1> QED
  BY <1>1, <1>5, <1>8, FailKeeps

(***************************************************************************)
(* A restore of a backup that starts owes what it owed.                    *)
(***************************************************************************)
LEMMA RunKeeps ==
    ASSUME ChainsInv, KeepsUpdates, UNCHANGED vars,
           NEW j \in Jobs, NEW n \in Namespaces, RestoreRun(j, n)
    PROVE  PromisesKept'
<1>t. TypeInv /\ UpdatesSeen /\ PromisesKept /\ RestoreTypeOK
  BY DEF ChainsInv, TypeInv
<1> DEFINE g == [job[j].ns[n] EXCEPT !.step = "wait"]
           record == [job[j] EXCEPT !.ns[n] = g]
<1>1. (Set(j, record) \/ Fail(j, n)) /\ job[j].ns[n].step = "run"
  BY DEF RestoreRun
<1>2. job[j] \in JobType
  BY <1>t, JobsAreTyped
<1>4. job[j].ns[n] \in Goroutines
  BY <1>2 DEF JobType
<1>5. g \in Goroutines /\ g.step = "wait" /\ g.backups = job[j].ns[n].backups
  BY <1>4 DEF Goroutines, Steps
<1> HIDE DEF g
<1>3. record \in JobType
  BY <1>2, <1>5 DEF JobType
<1>6. PICK r \in JobType : r = record
  BY <1>3
<1>7. /\ r.promised = job[j].promised /\ r.errors = job[j].errors /\ r.to = job[j].to
      /\ r.ns[n] = g
      /\ \A m \in Namespaces \ {n} : r.ns[m] = job[j].ns[m] /\ r.target[m] = job[j].target[m]
  BY <1>6, <1>2 DEF JobType
<1>8. ASSUME Owed(job[j], n) PROVE Owed(r, n)
  BY <1>1, <1>5, <1>7, <1>8 DEF Owed
<1>9. ASSUME Set(j, r) PROVE PromisesKept'
  BY <1>7, <1>8, <1>9, GoroutineKeeps
<1> QED
  BY <1>1, <1>6, <1>9, FailKeeps

(***************************************************************************)
(* Unless the policy keeps what exists, a record of a backup is written if *)
(* it is newer than the one in the destination.                            *)
(***************************************************************************)
LEMMA RestoredAtLeast ==
    ASSUME "unique" \notin RestoreFlags, data \in SUBSET Contents,
           NEW record \in Times, NEW b, NEW t \in Times, Has(b, t)
    PROVE  t <= Restored(record, b)
<1> DEFINE options == [action |-> RecordExistsAction(RestoreFlags),
                       generation |-> GenerationPolicy(RestoreFlags)]
           written == {r \in Records(b) : Written(options, record # Never, r > record) # "kept"}
<1>1. Restored(record, b) = IF written = {} THEN record ELSE Sets!Max(written)
  BY Zenon DEF Restored
<1>2. PICK u \in Records(b) : t <= u
  BY DEF Has
<1>3. written \in SUBSET Times /\ Records(b) \in SUBSET Times
  BY RecordsAreTimes
<1>4. options.action # "CREATE_ONLY"
  BY DEF RecordExistsAction
<1>5. ASSUME NEW r \in Records(b), r > record PROVE r \in written
  <2>1. Written(options, record # Never, r > record) # "kept"
    BY <1>4, <1>5 DEF Written
  <2> QED
    BY <2>1
<1> HIDE DEF written
<1>6. t \in Nat /\ u \in Nat /\ record \in Nat
  BY <1>3, TimesAreNumbers
<1>7. CASE u > record
  <2>1. u \in written
    BY <1>5, <1>7
  <2>2. u <= Sets!Max(written) /\ Sets!Max(written) \in Nat
    BY <1>3, <2>1, MaxOfTimes, TimesAreNumbers
  <2> QED
    BY <1>1, <1>2, <1>6, <2>1, <2>2
<1>8. CASE u <= record /\ written = {}
  BY <1>1, <1>2, <1>6, <1>8
<1>9. CASE u <= record /\ written # {}
  <2>1. Sets!Max(written) \in written /\ Sets!Max(written) \in Nat /\ Sets!Max(written) \in Records(b)
        /\ \A v \in written : v <= Sets!Max(written)
    BY <1>3, <1>9, MaxOfTimes, TimesAreNumbers DEF written
  <2>2. CASE u \in written
    BY <1>1, <1>2, <1>6, <1>9, <2>1, <2>2
  <2>3. CASE u \notin written
    <3>1. Written(options, record # Never, u > record) = "kept"
      BY <1>2, <2>3 DEF written
    <3>2. ~(u > record)
      BY <1>6, <1>9
    <3>3. record # Never /\ options.generation = "EXPECT_GEN_GT"
      <4>1. record # Never
        BY <3>1 DEF Written
      <4>2. options.generation = "EXPECT_GEN_GT"
        BY <1>4, <3>1, <4>1 DEF Written
      <4> QED
        BY <4>1, <4>2
    <3>4. ASSUME NEW r \in Records(b), ~(r > record) PROVE r \notin written
      <4>1. Written(options, record # Never, r > record) = "kept"
        BY <1>4, <3>3, <3>4 DEF Written
      <4> QED
        BY <4>1 DEF written
    <3>5. Sets!Max(written) > record
      BY <2>1, <3>4
    <3> QED
      BY <1>1, <1>2, <1>6, <1>9, <2>1, <3>5
  <2> QED
    BY <2>2, <2>3
<1> QED
  BY <1>6, <1>7, <1>8, <1>9

(***************************************************************************)
(* After a backup was restored, a newer one is left or the namespace has   *)
(* what was promised.                                                      *)
(***************************************************************************)
LEMMA WaitKeeps ==
    ASSUME ChainsInv, KeepsUpdates, "unique" \notin RestoreFlags, UNCHANGED vars,
           NEW j \in Jobs, NEW n \in Namespaces, Wait(j, n)
    PROVE  PromisesKept'
<1>t. /\ TypeInv /\ UpdatesSeen /\ PromisesKept /\ data \in SUBSET Contents
      /\ metadata \in SUBSET Backups /\ IsFiniteSet(data) /\ RestoreTypeOK /\ job[j] \in JobType
  BY JobsAreTyped DEF ChainsInv, TypeInv, HandlerInv, Inv, TypeOK
<1> DEFINE S == job[j].ns[n].backups
           b == First(S)
           rest == S \ {b}
           g == Goroutine(IF rest = {} THEN "done" ELSE "run", rest)
           done == job[j].done + RecordCount({b})
           t == job[j].promised[n]
           restored == Restored(job[j].target[n], b)
           record == [job[j] EXCEPT !.target[n] = restored, !.done = done, !.ns[n] = g]
<1>1. (Set(j, record) \/ Fail(j, n)) /\ job[j].ns[n].step = "wait"
  BY DEF Wait
<1>2. done \in Nat
  BY <1>t, CountIsNumber DEF JobType
<1>3. g \in Goroutines /\ g.backups = rest /\ g.step = IF rest = {} THEN "done" ELSE "run"
  BY <1>t DEF JobType, Goroutine, Goroutines, Steps
<1>4. restored \in Times
  BY <1>t, RestoredIsTyped DEF JobType
<1>a. ASSUME Owed(job[j], n)
      PROVE  /\ rest = {} => t <= restored
             /\ \A c \in rest : c \in metadata /\ c.ns = n
             /\ rest # {} => \E c \in rest : Newer(c, t)
  <2>1. /\ S # {} /\ \A c \in S : c \in metadata /\ c.ns = n
        /\ \/ \E c \in S : Newer(c, t)
           \/ \E c \in S : S = {c} /\ Has(c, t)
    BY <1>1, <1>a DEF Owed
  <2>2. b \in S /\ \A c \in S : b.created <= c.created
    <3>1. S \in SUBSET Backups
      BY <1>t, <2>1
    <3> QED
      BY <2>1, <3>1, FirstOfBackups
  <2>3. t \in Times /\ t \in Nat /\ restored \in Nat /\ job[j].target[n] \in Times /\ Never = 0
    BY <1>t, <1>4, TimesAreNumbers DEF JobType, Never
  <2>4. Seen(n, t) /\ b \in ReadBackups(n)
    BY <1>t, <2>1, <2>2 DEF PromisesKept, Kept, ReadBackups
  <2>5. ASSUME rest = {} PROVE t <= restored
    <3>1. S = {b}
      BY <2>2, <2>5
    <3>2. Newer(b, t) \/ Has(b, t)
      BY <2>1, <3>1
    <3>3. CASE t = Never
      BY <2>3, <3>3
    <3>4. CASE t # Never
      <4>1. Has(b, t)
        BY <2>4, <3>2, <3>4 DEF Newer, Seen
      <4> QED
        BY <1>t, <2>3, <4>1, RestoredAtLeast
    <3> QED
      BY <3>3, <3>4
  <2>6. ASSUME rest # {} PROVE \E c \in rest : Newer(c, t)
    <3>1. PICK c \in rest : TRUE
      BY <2>6
    <3>2. PICK d \in S : Newer(d, t)
      BY <2>1, <2>2, <3>1
    <3>3. CASE d = b
      <4>1. b.created <= c.created /\ b.created \in Nat /\ c.created \in Nat
        BY <1>t, <2>1, <2>2, <3>1, TimesAreNumbers DEF Backups
      <4> QED
        BY <2>3, <3>1, <3>2, <3>3, <4>1 DEF Newer
    <3> QED
      BY <3>2, <3>3
  <2> QED
    BY <2>1, <2>5, <2>6
<1> HIDE DEF g, done, restored, rest, b, S
<1>5. record \in JobType
  BY <1>2, <1>3, <1>4, <1>t DEF JobType
<1>6. PICK r \in JobType : r = record
  BY <1>5
<1>7. /\ r.promised = job[j].promised /\ r.errors = job[j].errors /\ r.to = job[j].to
      /\ r.ns[n] = g /\ r.target[n] = restored
      /\ \A m \in Namespaces \ {n} : r.ns[m] = job[j].ns[m] /\ r.target[m] = job[j].target[m]
  BY <1>6, <1>t DEF JobType
<1>8. ASSUME Owed(job[j], n) PROVE Owed(r, n)
  <2>1. CASE rest = {}
    BY <1>3, <1>7, <1>8, <1>a, <2>1 DEF Owed
  <2>2. CASE rest # {}
    BY <1>3, <1>7, <1>8, <1>a, <2>2 DEF Owed
  <2> QED
    BY <2>1, <2>2
<1>9. ASSUME Set(j, r) PROVE PromisesKept'
  BY <1>7, <1>8, <1>9, GoroutineKeeps
<1> QED
  BY <1>1, <1>6, <1>9, FailKeeps

(***************************************************************************)
(* Whatever step a job makes, it keeps its promises, and so do the others. *)
(***************************************************************************)
LEMMA JobsKeepPromises ==
    ASSUME ChainsInv, KeepsUpdates, RestoresChains, UNCHANGED vars, NEW j \in Jobs, JobStep(j)
    PROVE  PromisesKept'
<1>t. TypeInv /\ UpdatesSeen /\ PromisesKept /\ job[j] \in JobType
  BY JobsAreTyped DEF ChainsInv, TypeInv
<1>1. ASSUME SetFailed(j) \/ SetDone(j) PROVE PromisesKept'
  BY <1>1, <1>t, NoJobIsTyped, NothingOwed, SetKeeps DEF SetFailed, SetDone
<1>2. CASE GetClient(j)
  <2>1. PICK r : r = [job[j] EXCEPT !.step = "namespaces"]
    OBVIOUS
  <2>2. /\ r \in JobType /\ r.promised = job[j].promised /\ r.errors = job[j].errors
        /\ r.to = job[j].to /\ r.ns = job[j].ns /\ r.target = job[j].target
    BY <1>t, <2>1 DEF JobType
  <2>3. Kept(r)
    BY <1>t, <2>2 DEF PromisesKept, Kept, Owed
  <2> QED
    BY <1>1, <1>2, <1>t, <2>1, <2>2, <2>3, SetKeeps DEF GetClient
<1>3. CASE Finish(j)
  BY <1>1, <1>3 DEF Finish
<1> QED
  BY <1>2, <1>3, RestoreKeeps, RestoreByTimeKeeps, ListKeeps, RunKeeps, WaitKeeps
     DEF JobStep, RestoreAdvance, RestoresChains

(***************************************************************************)
(* The invariant holds initially.                                          *)
(***************************************************************************)
LEMMA ChainsInit == Init /\ RestoreInit => ChainsInv
<1> SUFFICES ASSUME Init, RestoreInit PROVE ChainsInv
  OBVIOUS
<1>1. TypeInv
  BY InitIsTyped
<1>2. UpdatesSeen
  BY DEF Init, UpdatesSeen, Seen, Never
<1>3. PromisesKept
  <2>1. Kept([NoJob EXCEPT !.status = "none"])
    BY <1>1, NothingOwed
  <2>2. [NoJob EXCEPT !.status = "none"] = NoJob
    BY DEF NoJob
  <2> QED
    BY <2>1, <2>2 DEF RestoreInit, PromisesKept
<1> QED
  BY <1>1, <1>2, <1>3 DEF ChainsInv

(***************************************************************************)
(* Every step keeps the invariant.                                         *)
(***************************************************************************)
LEMMA ChainsNext ==
    ASSUME KeepsUpdates, RestoresChains, ChainsInv, [RestoreNext]_allVars
    PROVE  ChainsInv'
<1>t. TypeInv /\ HandlerInv /\ UpdatesSeen /\ PromisesKept /\ job \in [Jobs -> JobType]
  BY JobsAreTyped DEF ChainsInv, TypeInv
<1>i. TypeInv'
  BY <1>t, NextIsTyped
<1>b. BackupNext \/ UNCHANGED vars \/ (Restart /\ UNCHANGED crashes)
  BY DEF RestoreNext, RestorePanics, allVars
<1>u. UpdatesSeen'
  BY <1>t, <1>b, UpdatesStaySeen
<1>k. ASSUME NEW r \in JobType, Kept(r) PROVE Kept(r)'
  BY <1>k, <1>t, <1>b, BackupsKeepPromises
<1>1. ASSUME UNCHANGED job PROVE PromisesKept'
  <2>1. ASSUME NEW j \in Jobs PROVE Kept(job[j])'
    <3>1. PICK r \in JobType : r = job[j]
      BY <1>t
    <3>2. Kept(r)'
      BY <1>k, <1>t, <3>1 DEF PromisesKept
    <3> QED
      BY <1>1, <3>1, <3>2 DEF Kept, Owed, Seen, Has
  <2> QED
    BY <2>1 DEF PromisesKept
<1>2. ASSUME NEW j \in Jobs, JobStep(j), UNCHANGED vars PROVE PromisesKept'
  BY <1>2, JobsKeepPromises
<1>3. ASSUME ChangeRoutine PROVE PromisesKept'
  <2>1. PICK change \in {"moved", "gone"} :
           job' = [j \in Jobs |-> IF ByTime(j) THEN [job[j] EXCEPT !.routine = change] ELSE job[j]]
    BY <1>3 DEF ChangeRoutine
  <2>2. ASSUME NEW j \in Jobs PROVE Kept(job[j])'
    <3>1. PICK r : r = job'[j]
      OBVIOUS
    <3>2. r = job[j] \/ r = [job[j] EXCEPT !.routine = change]
      BY <2>1, <3>1
    <3>c. job[j] \in JobType /\ change \in {"same", "moved", "gone"}
      BY <1>t, <2>1
    <3>3. /\ r \in JobType /\ r.promised = job[j].promised /\ r.errors = job[j].errors
          /\ r.to = job[j].to /\ r.ns = job[j].ns /\ r.target = job[j].target
      BY <3>c, <3>2 DEF JobType
    <3>4. Kept(r)
      BY <1>t, <3>3 DEF PromisesKept, Kept, Owed
    <3>5. Kept(r)'
      BY <1>k, <3>3, <3>4
    <3> QED
      BY <3>1, <3>5 DEF Kept, Owed, Seen, Has
  <2> QED
    BY <2>2 DEF PromisesKept
<1>4. ASSUME LoseJobs PROVE PromisesKept'
  <2>1. Kept([NoJob EXCEPT !.status = "none"]) /\ [NoJob EXCEPT !.status = "none"] = NoJob
    BY <1>t, NothingOwed DEF NoJob
  <2>2. PICK r \in JobType : r = NoJob
    BY NoJobIsTyped
  <2>3. Kept(r)'
    BY <1>k, <2>1, <2>2
  <2>4. ASSUME NEW j \in Jobs PROVE Kept(job[j])'
    <3>1. job'[j] = r
      BY <1>4, <2>2 DEF LoseJobs
    <3> QED
      BY <2>3, <3>1 DEF Kept, Owed, Seen, Has
  <2> QED
    BY <2>4 DEF PromisesKept
<1> QED
  BY <1>i, <1>u, <1>1, <1>2, <1>3, <1>4
     DEF ChainsInv, RestoreNext, RestorePanics, JobStep, allVars

(***************************************************************************)
(* A step of a job changes no other job.                                   *)
(***************************************************************************)
LEMMA JobChanges ==
    ASSUME RestoreTypeOK, NEW i \in Jobs, JobStep(i), NEW j \in Jobs, j # i
    PROVE  job'[j] = job[j]
<1>1. \A r : Set(i, r) => job'[j] = job[j]
  BY JobsAreTyped DEF Set
<1> HIDE DEF Set
<1>2. \A n : Fail(i, n) => job'[j] = job[j]
  BY <1>1 DEF Fail
<1>3. ASSUME NEW n, ListIncrementals(i, n) \/ RestoreRun(i, n) \/ Wait(i, n) PROVE job'[j] = job[j]
  BY <1>1, <1>2, <1>3 DEF ListIncrementals, RestoreRun, Wait
<1>4. GetClient(i) \/ Finish(i) => job'[j] = job[j]
  BY <1>1 DEF GetClient, Finish, SetFailed, SetDone
<1>5. ASSUME NEW b, Restore(i, b) \/ RestoreByTime(i, b) PROVE job'[j] = job[j]
  BY <1>1, <1>5 DEF Restore, RestoreByTime
<1> QED
  BY <1>3, <1>4, <1>5 DEF JobStep, RestoreAdvance

(***************************************************************************)
(* The goroutine of a namespace does not change the status of its job.     *)
(***************************************************************************)
LEMMA StatusStays ==
    ASSUME RestoreTypeOK, NEW i \in Jobs, NEW n \in Namespaces,
           ListIncrementals(i, n) \/ RestoreRun(i, n) \/ Wait(i, n)
    PROVE  job'[i].status = job[i].status
<1>t. job[i] \in JobType
  BY JobsAreTyped
<1>s. \A r : Set(i, r) => job'[i] = r
  BY JobsAreTyped DEF Set
<1> HIDE DEF Set
<1>1. \A g, total : [job[i] EXCEPT !.ns[n] = g, !.total = total].status = job[i].status
  BY <1>t DEF JobType
<1>2. \A g, errors : [job[i] EXCEPT !.ns[n] = g, !.errors = errors].status = job[i].status
  BY <1>t DEF JobType
<1>3. \A x, g, done : [job[i] EXCEPT !.target[n] = x, !.done = done, !.ns[n] = g].status = job[i].status
  BY <1>t DEF JobType
<1>4. [job[i] EXCEPT !.ns[n].step = "wait"].status = job[i].status
  BY <1>t DEF JobType
<1>5. Fail(i, n) => job'[i].status = job[i].status
  <2> DEFINE record(errors) == [job[i] EXCEPT !.ns[n] = Goroutine("done", {}), !.errors = errors]
  <2>1. \A errors : record(errors).status = job[i].status
    BY <1>2
  <2>2. Fail(i, n) => \E errors : Set(i, record(errors))
    BY DEF Fail
  <2> HIDE DEF record
  <2> QED
    BY <1>s, <2>1, <2>2
<1>6. CASE ListIncrementals(i, n)
  <2> DEFINE all == job[i].ns[n].backups
                      \cup FindIncrementalBackups(First(job[i].ns[n].backups).created, job[i].to, n)
             total == job[i].total + RecordCount(all)
             record == [job[i] EXCEPT !.ns[n] = Goroutine("run", all), !.total = total]
  <2>1. Set(i, record) \/ Fail(i, n)
    BY <1>6 DEF ListIncrementals
  <2> HIDE DEF all, total
  <2>2. record.status = job[i].status
    BY <1>1
  <2> HIDE DEF record
  <2> QED
    BY <1>5, <1>s, <2>1, <2>2
<1>7. CASE RestoreRun(i, n)
  BY <1>4, <1>5, <1>7, <1>s DEF RestoreRun
<1>8. CASE Wait(i, n)
  <2> DEFINE b == First(job[i].ns[n].backups)
             rest == job[i].ns[n].backups \ {b}
             g == Goroutine(IF rest = {} THEN "done" ELSE "run", rest)
             done == job[i].done + RecordCount({b})
             restored == Restored(job[i].target[n], b)
             record == [job[i] EXCEPT !.target[n] = restored, !.done = done, !.ns[n] = g]
  <2>1. Set(i, record) \/ Fail(i, n)
    BY <1>8 DEF Wait
  <2> HIDE DEF g, done, restored
  <2>2. record.status = job[i].status
    BY <1>3
  <2> HIDE DEF record
  <2> QED
    BY <1>5, <1>s, <2>1, <2>2
<1> QED
  BY <1>6, <1>7, <1>8

(***************************************************************************)
(* A job that was requested runs.                                          *)
(***************************************************************************)
LEMMA RequestsRun ==
    ASSUME RestoreTypeOK, NEW i \in Jobs,
           (\E b \in metadata : Restore(i, b)) \/ (\E to \in RestoreTimes : RestoreByTime(i, to))
    PROVE  job'[i].status = "Running"
<1>s. \A r : Set(i, r) => job'[i] = r
  BY JobsAreTyped DEF Set
<1> HIDE DEF Set
<1>1. ASSUME NEW b \in metadata, Restore(i, b) PROVE job'[i].status = "Running"
  <2> DEFINE g == Goroutine("run", {b})
             promised == Sets!Max({Never} \cup Records(b))
             record(count) == [NoJob EXCEPT
               !.status = "Running", !.kind = "path", !.step = "client", !.total = count,
               !.ns[b.ns] = g, !.promised[b.ns] = promised]
  <2>1. \E count : Set(i, record(count))
    BY <1>1 DEF Restore
  <2> HIDE DEF g, promised
  <2>2. \A count : record(count).status = "Running"
    BY DEF NoJob
  <2> HIDE DEF record
  <2> QED
    BY <1>s, <2>1, <2>2
<1>2. ASSUME NEW to \in RestoreTimes, RestoreByTime(i, to) PROVE job'[i].status = "Running"
  <2> DEFINE full == FindLastFullBackup(to)
             found(n) == {b \in full : b.ns = n}
             ns == [n \in Namespaces |-> Goroutine(IF found(n) = {} THEN "none" ELSE "list", found(n))]
             promised == [n \in Namespaces |-> Promised(n, to)]
             record == [NoJob EXCEPT
               !.status = "Running", !.kind = "time", !.step = "client", !.to = to,
               !.ns = ns, !.promised = promised]
  <2>1. Set(i, record)
    BY <1>2 DEF RestoreByTime
  <2> HIDE DEF ns, promised
  <2>2. record.status = "Running"
    BY DEF NoJob
  <2> HIDE DEF record
  <2> QED
    BY <1>s, <2>1, <2>2
<1> QED
  BY <1>1, <1>2

(***************************************************************************)
(* A job that becomes done has restored what was promised.                 *)
(***************************************************************************)
LEMMA DoneIsRestored ==
    ASSUME ChainsInv, [RestoreNext]_allVars,
           NEW j \in Jobs, job[j].status # "Done", job'[j].status = "Done",
           NEW n \in Namespaces
    PROVE  job[j].target[n] >= job[j].promised[n]
<1>t. /\ job \in [Jobs -> JobType] /\ PromisesKept /\ RestoreTypeOK
      /\ job[j].target[n] \in Nat /\ job[j].promised[n] \in Nat
  BY JobsAreTyped, TimesAreNumbers, ZenonT(30) DEF ChainsInv, TypeInv, JobType
<1>1. Finish(j)
  <2>1. job' # job
    BY <1>t
  <2>2. ~RestorePanics
    BY DEF RestorePanics, LoseJobs, NoJob
  <2>3. ~ChangeRoutine
    <3>1. ASSUME NEW change PROVE [job[j] EXCEPT !.routine = change].status = job[j].status
      BY <1>t DEF JobType
    <3> QED
      BY <3>1 DEF ChangeRoutine
  <2>4. PICK i \in Jobs : JobStep(i)
    BY <2>1, <2>2, <2>3 DEF RestoreNext, JobStep, allVars
  <2>6. job[i] \in JobType /\ job'[i].status # job[i].status /\ job'[i].status = "Done"
    BY <1>t, <2>4, JobChanges
  <2>7. ASSUME GetClient(i) PROVE FALSE
    <3>1. [job[i] EXCEPT !.step = "namespaces"].status = job[i].status
      BY <1>t DEF JobType
    <3> QED
      BY <1>t, <2>6, <2>7, <3>1 DEF GetClient, SetFailed, Set, NoJob
  <2>12. Finish(i)
    BY <2>4, <2>6, <2>7, StatusStays, RequestsRun DEF JobStep, RestoreAdvance, ChainsInv, TypeInv
  <2> QED
    <3>1. i = j
      BY <1>t, <2>4, JobChanges
    <3> QED
      BY <2>12, <3>1
<1>2. job[j].errors = {}
  <2>1. ~SetFailed(j)
    BY <1>t DEF SetFailed, Set, NoJob
  <2> QED
    BY <1>1, <2>1 DEF Finish
<1>3. Owed(job[j], n) /\ job[j].ns[n].step \in {"none", "done"}
  BY <1>1, <1>2, <1>t DEF PromisesKept, Kept, Finish
<1> QED
  BY <1>3, <1>t DEF Owed, Never

(***************************************************************************)
(* No restore is Done and lacks an update that the backups promised when   *)
(* it was requested, however it overlaps with backups that go on, with     *)
(* other restores and with changes of the routine: if no backup is deleted *)
(* or sealed, the last full backup was complete, and the policy does not   *)
(* keep older records. Backups and restores may fail.                      *)
(***************************************************************************)
THEOREM DoneRestoresEverything ==
    ASSUME KeepsUpdates, RestoresChains
    PROVE  RestoreSpec => DoneRestoresAll
<1>1. ChainsInv /\ [RestoreNext]_allVars => ChainsInv'
  BY ChainsNext
<1>2. ChainsInv /\ [RestoreNext]_allVars =>
        [\A j \in Jobs : job[j].status # "Done" /\ job'[j].status = "Done" =>
            \A n \in Namespaces : job[j].target[n] >= job[j].promised[n]]_allVars
  BY DoneIsRestored
<1> QED
  BY <1>1, <1>2, ChainsInit, PTL DEF RestoreSpec, DoneRestoresAll

-----------------------------------------------------------------------------
(* Listed backups are not written again *)

(***************************************************************************)
(* A step of the full backup that lists nothing, and keeps its time.       *)
(***************************************************************************)
LEMMA StaysUnlisted ==
    ASSUME FullUnlisted, metadata' \subseteq metadata,
           UNCHANGED <<phase, fullNow, mu>>,
           fullStep' = "error" => fullStep = "error" \/ FullFaults,
           fullBackupInProgress' => fullBackupInProgress,
           fullBackupInProgress' => \A n \in Namespaces :
              fullBackupHandlers'[n] # "waited" => fullBackupHandlers[n] # "waited"
    PROVE  FullUnlisted'
BY DEF FullUnlisted, FullBackupOf, Backup

(***************************************************************************)
(* Attempts that begin and end.                                            *)
(***************************************************************************)
LEMMA FullJobUnlisted ==
    ASSUME HandlerInv, WritesOnce, FullUnlisted, NEW c \in Calls,
           FullExecute(c) \/ FullLock(c) \/ FullTimer(c) \/ FullReturn(c)
    PROVE  FullUnlisted'
<1>t. Inv /\ TypeOK /\ Clocked
  BY DEF HandlerInv, Inv
<1>d. /\ phase \in [Calls -> Retry!Phases] /\ fullNow \in [Calls -> Times] /\ NoCall \notin Calls
      /\ Never = 0 /\ clock \in Nat /\ \A d \in Calls : fullNow[d] \in Nat /\ fullNow[d] <= clock
  BY <1>t, StateTimes, HandlerAssumption DEF TypeOK, Retry!TypeOK, Clocked, Never
<1>m. metadata' = metadata
  BY DEF FullExecute, FullLock, FullTimer, FullReturn, storage
<1>1. CASE FullExecute(c)
  <2>1. /\ phase[c] = "new" /\ phase' = [phase EXCEPT ![c] = "blocked"] /\ mu' = mu
        /\ fullNow' = [fullNow EXCEPT ![c] = clock + 1]
        /\ UNCHANGED <<fullStep, fullBackupInProgress, fullBackupHandlers>>
    BY <1>1 DEF FullExecute, Retry!Call, ReadClock
  <2>2. fullNow'[c] = clock + 1 /\ \A d \in Calls \ {c} : fullNow'[d] = fullNow[d] /\ phase'[d] = phase[d]
    BY <1>d, <2>1
  <2>3. \A b \in metadata : b.created # clock + 1
    BY <1>t, StateTimes DEF Clocked
  <2>4. fullBackupInProgress => mu \in Calls \ {c}
    BY <1>t, <2>1 DEF Inv, FullFlagExact, TypeOK, Retry!TypeOK, Retry!MutexHeld
  <2>5. fullBackupInProgress => \A n \in Namespaces : FullBackupOf(n)' = FullBackupOf(n)
    BY <2>1, <2>2, <2>4 DEF FullBackupOf
  <2>6. ASSUME NEW n \in Namespaces PROVE Backup("full", fullNow'[c], n) \notin metadata
    BY <2>2, <2>3 DEF Backup
  <2>7. \A d, e \in Calls : fullNow'[d] = fullNow'[e] => d = e \/ fullNow'[d] = Never
    <3>1. \A d \in Calls \ {c} : fullNow'[d] # fullNow'[c]
      BY <1>d, <2>2
    <3> QED
      BY <2>2, <3>1 DEF FullUnlisted
  <2>8. \A d \in Calls : phase'[d] # "scheduled"
    BY <1>d, <2>1, <2>2 DEF FullUnlisted
  <2>9. \A d \in Calls : phase'[d] \in {"blocked", "running"} => fullNow'[d] # Never
    BY <1>d, <2>2 DEF FullUnlisted
  <2>10. \A d \in Calls, n \in Namespaces :
            phase'[d] = "blocked" => Backup("full", fullNow'[d], n) \notin metadata'
    BY <1>m, <2>2, <2>6 DEF FullUnlisted
  <2>11. fullBackupInProgress' =>
            \A n \in Namespaces : fullBackupHandlers'[n] # "waited" => FullBackupOf(n)' \notin metadata'
    BY <1>m, <2>1, <2>5 DEF FullUnlisted
  <2> QED
    BY <2>1, <2>7, <2>8, <2>9, <2>10, <2>11 DEF FullUnlisted, Backup
<1>2. CASE FullLock(c)
  <2>1. /\ phase[c] = "blocked" /\ mu = NoCall /\ mu' = c
        /\ phase' = [Retry!ClearTimer(phase) EXCEPT ![c] = "running"]
        /\ fullNow' = fullNow /\ fullBackupHandlers' = fullBackupHandlers
        /\ fullStep' # "error"
    BY <1>2 DEF FullLock, Retry!Lock
  <2>2. phase'[c] = "running" /\ \A d \in Calls \ {c} : phase'[d] = phase[d]
    BY <1>d, <2>1 DEF Retry!ClearTimer, FullUnlisted
  <2>3. \A n \in Namespaces : FullBackupOf(n)' = Backup("full", fullNow[c], n)
    BY <2>1 DEF FullBackupOf, Backup
  <2>4. \A n \in Namespaces : Backup("full", fullNow[c], n) \notin metadata
    BY <2>1 DEF FullUnlisted
  <2> QED
    BY <1>m, <2>1, <2>2, <2>3, <2>4 DEF FullUnlisted, Backup
<1>3. CASE FullTimer(c)
  BY <1>3 DEF FullTimer, Retry!Fire, FullUnlisted
<1>4. CASE FullReturn(c)
  <2>1. ~Retry!Reschedule(c) \/ fullStep # "error"
    <3>1. left[c] \in 0 .. MaxRetries
      BY <1>t DEF TypeOK, Retry!TypeOK
    <3> QED
      BY <3>1 DEF FullUnlisted, WritesOnce, Retry!Reschedule
  <2>2. \E p \in {"done", "exhausted"} : phase' = [phase EXCEPT ![c] = p]
    BY <1>4, <2>1 DEF FullReturn, Retry!Succeed, Retry!GiveUp
  <2>3. ~fullBackupInProgress' /\ fullStep' = "idle" /\ fullNow' = fullNow
    BY <1>4, <1>t DEF FullReturn, Inv, FullFlagExact
  <2>4. \A d \in Calls : phase'[d] \in {phase[d], "done", "exhausted"}
    BY <1>d, <2>2
  <2> QED
    BY <1>m, <2>3, <2>4 DEF FullUnlisted, Backup
<1> QED
  BY <1>1, <1>2, <1>3, <1>4

(***************************************************************************)
(* An attempt lists its own backups, once it has waited for them.          *)
(***************************************************************************)
LEMMA FullAdvanceUnlisted ==
    ASSUME HandlerInv, WritesOnce, FullUnlisted, FullAdvance
    PROVE  FullUnlisted'
<1>t. Inv /\ TypeOK
  BY DEF HandlerInv, Inv
<1>1. UNCHANGED <<phase, fullNow, mu>> /\ ~RemoveFullBackup /\ ~RemoveIncrementalBackup
  BY DEF FullAdvance, FullGetClient, FullFail, FullUpdateState, FullClean, FullConfig,
         FullStartNamespace, FullRead, FullWait, retryVars, WritesOnce, RemoveFullBackup,
         RemoveIncrementalBackup
<1>2. CASE FullGetClient \/ FullUpdateState \/ FullConfig \/ FullClean
  BY <1>1, <1>2, StaysUnlisted
     DEF FullGetClient, FullUpdateState, FullConfig, FullClean, storage
<1>3. CASE FullFail
  <2>1. metadata' \subseteq metadata /\ ~fullBackupInProgress' /\ FullFaults
    BY <1>3 DEF FullFail
  <2> QED
    BY <1>1, <2>1, StaysUnlisted
<1>4. ASSUME NEW n \in Namespaces, FullStartNamespace(n) \/ FullRead(n) PROVE FullUnlisted'
  <2>1. metadata' = metadata /\ UNCHANGED fullBackupInProgress /\ fullStep' \in {"wait", "start", fullStep}
    BY <1>1, <1>4 DEF FullStartNamespace, FullRead
  <2>2. fullBackupHandlers[n] # "waited" /\ \A m \in Namespaces \ {n} : fullBackupHandlers'[m] = fullBackupHandlers[m]
    BY <1>4, <1>t DEF FullStartNamespace, FullRead, TypeOK
  <2>3. \A m \in Namespaces : fullBackupHandlers'[m] # "waited" => fullBackupHandlers[m] # "waited"
    BY <2>2
  <2> QED
    BY <1>1, <2>1, <2>3, StaysUnlisted
<1>5. ASSUME NEW n \in Namespaces, FullWait(n) PROVE FullUnlisted'
  <2>1. /\ metadata' \subseteq metadata \cup {Backup("full", fullNow[mu], n)}
        /\ fullBackupHandlers' = [fullBackupHandlers EXCEPT ![n] = "waited"]
        /\ fullBackupHandlers[n] = "read"
        /\ fullStep' # "error" /\ UNCHANGED fullBackupInProgress
    BY <1>5 DEF FullWait, Outside, FullBackupOf
  <2>2. mu \in Calls /\ phase[mu] = "running"
    BY <1>t, <2>1, FullBackupType
  <2>3. \A c \in Calls : phase[c] = "blocked" => fullNow[c] # fullNow[mu]
    BY <2>2 DEF FullUnlisted
  <2>4. ASSUME NEW c \in Calls, NEW m \in Namespaces, phase[c] = "blocked"
        PROVE  Backup("full", fullNow[c], m) \notin metadata'
    BY <2>1, <2>3, <2>4 DEF FullUnlisted, Backup
  <2>5. ASSUME NEW m \in Namespaces, fullBackupInProgress, fullBackupHandlers'[m] # "waited"
        PROVE  FullBackupOf(m)' \notin metadata'
    <3>1. m # n /\ fullBackupHandlers[m] # "waited"
      BY <1>t, <2>1, <2>5 DEF TypeOK
    <3>2. FullBackupOf(m)' = Backup("full", fullNow[mu], m) /\ FullBackupOf(m) = Backup("full", fullNow[mu], m)
      BY <1>1 DEF FullBackupOf, Backup
    <3> QED
      BY <2>1, <2>5, <3>1, <3>2 DEF FullUnlisted, Backup
  <2> QED
    BY <1>1, <2>1, <2>4, <2>5 DEF FullUnlisted, Backup
<1> QED
  BY <1>2, <1>3, <1>4, <1>5 DEF FullAdvance

(***************************************************************************)
(* Whatever step the backups make, a full one is not listed too early.     *)
(***************************************************************************)
LEMMA BackupsStayUnlisted ==
    ASSUME HandlerInv, WritesOnce, FullUnlisted,
           BackupNext \/ UNCHANGED vars \/ (Restart /\ UNCHANGED crashes)
    PROVE  FullUnlisted'
<1>1. ASSUME NEW n \in Namespaces, Update(n) PROVE FullUnlisted'
  BY <1>1, StaysUnlisted DEF Update, storage, retryVars, fullVars
<1>2. CASE UNCHANGED vars
  BY <1>2, StaysUnlisted DEF vars, storage, retryVars, fullVars
<1>3. CASE Restart
  <2>1. \A c \in Calls : phase'[c] = IF phase[c] \in {"blocked", "running", "scheduled"}
                                       THEN "cancelled" ELSE phase[c]
    BY <1>3 DEF Restart
  <2>2. \A c \in Calls : phase'[c] \notin {"blocked", "running", "scheduled"}
    BY <2>1
  <2>3. ~fullBackupInProgress' /\ fullStep' = "idle" /\ fullNow' = fullNow
    BY <1>3 DEF Restart
  <2> QED
    BY <2>2, <2>3 DEF FullUnlisted
<1>4. CASE IncrExecute \/ IncrAdvance
  <2>1. UNCHANGED <<phase, mu, fullNow, fullStep, fullBackupInProgress, fullBackupHandlers>>
    BY <1>4 DEF IncrExecute, IncrAdvance, IncrCheck, IncrGetClient, IncrBounds, IncrPanic, IncrFinish,
         IncrStartNamespace, IncrRead, IncrWait, retryVars, fullVars
  <2>2. \A b \in metadata' : b \in metadata \/ b.kind = "incremental"
    <3>1. ASSUME NEW n \in Namespaces, IncrWait(n)
          PROVE  \A b \in metadata' : b \in metadata \/ b.kind = "incremental"
      <4>1. metadata' \subseteq metadata \cup {IncrBackupOf(n)}
        BY <3>1 DEF IncrWait, Outside, storage
      <4> QED
        BY <4>1 DEF IncrBackupOf, Backup
    <3>2. ASSUME NEW n \in Namespaces, IncrStartNamespace(n) \/ IncrRead(n) PROVE metadata' = metadata
      BY <3>2 DEF IncrStartNamespace, IncrRead, storage
    <3>3. CASE IncrExecute \/ IncrCheck \/ IncrGetClient \/ IncrBounds \/ IncrPanic \/ IncrFinish
      BY <3>3 DEF IncrExecute, IncrCheck, IncrGetClient, IncrBounds, IncrPanic, IncrFinish, storage
    <3> QED
      BY <1>4, <3>1, <3>2, <3>3 DEF IncrAdvance
  <2>3. \A t, n : Backup("full", t, n) \in metadata' => Backup("full", t, n) \in metadata
    BY <2>2 DEF Backup
  <2> HIDE DEF Backup
  <2> QED
    BY <2>1, <2>3 DEF FullUnlisted, FullBackupOf
<1> QED
  BY <1>1, <1>2, <1>3, <1>4, FullJobUnlisted, FullAdvanceUnlisted DEF BackupNext

(***************************************************************************)
(* What is written is not in the folder of a listed backup.                *)
(***************************************************************************)
LEMMA ListedIsKept ==
    ASSUME HandlerInv, WritesOnce, FullUnlisted,
           BackupNext \/ UNCHANGED vars \/ (Restart /\ UNCHANGED crashes),
           NEW d \in data', d \notin data, NEW b \in metadata
    PROVE  ~InFolder(d, b)
<1>t. Inv /\ TypeOK /\ b \in Backups
  BY DEF HandlerInv, Inv, TypeOK
<1>r. ~RemoveFullBackup /\ \A e, c : InFolder(e, c) <=> e.kind = c.kind /\ e.ns = c.ns /\ e.created = c.created
  BY DEF InFolder, WritesOnce, RemoveFullBackup
<1>w. ASSUME NEW c \in Backups, c \notin metadata, NEW R, WriteRecords(c, R) PROVE ~InFolder(d, b)
  <2>1. d.kind = c.kind /\ d.ns = c.ns /\ d.created = c.created
    BY <1>w DEF WriteRecords
  <2> QED
    BY <1>r, <1>t, <1>w, <2>1 DEF Backups
<1>1. ASSUME NEW n \in Namespaces, FullRead(n) PROVE ~InFolder(d, b)
  <2>1. FullBackupOf(n) \in Backups /\ FullBackupOf(n) \notin metadata
    BY <1>1, <1>t, FullBackupType DEF FullRead, FullUnlisted
  <2> QED
    BY <1>1, <1>w, <2>1 DEF FullRead
<1>2. ASSUME NEW n \in Namespaces, IncrRead(n) PROVE ~InFolder(d, b)
  <2>1. IncrBackupOf(n) \in Backups /\ IncrBackupOf(n) \notin metadata
    BY <1>2, <1>t, BackupType DEF IncrRead, HandlerInv, IncrUnlisted, NoHandlers
  <2> QED
    BY <1>2, <1>w, <2>1 DEF IncrRead
<1>3. CASE \/ UNCHANGED vars \/ Restart
           \/ \E n \in Namespaces : Update(n)
           \/ \E c \in Calls : FullExecute(c) \/ FullLock(c) \/ FullTimer(c) \/ FullReturn(c)
           \/ IncrExecute
  BY <1>3 DEF vars, Restart, Update, FullExecute, FullLock, FullTimer, FullReturn, IncrExecute, storage
<1>4. CASE FullGetClient \/ FullFail \/ FullUpdateState \/ FullClean \/ FullConfig
  BY <1>4 DEF FullGetClient, FullFail, FullUpdateState, FullClean, FullConfig, storage
<1>5. CASE IncrCheck \/ IncrGetClient \/ IncrBounds \/ IncrPanic \/ IncrFinish
  BY <1>5 DEF IncrCheck, IncrGetClient, IncrBounds, IncrPanic, IncrFinish, storage
<1>6. ASSUME NEW n \in Namespaces,
             FullStartNamespace(n) \/ FullWait(n) \/ IncrStartNamespace(n) \/ IncrWait(n)
      PROVE  ~InFolder(d, b)
  BY <1>6 DEF FullStartNamespace, FullWait, IncrStartNamespace, IncrWait, Outside, storage
<1> QED
  BY <1>1, <1>2, <1>3, <1>4, <1>5, <1>6 DEF BackupNext, FullAdvance, IncrAdvance

-----------------------------------------------------------------------------
(* What is counted *)

InFolders(S) == {d \in data : \E b \in S : InFolder(d, b)}

(***************************************************************************)
(* Fewer backups have fewer records; those of backups together are no more *)
(* than those of each; and no record is of two backups under KeepAll.      *)
(***************************************************************************)
LEMMA CountRecords ==
    ASSUME IsFiniteSet(data), NEW S, NEW T
    PROVE  /\ RecordCount(S) \in Nat
           /\ S \subseteq T => RecordCount(S) <= RecordCount(T)
           /\ RecordCount(S \cup T) <= RecordCount(S) + RecordCount(T)
           /\ (\A d \in data : \A b \in S, c \in T : ~(InFolder(d, b) /\ InFolder(d, c)))
                 => RecordCount(S \cup T) = RecordCount(S) + RecordCount(T)
<1>1. /\ RecordCount(S) = Cardinality(InFolders(S)) /\ RecordCount(T) = Cardinality(InFolders(T))
      /\ RecordCount(S \cup T) = Cardinality(InFolders(S \cup T))
  BY DEF RecordCount, InFolders
<1>2. IsFiniteSet(InFolders(S)) /\ IsFiniteSet(InFolders(T)) /\ IsFiniteSet(InFolders(S) \cap InFolders(T))
  <2>1. /\ InFolders(S) \in SUBSET data /\ InFolders(T) \in SUBSET data
        /\ InFolders(S) \cap InFolders(T) \in SUBSET data
    BY DEF InFolders
  <2> QED
    BY <2>1, FS_Subset
<1>3. /\ Cardinality(InFolders(S)) \in Nat /\ Cardinality(InFolders(T)) \in Nat
      /\ Cardinality(InFolders(S) \cap InFolders(T)) \in Nat
  BY <1>2, FS_CardinalityType
<1>4. InFolders(S \cup T) = InFolders(S) \cup InFolders(T)
  BY DEF InFolders
<1>5. Cardinality(InFolders(S) \cup InFolders(T))
        = Cardinality(InFolders(S)) + Cardinality(InFolders(T)) - Cardinality(InFolders(S) \cap InFolders(T))
  BY <1>2, FS_Union
<1>c. PICK common \in Nat : common = Cardinality(InFolders(S) \cap InFolders(T))
  BY <1>3
<1>n. /\ RecordCount(S) \in Nat /\ RecordCount(T) \in Nat
      /\ RecordCount(S \cup T) = RecordCount(S) + RecordCount(T) - common
  <2>1. RecordCount(S \cup T) = Cardinality(InFolders(S) \cup InFolders(T))
    BY <1>1, <1>4
  <2> QED
    BY <1>1, <1>3, <1>5, <1>c, <2>1
<1>6. ASSUME S \subseteq T PROVE RecordCount(S) <= RecordCount(T)
  <2>1. InFolders(S) \in SUBSET InFolders(T)
    BY <1>6 DEF InFolders
  <2> QED
    BY <1>1, <1>2, <2>1, FS_Subset
<1>7. ASSUME \A d \in data : \A b \in S, c \in T : ~(InFolder(d, b) /\ InFolder(d, c))
      PROVE  RecordCount(S \cup T) = RecordCount(S) + RecordCount(T)
  <2>1. InFolders(S) \cap InFolders(T) = {}
    BY <1>7 DEF InFolders
  <2>2. Cardinality(InFolders(S) \cap InFolders(T)) = 0
    BY <2>1, FS_EmptySet
  <2> QED
    BY <1>c, <1>n, <2>2
<1>8. RecordCount(S \cup T) <= RecordCount(S) + RecordCount(T)
  BY <1>n
<1> QED
  BY <1>n, <1>6, <1>7, <1>8

(***************************************************************************)
(* No backup has no records.                                               *)
(***************************************************************************)
LEMMA NothingToCount == RecordCount({}) = 0
<1>1. {d \in data : \E b \in {} : InFolder(d, b)} = {}
  OBVIOUS
<1> QED
  BY <1>1, FS_EmptySet DEF RecordCount

(***************************************************************************)
(* What a job has left are listed backups.                                 *)
(***************************************************************************)
LEMMA LeftIsListed ==
    ASSUME NEW r, Counted(r)
    PROVE  Left(r) \subseteq metadata
BY DEF Left, Counted

(***************************************************************************)
(* While the backups go on, no record is added to what was counted.        *)
(***************************************************************************)
LEMMA BackupsKeepCounts ==
    ASSUME HandlerInv, WritesOnce, FullUnlisted,
           BackupNext \/ UNCHANGED vars \/ (Restart /\ UNCHANGED crashes),
           NEW r \in JobType, Counted(r)
    PROVE  Counted(r)'
<1>1. metadata \subseteq metadata' /\ IsFiniteSet(data) /\ IsFiniteSet(data')
  <2>1. HandlerInv'
    BY BackupHandlerInv
  <2> QED
    BY <2>1, BackupsStayListed DEF HandlerInv, WritesOnce
<1>2. PICK S : S = Left(r)
  OBVIOUS
<1>3. S \subseteq metadata /\ S = Left(r)'
  BY <1>2, LeftIsListed DEF Left
<1>4. RecordCount(S)' <= RecordCount(S) /\ RecordCount(S)' \in Nat /\ RecordCount(S) \in Nat
  <2>1. \A d, b : InFolder(d, b)' <=> InFolder(d, b)
    BY DEF InFolder
  <2>2. {d \in data' : \E b \in S : InFolder(d, b)} \in SUBSET {d \in data : \E b \in S : InFolder(d, b)}
    BY <1>3, ListedIsKept
  <2>3. RecordCount(S)' = Cardinality({d \in data' : \E b \in S : InFolder(d, b)})
    BY <2>1 DEF RecordCount
  <2>4. {d \in data : \E b \in S : InFolder(d, b)} \in SUBSET data
    OBVIOUS
  <2>5. IsFiniteSet({d \in data : \E b \in S : InFolder(d, b)})
    BY <1>1, <2>4, FS_Subset
  <2>6. RecordCount(S) = Cardinality({d \in data : \E b \in S : InFolder(d, b)})
    BY DEF RecordCount
  <2> QED
    BY <2>2, <2>3, <2>5, <2>6, FS_Subset, FS_CardinalityType
<1>5. r.done \in Nat /\ r.total \in Nat
  BY DEF JobType
<1>6. RecordCount(Left(r)) = RecordCount(S) /\ RecordCount(Left(r))' = RecordCount(S)'
  BY <1>2, <1>3
<1>7. r.done + RecordCount(Left(r)) <= r.total => r.done + RecordCount(Left(r))' <= r.total
  BY <1>4, <1>5, <1>6
<1> QED
  BY <1>1, <1>7 DEF Counted

(***************************************************************************)
(* A job is replaced by one that has counted what it has.                  *)
(***************************************************************************)
LEMMA SetCounted ==
    ASSUME ProgressInv, WritesOnce, UNCHANGED vars,
           NEW j \in Jobs, NEW r \in JobType, Set(j, r), Counted(r)
    PROVE  \A i \in Jobs : Counted(job[i])'
<1>1. job \in [Jobs -> JobType] /\ HandlerInv /\ FullUnlisted
  BY JobsAreTyped DEF ProgressInv, TypeInv
<1>2. ASSUME NEW q \in JobType, Counted(q) PROVE Counted(q)'
  BY <1>1, <1>2, BackupsKeepCounts
<1>3. ASSUME NEW i \in Jobs PROVE Counted(job[i])'
  <2>1. PICK q \in JobType : q = job'[i]
    <3>1. job'[i] = r \/ job'[i] = job[i]
      BY <1>1 DEF Set
    <3> QED
      BY <1>1, <3>1
  <2>2. q = r \/ q = job[i]
    BY <1>1, <2>1 DEF Set
  <2>3. Counted(q)
    BY <2>2 DEF ProgressInv
  <2>4. Counted(q)'
    BY <1>2, <2>3
  <2> QED
    BY <2>1, <2>4 DEF Counted, Left
<1> QED
  BY <1>3

(***************************************************************************)
(* The job that has not started, or ended, has nothing to count.           *)
(***************************************************************************)
LEMMA NoJobCounted ==
    ASSUME NEW status \in {"none", "Done", "Failed"}
    PROVE  Counted([NoJob EXCEPT !.status = status])
<1> DEFINE r == [NoJob EXCEPT !.status = status]
<1>1. /\ r.total = 0 /\ r.done = 0
      /\ \A n \in Namespaces : r.ns[n].step = "none" /\ r.ns[n].backups = {}
  BY DEF NoJob, NoGoroutines, Goroutine
<1> HIDE DEF r
<1>2. Left(r) = {}
  BY <1>1 DEF Left
<1>3. r.done + RecordCount(Left(r)) <= r.total
  BY <1>1, <1>2, NothingToCount
<1>4. Counted(r)
  BY <1>1, <1>3 DEF Counted
<1> QED
  BY <1>4 DEF r

(***************************************************************************)
(* A restore from a path has its backup left, which is counted or not.     *)
(***************************************************************************)
LEMMA RestoreCounted ==
    ASSUME ProgressInv, WritesOnce, UNCHANGED vars,
           NEW j \in Jobs, NEW b \in metadata, Restore(j, b)
    PROVE  \A i \in Jobs : Counted(job[i])'
<1>t. data \in SUBSET Contents /\ metadata \in SUBSET Backups /\ IsFiniteSet(data)
  BY DEF ProgressInv, TypeInv, HandlerInv, Inv, TypeOK
<1> DEFINE promised == Sets!Max({Never} \cup Records(b))
           g == Goroutine("run", {b})
           record(count) == [NoJob EXCEPT
            !.status = "Running", !.kind = "path", !.step = "client", !.total = count,
            !.ns[b.ns] = g, !.promised[b.ns] = promised]
<1>1. PICK count \in {RecordCount({b})} \cup {c \in {0} : RestoreFaults} : Set(j, record(count))
  BY DEF Restore
<1>2. count \in Nat /\ RecordCount({b}) \in Nat /\ (count = 0 \/ count = RecordCount({b}))
  BY <1>t, <1>1, CountIsNumber
<1>3. promised \in Times
  BY <1>t, RecordsAreTimes, TimesAreNumbers, MaxOfTimes
<1>4. g \in Goroutines /\ b.ns \in Namespaces /\ g.step = "run" /\ g.backups = {b}
  BY <1>t DEF Goroutine, Goroutines, Steps, Backups
<1> HIDE DEF g, promised
<1>5. record(count) \in JobType
  BY <1>2, <1>3, <1>4, NoJobIsTyped DEF JobType
<1>6. PICK r \in JobType : r = record(count)
  BY <1>5
<1>7. /\ r.ns[b.ns] = g /\ r.kind = "path" /\ r.total = count /\ r.done = 0
      /\ \A n \in Namespaces \ {b.ns} : r.ns[n].step = "none" /\ r.ns[n].backups = {}
  BY <1>4, <1>6 DEF NoJob, NoGoroutines, Goroutine
<1>8. Left(r) = {b}
  BY <1>4, <1>7 DEF Left
<1>9. r.total = 0 \/ r.done + RecordCount(Left(r)) <= r.total
  BY <1>2, <1>7, <1>8
<1>10. Counted(r)
  BY <1>4, <1>7, <1>9 DEF Counted
<1> QED
  BY <1>1, <1>6, <1>10, SetCounted

(***************************************************************************)
(* A restore by time has listed the full backups, and counted nothing.     *)
(***************************************************************************)
LEMMA RestoreByTimeCounted ==
    ASSUME ProgressInv, WritesOnce, UNCHANGED vars,
           NEW j \in Jobs, NEW to \in RestoreTimes, RestoreByTime(j, to)
    PROVE  \A i \in Jobs : Counted(job[i])'
<1>t. data \in SUBSET Contents /\ metadata \in SUBSET Backups
  BY DEF ProgressInv, TypeInv, HandlerInv, Inv, TypeOK
<1> DEFINE full == FindLastFullBackup(to)
           found(n) == {b \in full : b.ns = n}
           ns == [n \in Namespaces |-> Goroutine(IF found(n) = {} THEN "none" ELSE "list", found(n))]
           promised == [n \in Namespaces |-> Promised(n, to)]
           record == [NoJob EXCEPT
             !.status = "Running", !.kind = "time", !.step = "client", !.to = to,
             !.ns = ns, !.promised = promised]
<1>1. Set(j, record)
  BY DEF RestoreByTime
<1>2. promised \in [Namespaces -> Times]
  BY <1>t, PromisedIsTyped
<1>3. /\ ns \in [Namespaces -> Goroutines]
      /\ \A n \in Namespaces :
            /\ \A b \in ns[n].backups : b \in metadata /\ b.ns = n
            /\ ns[n].step \in {"none", "list"} /\ (ns[n].step = "list" => ns[n].backups # {})
  BY <1>t DEF FindLastFullBackup, BackupList, Goroutine, Goroutines, Steps
<1>4. to \in Times
  BY RestorerAssumption
<1> HIDE DEF ns, promised
<1>5. record \in JobType
  BY <1>2, <1>3, <1>4, NoJobIsTyped, ZenonT(30) DEF JobType
<1>6. PICK r \in JobType : r = record
  BY <1>5
<1>7. r.ns = ns /\ r.kind = "time" /\ r.total = 0 /\ r.done = 0
  BY <1>6 DEF NoJob
<1>8. Left(r) = {}
  BY <1>3, <1>7 DEF Left
<1>9. r.done + RecordCount(Left(r)) <= r.total
  BY <1>7, <1>8, NothingToCount
<1>10. Counted(r)
  BY <1>3, <1>7, <1>9 DEF Counted
<1> QED
  BY <1>1, <1>6, <1>10, SetCounted

(***************************************************************************)
(* A namespace that fails leaves its backups.                              *)
(***************************************************************************)
LEMMA FailCounted ==
    ASSUME ProgressInv, WritesOnce, UNCHANGED vars,
           NEW j \in Jobs, NEW n \in Namespaces, Fail(j, n)
    PROVE  \A i \in Jobs : Counted(job[i])'
<1>t. job[j] \in JobType /\ IsFiniteSet(data) /\ Counted(job[j])
  BY JobsAreTyped DEF ProgressInv, TypeInv, HandlerInv
<1> DEFINE g == Goroutine("done", {})
           record(errors) == [job[j] EXCEPT !.ns[n] = g, !.errors = errors]
<1>1. PICK errors \in {job[j].errors \cup {n}, {n}} : Set(j, record(errors))
  BY DEF Fail
<1>3. errors \in SUBSET Namespaces /\ g \in Goroutines /\ g.step = "done" /\ g.backups = {}
  BY <1>1, <1>t DEF JobType, Goroutine, Goroutines, Steps
<1> HIDE DEF g
<1>4. record(errors) \in JobType
  BY <1>t, <1>3 DEF JobType
<1>5. PICK r \in JobType : r = record(errors)
  BY <1>4
<1>6. /\ r.kind = job[j].kind /\ r.total = job[j].total /\ r.done = job[j].done /\ r.ns[n] = g
      /\ \A m \in Namespaces \ {n} : r.ns[m] = job[j].ns[m]
  BY <1>t, <1>3, <1>5 DEF JobType
<1>7. Left(r) \subseteq Left(job[j])
  BY <1>3, <1>6 DEF Left
<1>8. RecordCount(Left(r)) <= RecordCount(Left(job[j]))
      /\ RecordCount(Left(r)) \in Nat /\ RecordCount(Left(job[j])) \in Nat
  BY <1>t, <1>7, CountRecords, CountIsNumber
<1>9. r.done \in Nat /\ r.total \in Nat
  BY DEF JobType
<1>10. job[j].done + RecordCount(Left(job[j])) <= job[j].total => r.done + RecordCount(Left(r)) <= r.total
  BY <1>6, <1>8, <1>9
<1>11. Counted(r)
  BY <1>t, <1>3, <1>6, <1>10 DEF Counted
<1> QED
  BY <1>1, <1>5, <1>11, SetCounted

(***************************************************************************)
(* What is listed is counted.                                              *)
(***************************************************************************)
LEMMA ListCounted ==
    ASSUME ProgressInv, WritesOnce, UNCHANGED vars,
           NEW j \in Jobs, NEW n \in Namespaces, ListIncrementals(j, n)
    PROVE  \A i \in Jobs : Counted(job[i])'
<1>t. metadata \in SUBSET Backups /\ IsFiniteSet(data) /\ job[j] \in JobType /\ Counted(job[j])
  BY JobsAreTyped DEF ProgressInv, TypeInv, HandlerInv, Inv, TypeOK
<1> DEFINE all == job[j].ns[n].backups
                    \cup FindIncrementalBackups(First(job[j].ns[n].backups).created, job[j].to, n)
           g == Goroutine("run", all)
           count == RecordCount(all)
           total == job[j].total + count
           record == [job[j] EXCEPT !.ns[n] = g, !.total = total]
<1>1. (Set(j, record) \/ Fail(j, n)) /\ job[j].ns[n].step = "list"
  BY DEF ListIncrementals
<1>2. total \in Nat /\ count \in Nat /\ total = job[j].total + count
  BY <1>t, CountIsNumber DEF JobType
<1>3. g \in Goroutines /\ g.step = "run" /\ g.backups = all
  BY <1>t DEF FindIncrementalBackups, BackupList, JobType, Goroutine, Goroutines, Steps
<1>a. /\ \A b \in all : b \in metadata /\ b.ns = n
      /\ all # {} /\ job[j].kind # "path"
  BY <1>1, <1>t DEF FindIncrementalBackups, BackupList, Counted
<1>c. count = RecordCount(all)
  OBVIOUS
<1> HIDE DEF g, total, all, count
<1>4. record \in JobType
  BY <1>2, <1>3, <1>t DEF JobType
<1>5. PICK r \in JobType : r = record
  BY <1>4
<1>6. /\ r.kind = job[j].kind /\ r.total = total /\ r.done = job[j].done /\ r.ns[n] = g
      /\ \A m \in Namespaces \ {n} : r.ns[m] = job[j].ns[m]
  BY <1>5, <1>t DEF JobType
<1>7. Left(r) \subseteq Left(job[j]) \cup all
  BY <1>3, <1>6 DEF Left
<1>8. /\ RecordCount(Left(r)) <= RecordCount(Left(job[j]) \cup all)
      /\ RecordCount(Left(job[j]) \cup all) <= RecordCount(Left(job[j])) + count
  BY <1>t, <1>7, <1>c, CountRecords
<1>n. /\ RecordCount(Left(r)) \in Nat /\ RecordCount(Left(job[j])) \in Nat
      /\ RecordCount(Left(job[j]) \cup all) \in Nat
  BY <1>t, CountIsNumber
<1>9. r.done \in Nat /\ job[j].total \in Nat /\ job[j].done \in Nat
  BY <1>t DEF JobType
<1>10. job[j].done + RecordCount(Left(job[j])) <= job[j].total
  BY <1>a, <1>t DEF Counted
<1>11. r.done + RecordCount(Left(r)) <= r.total
  BY <1>2, <1>6, <1>8, <1>9, <1>10, <1>n
<1>12. Counted(r)
  BY <1>t, <1>3, <1>6, <1>a, <1>11 DEF Counted
<1>13. ASSUME Set(j, r) PROVE \A i \in Jobs : Counted(job[i])'
  BY <1>12, <1>13, SetCounted
<1> QED
  BY <1>1, <1>5, <1>13, FailCounted

(***************************************************************************)
(* A restore that starts has the same backups left.                        *)
(***************************************************************************)
LEMMA RunCounted ==
    ASSUME ProgressInv, WritesOnce, UNCHANGED vars,
           NEW j \in Jobs, NEW n \in Namespaces, RestoreRun(j, n)
    PROVE  \A i \in Jobs : Counted(job[i])'
<1>t. job[j] \in JobType /\ Counted(job[j])
  BY JobsAreTyped DEF ProgressInv, TypeInv
<1> DEFINE g == [job[j].ns[n] EXCEPT !.step = "wait"]
           record == [job[j] EXCEPT !.ns[n] = g]
<1>1. (Set(j, record) \/ Fail(j, n)) /\ job[j].ns[n].step = "run"
  BY DEF RestoreRun
<1>4. job[j].ns[n] \in Goroutines
  BY <1>t DEF JobType
<1>5. g \in Goroutines /\ g.step = "wait" /\ g.backups = job[j].ns[n].backups
  BY <1>4 DEF Goroutines, Steps
<1> HIDE DEF g
<1>3. record \in JobType
  BY <1>t, <1>5 DEF JobType
<1>6. PICK r \in JobType : r = record
  BY <1>3
<1>7. /\ r.kind = job[j].kind /\ r.total = job[j].total /\ r.done = job[j].done /\ r.ns[n] = g
      /\ \A m \in Namespaces \ {n} : r.ns[m] = job[j].ns[m]
  BY <1>6, <1>t DEF JobType
<1>8. Left(r) = Left(job[j])
  <2>1. \A m \in Namespaces : /\ r.ns[m].backups = job[j].ns[m].backups
                              /\ r.ns[m].step \in {"run", "wait"} <=> job[j].ns[m].step \in {"run", "wait"}
    BY <1>1, <1>5, <1>7
  <2> QED
    BY <2>1 DEF Left
<1>9. Counted(r)
  BY <1>1, <1>t, <1>5, <1>7, <1>8 DEF Counted
<1>10. ASSUME Set(j, r) PROVE \A i \in Jobs : Counted(job[i])'
  BY <1>9, <1>10, SetCounted
<1> QED
  BY <1>1, <1>6, <1>10, FailCounted

(***************************************************************************)
(* The records of the backup that was restored are no longer left.         *)
(***************************************************************************)
LEMMA WaitCounted ==
    ASSUME ProgressInv, WritesOnce, UNCHANGED vars,
           NEW j \in Jobs, NEW n \in Namespaces, Wait(j, n)
    PROVE  \A i \in Jobs : Counted(job[i])'
<1>t. /\ data \in SUBSET Contents /\ metadata \in SUBSET Backups /\ IsFiniteSet(data)
      /\ job[j] \in JobType /\ Counted(job[j])
  BY JobsAreTyped DEF ProgressInv, TypeInv, HandlerInv, Inv, TypeOK
<1> DEFINE S == job[j].ns[n].backups
           b == First(S)
           rest == S \ {b}
           g == Goroutine(IF rest = {} THEN "done" ELSE "run", rest)
           count == RecordCount({b})
           done == job[j].done + count
           restored == Restored(job[j].target[n], b)
           record == [job[j] EXCEPT !.target[n] = restored, !.done = done, !.ns[n] = g]
<1>1. (Set(j, record) \/ Fail(j, n)) /\ job[j].ns[n].step = "wait"
  BY DEF Wait
<1>2. done \in Nat /\ count \in Nat /\ done = job[j].done + count
  BY <1>t, CountIsNumber DEF JobType
<1>3. g \in Goroutines /\ g.backups = rest /\ g.step = IF rest = {} THEN "done" ELSE "run"
  BY <1>t DEF JobType, Goroutine, Goroutines, Steps
<1>4. restored \in Times
  BY <1>t, RestoredIsTyped DEF JobType
<1>b. /\ b \in S /\ rest = S \ {b} /\ count = RecordCount({b})
      /\ \A c \in S : c \in metadata /\ c.ns = n
  <2>1. S # {} /\ S \in SUBSET Backups
    BY <1>1, <1>t DEF Counted
  <2> QED
    BY <1>t, <2>1, FirstOfBackups DEF Counted
<1>s. S = job[j].ns[n].backups
  OBVIOUS
<1> HIDE DEF g, count, done, restored, rest, b, S
<1>5. record \in JobType
  BY <1>2, <1>3, <1>4, <1>t DEF JobType
<1>6. PICK r \in JobType : r = record
  BY <1>5
<1>7. /\ r.kind = job[j].kind /\ r.total = job[j].total /\ r.done = done /\ r.ns[n] = g
      /\ \A m \in Namespaces \ {n} : r.ns[m] = job[j].ns[m]
  BY <1>6, <1>t DEF JobType
<1>8. /\ Left(r) \cup {b} \subseteq Left(job[j])
      /\ \A c \in Left(r) : c # b /\ c \in Backups /\ b \in Backups
  <2>1. b \in Left(job[j])
    BY <1>1, <1>b, <1>s DEF Left
  <2>2. ASSUME NEW c \in Left(r) PROVE c \in Left(job[j]) /\ c # b /\ c \in metadata
    <3>1. PICK m \in Namespaces : r.ns[m].step \in {"run", "wait"} /\ c \in r.ns[m].backups
      BY <2>2 DEF Left
    <3>2. CASE m = n
      BY <1>1, <1>3, <1>7, <1>b, <1>s, <3>1, <3>2 DEF Left
    <3>3. CASE m # n
      <4>1. r.ns[m] = job[j].ns[m]
        BY <1>7, <3>3
      <4>2. c.ns = m /\ c \in metadata
        BY <1>t, <3>1, <4>1 DEF Counted
      <4> QED
        BY <1>b, <3>1, <3>3, <4>1, <4>2 DEF Left
    <3> QED
      BY <3>2, <3>3
  <2> QED
    BY <1>b, <1>t, <2>1, <2>2
<1>9. RecordCount(Left(r) \cup {b}) = RecordCount(Left(r)) + count
  <2>1. \A d \in data : \A c \in Left(r), e \in {b} : ~(InFolder(d, c) /\ InFolder(d, e))
    BY <1>8 DEF InFolder, WritesOnce, RemoveFullBackup, Backups
  <2> QED
    BY <1>b, <1>t, <2>1, CountRecords
<1>10. RecordCount(Left(r) \cup {b}) <= RecordCount(Left(job[j]))
  BY <1>8, <1>t, CountRecords
<1>n. /\ RecordCount(Left(r)) \in Nat /\ RecordCount(Left(job[j])) \in Nat
      /\ job[j].done \in Nat /\ job[j].total \in Nat
  BY <1>t, CountIsNumber DEF JobType
<1>11. job[j].done + RecordCount(Left(job[j])) <= job[j].total => r.done + RecordCount(Left(r)) <= r.total
  BY <1>2, <1>7, <1>9, <1>10, <1>n
<1>12. Counted(r)
  <2>1. r.ns[n].backups = rest /\ r.ns[n].step = IF rest = {} THEN "done" ELSE "run"
    BY <1>3, <1>7
  <2>2. \A m \in Namespaces :
          /\ \A c \in r.ns[m].backups : c \in metadata /\ c.ns = m
          /\ r.ns[m].step \in {"list", "run", "wait"} => r.ns[m].backups # {}
          /\ r.ns[m].step = "list" => r.kind # "path"
    BY <1>7, <1>b, <1>t, <2>1 DEF Counted
  <2> QED
    BY <1>7, <1>11, <1>t, <2>2 DEF Counted
<1>13. ASSUME Set(j, r) PROVE \A i \in Jobs : Counted(job[i])'
  BY <1>12, <1>13, SetCounted
<1> QED
  BY <1>1, <1>6, <1>13, FailCounted

(***************************************************************************)
(* Whatever step a job makes, it has counted what it restores.             *)
(***************************************************************************)
LEMMA JobsStayCounted ==
    ASSUME ProgressInv, WritesOnce, UNCHANGED vars, NEW j \in Jobs, JobStep(j)
    PROVE  \A i \in Jobs : Counted(job[i])'
<1>t. job[j] \in JobType /\ Counted(job[j])
  BY JobsAreTyped DEF ProgressInv, TypeInv
<1>1. ASSUME SetFailed(j) \/ SetDone(j) PROVE \A i \in Jobs : Counted(job[i])'
  BY <1>1, NoJobIsTyped, NoJobCounted, SetCounted DEF SetFailed, SetDone
<1>2. CASE GetClient(j)
  <2>1. PICK r : r = [job[j] EXCEPT !.step = "namespaces"]
    OBVIOUS
  <2>2. /\ r \in JobType /\ r.kind = job[j].kind /\ r.total = job[j].total /\ r.done = job[j].done
        /\ r.ns = job[j].ns
    BY <1>t, <2>1 DEF JobType
  <2>3. Counted(r)
    BY <1>t, <2>2 DEF Counted, Left
  <2> QED
    BY <1>1, <1>2, <2>1, <2>2, <2>3, SetCounted DEF GetClient
<1>3. CASE Finish(j)
  BY <1>1, <1>3 DEF Finish
<1> QED
  BY <1>2, <1>3, RestoreCounted, RestoreByTimeCounted, ListCounted, RunCounted, WaitCounted
     DEF JobStep, RestoreAdvance

(***************************************************************************)
(* The invariant holds initially.                                          *)
(***************************************************************************)
LEMMA ProgressInit == Init /\ RestoreInit => ProgressInv
<1> SUFFICES ASSUME Init, RestoreInit PROVE ProgressInv
  OBVIOUS
<1>1. TypeInv
  BY InitIsTyped
<1>2. FullUnlisted
  BY DEF Init, Retry!Init, FullUnlisted
<1>3. Counted([NoJob EXCEPT !.status = "none"]) /\ [NoJob EXCEPT !.status = "none"] = NoJob
  BY NoJobCounted DEF NoJob
<1> QED
  BY <1>1, <1>2, <1>3 DEF RestoreInit, ProgressInv

(***************************************************************************)
(* Every step keeps the invariant.                                         *)
(***************************************************************************)
LEMMA ProgressNext ==
    ASSUME WritesOnce, ProgressInv, [RestoreNext]_allVars
    PROVE  ProgressInv'
<1>t. TypeInv /\ HandlerInv /\ FullUnlisted /\ job \in [Jobs -> JobType]
  BY JobsAreTyped DEF ProgressInv, TypeInv
<1>i. TypeInv'
  BY <1>t, NextIsTyped
<1>b. BackupNext \/ UNCHANGED vars \/ (Restart /\ UNCHANGED crashes)
  BY DEF RestoreNext, RestorePanics, allVars
<1>u. FullUnlisted'
  BY <1>t, <1>b, BackupsStayUnlisted
<1>k. ASSUME NEW r \in JobType, Counted(r) PROVE Counted(r)'
  BY <1>k, <1>t, <1>b, BackupsKeepCounts
<1>j. ASSUME NEW j \in Jobs, NEW r \in JobType, Counted(r), job'[j] = r PROVE Counted(job[j])'
  <2>1. Counted(r)'
    BY <1>j, <1>k
  <2> QED
    BY <1>j, <2>1 DEF Counted, Left
<1>1. ASSUME UNCHANGED job, NEW j \in Jobs PROVE Counted(job[j])'
  <2>1. PICK r \in JobType : r = job[j]
    BY <1>t
  <2> QED
    BY <1>1, <1>j, <2>1 DEF ProgressInv
<1>2. ASSUME NEW j \in Jobs, JobStep(j), UNCHANGED vars PROVE \A i \in Jobs : Counted(job[i])'
  BY <1>2, JobsStayCounted
<1>3. ASSUME ChangeRoutine, NEW j \in Jobs PROVE Counted(job[j])'
  <2>1. PICK change \in {"moved", "gone"} :
           job' = [i \in Jobs |-> IF ByTime(i) THEN [job[i] EXCEPT !.routine = change] ELSE job[i]]
    BY <1>3 DEF ChangeRoutine
  <2>2. PICK r : r = job'[j]
    OBVIOUS
  <2>3. r = job[j] \/ r = [job[j] EXCEPT !.routine = change]
    BY <2>1, <2>2
  <2>4. job[j] \in JobType /\ change \in {"same", "moved", "gone"} /\ Counted(job[j])
    BY <1>t, <2>1 DEF ProgressInv
  <2>5. /\ r \in JobType /\ r.kind = job[j].kind /\ r.total = job[j].total /\ r.done = job[j].done
        /\ r.ns = job[j].ns
    BY <2>3, <2>4 DEF JobType
  <2>6. Counted(r)
    BY <2>4, <2>5 DEF Counted, Left
  <2> QED
    BY <1>j, <2>2, <2>5, <2>6
<1>4. ASSUME LoseJobs, NEW j \in Jobs PROVE Counted(job[j])'
  <2>1. PICK r \in JobType : r = NoJob
    BY NoJobIsTyped
  <2>2. Counted(r)
    BY <2>1, NoJobCounted DEF NoJob
  <2>3. job'[j] = r
    BY <1>4, <2>1 DEF LoseJobs
  <2> QED
    BY <1>j, <2>2, <2>3
<1>5. \A j \in Jobs : Counted(job[j])'
  BY <1>1, <1>2, <1>3, <1>4 DEF RestoreNext, RestorePanics, JobStep, allVars
<1> QED
  BY <1>i, <1>u, <1>5 DEF ProgressInv

(***************************************************************************)
(* The estimate of a running restore (GetCurrentStat of jobInfo): no more  *)
(* records are restored than were counted, while backups go on, jobs fail  *)
(* and the routine changes; if no backup is deleted, and no failed full    *)
(* backup is repeated under the time it was listed with.                   *)
(***************************************************************************)
THEOREM ProgressIsBounded ==
    ASSUME WritesOnce
    PROVE  RestoreSpec => []ProgressBounded
<1>1. ProgressInv /\ [RestoreNext]_allVars => ProgressInv'
  BY ProgressNext
<1>2. ProgressInv => ProgressBounded
  <2> SUFFICES ASSUME ProgressInv, NEW j \in Jobs, job[j].total # 0
               PROVE  job[j].done <= job[j].total
    BY DEF ProgressBounded
  <2>1. /\ job[j].done \in Nat /\ job[j].total \in Nat /\ IsFiniteSet(data)
        /\ job[j].done + RecordCount(Left(job[j])) <= job[j].total
    BY JobsAreTyped DEF ProgressInv, TypeInv, HandlerInv, JobType, Counted
  <2>2. RecordCount(Left(job[j])) \in Nat
    BY <2>1, CountIsNumber
  <2> QED
    BY <2>1, <2>2
<1> QED
  BY <1>1, <1>2, ProgressInit, PTL DEF RestoreSpec
=============================================================================
