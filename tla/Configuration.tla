----------------------------- MODULE Configuration -----------------------------
(***************************************************************************)
(* The configuration of the service: the maps in memory that HTTP requests *)
(* change under their mutex, and the file each of them writes afterwards,  *)
(* which is all that a restart has.                                        *)
(*                                                                         *)
(* Clusters, storages and policies are items with names of their own. A    *)
(* routine refers to them by pointer in memory and by name in the file. A  *)
(* pointer is identified by the name and the request that brought it.      *)
(***************************************************************************)
EXTENDS FiniteSets, Naturals

CONSTANTS
    Requests,                    \* HTTP requests
    Clusters, Storages, Policies, Routines,   \* names
    Initial, Absent, Null, NoName,
    Broken,                      \* the first part of a file, which Load refuses
    Manager,                     \* where the file is: "file", "storage" or "http"
    Conflicts,                   \* kinds of requests the operator does not send at the same time
    Flawed,                      \* items of which versions that are not plain are sent
    WriteFaults,                 \* whether writing the file may fail
    MaxCrashes

Items == Clusters \cup Storages \cup Policies
Sources == Requests \cup {Initial}

(***************************************************************************)
(* A version of an item. A small cluster allows fewer parallel scans than  *)
(* a large routine has sets, a bare one has no credentials, and a          *)
(* compressed policy has a compression policy. A pathless storage lacks    *)
(* what its type requires; a storage of no type is Null in memory.         *)
(***************************************************************************)
Traits == {"plain", "small", "bare", "compressed", "pathless"}

Objects == [item : Items, by : Sources, trait : Traits]

Refs == [cluster : Objects \cup {Null}, storage : Objects \cup {Null}, policy : Objects \cup {Null}]
Names == [cluster : Clusters \cup {NoName}, storage : Storages \cup {NoName},
          policy : Policies \cup {NoName}]

Config ==
    [items : [Items -> Objects \cup {Absent, Null}],
     routines : [Routines -> [ref : Refs, large : BOOLEAN, by : Sources] \cup {Absent}]]

File ==
    [items : [Items -> Objects \cup {Absent, Null}],
     routines : [Routines -> [ref : Names, large : BOOLEAN, by : Sources] \cup {Absent}]]

ASSUME ConfigurationAssumption ==
    /\ Clusters \cap Storages = {} /\ Clusters \cap Policies = {} /\ Storages \cap Policies = {}
    /\ Clusters # {} /\ Storages # {} /\ Policies # {}
    /\ Initial \notin Requests
    /\ Absent \notin Sources
    /\ Absent \notin Objects /\ Null \notin Objects /\ Absent # Null
    /\ Absent \notin [ref : Refs \cup Names, large : BOOLEAN, by : Sources]
    /\ NoName \notin Items
    /\ Broken \notin File
    /\ Manager \in {"file", "storage", "http"}
    /\ WriteFaults \in BOOLEAN
    /\ MaxCrashes \in Nat

Truncated ==
    [items |-> [i \in Items |-> Absent], routines |-> [r \in Routines |-> Absent]]

-----------------------------------------------------------------------------

VARIABLES
    configs,     \* the Config objects by the request that brought them
    current,     \* s.config
    file,        \* the configuration file
    request,     \* the requests in progress
    unsaved,     \* a write failed, and no later one began
    crashes

vars == <<configs, current, file, request, unsaved, crashes>>

config == configs[current]

(***************************************************************************)
(* A routine's pointers become the names under which they are found, or    *)
(* the empty name.                                                         *)
(***************************************************************************)
KeyOf(c, kind, object) ==
    IF \E i \in kind : c.items[i] = object
    THEN CHOOSE i \in kind : c.items[i] = object
    ELSE NoName

Trait(object) == IF object \in {Absent, Null} THEN "none" ELSE object.trait

\* Mutant of Serialized: the routines are not converted.
SerializedNoRoutines(c) == [items |-> c.items, routines |-> [r \in Routines |-> Absent]]

(***************************************************************************)
(* NewConfigFromModel: a bare cluster is a nil pointer dereferenced, and   *)
(* a compression policy is left out.                                       *)
(***************************************************************************)
Serializable(c) == \A i \in Clusters : Trait(c.items[i]) # "bare"

Serialized(c) ==
    [items |-> [i \in Items |-> IF Trait(c.items[i]) = "compressed"
                               THEN [c.items[i] EXCEPT !.trait = "plain"]
                               ELSE c.items[i]],
     routines |-> [r \in Routines |->
        IF c.routines[r] = Absent THEN Absent
        ELSE [c.routines[r] EXCEPT !.ref =
                [cluster |-> KeyOf(c, Clusters, @.cluster),
                 storage |-> KeyOf(c, Storages, @.storage),
                 policy  |-> KeyOf(c, Policies, @.policy)]]]]

\* Mutant of Resolvable: the backup policy is not looked up.
ResolvableNoPolicy(c, names, large) ==
    /\ names.cluster \in Clusters /\ c.items[names.cluster] # Absent
    /\ large => c.items[names.cluster].trait # "small"
    /\ names.storage \in Storages /\ c.items[names.storage] # Absent

(***************************************************************************)
(* The references of a routine are checked, against the items of c, when   *)
(* it is converted to the model.                                           *)
(***************************************************************************)
Resolvable(c, names, large) ==
    /\ names.cluster \in Clusters /\ c.items[names.cluster] # Absent
    /\ large => c.items[names.cluster].trait # "small"
    /\ names.storage \in Storages /\ c.items[names.storage] # Absent
    /\ names.policy \in Policies /\ c.items[names.policy] # Absent

Resolve(c, names) ==
    [cluster |-> c.items[names.cluster],
     storage |-> c.items[names.storage],
     policy  |-> c.items[names.policy]]

(***************************************************************************)
(* What Load accepts.                                                      *)
(***************************************************************************)
Loadable(f) ==
    /\ f # Broken
    /\ \A s \in Storages : f.items[s] # Null /\ Trait(f.items[s]) # "pathless"
    /\ \A r \in Routines : f.routines[r] # Absent =>
          Resolvable(f, f.routines[r].ref, f.routines[r].large)

Loaded(f) ==
    [items |-> f.items,
     routines |-> [r \in Routines |->
        IF f.routines[r] = Absent THEN Absent
        ELSE [f.routines[r] EXCEPT !.ref = Resolve(f, @)]]]

-----------------------------------------------------------------------------
(* Requests *)

New == [op |-> "none", step |-> "new"]
Answered(status) == [op |-> "none", step |-> status]

InProgress(q) == request[q].step \notin {"new", "ok", "failed"}

(***************************************************************************)
(* A request of kind op may start.                                         *)
(***************************************************************************)
MayStart(q, op) ==
    /\ request[q].step = "new"
    /\ \A p \in Requests : InProgress(p) => {op, request[p].op} \notin Conflicts

Reject(q, op) ==
    /\ MayStart(q, op)
    /\ request' = [request EXCEPT ![q] = Answered("failed")]
    /\ UNCHANGED <<configs, current, file, unsaved, crashes>>

(***************************************************************************)
(* The maps were changed. The argument of WriteConfiguration is s.config   *)
(* at a moment after that.                                                 *)
(***************************************************************************)
Change(q, op, c) ==
    /\ configs' = [configs EXCEPT ![current] = c]
    /\ request' = [request EXCEPT ![q] = [op |-> op, step |-> "changed", argument |-> {current}]]
    /\ UNCHANGED <<current, file, unsaved, crashes>>

Uses(routine, object) ==
    routine # Absent /\ object \in {routine.ref.cluster, routine.ref.storage, routine.ref.policy}

\* Mutant of Repoint: the routines keep the item that was replaced.
RepointNot(routine, old, new) == routine

(***************************************************************************)
(* An update gives the new item to every routine that had the old one.     *)
(***************************************************************************)
Repoint(routine, old, new) ==
    IF routine = Absent THEN Absent
    ELSE [routine EXCEPT !.ref = [k \in DOMAIN @ |-> IF @[k] = old THEN new ELSE @[k]]]

Add(q, op, i, object) ==
    IF config.items[i] # Absent
    THEN Reject(q, op)
    ELSE MayStart(q, op) /\ Change(q, op, [config EXCEPT !.items[i] = object])

\* Mutant of Delete: an item in use is deleted.
DeleteInUse(q, op, i) ==
    IF config.items[i] = Absent
    THEN Reject(q, op)
    ELSE MayStart(q, op) /\ Change(q, op, [config EXCEPT !.items[i] = Absent])

Delete(q, op, i) ==
    IF config.items[i] = Absent \/ \E r \in Routines : Uses(config.routines[r], config.items[i])
    THEN Reject(q, op)
    ELSE MayStart(q, op) /\ Change(q, op, [config EXCEPT !.items[i] = Absent])

Update(q, op, i, object) ==
    IF config.items[i] = Absent
    THEN Reject(q, op)
    ELSE /\ MayStart(q, op)
         /\ Change(q, op, [items    |-> [config.items EXCEPT ![i] = object],
                           routines |-> [r \in Routines |->
                              Repoint(config.routines[r], config.items[i], object)]])

Version(q, i, trait) == [item |-> i, by |-> q, trait |-> trait]

Versions(q, i, traits) ==
    {Version(q, i, trait) : trait \in {"plain"} \cup (IF i \in Flawed THEN traits ELSE {})}

Sizes == IF Flawed = {} THEN {FALSE} ELSE BOOLEAN

(***************************************************************************)
(* Reads take no lock and change nothing; the answer is serialized too.    *)
(***************************************************************************)
Read(q, found) ==
    /\ MayStart(q, "read")
    /\ request' = [request EXCEPT ![q] = Answered(IF found THEN "ok" ELSE "failed")]
    /\ UNCHANGED <<configs, current, file, unsaved, crashes>>

ReadConfig(q)  == Read(q, Serializable(config))
ReadCluster(q) == \E i \in Clusters : Read(q, Trait(config.items[i]) \notin {"none", "bare"})
ReadStorage(q) == \E i \in Storages : Read(q, config.items[i] # Absent)
ReadPolicy(q)  == \E i \in Policies : Read(q, config.items[i] # Absent)
ReadRoutine(q) == \E r \in Routines : Read(q, config.routines[r] # Absent)

AddStorage(q)    == \E i \in Storages : Add(q, "add", i, Version(q, i, "plain"))
DeleteStorage(q) == \E i \in Storages : Delete(q, "delete", i)

(***************************************************************************)
(* The only body that is not validated: a storage of no type becomes nil,  *)
(* and one that lacks a field is taken. Of two types the first is taken,   *)
(* which makes it a plain storage.                                         *)
(***************************************************************************)
UpdateStorage(q) ==
    \E i \in Storages :
       \E object \in Versions(q, i, {"pathless"}) \cup (IF i \in Flawed THEN {Null} ELSE {}) :
          Update(q, "update", i, object)

AddPolicy(q) ==
    \E i \in Policies : \E object \in Versions(q, i, {"compressed"}) : Add(q, "add", i, object)
DeletePolicy(q) == \E i \in Policies : Delete(q, "delete", i)
UpdatePolicy(q) ==
    \E i \in Policies : \E object \in Versions(q, i, {"compressed"}) : Update(q, "update", i, object)

AddCluster(q) ==
    \E i \in Clusters : \E object \in Versions(q, i, {"small", "bare"}) : Add(q, "add", i, object)
DeleteCluster(q) == \E i \in Clusters : Delete(q, "delete", i)
UpdateCluster(q) ==
    \E i \in Clusters : \E object \in Versions(q, i, {"small", "bare"}) : Update(q, "update", i, object)

(***************************************************************************)
(* The routine of a request is converted with the items of the moment; the *)
(* mutex is taken only afterwards.                                         *)
(***************************************************************************)
ResolveRoutine(q) ==
    \E op \in {"addRoutine", "updateRoutine"}, r \in Routines, large \in Sizes,
       names \in [cluster : Clusters, storage : Storages, policy : Policies] :
       IF Resolvable(config, names, large)
       THEN /\ MayStart(q, op)
            /\ request' = [request EXCEPT ![q] =
                 [op |-> op, step |-> "resolved", routine |-> r,
                  to |-> [ref |-> Resolve(config, names), large |-> large, by |-> q]]]
            /\ UNCHANGED <<configs, current, file, unsaved, crashes>>
       ELSE Reject(q, op)

PutRoutine(q, op, accepted) ==
    /\ request[q].step = "resolved" /\ request[q].op = op
    /\ IF accepted
       THEN Change(q, op, [config EXCEPT !.routines[request[q].routine] = request[q].to])
       ELSE /\ request' = [request EXCEPT ![q] = Answered("failed")]
            /\ UNCHANGED <<configs, current, file, unsaved, crashes>>

AddRoutine(q)    == PutRoutine(q, "addRoutine", config.routines[request[q].routine] = Absent)
UpdateRoutine(q) == PutRoutine(q, "updateRoutine", config.routines[request[q].routine] # Absent)

DeleteRoutine(q) ==
    \E r \in Routines :
       IF config.routines[r] = Absent
       THEN Reject(q, "deleteRoutine")
       ELSE /\ MayStart(q, "deleteRoutine")
            /\ Change(q, "deleteRoutine", [config EXCEPT !.routines[r] = Absent])

(***************************************************************************)
(* A whole configuration that a request brings.                            *)
(***************************************************************************)
Whole(q, routines) ==
    Loaded([items    |-> [i \in Items |-> Version(q, i, "plain")],
            routines |-> [r \in Routines |->
               IF r \notin routines THEN Absent
               ELSE [ref   |-> [cluster |-> CHOOSE i \in Clusters : TRUE,
                                storage |-> CHOOSE i \in Storages : TRUE,
                                policy  |-> CHOOSE i \in Policies : TRUE],
                     large |-> FALSE, by |-> q]]])

UpdateConfig(q) ==
    \E routines \in SUBSET Routines :
       /\ MayStart(q, "updateConfig")
       /\ configs' = [configs EXCEPT ![q] = Whole(q, routines)]
       /\ current' = q
       /\ request' = [p \in Requests |->
            IF p = q THEN [op |-> "updateConfig", step |-> "changed", argument |-> {q}]
            ELSE IF request[p].step = "changed" THEN [request[p] EXCEPT !.argument = @ \cup {q}]
            ELSE request[p]]
       /\ UNCHANGED <<file, unsaved, crashes>>

-----------------------------------------------------------------------------
(* Writing the file *)

\* Mutant of WriteConfiguration: the file manager does not hold its mutex.
WriteConfigurationUnlocked(q) ==
    /\ request[q].step = "changed"
    /\ \E c \in request[q].argument :
          /\ Serializable(configs[c])
          /\ request' = [request EXCEPT ![q] =
               [op |-> request[q].op, step |-> "writing", data |-> Serialized(configs[c])]]
    /\ file' = Truncated
    /\ unsaved' = FALSE
    /\ UNCHANGED <<configs, current, crashes>>

(***************************************************************************)
(* The file manager serializes under its mutex, and the file is truncated  *)
(* before it is written. The storage manager has no mutex.                 *)
(***************************************************************************)
WriteConfiguration(q) ==
    /\ request[q].step = "changed"
    /\ Manager \in {"file", "storage"}
    /\ Manager = "file" => \A p \in Requests : request[p].step # "writing"
    /\ \E c \in request[q].argument :
          /\ Serializable(configs[c])
          /\ request' = [request EXCEPT ![q] =
               [op |-> request[q].op, step |-> "writing", data |-> Serialized(configs[c])]]
    /\ file' = IF Manager = "file" THEN Truncated ELSE file
    /\ unsaved' = FALSE
    /\ UNCHANGED <<configs, current, crashes>>

(***************************************************************************)
(* A remote storage takes the data when the writer is closed, an error of  *)
(* which is not looked at.                                                 *)
(***************************************************************************)
FinishWrite(q) ==
    /\ request[q].step = "writing"
    /\ \/ file' = request[q].data
       \/ Manager = "storage" /\ WriteFaults /\ file' = file
    /\ request' = [request EXCEPT ![q] = Answered("ok")]
    /\ UNCHANGED <<configs, current, unsaved, crashes>>

(***************************************************************************)
(* What a write that ends half-way may leave of data. The sections come in *)
(* this order, the entries of a section in any; an entry that is cut       *)
(* through either makes the file a Broken one or counts as whole or        *)
(* absent. An object in a remote storage is replaced as a whole.           *)
(***************************************************************************)
Prefixes ==
    {p \in [items : SUBSET Items, routines : SUBSET Routines] :
       /\ p.items \cap Storages # {} => Clusters \subseteq p.items
       /\ p.items \cap Policies # {} => Clusters \cup Storages \subseteq p.items
       /\ p.routines # {} => p.items = Items}

Cut(data, p) ==
    [items    |-> [i \in Items |-> IF i \in p.items THEN data.items[i] ELSE Absent],
     routines |-> [r \in Routines |-> IF r \in p.routines THEN data.routines[r] ELSE Absent]]

Partial(data) ==
    IF Manager = "file" THEN {Broken} \cup {Cut(data, p) : p \in Prefixes} ELSE {file}

(***************************************************************************)
(* The connection was closed or the file cannot be opened, or the          *)
(* conversion panicked and the server recovered it; a configuration that   *)
(* was read by HTTP is never written. Or the write ends half-way. The maps *)
(* stay as they are.                                                       *)
(***************************************************************************)
FailWrite(q) ==
    /\ \/ /\ request[q].step = "changed"
          /\ \/ WriteFaults \/ Manager = "http"
             \/ \E c \in request[q].argument : ~Serializable(configs[c])
          /\ file' = file
       \/ /\ request[q].step = "writing"
          /\ WriteFaults
          /\ file' \in Partial(request[q].data)
    /\ request' = [request EXCEPT ![q] = Answered("failed")]
    /\ unsaved' = TRUE
    /\ UNCHANGED <<configs, current, crashes>>

(***************************************************************************)
(* The process stops, in the middle of a write or not, and starts again if *)
(* it can load what is there.                                              *)
(***************************************************************************)
Restart ==
    /\ crashes < MaxCrashes
    /\ crashes' = crashes + 1
    /\ \/ file' = file
       \/ \E q \in Requests : request[q].step = "writing" /\ file' \in Partial(request[q].data)
    /\ Loadable(file')
    /\ configs' = [s \in Sources |-> IF s = Initial THEN Loaded(file') ELSE Truncated]
    /\ current' = Initial
    /\ request' = [q \in Requests |-> IF InProgress(q) THEN Answered("failed") ELSE request[q]]
    /\ unsaved' = FALSE

-----------------------------------------------------------------------------

(***************************************************************************)
(* The service was started with a configuration file of everything, or     *)
(* with an empty one.                                                      *)
(***************************************************************************)
Init ==
    /\ file \in {Truncated, Serialized(Whole(Initial, Routines))}
    /\ configs = [s \in Sources |-> IF s = Initial THEN Loaded(file) ELSE Truncated]
    /\ current = Initial
    /\ request = [q \in Requests |-> New]
    /\ unsaved = FALSE
    /\ crashes = 0

Handle(q) ==
    \/ AddCluster(q) \/ UpdateCluster(q) \/ DeleteCluster(q)
    \/ AddStorage(q) \/ UpdateStorage(q) \/ DeleteStorage(q)
    \/ AddPolicy(q)  \/ UpdatePolicy(q)  \/ DeletePolicy(q)
    \/ ResolveRoutine(q) \/ DeleteRoutine(q)
    \/ UpdateConfig(q)
    \/ ReadConfig(q) \/ ReadCluster(q) \/ ReadStorage(q) \/ ReadPolicy(q) \/ ReadRoutine(q)

Proceed(q) ==
    \/ AddRoutine(q) \/ UpdateRoutine(q)
    \/ WriteConfiguration(q) \/ FinishWrite(q) \/ FailWrite(q)

-----------------------------------------------------------------------------
(* Properties *)

(***************************************************************************)
(* The maps have items and routines of their types, the file has names,    *)
(* and a request in progress has what its next step needs.                 *)
(***************************************************************************)
TypeOK ==
    /\ configs \in [Sources -> Config]
    /\ current \in Sources
    /\ file \in File \cup {Broken}
    /\ DOMAIN request = Requests
    /\ \A q \in Requests :
         \/ request[q].step \in {"new", "ok", "failed"}
         \/ request[q].step = "resolved" /\ request[q].routine \in Routines
         \/ request[q].step = "changed" /\ request[q].argument \subseteq Sources
         \/ request[q].step = "applying" /\ request[q].config \in Sources
         \/ request[q].step = "writing" /\ request[q].data \in File
    /\ unsaved \in BOOLEAN
    /\ crashes \in 0..MaxCrashes

Found(c, ref) ==
    /\ KeyOf(c, Clusters, ref.cluster) # NoName
    /\ KeyOf(c, Storages, ref.storage) # NoName
    /\ KeyOf(c, Policies, ref.policy) # NoName

(***************************************************************************)
(* Every pointer of a routine is to an item that the configuration has: an *)
(* item in use is not deleted, and an update reaches the routines.         *)
(***************************************************************************)
ReferencesResolve ==
    \A r \in Routines : config.routines[r] # Absent => Found(config, config.routines[r].ref)

(***************************************************************************)
(* Requests may overlap in any way: a pointer of a routine loses its item  *)
(* only to the request that puts a routine whose names were resolved       *)
(* before the item was updated, deleted or replaced with everything else.  *)
(***************************************************************************)
OnlyStaleBreaks ==
    [][ReferencesResolve /\ ~ReferencesResolve' =>
          \E q \in Requests :
             /\ request[q].step = "resolved" /\ request'[q].step = "changed"
             /\ ~Found(config, request[q].to.ref)]_vars

(***************************************************************************)
(* The service can be started with its configuration file, unless a write  *)
(* is under way or the last one failed: no change that was accepted makes  *)
(* a file that does not load.                                              *)
(***************************************************************************)
FileLoads == ~unsaved /\ (\A q \in Requests : request[q].step # "writing") => Loadable(file)

Quiet == ~unsaved /\ \A q \in Requests : ~InProgress(q)

(***************************************************************************)
(* Once all requests are answered the file is the configuration, unless    *)
(* the last write failed.                                                  *)
(***************************************************************************)
FileIsCurrent == Quiet => file = Serialized(config)

(***************************************************************************)
(* A restart while no request is in progress changes nothing: each routine *)
(* refers to the same items again.                                         *)
(***************************************************************************)
RestartKeeps == [][Quiet /\ crashes' # crashes => configs'[current'] = config]_vars

=============================================================================
