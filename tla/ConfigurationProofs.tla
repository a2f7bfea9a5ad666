-------------------------- MODULE ConfigurationProofs --------------------------
(***************************************************************************)
(* The configuration and its file, for any number of requests, items and   *)
(* routines: what is written is what is loaded, and the file is current    *)
(* once all requests are answered.                                         *)
(***************************************************************************)
EXTENDS BackupService, DocumentsProofs

Changes == {"add", "update", "delete", "deleteRoutine", "updateConfig"}
Puts    == {"addRoutine", "updateRoutine"}

(***************************************************************************)
(* What the operator has to take care of: every item that is sent is a     *)
(* plain one, no item is updated or deleted while a routine is added or    *)
(* updated, a whole configuration is sent alone, and it is not kept in a   *)
(* remote storage, the manager of which has no mutex.                      *)
(***************************************************************************)
Careful ==
    /\ Flawed = {}
    /\ Manager # "storage"
    /\ \A put \in Puts, op \in {"update", "delete"} : {op, put} \in Conflicts
    /\ \A op \in Changes \cup Puts : {"updateConfig", op} \in Conflicts

-----------------------------------------------------------------------------
(* The inductive invariant *)

PlainItems ==
    {items \in [Items -> Objects \cup {Absent}] :
       \A i \in Items : items[i] # Absent => items[i].item = i /\ items[i].trait = "plain"}

Pointers == [cluster : Objects, storage : Objects, policy : Objects]
Keys     == [cluster : Clusters, storage : Storages, policy : Policies]

RoutinesBy(refs) == [Routines -> [ref : refs, large : {FALSE}, by : Sources] \cup {Absent}]

(***************************************************************************)
(* Every pointer is to the item of its name.                               *)
(***************************************************************************)
Refers(items, ref) ==
    /\ ref.cluster.item \in Clusters /\ items[ref.cluster.item] = ref.cluster
    /\ ref.storage.item \in Storages /\ items[ref.storage.item] = ref.storage
    /\ ref.policy.item \in Policies  /\ items[ref.policy.item] = ref.policy

Sound(c) ==
    /\ c \in [items : PlainItems, routines : RoutinesBy(Pointers)]
    /\ \A r \in Routines : c.routines[r] # Absent => Refers(c.items, c.routines[r].ref)

Named(items, names) ==
    items[names.cluster] # Absent /\ items[names.storage] # Absent /\ items[names.policy] # Absent

SoundFile(f) ==
    /\ f \in [items : PlainItems, routines : RoutinesBy(Keys)]
    /\ \A r \in Routines : f.routines[r] # Absent => Named(f.items, f.routines[r].ref)

SoundRequest(q) ==
    \/ request[q].step \in {"new", "ok", "failed"}
    \/ /\ request[q].step = "resolved" /\ request[q].op \in Puts
       /\ request[q].routine \in Routines
       /\ request[q].to \in [ref : Pointers, large : {FALSE}, by : Sources]
       /\ Refers(config.items, request[q].to.ref)
    \/ /\ request[q].step = "changed" /\ request[q].op \in Changes \cup Puts
       /\ request[q].argument = {current}
    \/ /\ request[q].step = "writing" /\ request[q].op \in Changes \cup Puts
       /\ SoundFile(request[q].data)
    \/ request[q].step = "applying" /\ request[q].op = "apply"

Writing(q) == request[q].step = "writing"

(***************************************************************************)
(* The configuration is in the file, or on its way there.                  *)
(***************************************************************************)
Saved ==
    \/ unsaved
    \/ \E q \in Requests : request[q].step = "changed"
    \/ \E q \in Requests : Writing(q) /\ request[q].data = Serialized(config)
    \/ (\A q \in Requests : ~Writing(q)) /\ file = Serialized(config)

ConfigInv ==
    /\ configs = [s \in Sources |-> configs[s]] /\ \A s \in Sources : Sound(configs[s])
    /\ current \in Sources
    /\ file = Broken \/ SoundFile(file)
    /\ request = [q \in Requests |-> request[q]] /\ \A q \in Requests : SoundRequest(q)
    /\ \A p, q \in Requests : Writing(p) /\ Writing(q) => p = q
    /\ Saved

-----------------------------------------------------------------------------
(* Configurations and files *)

(***************************************************************************)
(* An item is found under its own name.                                    *)
(***************************************************************************)
LEMMA KeyOfItem ==
    ASSUME NEW c, c.items \in PlainItems, NEW kind, kind \subseteq Items,
           NEW i \in kind, c.items[i] # Absent
    PROVE  KeyOf(c, kind, c.items[i]) = i
<1>1. ASSUME NEW j \in kind, c.items[j] = c.items[i] PROVE j = i
  BY <1>1 DEF PlainItems
<1> QED
  BY <1>1, Zenon DEF KeyOf

(***************************************************************************)
(* The fields of a routine that are written and those that are read.       *)
(***************************************************************************)
LEMMA KeysOfRoutine ==
    ASSUME NEW c, Sound(c), NEW r \in Routines, c.routines[r] # Absent
    PROVE  LET ref == c.routines[r].ref
           IN  /\ ref \in Pointers
               /\ KeyOf(c, Clusters, ref.cluster) = ref.cluster.item
               /\ KeyOf(c, Storages, ref.storage) = ref.storage.item
               /\ KeyOf(c, Policies, ref.policy) = ref.policy.item
               /\ ref.cluster.item \in Clusters /\ c.items[ref.cluster.item] = ref.cluster
               /\ ref.storage.item \in Storages /\ c.items[ref.storage.item] = ref.storage
               /\ ref.policy.item \in Policies /\ c.items[ref.policy.item] = ref.policy
               /\ Absent \notin {ref.cluster, ref.storage, ref.policy}
<1> DEFINE ref == c.routines[r].ref
<1>1. ref \in Pointers
  BY DEF Sound, RoutinesBy
<1>2. Absent \notin {ref.cluster, ref.storage, ref.policy}
  BY <1>1, ConfigurationAssumption DEF Pointers
<1>3. c.items \in PlainItems
  BY DEF Sound
<1>4. /\ ref.cluster.item \in Clusters /\ c.items[ref.cluster.item] = ref.cluster
      /\ ref.storage.item \in Storages /\ c.items[ref.storage.item] = ref.storage
      /\ ref.policy.item \in Policies /\ c.items[ref.policy.item] = ref.policy
  BY DEF Sound, Refers
<1>5. Clusters \subseteq Items /\ Storages \subseteq Items /\ Policies \subseteq Items
  BY DEF Items
<1> HIDE DEF ref
<1>6. KeyOf(c, Clusters, ref.cluster) = ref.cluster.item
  BY <1>2, <1>3, <1>4, <1>5, KeyOfItem
<1>7. KeyOf(c, Storages, ref.storage) = ref.storage.item
  BY <1>2, <1>3, <1>4, <1>5, KeyOfItem
<1>8. KeyOf(c, Policies, ref.policy) = ref.policy.item
  BY <1>2, <1>3, <1>4, <1>5, KeyOfItem
<1> QED
  BY <1>1, <1>2, <1>4, <1>6, <1>7, <1>8 DEF ref

(***************************************************************************)
(* The items of a plain configuration are written as they are.             *)
(***************************************************************************)
LEMMA ItemsAreWritten ==
    ASSUME NEW c, c.items \in PlainItems
    PROVE  Serialized(c).items = c.items
<1>1. ASSUME NEW i \in Items PROVE Trait(c.items[i]) # "compressed"
  BY <1>1 DEF PlainItems, Trait
<1>2. Serialized(c).items = [i \in Items |-> IF Trait(c.items[i]) = "compressed"
                               THEN [c.items[i] EXCEPT !.trait = "plain"]
                               ELSE c.items[i]]
  BY DEF Serialized
<1>3. Serialized(c).items = [i \in Items |-> c.items[i]]
  BY <1>1, <1>2
<1> QED
  BY <1>3 DEF PlainItems

(***************************************************************************)
(* A routine of which the references are replaced.                         *)
(***************************************************************************)
LEMMA ReplaceRef ==
    ASSUME NEW S, NEW x \in [ref : S, large : {FALSE}, by : Sources], NEW new
    PROVE  /\ [x EXCEPT !.ref = new] = [ref |-> new, large |-> FALSE, by |-> x.by]
           /\ x = [ref |-> x.ref, large |-> FALSE, by |-> x.by]
           /\ x.ref \in S /\ x.by \in Sources /\ x.large = FALSE
<1>1. [x EXCEPT !.ref = new] = [ref |-> new, large |-> x.large, by |-> x.by]
  OBVIOUS
<1>2. x = [ref |-> x.ref, large |-> x.large, by |-> x.by]
  OBVIOUS
<1>3. x.large \in {FALSE} /\ x.ref \in S /\ x.by \in Sources
  OBVIOUS
<1>4. x.large = FALSE
  BY <1>3, Zenon
<1> QED
  BY <1>1, <1>2, <1>3, <1>4, Zenon

(***************************************************************************)
(* A routine from its parts.                                               *)
(***************************************************************************)
LEMMA RoutineOf ==
    ASSUME NEW S, NEW ref \in S, NEW by \in Sources
    PROVE  LET x == [ref |-> ref, large |-> FALSE, by |-> by]
           IN  x \in [ref : S, large : {FALSE}, by : Sources] /\ x.ref = ref /\ x.by = by
OBVIOUS

(***************************************************************************)
(* A routine that is written: its pointers became the names of the items.  *)
(***************************************************************************)
LEMMA RoutineIsWritten ==
    ASSUME NEW c, Sound(c), NEW r \in Routines
    PROVE  /\ c.routines[r] = Absent => Serialized(c).routines[r] = Absent
           /\ c.routines[r] # Absent =>
                Serialized(c).routines[r] =
                  [ref |-> [cluster |-> c.routines[r].ref.cluster.item,
                            storage |-> c.routines[r].ref.storage.item,
                            policy  |-> c.routines[r].ref.policy.item],
                   large |-> FALSE, by |-> c.routines[r].by]
<1>1. c.routines[r] = Absent => Serialized(c).routines[r] = Absent
  BY DEF Serialized
<1>2. ASSUME c.routines[r] # Absent
      PROVE  Serialized(c).routines[r] =
                  [ref |-> [cluster |-> c.routines[r].ref.cluster.item,
                            storage |-> c.routines[r].ref.storage.item,
                            policy  |-> c.routines[r].ref.policy.item],
                   large |-> FALSE, by |-> c.routines[r].by]
  <2> DEFINE x == c.routines[r]
             names == [cluster |-> KeyOf(c, Clusters, x.ref.cluster),
                       storage |-> KeyOf(c, Storages, x.ref.storage),
                       policy  |-> KeyOf(c, Policies, x.ref.policy)]
  <2>1. Serialized(c).routines[r] = [x EXCEPT !.ref = names]
    BY <1>2 DEF Serialized
  <2>2. names = [cluster |-> x.ref.cluster.item, storage |-> x.ref.storage.item,
                 policy |-> x.ref.policy.item]
    BY <1>2, KeysOfRoutine
  <2>3. x \in [ref : Pointers, large : {FALSE}, by : Sources]
    BY <1>2 DEF Sound, RoutinesBy
  <2> HIDE DEF x, names
  <2>4. [x EXCEPT !.ref = names] = [ref |-> names, large |-> FALSE, by |-> x.by]
    BY <2>3, ReplaceRef
  <2> QED
    BY <2>1, <2>2, <2>4 DEF x
<1> QED
  BY <1>1, <1>2

(***************************************************************************)
(* What is written of a sound configuration can be loaded.                 *)
(***************************************************************************)
LEMMA SerializedIsSound ==
    ASSUME NEW c, Sound(c)
    PROVE  SoundFile(Serialized(c))
<1> DEFINE f == Serialized(c)
<1>1. f.items = c.items /\ c.items \in PlainItems
  BY ItemsAreWritten DEF Sound
<1>2. f = [items |-> f.items, routines |-> f.routines] /\ f.routines = [r \in Routines |-> f.routines[r]]
  BY DEF Serialized
<1>3. ASSUME NEW r \in Routines, c.routines[r] # Absent
      PROVE  /\ f.routines[r] \in [ref : Keys, large : {FALSE}, by : Sources]
             /\ Named(f.items, f.routines[r].ref)
  <2> DEFINE x == c.routines[r]
             names == [cluster |-> x.ref.cluster.item, storage |-> x.ref.storage.item,
                       policy |-> x.ref.policy.item]
  <2>1. f.routines[r] = [ref |-> names, large |-> FALSE, by |-> x.by]
    BY <1>3, RoutineIsWritten
  <2>2. x.by \in Sources
    BY <1>3 DEF Sound, RoutinesBy
  <2>3. names \in Keys /\ Named(c.items, names)
    BY <1>3, KeysOfRoutine, SMTT(30) DEF Keys, Named
  <2> HIDE DEF f, names, x
  <2> QED
    BY <1>1, <2>1, <2>2, <2>3
<1>4. ASSUME NEW r \in Routines, c.routines[r] = Absent PROVE f.routines[r] = Absent
  BY <1>4, RoutineIsWritten
<1> HIDE DEF f
<1>5. f.routines \in RoutinesBy(Keys)
  BY <1>2, <1>3, <1>4 DEF RoutinesBy
<1>6. f \in [items : PlainItems, routines : RoutinesBy(Keys)]
  BY <1>1, <1>2, <1>5
<1> QED
  BY <1>3, <1>4, <1>6 DEF SoundFile, f

(***************************************************************************)
(* A sound file is a whole one.                                            *)
(***************************************************************************)
LEMMA SoundFileIsFile ==
    ASSUME NEW f, SoundFile(f)
    PROVE  f \in File
<1>1. f \in [items : PlainItems, routines : RoutinesBy(Keys)]
  BY DEF SoundFile
<1>2. f.items \in [Items -> Objects \cup {Absent, Null}]
  BY <1>1 DEF PlainItems
<1>3. ASSUME NEW x \in [ref : Keys, large : {FALSE}, by : Sources]
      PROVE  x \in [ref : Names, large : BOOLEAN, by : Sources]
  <2>1. x = [ref |-> x.ref, large |-> FALSE, by |-> x.by] /\ x.ref \in Keys /\ x.by \in Sources
    BY <1>3, ReplaceRef
  <2>2. x.ref \in Names
    BY <2>1 DEF Keys, Names
  <2> QED
    BY <2>1, <2>2
<1>4. f.routines \in [Routines -> [ref : Names, large : BOOLEAN, by : Sources] \cup {Absent}]
  BY <1>1, <1>3 DEF RoutinesBy
<1> QED
  BY <1>1, <1>2, <1>4 DEF File

(***************************************************************************)
(* What a write that ends half-way leaves is no file, the file that was    *)
(* there, or a sound one: routines come last.                              *)
(***************************************************************************)
LEMMA PartialIsSound ==
    ASSUME NEW data, SoundFile(data), NEW f \in Partial(data)
    PROVE  f = Broken \/ f = file \/ SoundFile(f)
<1> SUFFICES ASSUME NEW p \in Prefixes PROVE SoundFile(Cut(data, p))
  BY DEF Partial
<1> DEFINE c == Cut(data, p)
<1>1. data.items \in PlainItems /\ data.routines \in RoutinesBy(Keys)
  BY DEF SoundFile
<1>2. /\ c.items = [i \in Items |-> IF i \in p.items THEN data.items[i] ELSE Absent]
      /\ c.routines = [r \in Routines |-> IF r \in p.routines THEN data.routines[r] ELSE Absent]
      /\ c = [items |-> c.items, routines |-> c.routines]
  BY DEF Cut
<1> HIDE DEF c
<1>3. c.items \in PlainItems
  BY <1>1, <1>2 DEF PlainItems
<1>4. c.routines \in RoutinesBy(Keys)
  BY <1>1, <1>2 DEF RoutinesBy
<1>5. ASSUME NEW r \in Routines, c.routines[r] # Absent PROVE Named(c.items, c.routines[r].ref)
  <2>1. r \in p.routines /\ c.routines[r] = data.routines[r] /\ data.routines[r] # Absent
    BY <1>2, <1>5
  <2>2. p.items = Items
    BY <2>1 DEF Prefixes
  <2>3. \A i \in Items : c.items[i] = data.items[i]
    BY <1>2, <2>2
  <2>4. Named(data.items, data.routines[r].ref) /\ data.routines[r].ref \in Keys
    BY <1>1, <2>1 DEF SoundFile, RoutinesBy
  <2> QED
    BY <2>1, <2>3, <2>4 DEF Named, Keys, Items
<1> QED
  BY <1>2, <1>3, <1>4, <1>5 DEF SoundFile, c

(***************************************************************************)
(* A sound file passes the checks of Load: every name a routine mentions is *)
(* defined in it and no routine asks for more scans than its cluster allows. *)
(***************************************************************************)
LEMMA SoundFileLoads ==
    ASSUME NEW f, SoundFile(f)
    PROVE  Loadable(f)
<1>1. ASSUME NEW s \in Storages PROVE f.items[s] # Null /\ Trait(f.items[s]) # "pathless"
  BY ConfigurationAssumption DEF SoundFile, PlainItems, Items, Trait
<1>2. ASSUME NEW r \in Routines, f.routines[r] # Absent
      PROVE  Resolvable(f, f.routines[r].ref, f.routines[r].large)
  <2>1. f.routines[r].ref \in Keys /\ f.routines[r].large = FALSE
    BY <1>2 DEF SoundFile, RoutinesBy
  <2>2. Named(f.items, f.routines[r].ref)
    BY <1>2 DEF SoundFile
  <2> QED
    BY <2>1, <2>2 DEF Resolvable, Named, Keys
<1>3. f # Broken
  BY SoundFileIsFile, ConfigurationAssumption
<1> QED
  BY <1>1, <1>2, <1>3 DEF Loadable

(***************************************************************************)
(* A routine that is loaded: its names became pointers to the items.       *)
(***************************************************************************)
LEMMA RoutineIsLoaded ==
    ASSUME NEW f, SoundFile(f), NEW r \in Routines
    PROVE  /\ f.routines[r] = Absent => Loaded(f).routines[r] = Absent
           /\ f.routines[r] # Absent =>
                /\ Loaded(f).routines[r] =
                     [ref |-> Resolve(f, f.routines[r].ref), large |-> FALSE, by |-> f.routines[r].by]
                /\ Resolve(f, f.routines[r].ref) \in Pointers
                /\ Refers(f.items, Resolve(f, f.routines[r].ref))
<1>1. f.routines[r] = Absent => Loaded(f).routines[r] = Absent
  BY DEF Loaded
<1>2. ASSUME f.routines[r] # Absent
      PROVE  /\ Loaded(f).routines[r] =
                  [ref |-> Resolve(f, f.routines[r].ref), large |-> FALSE, by |-> f.routines[r].by]
             /\ Resolve(f, f.routines[r].ref) \in Pointers
             /\ Refers(f.items, Resolve(f, f.routines[r].ref))
  <2> DEFINE x == f.routines[r]
             ref == Resolve(f, x.ref)
  <2>1. Loaded(f).routines[r] = [x EXCEPT !.ref = ref]
    BY <1>2 DEF Loaded
  <2>2. x \in [ref : Keys, large : {FALSE}, by : Sources] /\ Named(f.items, x.ref)
    BY <1>2 DEF SoundFile, RoutinesBy
  <2>3. x = [ref |-> x.ref, large |-> x.large, by |-> x.by] /\ x.large = FALSE /\ x.ref \in Keys
    BY <2>2
  <2>4. /\ ref.cluster = f.items[x.ref.cluster] /\ ref.storage = f.items[x.ref.storage]
        /\ ref.policy = f.items[x.ref.policy]
        /\ ref = [cluster |-> ref.cluster, storage |-> ref.storage, policy |-> ref.policy]
    BY DEF Resolve
  <2>5. /\ x.ref.cluster \in Clusters /\ x.ref.storage \in Storages /\ x.ref.policy \in Policies
        /\ x.ref.cluster \in Items /\ x.ref.storage \in Items /\ x.ref.policy \in Items
    BY <2>3 DEF Keys, Items
  <2> HIDE DEF x, ref
  <2>6. [x EXCEPT !.ref = ref] = [ref |-> ref, large |-> FALSE, by |-> x.by]
    BY <2>2, ReplaceRef
  <2>7. /\ \A i \in Items : f.items[i] \in Objects \cup {Absent}
        /\ \A i \in Items : f.items[i] # Absent => f.items[i].item = i
    BY DEF SoundFile, PlainItems
  <2>8. ref \in Pointers
    BY <2>2, <2>4, <2>5, <2>7 DEF Named, Pointers
  <2>9. Refers(f.items, ref)
    BY <2>2, <2>4, <2>5, <2>7 DEF Named, Refers
  <2> QED
    BY <2>1, <2>6, <2>8, <2>9 DEF x, ref
<1> QED
  BY <1>1, <1>2

(***************************************************************************)
(* What Load builds from a sound file is a sound configuration.            *)
(***************************************************************************)
LEMMA LoadedIsSound ==
    ASSUME NEW f, SoundFile(f)
    PROVE  Sound(Loaded(f))
<1> DEFINE c == Loaded(f)
<1>1. c = [items |-> c.items, routines |-> c.routines] /\ c.items = f.items
      /\ c.routines = [r \in Routines |-> c.routines[r]]
  BY DEF Loaded
<1>2. f.items \in PlainItems
  BY DEF SoundFile
<1>3. ASSUME NEW r \in Routines, f.routines[r] # Absent
      PROVE  /\ c.routines[r] \in [ref : Pointers, large : {FALSE}, by : Sources]
             /\ Refers(c.items, c.routines[r].ref)
  <2>1. f.routines[r].by \in Sources
    BY <1>3 DEF SoundFile, RoutinesBy
  <2> DEFINE ref == Resolve(f, f.routines[r].ref)
             by == f.routines[r].by
  <2>2. c.routines[r] = [ref |-> ref, large |-> FALSE, by |-> by]
        /\ ref \in Pointers /\ Refers(f.items, ref)
    BY <1>3, RoutineIsLoaded
  <2>3. by \in Sources
    BY <2>1
  <2> HIDE DEF c, ref, by
  <2>4. c.routines[r] \in [ref : Pointers, large : {FALSE}, by : Sources] /\ c.routines[r].ref = ref
    BY <2>2, <2>3, RoutineOf
  <2> QED
    BY <1>1, <2>2, <2>4
<1>4. ASSUME NEW r \in Routines, f.routines[r] = Absent PROVE c.routines[r] = Absent
  BY <1>4, RoutineIsLoaded
<1> HIDE DEF c
<1>5. c.routines \in RoutinesBy(Pointers)
  BY <1>1, <1>3, <1>4 DEF RoutinesBy
<1>6. c \in [items : PlainItems, routines : RoutinesBy(Pointers)]
  BY <1>1, <1>2, <1>5
<1> QED
  BY <1>3, <1>4, <1>6 DEF Sound, c

(***************************************************************************)
(* Loading what was written gives the same configuration ...               *)
(***************************************************************************)
LEMMA LoadedSerialized ==
    ASSUME NEW c, Sound(c)
    PROVE  Loaded(Serialized(c)) = c
<1> DEFINE f == Serialized(c)
<1>1. SoundFile(f) /\ f.items = c.items
  BY SerializedIsSound, ItemsAreWritten DEF Sound
<1>2. Loaded(f).items = f.items /\ Loaded(f).routines = [r \in Routines |-> Loaded(f).routines[r]]
      /\ Loaded(f) = [items |-> Loaded(f).items, routines |-> Loaded(f).routines]
  BY DEF Loaded
<1>3. ASSUME NEW r \in Routines, c.routines[r] # Absent
      PROVE  Loaded(f).routines[r] = c.routines[r]
  <2> DEFINE x == c.routines[r]
             names == [cluster |-> x.ref.cluster.item, storage |-> x.ref.storage.item,
                       policy |-> x.ref.policy.item]
  <2>1. f.routines[r] = [ref |-> names, large |-> FALSE, by |-> x.by]
    BY <1>3, RoutineIsWritten
  <2>2. x \in [ref : Pointers, large : {FALSE}, by : Sources]
    BY <1>3 DEF Sound, RoutinesBy
  <2>3. f.routines[r] # Absent /\ f.routines[r].ref = names /\ f.routines[r].by = x.by
    <3>1. f.routines[r] \in [ref : Keys, large : {FALSE}, by : Sources] \cup {Absent}
      BY <1>1 DEF SoundFile, RoutinesBy
    <3>2. names \in Keys
      BY <1>3, KeysOfRoutine DEF Keys
    <3>3. x.by \in Sources
      BY <2>2
    <3>4. [ref |-> names, large |-> FALSE, by |-> x.by] \in [ref : Names, large : BOOLEAN, by : Sources]
      <4>1. names \in Names
        BY <3>2 DEF Keys, Names
      <4> HIDE DEF names, x
      <4> QED
        BY <4>1, <3>3
    <3> HIDE DEF names, x, f
    <3>5. f.routines[r] # Absent
      BY <2>1, <3>4, ConfigurationAssumption
    <3> QED
      BY <2>1, <3>5
  <2>4. Loaded(f).routines[r] = [ref |-> Resolve(f, names), large |-> FALSE, by |-> x.by]
    BY <1>1, <2>3, RoutineIsLoaded
  <2>5. Resolve(f, names) = x.ref
    <3>1. Resolve(f, names) = [cluster |-> f.items[x.ref.cluster.item],
                               storage |-> f.items[x.ref.storage.item],
                               policy |-> f.items[x.ref.policy.item]]
      BY DEF Resolve
    <3>2. Resolve(f, names) =
            [cluster |-> x.ref.cluster, storage |-> x.ref.storage, policy |-> x.ref.policy]
      <4>1. /\ f.items[x.ref.cluster.item] = x.ref.cluster
            /\ f.items[x.ref.storage.item] = x.ref.storage
            /\ f.items[x.ref.policy.item] = x.ref.policy
        BY <1>1, <1>3, KeysOfRoutine, SMTT(30)
      <4> QED
        BY <3>1, <4>1, Zenon
    <3>3. x.ref \in Pointers
      BY <2>2
    <3> QED
      BY <3>2, <3>3 DEF Pointers
  <2>6. x = [ref |-> x.ref, large |-> FALSE, by |-> x.by]
    BY <2>2
  <2> QED
    BY <2>4, <2>5, <2>6
<1>4. ASSUME NEW r \in Routines, c.routines[r] = Absent
      PROVE  Loaded(f).routines[r] = c.routines[r]
  BY <1>1, <1>4, RoutineIsWritten, RoutineIsLoaded
<1>5. c = [items |-> c.items, routines |-> c.routines] /\ c.routines = [r \in Routines |-> c.routines[r]]
  BY DEF Sound, RoutinesBy
<1> HIDE DEF f
<1> QED
  BY <1>1, <1>2, <1>3, <1>4, <1>5 DEF f

(***************************************************************************)
(* ... and writing what was loaded gives the same file.                    *)
(***************************************************************************)
LEMMA SerializedLoaded ==
    ASSUME NEW f, SoundFile(f)
    PROVE  Serialized(Loaded(f)) = f
<1> DEFINE c == Loaded(f)
<1>1. Sound(c) /\ c.items = f.items /\ Serialized(c).items = f.items
  BY LoadedIsSound, ItemsAreWritten DEF Sound, Loaded
<1>2. Serialized(c) = [items |-> Serialized(c).items, routines |-> Serialized(c).routines]
      /\ Serialized(c).routines = [r \in Routines |-> Serialized(c).routines[r]]
  BY DEF Serialized
<1>3. ASSUME NEW r \in Routines, f.routines[r] # Absent
      PROVE  Serialized(c).routines[r] = f.routines[r]
  <2> DEFINE x == f.routines[r]
             ref == Resolve(f, x.ref)
  <2>1. c.routines[r] = [ref |-> ref, large |-> FALSE, by |-> x.by]
        /\ ref \in Pointers /\ Refers(f.items, ref)
    BY <1>3, RoutineIsLoaded
  <2>2. x \in [ref : Keys, large : {FALSE}, by : Sources] /\ Named(f.items, x.ref)
    BY <1>3 DEF SoundFile, RoutinesBy
  <2>3. c.routines[r] # Absent /\ c.routines[r].ref = ref /\ c.routines[r].by = x.by
    <3>1. ref \in Refs
      BY <2>1 DEF Pointers, Refs
    <3>2. x.by \in Sources
      BY <2>2
    <3> HIDE DEF ref, x, c
    <3>3. [ref |-> ref, large |-> FALSE, by |-> x.by] \in [ref : Refs, large : BOOLEAN, by : Sources]
      BY <3>1, <3>2
    <3>4. c.routines[r] # Absent
      BY <2>1, <3>3, ConfigurationAssumption
    <3> QED
      BY <2>1, <3>4
  <2>4. Serialized(c).routines[r] =
          [ref |-> [cluster |-> ref.cluster.item, storage |-> ref.storage.item,
                    policy |-> ref.policy.item], large |-> FALSE, by |-> x.by]
    <3> HIDE DEF c
    <3> QED
      BY <1>1, <2>3, RoutineIsWritten
  <2>5. x.ref \in Keys /\ x.large = FALSE /\ x = [ref |-> x.ref, large |-> x.large, by |-> x.by]
    BY <2>2
  <2>6. /\ ref.cluster = f.items[x.ref.cluster] /\ ref.storage = f.items[x.ref.storage]
        /\ ref.policy = f.items[x.ref.policy]
    BY DEF Resolve
  <2>7. /\ x.ref.cluster \in Items /\ x.ref.storage \in Items /\ x.ref.policy \in Items
        /\ x.ref = [cluster |-> x.ref.cluster, storage |-> x.ref.storage, policy |-> x.ref.policy]
    BY <2>5 DEF Keys, Items
  <2>8. \A i \in Items : f.items[i] # Absent => f.items[i].item = i
    BY DEF SoundFile, PlainItems
  <2> HIDE DEF x, ref, c
  <2>9. /\ ref.cluster.item = x.ref.cluster /\ ref.storage.item = x.ref.storage
        /\ ref.policy.item = x.ref.policy
    BY <2>2, <2>6, <2>7, <2>8 DEF Named
  <2> QED
    BY <2>4, <2>5, <2>7, <2>9 DEF x
<1>4. ASSUME NEW r \in Routines, f.routines[r] = Absent
      PROVE  Serialized(c).routines[r] = f.routines[r]
  <2>1. c.routines[r] = Absent
    BY <1>4, RoutineIsLoaded
  <2> HIDE DEF c
  <2> QED
    BY <1>1, <1>4, <2>1, RoutineIsWritten
<1>5. f = [items |-> f.items, routines |-> f.routines] /\ f.routines = [r \in Routines |-> f.routines[r]]
  BY DEF SoundFile, RoutinesBy
<1> HIDE DEF c
<1> QED
  BY <1>1, <1>2, <1>3, <1>4, <1>5 DEF c

-----------------------------------------------------------------------------
(* Changes of a sound configuration *)

(***************************************************************************)
(* The plain version of an item that a request brings is an object of it.  *)
(***************************************************************************)
LEMMA PlainVersion ==
    ASSUME NEW q \in Requests, NEW i \in Items
    PROVE  /\ Version(q, i, "plain") \in Objects /\ Version(q, i, "plain") # Absent
           /\ Version(q, i, "plain").item = i /\ Version(q, i, "plain").trait = "plain"
<1>1. Version(q, i, "plain") \in Objects
  BY DEF Version, Objects, Traits, Sources
<1> QED
  BY <1>1, ConfigurationAssumption DEF Version

(***************************************************************************)
(* An empty file, or one of the whole configuration of a request, is sound.*)
(***************************************************************************)
LEMMA TruncatedIsSound == SoundFile(Truncated) /\ Sound(Truncated)
BY DEF SoundFile, Sound, Truncated, PlainItems, RoutinesBy

(***************************************************************************)
(* A configuration that a request brings whole is sound.                   *)
(***************************************************************************)
LEMMA WholeIsSound ==
    ASSUME NEW q \in Sources, NEW R \in SUBSET Routines
    PROVE  Sound(Whole(q, R))
<1> DEFINE names == [cluster |-> CHOOSE i \in Clusters : TRUE, storage |-> CHOOSE i \in Storages : TRUE,
                     policy |-> CHOOSE i \in Policies : TRUE]
           x == [ref |-> names, large |-> FALSE, by |-> q]
           items == [i \in Items |-> Version(q, i, "plain")]
           f == [items |-> items, routines |-> [r \in Routines |-> IF r \notin R THEN Absent ELSE x]]
<1>1. names \in Keys
  <2>1. /\ (CHOOSE i \in Clusters : TRUE) \in Clusters /\ (CHOOSE i \in Storages : TRUE) \in Storages
        /\ (CHOOSE i \in Policies : TRUE) \in Policies
    BY ConfigurationAssumption, Zenon
  <2> QED
    BY <2>1 DEF Keys
<1>2. ASSUME NEW i \in Items
      PROVE  Version(q, i, "plain") \in Objects /\ Version(q, i, "plain").item = i
             /\ Version(q, i, "plain").trait = "plain" /\ Version(q, i, "plain") # Absent
  <2>1. Version(q, i, "plain") \in Objects
    BY DEF Version, Objects, Traits
  <2> QED
    BY <2>1, ConfigurationAssumption DEF Version
<1>3. items \in PlainItems
  BY <1>2 DEF PlainItems
<1>4. Named(items, names)
  <2>1. names.cluster \in Items /\ names.storage \in Items /\ names.policy \in Items
    BY <1>1 DEF Keys, Items
  <2> HIDE DEF names
  <2> QED
    BY <1>2, <2>1 DEF Named
<1> HIDE DEF names, items
<1>5. x \in [ref : Keys, large : {FALSE}, by : Sources] /\ x.ref = names
  BY <1>1, RoutineOf
<1> HIDE DEF x
<1>6. f.routines \in RoutinesBy(Keys)
  BY <1>5 DEF RoutinesBy
<1>7. SoundFile(f)
  BY <1>3, <1>4, <1>5, <1>6 DEF SoundFile
<1>8. Whole(q, R) = Loaded(f)
  BY Zenon DEF Whole, f, x, names, items
<1> QED
  BY <1>7, <1>8, LoadedIsSound

(***************************************************************************)
(* A routine whose pointers refer to the items is put or taken out.        *)
(***************************************************************************)
LEMMA PutIsSound ==
    ASSUME NEW c, Sound(c), NEW r \in Routines, NEW x,
           x = Absent \/ (x \in [ref : Pointers, large : {FALSE}, by : Sources] /\ Refers(c.items, x.ref))
    PROVE  Sound([c EXCEPT !.routines[r] = x])
<1> DEFINE d == [c EXCEPT !.routines[r] = x]
<1>1. c \in [items : PlainItems, routines : RoutinesBy(Pointers)]
  BY DEF Sound
<1>2. d.items = c.items /\ d.routines = [c.routines EXCEPT ![r] = x]
      /\ d = [items |-> d.items, routines |-> d.routines]
  BY <1>1
<1> HIDE DEF d
<1>3. d.routines \in RoutinesBy(Pointers)
  BY <1>1, <1>2 DEF RoutinesBy
<1>4. ASSUME NEW k \in Routines, d.routines[k] # Absent PROVE Refers(d.items, d.routines[k].ref)
  BY <1>1, <1>2, <1>4 DEF Sound, RoutinesBy
<1>5. d \in [items : PlainItems, routines : RoutinesBy(Pointers)]
  BY <1>1, <1>2, <1>3
<1> QED
  BY <1>4, <1>5 DEF Sound, d

(***************************************************************************)
(* An item that no pointer of ref is to is added, or taken out.            *)
(***************************************************************************)
LEMMA SetItemRefers ==
    ASSUME NEW items \in PlainItems, NEW i \in Items, NEW object,
           NEW ref \in Pointers, Refers(items, ref),
           items[i] \notin {ref.cluster, ref.storage, ref.policy}
    PROVE  Refers([items EXCEPT ![i] = object], ref)
BY DEF Refers, PlainItems, Items

(***************************************************************************)
(* Replacing an item by another sound version of it keeps a configuration  *)
(* sound.                                                                  *)
(***************************************************************************)
LEMMA SetItemIsSound ==
    ASSUME NEW c, Sound(c), NEW i \in Items, NEW object,
           object = Absent \/ (object \in Objects /\ object.item = i /\ object.trait = "plain"),
           \A r \in Routines : ~Uses(c.routines[r], c.items[i])
    PROVE  Sound([c EXCEPT !.items[i] = object])
<1> DEFINE d == [c EXCEPT !.items[i] = object]
<1>1. c \in [items : PlainItems, routines : RoutinesBy(Pointers)]
  BY DEF Sound
<1>2. d.items = [c.items EXCEPT ![i] = object] /\ d.routines = c.routines
      /\ d = [items |-> d.items, routines |-> d.routines]
  BY <1>1
<1> HIDE DEF d
<1>3. d.items \in PlainItems
  BY <1>1, <1>2 DEF PlainItems
<1>4. ASSUME NEW r \in Routines, d.routines[r] # Absent PROVE Refers(d.items, d.routines[r].ref)
  <2> DEFINE ref == c.routines[r].ref
  <2>1. ref \in Pointers /\ Refers(c.items, ref)
    BY <1>2, <1>4 DEF Sound, RoutinesBy
  <2>2. c.items[i] \notin {ref.cluster, ref.storage, ref.policy}
    BY <1>2, <1>4 DEF Uses
  <2>3. c.items \in PlainItems
    BY <1>1
  <2> HIDE DEF ref
  <2>4. Refers(d.items, ref)
    BY <1>2, <2>1, <2>2, <2>3, SetItemRefers
  <2> QED
    BY <1>2, <2>4 DEF ref
<1>5. d \in [items : PlainItems, routines : RoutinesBy(Pointers)]
  BY <1>1, <1>2, <1>3
<1> QED
  BY <1>4, <1>5 DEF Sound, d

(***************************************************************************)
(* No pointer is to an item that is absent.                                *)
(***************************************************************************)
LEMMA AbsentIsUnused ==
    ASSUME NEW c, Sound(c), NEW r \in Routines
    PROVE  ~Uses(c.routines[r], Absent)
BY KeysOfRoutine DEF Uses

(***************************************************************************)
(* An item is replaced, and with it every pointer to it.                   *)
(***************************************************************************)
LEMMA UpdateIsSound ==
    ASSUME NEW c, Sound(c), NEW i \in Items, c.items[i] # Absent,
           NEW object \in Objects, object.item = i, object.trait = "plain"
    PROVE  Sound([items    |-> [c.items EXCEPT ![i] = object],
                  routines |-> [r \in Routines |-> Repoint(c.routines[r], c.items[i], object)]])
<1> DEFINE items == [c.items EXCEPT ![i] = object]
           routines == [r \in Routines |-> Repoint(c.routines[r], c.items[i], object)]
           d == [items |-> items, routines |-> routines]
<1>1. c.items \in PlainItems /\ c.routines \in RoutinesBy(Pointers)
  BY DEF Sound
<1>2. items \in PlainItems
  BY <1>1 DEF PlainItems
<1>3. ASSUME NEW r \in Routines, c.routines[r] # Absent
      PROVE  /\ routines[r] \in [ref : Pointers, large : {FALSE}, by : Sources]
             /\ Refers(items, routines[r].ref)
  <2> DEFINE x == c.routines[r]
             new == [k \in DOMAIN x.ref |-> IF x.ref[k] = c.items[i] THEN object ELSE x.ref[k]]
  <2>1. x \in [ref : Pointers, large : {FALSE}, by : Sources] /\ Refers(c.items, x.ref)
    BY <1>3 DEF Sound, RoutinesBy
  <2>2. routines[r] = [x EXCEPT !.ref = new]
    BY <1>3 DEF Repoint
  <2>3. x.ref \in Pointers /\ DOMAIN x.ref = {"cluster", "storage", "policy"}
    BY <2>1 DEF Pointers
  <2> HIDE DEF x, routines
  <2>4. /\ new.cluster = (IF x.ref.cluster = c.items[i] THEN object ELSE x.ref.cluster)
        /\ new.storage = (IF x.ref.storage = c.items[i] THEN object ELSE x.ref.storage)
        /\ new.policy = (IF x.ref.policy = c.items[i] THEN object ELSE x.ref.policy)
        /\ new = [cluster |-> new.cluster, storage |-> new.storage, policy |-> new.policy]
    BY <2>3
  <2> HIDE DEF new
  <2>5. /\ x.ref.cluster \in Objects /\ x.ref.storage \in Objects /\ x.ref.policy \in Objects
    BY <2>3 DEF Pointers
  <2>6. new \in Pointers
    BY <2>4, <2>5 DEF Pointers
  <2>7. Refers(items, new)
    <3>1. /\ x.ref.cluster.item \in Clusters /\ c.items[x.ref.cluster.item] = x.ref.cluster
          /\ x.ref.storage.item \in Storages /\ c.items[x.ref.storage.item] = x.ref.storage
          /\ x.ref.policy.item \in Policies /\ c.items[x.ref.policy.item] = x.ref.policy
      BY <2>1 DEF Refers
    <3>2. c.items[i].item = i
      BY <1>1 DEF PlainItems
    <3>3. DOMAIN c.items = Items
      BY <1>1 DEF PlainItems
    <3>4. new.cluster.item \in Clusters /\ items[new.cluster.item] = new.cluster
      BY <2>4, <3>1, <3>2, <3>3 DEF Items
    <3>5. new.storage.item \in Storages /\ items[new.storage.item] = new.storage
      BY <2>4, <3>1, <3>2, <3>3 DEF Items
    <3>6. new.policy.item \in Policies /\ items[new.policy.item] = new.policy
      BY <2>4, <3>1, <3>2, <3>3 DEF Items
    <3> QED
      BY <3>4, <3>5, <3>6 DEF Refers
  <2>8. routines[r] = [ref |-> new, large |-> FALSE, by |-> x.by] /\ x.by \in Sources
    BY <2>1, <2>2, ReplaceRef
  <2> HIDE DEF items
  <2> QED
    BY <2>6, <2>7, <2>8, RoutineOf
<1>4. ASSUME NEW r \in Routines, c.routines[r] = Absent PROVE routines[r] = Absent
  BY <1>4 DEF Repoint
<1>5. routines = [r \in Routines |-> routines[r]]
  OBVIOUS
<1> HIDE DEF items, routines
<1>6. routines \in RoutinesBy(Pointers)
  BY <1>3, <1>4, <1>5 DEF RoutinesBy
<1>7. Sound(d)
  BY <1>2, <1>3, <1>4, <1>6 DEF Sound
<1> QED
  BY <1>7 DEF items, routines

-----------------------------------------------------------------------------
(* Steps *)

(***************************************************************************)
(* A request is answered that was not about to write the file, or is taken *)
(* up to apply the configuration.                                          *)
(***************************************************************************)
LEMMA AnswerKeepsInv ==
    ASSUME ConfigInv, NEW q \in Requests, NEW answer,
           request[q].step \notin {"changed", "writing"},
           \/ answer.step \in {"new", "ok", "failed"}
           \/ answer.step = "applying" /\ answer.op = "apply",
           request' = [request EXCEPT ![q] = answer],
           UNCHANGED <<configs, current, file, unsaved, crashes>>
    PROVE  ConfigInv'
<1>1. /\ configs' = configs /\ current' = current /\ file' = file /\ unsaved' = unsaved
      /\ config' = config
  BY DEF config
<1>2. request' = [p \in Requests |-> request'[p]] /\ request'[q] = answer
      /\ \A p \in Requests \ {q} : request'[p] = request[p]
  BY DEF ConfigInv
<1>3. \A p \in Requests : SoundRequest(p)'
  <2> SUFFICES ASSUME NEW p \in Requests PROVE SoundRequest(p)'
    OBVIOUS
  <2>1. CASE p = q
    BY <1>2, <2>1 DEF SoundRequest
  <2>2. CASE p # q
    BY <1>1, <1>2, <2>2 DEF ConfigInv, SoundRequest
  <2> QED
    BY <2>1, <2>2
<1>4. /\ answer.step # "writing"
      /\ \A p \in Requests : Writing(p)' <=> Writing(p)
      /\ \A p \in Requests : request'[p].step = "changed" <=> request[p].step = "changed"
      /\ \A p \in Requests : Writing(p) => request'[p] = request[p]
  BY <1>2 DEF Writing
<1>5. Serialized(config)' = Serialized(config)
  BY <1>1 DEF Serialized, KeyOf, Trait
<1>6. Saved'
  BY <1>1, <1>4, <1>5 DEF ConfigInv, Saved
<1> QED
  BY <1>1, <1>2, <1>3, <1>4, <1>6 DEF ConfigInv

(***************************************************************************)
(* The maps of the current configuration were changed: what was resolved   *)
(* before still refers to them.                                            *)
(***************************************************************************)
LEMMA ChangeKeepsInv ==
    ASSUME ConfigInv, NEW q \in Requests, NEW op \in Changes \cup Puts, NEW c, Sound(c),
           ~Writing(q), Change(q, op, c),
           \A p \in Requests \ {q} : request[p].step = "resolved" => Refers(c.items, request[p].to.ref)
    PROVE  ConfigInv'
<1>1. /\ configs' = [configs EXCEPT ![current] = c] /\ current' = current /\ file' = file
      /\ unsaved' = unsaved
  BY DEF Change
<1>2. current \in Sources /\ DOMAIN configs = Sources
  BY DEF ConfigInv
<1>3. config' = c /\ \A s \in Sources : Sound(configs'[s])
  BY <1>1, <1>2 DEF ConfigInv, config
<1>4. request' = [p \in Requests |-> request'[p]]
      /\ request'[q] = [op |-> op, step |-> "changed", argument |-> {current}]
      /\ \A p \in Requests \ {q} : request'[p] = request[p]
  BY DEF ConfigInv, Change
<1>5. \A p \in Requests : SoundRequest(p)'
  <2> SUFFICES ASSUME NEW p \in Requests PROVE SoundRequest(p)'
    OBVIOUS
  <2>1. CASE p = q
    <3>1. request'[p].step = "changed" /\ request'[p].op = op /\ request'[p].argument = {current'}
      BY <1>1, <1>4, <2>1
    <3> QED
      BY <3>1 DEF SoundRequest
  <2>2. CASE p # q
    <3>1. SoundRequest(p) /\ request'[p] = request[p]
      BY <1>4, <2>2 DEF ConfigInv
    <3>2. request[p].step = "resolved" => Refers(config'.items, request[p].to.ref)
      BY <1>3, <2>2
    <3> HIDE DEF config
    <3> QED
      BY <1>1, <3>1, <3>2 DEF SoundRequest
  <2> QED
    BY <2>1, <2>2
<1>6. Saved'
  BY <1>4 DEF Saved
<1>7. \A p \in Requests : Writing(p)' <=> Writing(p)
  BY <1>4 DEF Writing
<1>8. configs' = [s \in Sources |-> configs'[s]]
  BY <1>1, <1>2 DEF ConfigInv
<1> QED
  BY <1>1, <1>2, <1>3, <1>4, <1>5, <1>6, <1>7, <1>8 DEF ConfigInv

(***************************************************************************)
(* No routine is about to be put while a request runs that changes items.  *)
(***************************************************************************)
LEMMA NoneResolved ==
    ASSUME ConfigInv, Careful, NEW q \in Requests,
           NEW op \in {"update", "delete", "updateConfig"}, MayStart(q, op)
    PROVE  /\ \A p \in Requests : request[p].step # "resolved"
           /\ op = "updateConfig" => \A p \in Requests : request[p].step # "changed"
<1> SUFFICES ASSUME NEW p \in Requests
             PROVE  /\ request[p].step # "resolved"
                    /\ op = "updateConfig" => request[p].step # "changed"
  OBVIOUS
<1>1. InProgress(p) => {op, request[p].op} \notin Conflicts
  BY DEF MayStart
<1>2. request[p].step = "resolved" => request[p].op \in Puts /\ InProgress(p)
  BY DEF ConfigInv, SoundRequest, InProgress
<1>3. request[p].step = "changed" => request[p].op \in Changes \cup Puts /\ InProgress(p)
  BY DEF ConfigInv, SoundRequest, InProgress
<1> QED
  BY <1>1, <1>2, <1>3 DEF Careful

(***************************************************************************)
(* A request that is rejected changes nothing but its own answer.          *)
(***************************************************************************)
LEMMA RejectKeepsInv ==
    ASSUME ConfigInv, NEW q \in Requests, NEW op, Reject(q, op)
    PROVE  ConfigInv'
<1>1. request[q].step = "new" /\ request' = [request EXCEPT ![q] = Answered("failed")]
      /\ UNCHANGED <<configs, current, file, unsaved, crashes>>
  BY DEF Reject, MayStart
<1>2. Answered("failed").step = "failed"
  BY DEF Answered
<1> QED
  BY <1>1, <1>2, AnswerKeepsInv

(***************************************************************************)
(* A GET only answers: memory and file stay as they are.                   *)
(***************************************************************************)
LEMMA ReadKeepsInv ==
    ASSUME ConfigInv, NEW q \in Requests, NEW found, Read(q, found)
    PROVE  ConfigInv'
<1> DEFINE answer == Answered(IF found THEN "ok" ELSE "failed")
<1>1. request[q].step = "new" /\ request' = [request EXCEPT ![q] = answer]
      /\ UNCHANGED <<configs, current, file, unsaved, crashes>>
  BY DEF Read, MayStart
<1>2. answer.step \in {"ok", "failed"}
  BY DEF Answered
<1> HIDE DEF answer
<1> QED
  BY <1>1, <1>2, AnswerKeepsInv

(***************************************************************************)
(* Adding a cluster, storage or policy keeps the invariant.                *)
(***************************************************************************)
LEMMA AddKeepsInv ==
    ASSUME ConfigInv, NEW q \in Requests, NEW i \in Items, Add(q, "add", i, Version(q, i, "plain"))
    PROVE  ConfigInv'
<1>1. CASE config.items[i] # Absent
  BY <1>1, RejectKeepsInv DEF Add
<1>2. CASE config.items[i] = Absent
  <2> DEFINE object == Version(q, i, "plain")
             c == [config EXCEPT !.items[i] = object]
  <2>1. Change(q, "add", c) /\ ~Writing(q)
    BY <1>2 DEF Add, MayStart, Writing
  <2>2. Sound(config)
    BY DEF ConfigInv, config
  <2>3. Sound(c)
    BY <1>2, <2>2, PlainVersion, SetItemIsSound, AbsentIsUnused
  <2>4. ASSUME NEW p \in Requests, request[p].step = "resolved"
        PROVE  Refers(c.items, request[p].to.ref)
    <3> DEFINE ref == request[p].to.ref
    <3>1. ref \in Pointers /\ Refers(config.items, ref)
      BY <2>4 DEF ConfigInv, SoundRequest
    <3>2. config.items[i] \notin {ref.cluster, ref.storage, ref.policy}
      BY <1>2, <3>1, ConfigurationAssumption DEF Pointers
    <3>3. config.items \in PlainItems /\ c.items = [config.items EXCEPT ![i] = object]
      BY <2>2 DEF Sound
    <3> HIDE DEF ref, c
    <3>4. Refers(c.items, ref)
      BY <3>1, <3>2, <3>3, SetItemRefers
    <3> QED
      BY <3>4 DEF ref
  <2> HIDE DEF c
  <2> QED
    BY <2>1, <2>3, <2>4, ChangeKeepsInv DEF Changes
<1> QED
  BY <1>1, <1>2

(***************************************************************************)
(* Deleting an item is refused while a routine uses it, so no pointer is   *)
(* left dangling.                                                          *)
(***************************************************************************)
LEMMA DeleteKeepsInv ==
    ASSUME ConfigInv, Careful, NEW q \in Requests, NEW i \in Items, Delete(q, "delete", i)
    PROVE  ConfigInv'
<1> DEFINE used == config.items[i] = Absent \/ \E r \in Routines : Uses(config.routines[r], config.items[i])
<1>1. CASE used
  BY <1>1, RejectKeepsInv DEF Delete
<1>2. CASE ~used
  <2> DEFINE c == [config EXCEPT !.items[i] = Absent]
  <2>1. MayStart(q, "delete") /\ Change(q, "delete", c)
    BY <1>2 DEF Delete
  <2>2. Sound(c)
    BY <1>2, SetItemIsSound DEF ConfigInv, config
  <2>3. \A p \in Requests : request[p].step # "resolved"
    BY <2>1, NoneResolved
  <2>4. ~Writing(q)
    BY <2>1 DEF MayStart, Writing
  <2> HIDE DEF c
  <2> QED
    BY <2>1, <2>2, <2>3, <2>4, ChangeKeepsInv DEF Changes
<1> QED
  BY <1>1, <1>2

(***************************************************************************)
(* Updating a cluster, storage or policy re-points the routines that use it. *)
(***************************************************************************)
LEMMA UpdateKeepsInv ==
    ASSUME ConfigInv, Careful, NEW q \in Requests, NEW i \in Items,
           Update(q, "update", i, Version(q, i, "plain"))
    PROVE  ConfigInv'
<1>1. CASE config.items[i] = Absent
  BY <1>1, RejectKeepsInv DEF Update
<1>2. CASE config.items[i] # Absent
  <2> DEFINE object == Version(q, i, "plain")
             c == [items    |-> [config.items EXCEPT ![i] = object],
                   routines |-> [r \in Routines |-> Repoint(config.routines[r], config.items[i], object)]]
  <2>1. MayStart(q, "update") /\ Change(q, "update", c)
    BY <1>2 DEF Update
  <2>2. Sound(config)
    BY DEF ConfigInv, config
  <2>3. Sound(c)
    BY <1>2, <2>2, PlainVersion, UpdateIsSound
  <2>4. \A p \in Requests : request[p].step # "resolved"
    BY <2>1, NoneResolved
  <2>5. ~Writing(q)
    BY <2>1 DEF MayStart, Writing
  <2> HIDE DEF c
  <2> QED
    BY <2>1, <2>3, <2>4, <2>5, ChangeKeepsInv DEF Changes
<1> QED
  BY <1>1, <1>2

(***************************************************************************)
(* addRoutine and updateRoutine resolve the names outside the mutex; with no *)
(* conflicting change in between, what they found is still current.        *)
(***************************************************************************)
LEMMA ResolveKeepsInv ==
    ASSUME ConfigInv, Careful, NEW q \in Requests, ResolveRoutine(q)
    PROVE  ConfigInv'
<1>1. PICK op \in Puts, r \in Routines, large \in Sizes, names \in Keys :
         IF Resolvable(config, names, large)
         THEN /\ MayStart(q, op)
              /\ request' = [request EXCEPT ![q] =
                   [op |-> op, step |-> "resolved", routine |-> r,
                    to |-> [ref |-> Resolve(config, names), large |-> large, by |-> q]]]
              /\ UNCHANGED <<configs, current, file, unsaved, crashes>>
         ELSE Reject(q, op)
  BY DEF ResolveRoutine, Puts, Keys
<1>2. CASE ~Resolvable(config, names, large)
  BY <1>1, <1>2, RejectKeepsInv
<1>3. CASE Resolvable(config, names, large)
  <2> DEFINE ref == Resolve(config, names)
             to == [ref |-> ref, large |-> large, by |-> q]
             answer == [op |-> op, step |-> "resolved", routine |-> r, to |-> to]
  <2>1. /\ MayStart(q, op) /\ request' = [request EXCEPT ![q] = answer]
        /\ UNCHANGED <<configs, current, file, unsaved, crashes>>
    BY <1>1, <1>3
  <2>2. large = FALSE
    BY Zenon DEF Sizes, Careful
  <2>3. /\ ref.cluster = config.items[names.cluster] /\ ref.storage = config.items[names.storage]
        /\ ref.policy = config.items[names.policy]
        /\ ref = [cluster |-> ref.cluster, storage |-> ref.storage, policy |-> ref.policy]
    BY DEF Resolve
  <2>4. /\ names.cluster \in Clusters /\ names.storage \in Storages /\ names.policy \in Policies
        /\ config.items[names.cluster] # Absent /\ config.items[names.storage] # Absent
        /\ config.items[names.policy] # Absent
    BY <1>3 DEF Resolvable
  <2>5. config.items \in PlainItems
    BY DEF ConfigInv, Sound, config
  <2> HIDE DEF ref
  <2>6. ref \in Pointers /\ Refers(config.items, ref)
    BY <2>3, <2>4, <2>5 DEF Pointers, Refers, PlainItems, Items
  <2>7. to \in [ref : Pointers, large : {FALSE}, by : Sources] /\ to.ref = ref
    BY <2>2, <2>6, RoutineOf DEF Sources
  <2> HIDE DEF to
  <2>8. /\ answer.op = op /\ answer.step = "resolved" /\ answer.routine = r /\ answer.to = to
    OBVIOUS
  <2> HIDE DEF answer
  <2>9. /\ request'[q] = answer /\ request' = [p \in Requests |-> request'[p]]
        /\ \A p \in Requests \ {q} : request'[p] = request[p]
    BY <2>1 DEF ConfigInv
  <2>10. /\ configs' = configs /\ current' = current /\ file' = file /\ unsaved' = unsaved
         /\ config' = config
    BY <2>1 DEF config
  <2>11. request[q].step = "new"
    BY <2>1 DEF MayStart
  <2>12. \A p \in Requests : SoundRequest(p)'
    <3> SUFFICES ASSUME NEW p \in Requests PROVE SoundRequest(p)'
      OBVIOUS
    <3> HIDE DEF config
    <3>1. CASE p = q
      BY <2>6, <2>7, <2>8, <2>9, <2>10, <3>1 DEF SoundRequest
    <3>2. CASE p # q
      BY <2>9, <2>10, <3>2 DEF ConfigInv, SoundRequest
    <3> QED
      BY <3>1, <3>2
  <2>13. /\ \A p \in Requests : Writing(p)' <=> Writing(p)
         /\ \A p \in Requests : request'[p].step = "changed" <=> request[p].step = "changed"
         /\ \A p \in Requests : Writing(p) => request'[p] = request[p]
    BY <2>8, <2>9, <2>11 DEF Writing
  <2>14. Serialized(config)' = Serialized(config)
    BY <2>10 DEF Serialized, KeyOf, Trait
  <2>15. Saved'
    BY <2>10, <2>13, <2>14 DEF ConfigInv, Saved
  <2> QED
    BY <2>9, <2>10, <2>12, <2>13, <2>15 DEF ConfigInv
<1> QED
  BY <1>2, <1>3

(***************************************************************************)
(* The items are those that the routines of requests were resolved with.   *)
(***************************************************************************)
LEMMA PutKeepsInv ==
    ASSUME ConfigInv, NEW q \in Requests, NEW op \in Puts, NEW accepted \in BOOLEAN,
           PutRoutine(q, op, accepted)
    PROVE  ConfigInv'
<1>1. request[q].step = "resolved" /\ ~Writing(q)
  BY DEF PutRoutine, Writing
<1>2. CASE accepted
  <2> DEFINE r == request[q].routine
             to == request[q].to
             c == [config EXCEPT !.routines[r] = to]
  <2>1. Change(q, op, c)
    BY <1>2 DEF PutRoutine
  <2>2. /\ r \in Routines /\ to \in [ref : Pointers, large : {FALSE}, by : Sources]
        /\ Refers(config.items, to.ref)
    BY <1>1 DEF ConfigInv, SoundRequest
  <2>3. Sound(config)
    BY DEF ConfigInv, config
  <2>4. c.items = config.items
    BY <2>3 DEF Sound
  <2> HIDE DEF r, to
  <2>5. Sound(c)
    BY <2>2, <2>3, PutIsSound
  <2>6. \A p \in Requests : request[p].step = "resolved" => Refers(c.items, request[p].to.ref)
    BY <2>4 DEF ConfigInv, SoundRequest
  <2> HIDE DEF c
  <2> QED
    BY <1>1, <2>1, <2>5, <2>6, ChangeKeepsInv
<1>3. CASE ~accepted
  <2>1. request' = [request EXCEPT ![q] = Answered("failed")]
        /\ UNCHANGED <<configs, current, file, unsaved, crashes>>
    BY <1>3 DEF PutRoutine
  <2>2. Answered("failed").step = "failed"
    BY DEF Answered
  <2> QED
    BY <1>1, <2>1, <2>2, AnswerKeepsInv
<1> QED
  BY <1>2, <1>3

(***************************************************************************)
(* Deleting a routine removes references and adds none.                    *)
(***************************************************************************)
LEMMA DeleteRoutineKeepsInv ==
    ASSUME ConfigInv, NEW q \in Requests, DeleteRoutine(q)
    PROVE  ConfigInv'
<1>1. PICK r \in Routines :
        IF config.routines[r] = Absent
        THEN Reject(q, "deleteRoutine")
        ELSE /\ MayStart(q, "deleteRoutine")
             /\ Change(q, "deleteRoutine", [config EXCEPT !.routines[r] = Absent])
  BY DEF DeleteRoutine
<1>2. CASE config.routines[r] = Absent
  BY <1>1, <1>2, RejectKeepsInv
<1>3. CASE config.routines[r] # Absent
  <2> DEFINE c == [config EXCEPT !.routines[r] = Absent]
  <2>1. Change(q, "deleteRoutine", c) /\ ~Writing(q)
    BY <1>1, <1>3 DEF MayStart, Writing
  <2>2. Sound(config)
    BY DEF ConfigInv, config
  <2>3. Sound(c)
    BY <2>2, PutIsSound
  <2>4. c.items = config.items
    BY <2>2 DEF Sound
  <2>5. \A p \in Requests : request[p].step = "resolved" => Refers(c.items, request[p].to.ref)
    BY <2>4 DEF ConfigInv, SoundRequest
  <2> HIDE DEF c
  <2> QED
    BY <2>1, <2>3, <2>5, ChangeKeepsInv DEF Changes
<1> QED
  BY <1>2, <1>3

(***************************************************************************)
(* A whole configuration comes while no other request changes anything.    *)
(***************************************************************************)
LEMMA UpdateConfigKeepsInv ==
    ASSUME ConfigInv, Careful, NEW q \in Requests, UpdateConfig(q)
    PROVE  ConfigInv'
<1>1. PICK R \in SUBSET Routines :
       /\ MayStart(q, "updateConfig")
       /\ configs' = [configs EXCEPT ![q] = Whole(q, R)]
       /\ current' = q
       /\ request' = [p \in Requests |->
            IF p = q THEN [op |-> "updateConfig", step |-> "changed", argument |-> {q}]
            ELSE IF request[p].step = "changed" THEN [request[p] EXCEPT !.argument = @ \cup {q}]
            ELSE request[p]]
       /\ UNCHANGED <<file, unsaved, crashes>>
  BY DEF UpdateConfig
<1>2. \A p \in Requests : request[p].step # "resolved" /\ request[p].step # "changed"
  BY <1>1, NoneResolved
<1>3. q \in Sources /\ Sound(Whole(q, R))
  BY WholeIsSound DEF Sources
<1>4. /\ configs' = [s \in Sources |-> configs'[s]] /\ \A s \in Sources : Sound(configs'[s])
      /\ current' \in Sources /\ file' = file
  BY <1>1, <1>3 DEF ConfigInv
<1>5. /\ request' = [p \in Requests |-> request'[p]]
      /\ request'[q] = [op |-> "updateConfig", step |-> "changed", argument |-> {q}]
      /\ \A p \in Requests \ {q} : request'[p] = request[p]
  BY <1>1, <1>2
<1>6. request[q].step = "new"
  BY <1>1 DEF MayStart
<1>7. \A p \in Requests : SoundRequest(p)'
  <2> SUFFICES ASSUME NEW p \in Requests PROVE SoundRequest(p)'
    OBVIOUS
  <2>1. CASE p = q
    <3>1. request'[p].step = "changed" /\ request'[p].op = "updateConfig"
          /\ request'[p].argument = {current'}
      BY <1>1, <1>5, <2>1
    <3> QED
      BY <3>1 DEF SoundRequest, Changes
  <2>2. CASE p # q
    <3>1. SoundRequest(p) /\ request'[p] = request[p]
      BY <1>5, <2>2 DEF ConfigInv
    <3> QED
      BY <1>2, <3>1 DEF SoundRequest
  <2> QED
    BY <2>1, <2>2
<1>8. \A p \in Requests : Writing(p)' => Writing(p)
  BY <1>5 DEF Writing
<1>9. Saved'
  BY <1>5 DEF Saved
<1> QED
  BY <1>4, <1>5, <1>7, <1>8, <1>9 DEF ConfigInv

(***************************************************************************)
(* The file manager begins to write: nobody else does, and what it writes  *)
(* is the current configuration.                                           *)
(***************************************************************************)
LEMMA WriteKeepsInv ==
    ASSUME ConfigInv, Careful, NEW q \in Requests, WriteConfiguration(q)
    PROVE  ConfigInv'
<1>1. request[q].step = "changed" /\ Manager = "file" /\ \A p \in Requests : ~Writing(p)
  BY DEF WriteConfiguration, Careful, Writing
<1>2. request[q].argument = {current} /\ request[q].op \in Changes \cup Puts
  BY <1>1 DEF ConfigInv, SoundRequest
<1> DEFINE data == Serialized(config)
           writing == [op |-> request[q].op, step |-> "writing", data |-> data]
<1>3. /\ request' = [request EXCEPT ![q] = writing] /\ file' = Truncated /\ unsaved' = FALSE
      /\ configs' = configs /\ current' = current
  BY <1>1, <1>2 DEF WriteConfiguration, config
<1>4. SoundFile(data)
  BY SerializedIsSound DEF ConfigInv, config
<1>5. Serialized(config)' = data
  BY <1>3 DEF Serialized, KeyOf, Trait, config
<1> HIDE DEF data
<1>6. writing.op = request[q].op /\ writing.step = "writing" /\ writing.data = data
  OBVIOUS
<1> HIDE DEF writing
<1>7. /\ request'[q] = writing /\ request' = [p \in Requests |-> request'[p]]
      /\ \A p \in Requests \ {q} : request'[p] = request[p]
  BY <1>3 DEF ConfigInv
<1>8. \A p \in Requests : SoundRequest(p)'
  <2> SUFFICES ASSUME NEW p \in Requests PROVE SoundRequest(p)'
    OBVIOUS
  <2>1. CASE p = q
    BY <1>2, <1>4, <1>6, <1>7, <2>1 DEF SoundRequest
  <2>2. CASE p # q
    BY <1>3, <1>7, <2>2 DEF ConfigInv, SoundRequest, config
  <2> QED
    BY <2>1, <2>2
<1>9. \A p \in Requests : Writing(p)' <=> p = q
  BY <1>1, <1>6, <1>7 DEF Writing
<1>10. Saved'
  BY <1>5, <1>6, <1>7, <1>9 DEF Saved
<1>11. SoundFile(file')
  BY <1>3, TruncatedIsSound
<1> QED
  BY <1>3, <1>7, <1>8, <1>9, <1>10, <1>11 DEF ConfigInv

(***************************************************************************)
(* The file is written in full: it holds what was serialized under the mutex. *)
(***************************************************************************)
LEMMA FinishKeepsInv ==
    ASSUME ConfigInv, Careful, NEW q \in Requests, FinishWrite(q)
    PROVE  ConfigInv'
<1>1. Writing(q) /\ SoundFile(request[q].data)
  BY DEF FinishWrite, Writing, ConfigInv, SoundRequest
<1>2. /\ file' = request[q].data /\ configs' = configs /\ current' = current
      /\ unsaved' = unsaved /\ config' = config
  BY DEF FinishWrite, Careful, config
<1>3. /\ request'[q].step = "ok" /\ request' = [p \in Requests |-> request'[p]]
      /\ \A p \in Requests \ {q} : request'[p] = request[p]
  BY DEF FinishWrite, ConfigInv, Answered
<1>4. \A p \in Requests : ~Writing(p)'
  BY <1>1, <1>3 DEF ConfigInv, Writing
<1>5. \A p \in Requests : SoundRequest(p)'
  <2> SUFFICES ASSUME NEW p \in Requests PROVE SoundRequest(p)'
    OBVIOUS
  <2>1. CASE p = q
    BY <1>3, <2>1 DEF SoundRequest
  <2>2. CASE p # q
    <3>1. SoundRequest(p) /\ request'[p] = request[p]
      BY <1>3, <2>2 DEF ConfigInv
    <3> HIDE DEF config
    <3> QED
      BY <1>2, <3>1 DEF SoundRequest
  <2> QED
    BY <2>1, <2>2
<1>6. Serialized(config)' = Serialized(config)
  BY <1>2 DEF Serialized, KeyOf, Trait
<1>7. Saved'
  <2>1. CASE unsaved
    BY <1>2, <2>1 DEF Saved
  <2>2. CASE \E p \in Requests : request[p].step = "changed"
    BY <1>1, <1>3, <2>2 DEF Saved, Writing
  <2>3. CASE \E p \in Requests : Writing(p) /\ request[p].data = Serialized(config)
    BY <1>1, <1>2, <1>4, <1>6, <2>3 DEF Saved, ConfigInv
  <2> QED
    BY <1>1, <2>1, <2>2, <2>3 DEF ConfigInv, Saved
<1> QED
  BY <1>1, <1>2, <1>3, <1>4, <1>5, <1>7 DEF ConfigInv

(***************************************************************************)
(* The file could not be written: memory keeps the change, unsaved.        *)
(***************************************************************************)
LEMMA FailKeepsInv ==
    ASSUME ConfigInv, NEW q \in Requests, FailWrite(q)
    PROVE  ConfigInv'
<1>1. /\ configs' = configs /\ current' = current /\ unsaved' = TRUE
      /\ config' = config
  BY DEF FailWrite, config
<1>6. file' = Broken \/ SoundFile(file')
  <2>1. request[q].step = "writing" => SoundFile(request[q].data)
    BY DEF ConfigInv, SoundRequest
  <2> QED
    BY <2>1, PartialIsSound, Zenon DEF FailWrite, ConfigInv
<1>2. /\ request'[q].step = "failed" /\ request' = [p \in Requests |-> request'[p]]
      /\ \A p \in Requests \ {q} : request'[p] = request[p]
  BY DEF FailWrite, ConfigInv, Answered
<1>3. \A p \in Requests : SoundRequest(p)'
  <2> SUFFICES ASSUME NEW p \in Requests PROVE SoundRequest(p)'
    OBVIOUS
  <2>1. CASE p = q
    BY <1>2, <2>1 DEF SoundRequest
  <2>2. CASE p # q
    <3>1. SoundRequest(p) /\ request'[p] = request[p]
      BY <1>2, <2>2 DEF ConfigInv
    <3> HIDE DEF config
    <3> QED
      BY <1>1, <3>1 DEF SoundRequest
  <2> QED
    BY <2>1, <2>2
<1>4. \A p \in Requests : Writing(p)' => Writing(p)
  BY <1>2 DEF Writing
<1>5. Saved'
  BY <1>1 DEF Saved
<1> QED
  BY <1>1, <1>2, <1>3, <1>4, <1>5, <1>6 DEF ConfigInv

(***************************************************************************)
(* After a restart the configuration is that of the file.                  *)
(***************************************************************************)
LEMMA RestartKeepsInv ==
    ASSUME ConfigInv, Restart
    PROVE  ConfigInv'
<1>1. /\ configs' = [s \in Sources |-> IF s = Initial THEN Loaded(file') ELSE Truncated]
      /\ current' = Initial /\ Loadable(file')
      /\ request' = [q \in Requests |-> IF InProgress(q) THEN Answered("failed") ELSE request[q]]
  BY DEF Restart
<1>10. SoundFile(file')
  <2>1. \A q \in Requests : request[q].step = "writing" => SoundFile(request[q].data)
    BY DEF ConfigInv, SoundRequest
  <2>2. file' = Broken \/ SoundFile(file')
    BY <2>1, PartialIsSound, Zenon DEF Restart, ConfigInv
  <2> QED
    BY <1>1, <2>2 DEF Loadable
<1>2. Initial \in Sources /\ config' = Loaded(file')
  BY <1>1 DEF Sources, config
<1>3. \A s \in Sources : Sound(configs'[s])
  BY <1>1, <1>10, LoadedIsSound, TruncatedIsSound
<1>4. \A q \in Requests : request'[q].step \in {"new", "ok", "failed"}
  BY <1>1 DEF Answered, InProgress
<1>5. \A q \in Requests : SoundRequest(q)' /\ ~Writing(q)'
  BY <1>4 DEF SoundRequest, Writing
<1>6. Serialized(config)' = Serialized(Loaded(file'))
  BY <1>2 DEF Serialized, KeyOf, Trait
<1>7. file' = Serialized(config)'
  BY <1>6, <1>10, SerializedLoaded
<1>8. Saved'
  BY <1>5, <1>7 DEF Saved
<1>9. request' = [q \in Requests |-> request'[q]] /\ configs' = [s \in Sources |-> configs'[s]]
  BY <1>1
<1> QED
  BY <1>1, <1>2, <1>3, <1>5, <1>8, <1>9, <1>10 DEF ConfigInv

-----------------------------------------------------------------------------
(* Theorems *)

(***************************************************************************)
(* Every handler of the configuration API keeps the invariant.             *)
(***************************************************************************)
LEMMA HandleKeepsInv ==
    ASSUME ConfigInv, Careful, NEW q \in Requests, Handle(q)
    PROVE  ConfigInv'
<1>1. ASSUME NEW i \in Items, NEW traits PROVE Versions(q, i, traits) = {Version(q, i, "plain")}
  BY DEF Versions, Careful
<1>2. Clusters \subseteq Items /\ Storages \subseteq Items /\ Policies \subseteq Items
  BY DEF Items
<1>3. CASE AddCluster(q) \/ AddStorage(q) \/ AddPolicy(q)
  BY <1>1, <1>2, <1>3, AddKeepsInv DEF AddCluster, AddStorage, AddPolicy
<1>4. CASE UpdateCluster(q) \/ UpdatePolicy(q)
  BY <1>1, <1>2, <1>4, UpdateKeepsInv DEF UpdateCluster, UpdatePolicy
<1>5. CASE UpdateStorage(q)
  <2>1. PICK i \in Storages :
          \E object \in Versions(q, i, {"pathless"}) \cup (IF i \in Flawed THEN {Null} ELSE {}) :
             Update(q, "update", i, object)
    BY <1>5 DEF UpdateStorage
  <2>2. Versions(q, i, {"pathless"}) \cup (IF i \in Flawed THEN {Null} ELSE {})
          = {Version(q, i, "plain")}
    BY <1>1, <1>2 DEF Careful
  <2> QED
    BY <1>2, <2>1, <2>2, UpdateKeepsInv
<1>6. CASE DeleteCluster(q) \/ DeleteStorage(q) \/ DeletePolicy(q)
  BY <1>2, <1>6, DeleteKeepsInv DEF DeleteCluster, DeleteStorage, DeletePolicy
<1>7. CASE ReadConfig(q) \/ ReadCluster(q) \/ ReadStorage(q) \/ ReadPolicy(q) \/ ReadRoutine(q)
  BY <1>7, ReadKeepsInv DEF ReadConfig, ReadCluster, ReadStorage, ReadPolicy, ReadRoutine
<1> QED
  BY <1>3, <1>4, <1>5, <1>6, <1>7, ResolveKeepsInv, DeleteRoutineKeepsInv, UpdateConfigKeepsInv
     DEF Handle

(***************************************************************************)
(* So does every later step of a request.                                  *)
(***************************************************************************)
LEMMA ProceedKeepsInv ==
    ASSUME ConfigInv, Careful, NEW q \in Requests, Proceed(q)
    PROVE  ConfigInv'
<1>1. CASE AddRoutine(q)
  BY <1>1, PutKeepsInv DEF AddRoutine, Puts
<1>2. CASE UpdateRoutine(q)
  BY <1>2, PutKeepsInv DEF UpdateRoutine, Puts
<1> QED
  BY <1>1, <1>2, WriteKeepsInv, FinishKeepsInv, FailKeepsInv DEF Proceed

(***************************************************************************)
(* Requests that apply the configuration, schedule a backup or read what   *)
(* the scheduler has only answer.                                          *)
(***************************************************************************)
LEMMA ServiceKeepsInv ==
    ASSUME ConfigInv, NEW q \in Requests,
           \/ ApplyConfig(q) \/ ApplyNewConfig(q) \/ ScheduleFullBackup(q)
           \/ ReadAllBackups(q) \/ ReadBackups(q) \/ GetCurrentBackupInfo(q)
    PROVE  ConfigInv'
<1>1. Answered("ok").step = "ok" /\ Answered("failed").step = "failed"
  BY DEF Answered
<1>2. CASE ApplyConfig(q)
  <2> DEFINE answer == [op |-> "apply", step |-> "applying", config |-> current]
  <2>1. request[q].step = "new" /\ request' = [request EXCEPT ![q] = answer]
        /\ UNCHANGED <<configs, current, file, unsaved, crashes>>
    BY <1>2 DEF ApplyConfig, MayStart
  <2>2. answer.step = "applying" /\ answer.op = "apply"
    OBVIOUS
  <2> HIDE DEF answer
  <2> QED
    BY <2>1, <2>2, AnswerKeepsInv
<1>3. CASE ApplyNewConfig(q)
  <2>1. /\ request[q].step = "applying" /\ request[q].op = "apply"
        /\ UNCHANGED <<configs, current, file, unsaved, crashes>>
        /\ \/ request' = [request EXCEPT ![q] = Answered("ok")]
           \/ request' = [request EXCEPT ![q] = Answered("failed")]
           \/ request' = request
    BY <1>3 DEF ApplyNewConfig
  <2>2. request = [request EXCEPT ![q] = request[q]]
    BY DEF ConfigInv
  <2>3. CASE request' = request
    <3>1. request' = [request EXCEPT ![q] = request[q]]
      BY <2>2, <2>3
    <3> QED
      BY <2>1, <3>1, AnswerKeepsInv
  <2> QED
    BY <1>1, <2>1, <2>3, AnswerKeepsInv
<1>4. CASE ScheduleFullBackup(q)
  <2>1. /\ request[q].step = "new"
        /\ UNCHANGED <<configs, current, file, unsaved, crashes>>
        /\ \/ request' = [request EXCEPT ![q] = Answered("ok")]
           \/ request' = [request EXCEPT ![q] = Answered("failed")]
    BY <1>4 DEF ScheduleFullBackup, MayStart
  <2> QED
    BY <1>1, <2>1, AnswerKeepsInv
<1>5. CASE ReadAllBackups(q) \/ ReadBackups(q) \/ GetCurrentBackupInfo(q)
  BY <1>5, ReadKeepsInv DEF ReadAllBackups, ReadBackups, GetCurrentBackupInfo
<1> QED
  BY <1>2, <1>3, <1>4, <1>5

(***************************************************************************)
(* A step that leaves the configuration alone, as the scheduler's do.      *)
(***************************************************************************)
LEMMA IdleKeepsInv ==
    ASSUME ConfigInv, UNCHANGED vars
    PROVE  ConfigInv'
<1>1. /\ configs' = configs /\ current' = current /\ file' = file /\ request' = request
      /\ unsaved' = unsaved /\ config' = config
  BY DEF vars, config
<1>2. Serialized(config)' = Serialized(config)
  BY <1>1 DEF Serialized, KeyOf, Trait
<1> QED
  BY <1>1, <1>2 DEF ConfigInv, SoundRequest, Writing, Saved

(***************************************************************************)
(* The configuration the service starts with is sound.                     *)
(***************************************************************************)
LEMMA InitIsSound == ServiceInit => ConfigInv
<1> SUFFICES ASSUME ServiceInit PROVE ConfigInv
  OBVIOUS
<1>1. /\ file \in {Truncated, Serialized(Whole(Initial, Routines))}
      /\ configs = [s \in Sources |-> IF s = Initial THEN Loaded(file) ELSE Truncated]
      /\ current = Initial
      /\ request = [q \in Requests |-> New]
  BY DEF ServiceInit, Init
<1>2. Initial \in Sources
  BY DEF Sources
<1>3. SoundFile(file)
  BY <1>1, <1>2, TruncatedIsSound, WholeIsSound, SerializedIsSound
<1>4. \A s \in Sources : Sound(configs[s])
  BY <1>1, <1>3, LoadedIsSound, TruncatedIsSound
<1>5. file = Serialized(config)
  BY <1>1, <1>2, <1>3, SerializedLoaded DEF config
<1>6. \A q \in Requests : SoundRequest(q) /\ ~Writing(q)
  BY <1>1 DEF SoundRequest, Writing, New
<1>7. /\ configs = [s \in Sources |-> configs[s]] /\ request = [q \in Requests |-> request[q]]
  BY <1>1
<1> QED
  BY <1>1, <1>2, <1>3, <1>4, <1>5, <1>6, <1>7 DEF ConfigInv, Saved

(***************************************************************************)
(* The induction step: every step of the service keeps ConfigInv.          *)
(***************************************************************************)
LEMMA NextKeepsInv ==
    ASSUME ConfigInv, Careful, [Next]_serviceVars
    PROVE  ConfigInv'
<1>1. CASE UNCHANGED serviceVars
  BY <1>1, IdleKeepsInv DEF serviceVars
<1>2. ASSUME NEW q \in Requests, Handle(q) \/ Proceed(q) PROVE ConfigInv'
  BY <1>2, HandleKeepsInv, ProceedKeepsInv
<1>3. CASE Scheduler!Run /\ UNCHANGED vars
  BY <1>3, IdleKeepsInv
<1>4. CASE RestartService
  BY <1>4, RestartKeepsInv DEF RestartService
<1> QED
  BY <1>1, <1>2, <1>3, <1>4, ServiceKeepsInv DEF Next

(***************************************************************************)
(* The invariant holds in every state of the service.                      *)
(***************************************************************************)
THEOREM ConfigurationIsSound ==
    ASSUME Careful
    PROVE  Spec => []ConfigInv
<1>1. ConfigInv /\ [Next]_serviceVars => ConfigInv'
  BY NextKeepsInv
<1> QED
  BY <1>1, InitIsSound, PTL DEF Spec

(***************************************************************************)
(* When all requests were answered the file is the configuration.          *)
(***************************************************************************)
THEOREM FileBecomesCurrent ==
    ASSUME Careful
    PROVE  Spec => []FileIsCurrent
<1>1. ConfigInv => FileIsCurrent
  BY DEF ConfigInv, Saved, FileIsCurrent, Quiet, InProgress, Writing
<1> QED
  BY <1>1, ConfigurationIsSound, PTL

(***************************************************************************)
(* A storage in the file is read again as it was accepted.                 *)
(***************************************************************************)
THEOREM StoragesAlwaysSurvive == Spec => []StoragesSurviveSave
<1>1. StoragesSurviveSave
  BY StoragesSurviveWrite DEF StoragesSurviveSave
<1> QED
  BY <1>1, PTL

=============================================================================
