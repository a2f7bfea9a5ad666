-------------------------- MODULE BackupServiceProofs --------------------------
(***************************************************************************)
(* The service with its scheduler, for any number of requests, items and   *)
(* routines and whatever requests overlap: types, the one request that can *)
(* leave a pointer without its item, and the jobs of a routine.            *)
(***************************************************************************)
EXTENDS ConfigurationProofs

-----------------------------------------------------------------------------
(* Types *)

(***************************************************************************)
(* The request of a routine has it converted.                              *)
(***************************************************************************)
ConfigTypes ==
    /\ TypeOK
    /\ request = [q \in Requests |-> request[q]]
    /\ \A q \in Requests : request[q].step = "resolved" =>
          request[q].to \in [ref : Refs, large : BOOLEAN, by : Sources]

TypeInv == ConfigTypes /\ Scheduler!TypeOK

(***************************************************************************)
(* An item that was sent has the type of the items.                        *)
(***************************************************************************)
LEMMA VersionsAreObjects ==
    ASSUME NEW q \in Requests, NEW i \in Items, NEW traits \in SUBSET Traits
    PROVE  Version(q, i, "plain") \in Objects /\ Versions(q, i, traits) \subseteq Objects
BY DEF Version, Versions, Objects, Sources, Traits

(***************************************************************************)
(* An answered request changes nothing else.                               *)
(***************************************************************************)
LEMMA AnswerKeepsTypes ==
    ASSUME ConfigTypes, NEW q \in Requests, NEW status \in {"ok", "failed"},
           request' = [request EXCEPT ![q] = Answered(status)],
           configs' = configs, current' = current, file' \in File \cup {Broken}, unsaved' \in BOOLEAN,
           crashes' = crashes
    PROVE  ConfigTypes'
<1>1. /\ request'[q] = Answered(status)
      /\ \A p \in Requests : p # q => request'[p] = request[p]
      /\ request' = [p \in Requests |-> request'[p]]
      /\ DOMAIN request' = Requests
  BY DEF ConfigTypes
<1>2. request'[q].step = status
  BY <1>1 DEF Answered
<1> QED
  BY <1>1, <1>2 DEF ConfigTypes, TypeOK

(***************************************************************************)
(* Rejected requests and reads do.                                         *)
(***************************************************************************)
LEMMA RejectKeepsTypes ==
    ASSUME ConfigTypes, NEW q \in Requests, NEW op, Reject(q, op)
    PROVE  ConfigTypes'
<1>1. file \in File \cup {Broken} /\ unsaved \in BOOLEAN
  BY DEF ConfigTypes, TypeOK
<1> QED
  BY <1>1, AnswerKeepsTypes DEF Reject

(***************************************************************************)
(* A read answers its request, and changes nothing.                        *)
(***************************************************************************)
LEMMA ReadKeepsTypes ==
    ASSUME ConfigTypes, NEW q \in Requests, NEW found, Read(q, found)
    PROVE  ConfigTypes'
<1>1. file \in File \cup {Broken} /\ unsaved \in BOOLEAN
  BY DEF ConfigTypes, TypeOK
<1>2. PICK status \in {"ok", "failed"} : request' = [request EXCEPT ![q] = Answered(status)]
  BY DEF Read
<1> QED
  BY <1>1, <1>2, AnswerKeepsTypes DEF Read

(***************************************************************************)
(* A change of the maps by a configuration of the type.                    *)
(***************************************************************************)
LEMMA ChangeKeepsTypes ==
    ASSUME ConfigTypes, NEW q \in Requests, NEW op, NEW c \in Config, Change(q, op, c)
    PROVE  ConfigTypes'
<1> DEFINE changed == [op |-> op, step |-> "changed", argument |-> {current}]
<1>1. /\ request'[q] = changed
      /\ \A p \in Requests : p # q => request'[p] = request[p]
      /\ request' = [p \in Requests |-> request'[p]]
      /\ DOMAIN request' = Requests
  BY DEF ConfigTypes, Change
<1>2. changed.step = "changed" /\ changed.argument \subseteq Sources
  BY DEF ConfigTypes, TypeOK
<1>3. configs' \in [Sources -> Config] /\ current' \in Sources
  BY DEF Change, ConfigTypes, TypeOK
<1> HIDE DEF changed
<1>4. \A p \in Requests :
         \/ request'[p].step \in {"new", "ok", "failed"}
         \/ request'[p].step = "resolved" /\ request'[p].routine \in Routines
         \/ request'[p].step = "changed" /\ request'[p].argument \subseteq Sources
         \/ request'[p].step = "applying" /\ request'[p].config \in Sources
         \/ request'[p].step = "writing" /\ request'[p].data \in File
  BY <1>1, <1>2 DEF ConfigTypes, TypeOK
<1> QED
  BY <1>1, <1>2, <1>3, <1>4 DEF Change, ConfigTypes, TypeOK

(***************************************************************************)
(* The configuration in use has its type.                                  *)
(***************************************************************************)
LEMMA ConfigIsTyped ==
    ASSUME ConfigTypes
    PROVE  /\ config \in Config
           /\ config.items \in [Items -> Objects \cup {Absent, Null}]
           /\ config.routines \in
                [Routines -> [ref : Refs, large : BOOLEAN, by : Sources] \cup {Absent}]
           /\ config = [items |-> config.items, routines |-> config.routines]
<1>1. config \in Config
  BY DEF ConfigTypes, TypeOK, config
<1> QED
  BY <1>1 DEF Config

(***************************************************************************)
(* An item is added, replaced or taken out of the map.                     *)
(***************************************************************************)
LEMMA SetItemIsTyped ==
    ASSUME ConfigTypes, NEW i \in Items, NEW object \in Objects \cup {Absent, Null}
    PROVE  [config EXCEPT !.items[i] = object] \in Config
BY ConfigIsTyped DEF Config

(***************************************************************************)
(* Adding an item keeps the types.                                         *)
(***************************************************************************)
LEMMA AddKeepsTypes ==
    ASSUME ConfigTypes, NEW q \in Requests, NEW op, NEW i \in Items, NEW object \in Objects,
           Add(q, op, i, object)
    PROVE  ConfigTypes'
<1> DEFINE c == [config EXCEPT !.items[i] = object]
<1>1. c \in Config
  BY SetItemIsTyped
<1>2. Reject(q, op) \/ Change(q, op, c)
  BY DEF Add
<1> QED
  BY <1>1, <1>2, RejectKeepsTypes, ChangeKeepsTypes

(***************************************************************************)
(* Deleting an item keeps the types.                                       *)
(***************************************************************************)
LEMMA DeleteKeepsTypes ==
    ASSUME ConfigTypes, NEW q \in Requests, NEW op, NEW i \in Items, Delete(q, op, i)
    PROVE  ConfigTypes'
<1> DEFINE c == [config EXCEPT !.items[i] = Absent]
<1>1. c \in Config
  BY SetItemIsTyped
<1>2. Reject(q, op) \/ Change(q, op, c)
  BY DEF Delete
<1> QED
  BY <1>1, <1>2, RejectKeepsTypes, ChangeKeepsTypes

(***************************************************************************)
(* A routine is not Absent.                                                *)
(***************************************************************************)
LEMMA AbsentIsNoRoutine == Absent \notin [ref : Refs, large : BOOLEAN, by : Sources]
<1>1. [ref : Refs, large : BOOLEAN, by : Sources] \subseteq
         [ref : Refs \cup Names, large : BOOLEAN, by : Sources]
  OBVIOUS
<1> QED
  BY <1>1, ConfigurationAssumption

(***************************************************************************)
(* A routine that gets the new item keeps its type.                        *)
(***************************************************************************)
LEMMA RepointIsTyped ==
    ASSUME NEW routine \in [ref : Refs, large : BOOLEAN, by : Sources] \cup {Absent},
           NEW old, NEW new \in Objects \cup {Null}
    PROVE  /\ Repoint(routine, old, new) \in [ref : Refs, large : BOOLEAN, by : Sources] \cup {Absent}
           /\ Repoint(routine, old, new) = Absent <=> routine = Absent
<1> DEFINE ref == [k \in DOMAIN routine.ref |-> IF routine.ref[k] = old THEN new ELSE routine.ref[k]]
<1>1. CASE routine = Absent
  BY <1>1 DEF Repoint
<1>2. CASE routine # Absent
  <2>1. routine.ref \in Refs /\ routine = [ref |-> routine.ref, large |-> routine.large, by |-> routine.by]
    BY <1>2
  <2>2. ref \in Refs
    BY <2>1 DEF Refs
  <2>3. Repoint(routine, old, new) = [routine EXCEPT !.ref = ref]
    BY <1>2 DEF Repoint
  <2>4. Repoint(routine, old, new) \in [ref : Refs, large : BOOLEAN, by : Sources]
    BY <1>2, <2>1, <2>2, <2>3
  <2> QED
    BY <1>2, <2>4, AbsentIsNoRoutine
<1> QED
  BY <1>1, <1>2

(***************************************************************************)
(* Updating an item keeps the types, of the routines that refer to it too. *)
(***************************************************************************)
LEMMA UpdateKeepsTypes ==
    ASSUME ConfigTypes, NEW q \in Requests, NEW op, NEW i \in Items,
           NEW object \in Objects \cup {Null}, Update(q, op, i, object)
    PROVE  ConfigTypes'
<1> DEFINE c == [items    |-> [config.items EXCEPT ![i] = object],
                 routines |-> [r \in Routines |->
                    Repoint(config.routines[r], config.items[i], object)]]
<1>1. c \in Config
  BY ConfigIsTyped, RepointIsTyped DEF Config
<1>2. Reject(q, op) \/ Change(q, op, c)
  BY DEF Update
<1> QED
  BY <1>1, <1>2, RejectKeepsTypes, ChangeKeepsTypes

(***************************************************************************)
(* References that can be resolved are to items.                           *)
(***************************************************************************)
LEMMA ResolveIsTyped ==
    ASSUME NEW c, c.items \in [Items -> Objects \cup {Absent, Null}], NEW names, NEW large,
           Resolvable(c, names, large)
    PROVE  Resolve(c, names) \in Refs
<1>1. /\ c.items[names.cluster] \in Objects \cup {Null}
      /\ c.items[names.storage] \in Objects \cup {Null}
      /\ c.items[names.policy] \in Objects \cup {Null}
  BY DEF Resolvable, Items
<1> QED
  BY <1>1 DEF Resolve, Refs

(***************************************************************************)
(* The conversion of the routine of a request keeps the types.             *)
(***************************************************************************)
LEMMA ResolveKeepsTypes ==
    ASSUME ConfigTypes, NEW q \in Requests, ResolveRoutine(q)
    PROVE  ConfigTypes'
<1>1. PICK op \in {"addRoutine", "updateRoutine"}, r \in Routines, large \in Sizes,
           names \in [cluster : Clusters, storage : Storages, policy : Policies] :
         IF Resolvable(config, names, large)
         THEN /\ MayStart(q, op)
              /\ request' = [request EXCEPT ![q] =
                   [op |-> op, step |-> "resolved", routine |-> r,
                    to |-> [ref |-> Resolve(config, names), large |-> large, by |-> q]]]
              /\ UNCHANGED <<configs, current, file, unsaved, crashes>>
         ELSE Reject(q, op)
  BY Zenon DEF ResolveRoutine
<1>2. CASE ~Resolvable(config, names, large)
  BY <1>1, <1>2, RejectKeepsTypes
<1>3. CASE Resolvable(config, names, large)
  <2> DEFINE to == [ref |-> Resolve(config, names), large |-> large, by |-> q]
             resolved == [op |-> op, step |-> "resolved", routine |-> r, to |-> to]
  <2>1. Resolve(config, names) \in Refs
    BY <1>3, ConfigIsTyped, ResolveIsTyped
  <2>2. to \in [ref : Refs, large : BOOLEAN, by : Sources]
    BY <2>1 DEF Sizes, Sources
  <2>3. resolved.step = "resolved" /\ resolved.routine \in Routines /\ resolved.to = to
    OBVIOUS
  <2>4. request' = [request EXCEPT ![q] = resolved] /\ UNCHANGED <<configs, current, file, unsaved, crashes>>
    BY <1>1, <1>3
  <2> HIDE DEF to, resolved
  <2>5. /\ request'[q] = resolved
        /\ \A p \in Requests : p # q => request'[p] = request[p]
        /\ request' = [p \in Requests |-> request'[p]]
        /\ DOMAIN request' = Requests
    BY <2>4 DEF ConfigTypes
  <2> QED
    BY <2>2, <2>3, <2>4, <2>5 DEF ConfigTypes, TypeOK
<1> QED
  BY <1>2, <1>3

(***************************************************************************)
(* A routine is put into the map or taken out of it.                       *)
(***************************************************************************)
LEMMA SetRoutineIsTyped ==
    ASSUME ConfigTypes, NEW r \in Routines,
           NEW to \in [ref : Refs, large : BOOLEAN, by : Sources] \cup {Absent}
    PROVE  [config EXCEPT !.routines[r] = to] \in Config
BY ConfigIsTyped DEF Config

(***************************************************************************)
(* Adding or updating the converted routine keeps the types.               *)
(***************************************************************************)
LEMMA PutKeepsTypes ==
    ASSUME ConfigTypes, NEW q \in Requests, NEW op, NEW accepted, PutRoutine(q, op, accepted)
    PROVE  ConfigTypes'
<1> DEFINE c == [config EXCEPT !.routines[request[q].routine] = request[q].to]
<1>1. request[q].step = "resolved" /\ request[q].routine \in Routines
      /\ request[q].to \in [ref : Refs, large : BOOLEAN, by : Sources]
  BY DEF PutRoutine, ConfigTypes, TypeOK
<1>2. c \in Config
  BY <1>1, SetRoutineIsTyped
<1>3. CASE accepted
  <2>1. Change(q, op, c)
    BY <1>3 DEF PutRoutine
  <2> QED
    BY <1>2, <2>1, ChangeKeepsTypes
<1>4. CASE ~accepted
  BY <1>4, AnswerKeepsTypes DEF PutRoutine, ConfigTypes, TypeOK
<1> QED
  BY <1>3, <1>4

(***************************************************************************)
(* Deleting a routine keeps the types.                                     *)
(***************************************************************************)
LEMMA DeleteRoutineKeepsTypes ==
    ASSUME ConfigTypes, NEW q \in Requests, DeleteRoutine(q)
    PROVE  ConfigTypes'
<1>1. PICK r \in Routines : \/ Reject(q, "deleteRoutine")
                            \/ Change(q, "deleteRoutine", [config EXCEPT !.routines[r] = Absent])
  BY DEF DeleteRoutine
<1>2. [config EXCEPT !.routines[r] = Absent] \in Config
  BY SetRoutineIsTyped
<1> QED
  BY <1>1, <1>2, RejectKeepsTypes, ChangeKeepsTypes

(***************************************************************************)
(* What is written has the type of the file, and what Load accepts that of *)
(* a configuration.                                                        *)
(***************************************************************************)
LEMMA KeyIsTyped ==
    ASSUME NEW c, NEW kind, NEW object
    PROVE  KeyOf(c, kind, object) \in kind \cup {NoName}
<1>1. CASE \E i \in kind : c.items[i] = object
  <2>1. (CHOOSE i \in kind : c.items[i] = object) \in kind
    BY <1>1
  <2> QED
    BY <1>1, <2>1 DEF KeyOf
<1>2. CASE ~ \E i \in kind : c.items[i] = object
  BY <1>2 DEF KeyOf
<1> QED
  BY <1>1, <1>2

(***************************************************************************)
(* What a configuration is written as has the type of the file.            *)
(***************************************************************************)
LEMMA SerializedIsTyped ==
    ASSUME NEW c \in Config
    PROVE  Serialized(c) \in File
<1> DEFINE written(i) == IF Trait(c.items[i]) = "compressed"
                         THEN [c.items[i] EXCEPT !.trait = "plain"]
                         ELSE c.items[i]
           keys(r) == [cluster |-> KeyOf(c, Clusters, c.routines[r].ref.cluster),
                       storage |-> KeyOf(c, Storages, c.routines[r].ref.storage),
                       policy  |-> KeyOf(c, Policies, c.routines[r].ref.policy)]
           routine(r) == IF c.routines[r] = Absent THEN Absent
                         ELSE [c.routines[r] EXCEPT !.ref = keys(r)]
<1>1. ASSUME NEW i \in Items PROVE written(i) \in Objects \cup {Absent, Null}
  <2>1. c.items[i] \in Objects \cup {Absent, Null}
    BY DEF Config
  <2>2. CASE Trait(c.items[i]) = "compressed"
    <3>1. c.items[i] \in Objects
      BY <2>1, <2>2 DEF Trait
    <3> QED
      BY <2>2, <3>1 DEF Objects, Traits
  <2> QED
    BY <2>1, <2>2
<1>2. ASSUME NEW r \in Routines
      PROVE  routine(r) \in [ref : Names, large : BOOLEAN, by : Sources] \cup {Absent}
  <2>1. c.routines[r] \in [ref : Refs, large : BOOLEAN, by : Sources] \cup {Absent}
    BY DEF Config
  <2>2. keys(r) \in Names
    BY KeyIsTyped DEF Names
  <2> HIDE DEF keys
  <2>3. CASE c.routines[r] # Absent
    BY <2>1, <2>2, <2>3
  <2> QED
    BY <2>3
<1>3. Serialized(c) = [items |-> [i \in Items |-> written(i)],
                       routines |-> [r \in Routines |-> routine(r)]]
  BY DEF Serialized
<1> HIDE DEF written, routine
<1> QED
  BY <1>1, <1>2, <1>3 DEF File

(***************************************************************************)
(* A file that Load accepts gives a configuration.                         *)
(***************************************************************************)
LEMMA LoadedIsTyped ==
    ASSUME NEW f \in File, Loadable(f)
    PROVE  Loaded(f) \in Config
<1> DEFINE routine(r) == IF f.routines[r] = Absent THEN Absent
                         ELSE [f.routines[r] EXCEPT !.ref = Resolve(f, f.routines[r].ref)]
<1>1. f.items \in [Items -> Objects \cup {Absent, Null}]
  BY DEF File
<1>2. ASSUME NEW r \in Routines
      PROVE  routine(r) \in [ref : Refs, large : BOOLEAN, by : Sources] \cup {Absent}
  <2>1. f.routines[r] \in [ref : Names, large : BOOLEAN, by : Sources] \cup {Absent}
    BY DEF File
  <2>2. CASE f.routines[r] # Absent
    <3>1. Resolve(f, f.routines[r].ref) \in Refs
      BY <1>1, <2>2, ResolveIsTyped DEF Loadable
    <3> QED
      BY <2>1, <2>2, <3>1
  <2> QED
    BY <2>2
<1>3. Loaded(f) = [items |-> f.items, routines |-> [r \in Routines |-> routine(r)]]
  BY DEF Loaded
<1> HIDE DEF routine
<1> QED
  BY <1>1, <1>2, <1>3 DEF Config

(***************************************************************************)
(* An empty file has the type of a file, and that of a configuration.      *)
(***************************************************************************)
LEMMA TruncatedIsTyped == Truncated \in File /\ Truncated \in Config
BY DEF Truncated, File, Config

(***************************************************************************)
(* A whole configuration that a request sends has its type.                *)
(***************************************************************************)
LEMMA WholeIsTyped ==
    ASSUME NEW q \in Sources, NEW routines \in SUBSET Routines
    PROVE  Whole(q, routines) \in Config
<1>1. PlainItems \subseteq [Items -> Objects \cup {Absent, Null}]
  BY DEF PlainItems
<1>2. RoutinesBy(Pointers) \subseteq [Routines -> [ref : Refs, large : BOOLEAN, by : Sources] \cup {Absent}]
  BY DEF RoutinesBy, Pointers, Refs
<1>3. Whole(q, routines) \in [items : PlainItems, routines : RoutinesBy(Pointers)]
  BY WholeIsSound, Zenon DEF Sound
<1> QED
  BY <1>1, <1>2, <1>3 DEF Config

(***************************************************************************)
(* A whole configuration, the steps of a write, and a restart.             *)
(***************************************************************************)
LEMMA UpdateConfigKeepsTypes ==
    ASSUME ConfigTypes, NEW q \in Requests, UpdateConfig(q)
    PROVE  ConfigTypes'
<1>1. PICK routines \in SUBSET Routines :
         /\ configs' = [configs EXCEPT ![q] = Whole(q, routines)]
         /\ current' = q
         /\ request' = [p \in Requests |->
              IF p = q THEN [op |-> "updateConfig", step |-> "changed", argument |-> {q}]
              ELSE IF request[p].step = "changed" THEN [request[p] EXCEPT !.argument = @ \cup {q}]
              ELSE request[p]]
         /\ UNCHANGED <<file, unsaved, crashes>>
  BY DEF UpdateConfig
<1>2. q \in Sources
  BY DEF Sources
<1>3. configs' \in [Sources -> Config] /\ current' \in Sources
  BY <1>1, <1>2, WholeIsTyped DEF ConfigTypes, TypeOK
<1>4. request' = [p \in Requests |-> request'[p]] /\ DOMAIN request' = Requests
  BY <1>1
<1>5. ASSUME NEW p \in Requests
      PROVE  /\ \/ request'[p].step \in {"new", "ok", "failed"}
                \/ request'[p].step = "resolved" /\ request'[p].routine \in Routines
                \/ request'[p].step = "changed" /\ request'[p].argument \subseteq Sources
                \/ request'[p].step = "applying" /\ request'[p].config \in Sources
                \/ request'[p].step = "writing" /\ request'[p].data \in File
             /\ request'[p].step = "resolved" =>
                   request'[p].to \in [ref : Refs, large : BOOLEAN, by : Sources]
  <2>1. CASE p = q
    BY <1>1, <1>2, <2>1
  <2>2. CASE p # q /\ request[p].step = "changed"
    <3>1. request[p].argument \subseteq Sources
      BY <2>2 DEF ConfigTypes, TypeOK
    <3>2. request'[p] = [request[p] EXCEPT !.argument = @ \cup {q}]
      BY <1>1, <2>2
    <3> QED
      BY <1>2, <2>2, <3>1, <3>2
  <2>3. CASE p # q /\ request[p].step # "changed"
    <3>1. request'[p] = request[p]
      BY <1>1, <2>3
    <3> QED
      BY <2>3, <3>1 DEF ConfigTypes, TypeOK
  <2> QED
    BY <2>1, <2>2, <2>3
<1> QED
  BY <1>1, <1>3, <1>4, <1>5 DEF ConfigTypes, TypeOK

(***************************************************************************)
(* The beginning of a write of the configuration keeps the types.          *)
(***************************************************************************)
LEMMA WriteKeepsTypes ==
    ASSUME ConfigTypes, NEW q \in Requests, WriteConfiguration(q)
    PROVE  ConfigTypes'
<1>1. PICK c \in request[q].argument :
         request' = [request EXCEPT ![q] =
           [op |-> request[q].op, step |-> "writing", data |-> Serialized(configs[c])]]
  BY DEF WriteConfiguration
<1> DEFINE writing == [op |-> request[q].op, step |-> "writing", data |-> Serialized(configs[c])]
<1>2. configs[c] \in Config
  BY DEF WriteConfiguration, ConfigTypes, TypeOK
<1>3. writing.step = "writing" /\ writing.data \in File
  BY <1>2, SerializedIsTyped
<1>4. /\ request'[q] = writing
      /\ \A p \in Requests : p # q => request'[p] = request[p]
      /\ request' = [p \in Requests |-> request'[p]]
      /\ DOMAIN request' = Requests
  BY <1>1 DEF ConfigTypes
<1>5. file' \in File \cup {Broken} /\ unsaved' \in BOOLEAN /\ UNCHANGED <<configs, current, crashes>>
  BY TruncatedIsTyped DEF WriteConfiguration, ConfigTypes, TypeOK
<1> HIDE DEF writing
<1> QED
  BY <1>3, <1>4, <1>5 DEF ConfigTypes, TypeOK

(***************************************************************************)
(* So does its end.                                                        *)
(***************************************************************************)
LEMMA FinishKeepsTypes ==
    ASSUME ConfigTypes, NEW q \in Requests, FinishWrite(q)
    PROVE  ConfigTypes'
<1>1. /\ request[q].data \in File /\ file \in File \cup {Broken} /\ unsaved \in BOOLEAN
  BY DEF FinishWrite, ConfigTypes, TypeOK
<1>2. file' \in File \cup {Broken}
  BY <1>1 DEF FinishWrite
<1> QED
  BY <1>1, <1>2, AnswerKeepsTypes DEF FinishWrite

(***************************************************************************)
(* What is left of a write that ends half-way has the type of the file, if *)
(* anything can be read of it.                                             *)
(***************************************************************************)
LEMMA PartialIsTyped ==
    ASSUME ConfigTypes, NEW data \in File, NEW f \in Partial(data)
    PROVE  f \in File \cup {Broken}
<1>1. ASSUME NEW p \in Prefixes PROVE Cut(data, p) \in File
  BY DEF Cut, File
<1>2. file \in File \cup {Broken}
  BY DEF ConfigTypes, TypeOK
<1> QED
  BY <1>1, <1>2 DEF Partial

(***************************************************************************)
(* So does its failure.                                                    *)
(***************************************************************************)
LEMMA FailKeepsTypes ==
    ASSUME ConfigTypes, NEW q \in Requests, FailWrite(q)
    PROVE  ConfigTypes'
<1>1. file \in File \cup {Broken}
  BY DEF ConfigTypes, TypeOK
<1>2. request[q].step = "writing" => request[q].data \in File
  BY DEF ConfigTypes, TypeOK
<1>3. file' \in File \cup {Broken}
  BY <1>1, <1>2, PartialIsTyped DEF FailWrite
<1>4. /\ request' = [request EXCEPT ![q] = Answered("failed")] /\ unsaved' = TRUE
      /\ configs' = configs /\ current' = current /\ crashes' = crashes
  BY DEF FailWrite
<1> QED
  BY <1>3, <1>4, AnswerKeepsTypes

(***************************************************************************)
(* A restart reads a configuration of the type, or does not start.         *)
(***************************************************************************)
LEMMA RestartKeepsTypes ==
    ASSUME ConfigTypes, Restart
    PROVE  ConfigTypes'
<1>6. file' \in File /\ Loadable(file')
  <2>1. \A q \in Requests : request[q].step = "writing" => request[q].data \in File
    BY DEF ConfigTypes, TypeOK
  <2>2. file' \in File \cup {Broken}
    BY <2>1, PartialIsTyped DEF Restart, ConfigTypes, TypeOK
  <2> QED
    BY <2>2 DEF Restart, Loadable
<1>1. configs' \in [Sources -> Config] /\ current' \in Sources
  BY <1>6, LoadedIsTyped, TruncatedIsTyped DEF Restart, Sources
<1>2. crashes' \in 0..MaxCrashes
  BY ConfigurationAssumption DEF Restart, ConfigTypes, TypeOK
<1>3. request' = [q \in Requests |-> request'[q]] /\ DOMAIN request' = Requests
  BY DEF Restart
<1>4. ASSUME NEW q \in Requests PROVE request'[q].step \in {"new", "ok", "failed"}
  <2>1. request'[q] = IF InProgress(q) THEN Answered("failed") ELSE request[q]
    BY DEF Restart
  <2> QED
    BY <2>1 DEF InProgress, Answered
<1>5. file' \in File \cup {Broken} /\ unsaved' \in BOOLEAN
  BY <1>6 DEF Restart
<1> QED
  BY <1>1, <1>2, <1>3, <1>4, <1>5 DEF ConfigTypes, TypeOK

(***************************************************************************)
(* The handlers of the configuration, one by one.                          *)
(***************************************************************************)
LEMMA HandleKeepsTypes ==
    ASSUME ConfigTypes, NEW q \in Requests, Handle(q)
    PROVE  ConfigTypes'
<1>1. Clusters \subseteq Items /\ Storages \subseteq Items /\ Policies \subseteq Items
  BY DEF Items
<1>2. {"small", "bare"} \subseteq Traits /\ {"compressed"} \subseteq Traits
      /\ {"pathless"} \subseteq Traits
  BY DEF Traits
<1>3. CASE AddCluster(q) \/ AddPolicy(q)
  BY <1>1, <1>2, <1>3, VersionsAreObjects, AddKeepsTypes DEF AddCluster, AddPolicy
<1>4. CASE AddStorage(q)
  <2>1. PICK i \in Storages : Add(q, "add", i, Version(q, i, "plain"))
    BY <1>4 DEF AddStorage
  <2>2. Version(q, i, "plain") \in Objects
    BY <1>1, <1>2, VersionsAreObjects
  <2> QED
    BY <1>1, <2>1, <2>2, AddKeepsTypes
<1>5. CASE DeleteCluster(q) \/ DeleteStorage(q) \/ DeletePolicy(q)
  BY <1>1, <1>5, DeleteKeepsTypes DEF DeleteCluster, DeleteStorage, DeletePolicy
<1>6. CASE UpdateCluster(q) \/ UpdatePolicy(q)
  BY <1>1, <1>2, <1>6, VersionsAreObjects, UpdateKeepsTypes DEF UpdateCluster, UpdatePolicy
<1>7. CASE UpdateStorage(q)
  <2> PICK i \in Storages :
         \E object \in Versions(q, i, {"pathless"}) \cup (IF i \in Flawed THEN {Null} ELSE {}) :
            Update(q, "update", i, object)
    BY <1>7 DEF UpdateStorage
  <2>1. PICK object \in Versions(q, i, {"pathless"}) \cup {Null} : Update(q, "update", i, object)
    BY Zenon
  <2>2. Versions(q, i, {"pathless"}) \subseteq Objects
    BY <1>1, <1>2, VersionsAreObjects
  <2>3. object \in Objects \cup {Null}
    BY <2>2
  <2> QED
    BY <1>1, <2>1, <2>3, UpdateKeepsTypes
<1>8. CASE ResolveRoutine(q) \/ DeleteRoutine(q) \/ UpdateConfig(q)
  BY <1>8, ResolveKeepsTypes, DeleteRoutineKeepsTypes, UpdateConfigKeepsTypes
<1>9. CASE ReadConfig(q) \/ ReadCluster(q) \/ ReadStorage(q) \/ ReadPolicy(q) \/ ReadRoutine(q)
  BY <1>9, ReadKeepsTypes DEF ReadConfig, ReadCluster, ReadStorage, ReadPolicy, ReadRoutine
<1> QED
  BY <1>3, <1>4, <1>5, <1>6, <1>7, <1>8, <1>9 DEF Handle

(***************************************************************************)
(* Every later step of a request but ApplyNewConfig keeps the types.       *)
(***************************************************************************)
LEMMA ProceedKeepsTypes ==
    ASSUME ConfigTypes, NEW q \in Requests, Proceed(q)
    PROVE  ConfigTypes'
BY PutKeepsTypes, WriteKeepsTypes, FinishKeepsTypes, FailKeepsTypes
   DEF Proceed, AddRoutine, UpdateRoutine

CallTypes ==
    [step : {"idle", "cleared", "backends", "handlers", "done", "failed"},
     handlers : [Routines -> Scheduler!Handlers \cup {Absent}],
     scheduled : SUBSET Routines]

(***************************************************************************)
(* A call of ApplyNewConfig that has nothing made yet, or has ended.       *)
(***************************************************************************)
LEMMA IdleIsTyped ==
    ASSUME NEW step \in {"idle", "cleared", "backends", "handlers", "done", "failed"}
    PROVE  Scheduler!Idle(step) \in CallTypes
BY DEF Scheduler!Idle, CallTypes

(***************************************************************************)
(* The jobs and handlers of a start, and the backends of a generation.     *)
(***************************************************************************)
LEMMA StartIsTyped ==
    ASSUME NEW R \in SUBSET Routines, NEW due \in SUBSET R, NEW g \in Sources
    PROVE  /\ Scheduler!StartJobs(R, due) \subseteq Scheduler!Jobs
           /\ Scheduler!StartHandlers(R) \in [Routines -> Scheduler!Handlers \cup {Absent}]
           /\ Scheduler!BuildBackupBackends(g, R) \in [Routines -> Sources \cup {Absent}]
<1>1. \A r \in Routines : Scheduler!Handler(r, Initial) \in Scheduler!Handlers
  BY DEF Scheduler!Handler, Scheduler!Handlers, Sources
<1> QED
  BY <1>1 DEF Scheduler!StartJobs, Scheduler!Job, Scheduler!Jobs, Scheduler!StartHandlers,
       Scheduler!BuildBackupBackends

(***************************************************************************)
(* A round of scheduleRoutines for routine r: it stops at the key of the   *)
(* full backup, or adds jobs of one handler and stores it, and stops or    *)
(* goes on.                                                                *)
(***************************************************************************)
Scheduled(q, r) ==
    LET handler == apply[q].handlers[r]
    IN  /\ apply[q].step = "handlers"
        /\ \/ /\ Scheduler!HasKey(r, "full")
              /\ apply' = [apply EXCEPT ![q] = Scheduler!Idle("failed")]
              /\ UNCHANGED <<jobs, jobStore>>
           \/ /\ ~Scheduler!HasKey(r, "full")
              /\ jobStore' = Scheduler!Stored(r, handler)
              /\ \E groups \in SUBSET {"full", "incremental", "now"} :
                    /\ "full" \in groups
                    /\ jobs' = jobs \cup {Scheduler!Job(r, group, handler) : group \in groups}
              /\ \/ apply' = [apply EXCEPT ![q] = Scheduler!Idle("failed")]
                 \/ apply' = [apply EXCEPT ![q].scheduled = @ \cup {r}]
        /\ UNCHANGED <<backends, handlerHolder, attempts>>

(***************************************************************************)
(* scheduleRoutine, for one of the routines that are left, in one formula. *)
(***************************************************************************)
LEMMA ScheduleRoutineSteps ==
    ASSUME NEW q, NEW R, Scheduler!ScheduleRoutine(q, R)
    PROVE  \E r \in R \ apply[q].scheduled : Scheduled(q, r)
<1> DEFINE fails(r, due) == \/ apply[q].handlers[r] = Absent \/ Scheduler!HasKey(r, "incremental")
                            \/ due /\ Scheduler!HasKey(r, "now")
           groups(r, due) ==
              CASE apply[q].handlers[r] = Absent        -> {"full"}
                [] due /\ Scheduler!HasKey(r, "now")    -> {"full"}
                [] due                                  -> {"full", "incremental", "now"}
                [] OTHER                                -> {"full", "incremental"}
           added(r, due) == {x \in groups(r, due) : ~Scheduler!HasKey(r, x)}
<1>1. PICK r \in R \ apply[q].scheduled, due \in BOOLEAN :
         /\ apply[q].step = "handlers"
         /\ IF Scheduler!HasKey(r, "full")
            THEN /\ apply' = [apply EXCEPT ![q] = Scheduler!Idle("failed")]
                 /\ UNCHANGED <<jobs, jobStore>>
            ELSE /\ jobs' = jobs \cup
                      {Scheduler!Job(r, group, apply[q].handlers[r]) : group \in added(r, due)}
                 /\ jobStore' = Scheduler!Stored(r, apply[q].handlers[r])
                 /\ apply' = IF fails(r, due) THEN [apply EXCEPT ![q] = Scheduler!Idle("failed")]
                                              ELSE [apply EXCEPT ![q].scheduled = @ \cup {r}]
         /\ UNCHANGED <<backends, handlerHolder, attempts>>
  BY DEF Scheduler!ScheduleRoutine
<1>2. added(r, due) \in SUBSET {"full", "incremental", "now"}
  OBVIOUS
<1>3. ASSUME ~Scheduler!HasKey(r, "full") PROVE "full" \in added(r, due)
  BY <1>3
<1> HIDE DEF added
<1> QED
  BY <1>1, <1>2, <1>3 DEF Scheduled

(***************************************************************************)
(* The steps of ApplyNewConfig.                                            *)
(***************************************************************************)
LEMMA ApplyKeepsTypes ==
    ASSUME Scheduler!TypeOK, NEW q \in Sources, NEW R \in SUBSET Routines,
           \/ Scheduler!Clear(q) \/ Scheduler!SetData(q, R) \/ Scheduler!MakeHandlers(q, R)
           \/ Scheduler!ScheduleRoutine(q, R) \/ Scheduler!ApplyReturns(q, R)
    PROVE  Scheduler!TypeOK'
<1>1. CASE Scheduler!Clear(q)
  BY <1>1, SMTT(30) DEF Scheduler!Clear, Scheduler!TypeOK
<1>2. CASE Scheduler!SetData(q, R)
  <2>1. Scheduler!BuildBackupBackends(q, R) \in [Routines -> Sources \cup {Absent}]
    BY StartIsTyped
  <2> QED
    BY <1>2, <2>1, ZenonT(30) DEF Scheduler!SetData, Scheduler!TypeOK
<1>3. CASE Scheduler!MakeHandlers(q, R)
  <2>1. CASE \E r \in R : backends[r] = Absent
    BY <1>3, <2>1, IdleIsTyped DEF Scheduler!MakeHandlers, Scheduler!TypeOK, CallTypes
  <2>2. CASE ~ \E r \in R : backends[r] = Absent
    <3> DEFINE handlers == [r \in Routines |->
                  IF r \in R THEN [routine |-> r, generation |-> q, backend |-> backends[r]]
                  ELSE Absent]
    <3>1. handlers \in [Routines -> Scheduler!Handlers \cup {Absent}]
      BY <2>2 DEF Scheduler!TypeOK, Scheduler!Handlers
    <3>2. apply' = [apply EXCEPT ![q] =
                      [step |-> "handlers", scheduled |-> {}, handlers |-> handlers]]
      BY <1>3, <2>2 DEF Scheduler!MakeHandlers
    <3> HIDE DEF handlers
    <3> QED
      BY <1>3, <3>1, <3>2 DEF Scheduler!MakeHandlers, Scheduler!TypeOK
  <2> QED
    BY <2>1, <2>2
<1>4. CASE Scheduler!ScheduleRoutine(q, R)
  <2>1. PICK r \in R \ apply[q].scheduled : Scheduled(q, r)
    BY <1>4, ScheduleRoutineSteps
  <2> DEFINE handler == apply[q].handlers[r]
  <2>2. handler \in Scheduler!Handlers \cup {Absent}
    BY DEF Scheduler!TypeOK
  <2>3. Scheduler!Stored(r, handler) \in [Routines -> Scheduler!Handlers \cup {Absent}]
    BY <2>2 DEF Scheduler!Stored, Scheduler!TypeOK
  <2>4. \A groups \in SUBSET {"full", "incremental", "now"} :
           {Scheduler!Job(r, group, handler) : group \in groups} \subseteq Scheduler!Jobs
    BY <2>2 DEF Scheduler!Job, Scheduler!Jobs
  <2>5. jobs' \subseteq Scheduler!Jobs /\ jobStore' \in [Routines -> Scheduler!Handlers \cup {Absent}]
    BY <2>1, <2>3, <2>4 DEF Scheduled, Scheduler!TypeOK
  <2>6. \/ apply' = [apply EXCEPT ![q] = Scheduler!Idle("failed")]
        \/ apply' = [apply EXCEPT ![q].scheduled = @ \cup {r}]
    BY <2>1 DEF Scheduled
  <2>7. apply' \in [Sources -> CallTypes]
    <3>1. apply \in [Sources -> CallTypes] /\ Scheduler!Idle("failed") \in CallTypes
      BY DEF Scheduler!TypeOK, Scheduler!Idle, CallTypes
    <3>2. CASE apply' = [apply EXCEPT ![q] = Scheduler!Idle("failed")]
      BY <3>1, <3>2
    <3>3. CASE apply' = [apply EXCEPT ![q].scheduled = @ \cup {r}]
      <4>1. r \in Routines /\ apply[q] \in CallTypes
        BY <3>1
      <4>2. [apply[q] EXCEPT !.scheduled = @ \cup {r}] \in CallTypes
        BY <4>1 DEF CallTypes
      <4> QED
        BY <3>1, <3>3, <4>2
    <3> QED
      BY <2>6, <3>2, <3>3
  <2>8. UNCHANGED <<backends, handlerHolder, attempts>>
    BY <2>1 DEF Scheduled
  <2> QED
    BY <2>5, <2>7, <2>8 DEF Scheduler!TypeOK, CallTypes
<1>5. CASE Scheduler!ApplyReturns(q, R)
  <2>1. apply[q].handlers \in [Routines -> Scheduler!Handlers \cup {Absent}]
    BY DEF Scheduler!TypeOK
  <2> QED
    BY <1>5, <2>1, IdleIsTyped DEF Scheduler!ApplyReturns, Scheduler!TypeOK, CallTypes
<1> QED
  BY <1>1, <1>2, <1>3, <1>4, <1>5

(***************************************************************************)
(* Backups, the requests of full ones, and a start.                        *)
(***************************************************************************)
LEMMA RunKeepsTypes ==
    ASSUME Scheduler!TypeOK, Scheduler!Run \/ \E r \in Routines : Scheduler!ScheduleFullBackup(r)
    PROVE  Scheduler!TypeOK'
<1>1. CASE \E r \in Routines : Scheduler!ScheduleFullBackup(r)
  BY <1>1 DEF Scheduler!ScheduleFullBackup, Scheduler!TypeOK, Scheduler!Job, Scheduler!Jobs
<1>2. ASSUME NEW j \in jobs, Scheduler!SkipFull(j) PROVE Scheduler!TypeOK'
  BY <1>2 DEF Scheduler!SkipFull, Scheduler!Fired, Scheduler!TypeOK
<1>3. ASSUME NEW j \in jobs, NEW e \in Executions, Scheduler!Execute(j, e)
      PROVE  Scheduler!TypeOK'
  <2>1. j.handler \in Scheduler!Handlers /\ Scheduler!Fired(j) \subseteq jobs
    BY <1>3 DEF Scheduler!Execute, Scheduler!TypeOK, Scheduler!Jobs, Scheduler!Fired
  <2>2. Scheduler!Attempt(j.handler, e, "called") \in Scheduler!Attempts
    BY <2>1 DEF Scheduler!Attempt, Scheduler!Attempts
  <2> QED
    BY <1>3, <2>1, <2>2 DEF Scheduler!Execute, Scheduler!TypeOK
<1>4. ASSUME NEW a \in attempts, Scheduler!Lock(a) \/ Scheduler!End(a) \/ Scheduler!FireTimer(a)
      PROVE  Scheduler!TypeOK'
  <2>1. a \in Scheduler!Attempts /\ attempts \subseteq Scheduler!Attempts
    BY DEF Scheduler!TypeOK
  <2>2. \A step \in {"running", "retrying", "pending", "fired"} :
           [a EXCEPT !.step = step] \in Scheduler!Attempts
    BY <2>1 DEF Scheduler!Attempts
  <2>3. CASE Scheduler!Lock(a)
    <3> DEFINE locked == [a EXCEPT !.step = IF @ = "called" THEN "running" ELSE "retrying"]
    <3>1. locked \in Scheduler!Attempts
      BY <2>2
    <3>2. attempts' \subseteq attempts \cup {locked}
      BY <2>3 DEF Scheduler!Lock
    <3> HIDE DEF locked
    <3>3. UNCHANGED <<jobs, jobStore, backends, handlerHolder, apply>>
      BY <2>3 DEF Scheduler!Lock
    <3> QED
      BY <2>1, <3>1, <3>2, <3>3 DEF Scheduler!TypeOK
  <2>4. CASE Scheduler!End(a)
    BY <2>1, <2>2, <2>4 DEF Scheduler!End, Scheduler!TypeOK
  <2>5. CASE Scheduler!FireTimer(a)
    BY <2>1, <2>2, <2>5 DEF Scheduler!FireTimer, Scheduler!TypeOK
  <2> QED
    BY <1>4, <2>3, <2>4, <2>5
<1> QED
  BY <1>1, <1>2, <1>3, <1>4 DEF Scheduler!Run

(***************************************************************************)
(* The start of the service gives the scheduler its types.                 *)
(***************************************************************************)
LEMMA StartKeepsTypes ==
    ASSUME Scheduler!TypeOK, NEW R \in SUBSET Routines, Scheduler!Restart(R)
    PROVE  Scheduler!TypeOK'
<1>1. Initial \in Sources
  BY DEF Sources
<1>2. /\ jobs' \subseteq Scheduler!Jobs
      /\ jobStore' \in [Routines -> Scheduler!Handlers \cup {Absent}]
      /\ handlerHolder' \in [Routines -> Scheduler!Handlers \cup {Absent}]
      /\ backends' \in [Routines -> Sources \cup {Absent}]
  BY <1>1, StartIsTyped DEF Scheduler!Restart
<1>3. \A g \in Sources : Scheduler!Idle(IF apply[g].step = "idle" THEN "idle" ELSE "failed") \in
         CallTypes
  BY IdleIsTyped
<1> QED
  BY <1>2, <1>3 DEF Scheduler!Restart, Scheduler!TypeOK, CallTypes

(***************************************************************************)
(* A request that applies the configuration has the one it was given.      *)
(***************************************************************************)
LEMMA ApplyConfigKeepsTypes ==
    ASSUME TypeInv, NEW q \in Requests, ApplyConfig(q)
    PROVE  TypeInv'
<1> DEFINE applying == [op |-> "apply", step |-> "applying", config |-> current]
<1>1. q \in Sources
  BY DEF Sources
<1>2. Scheduler!TypeOK'
  BY <1>1, ApplyKeepsTypes DEF ApplyConfig, TypeInv
<1>3. applying.step = "applying" /\ applying.config \in Sources
  BY DEF TypeInv, ConfigTypes, TypeOK
<1>4. request' = [request EXCEPT ![q] = applying] /\ UNCHANGED <<configs, current, file, unsaved, crashes>>
  BY DEF ApplyConfig
<1> HIDE DEF applying
<1>5. /\ request'[q] = applying
      /\ \A p \in Requests : p # q => request'[p] = request[p]
      /\ request' = [p \in Requests |-> request'[p]]
      /\ DOMAIN request' = Requests
  BY <1>4 DEF TypeInv, ConfigTypes
<1>6. ConfigTypes'
  BY <1>3, <1>4, <1>5 DEF TypeInv, ConfigTypes, TypeOK
<1> QED
  BY <1>2, <1>6 DEF TypeInv

(***************************************************************************)
(* The request is answered when ApplyNewConfig returns.                    *)
(***************************************************************************)
LEMMA ApplyNewConfigSteps ==
    ASSUME NEW q, ApplyNewConfig(q)
    PROVE  /\ request[q].step = "applying"
           /\ \/ request' = request /\ apply'[q].step \notin {"done", "failed"}
              \/ /\ apply'[q].step \in {"done", "failed"}
                 /\ \E status \in {"ok", "failed"} :
                       request' = [request EXCEPT ![q] = Answered(status)]
           /\ LET R == RoutinesOf(configs[request[q].config])
              IN  \/ Scheduler!SetData(q, R) \/ Scheduler!MakeHandlers(q, R)
                  \/ Scheduler!ScheduleRoutine(q, R) \/ Scheduler!ApplyReturns(q, R)
           /\ UNCHANGED <<configs, current, file, unsaved, crashes>>
BY DEF ApplyNewConfig

(***************************************************************************)
(* Every step of ApplyNewConfig keeps the types.                           *)
(***************************************************************************)
LEMMA ApplyNewConfigKeepsTypes ==
    ASSUME TypeInv, NEW q \in Requests, ApplyNewConfig(q)
    PROVE  TypeInv'
<1>1. q \in Sources
  BY DEF Sources
<1>2. RoutinesOf(configs[request[q].config]) \in SUBSET Routines
  BY DEF RoutinesOf
<1>3. Scheduler!TypeOK'
  BY <1>1, <1>2, ApplyKeepsTypes, ApplyNewConfigSteps DEF TypeInv
<1>4. ConfigTypes'
  <2>1. ConfigTypes /\ file \in File \cup {Broken} /\ unsaved \in BOOLEAN
    BY DEF TypeInv, ConfigTypes, TypeOK
  <2>2. CASE request' = request
    <3>1. UNCHANGED <<configs, current, file, unsaved, crashes>>
      BY ApplyNewConfigSteps, Zenon
    <3> QED
      BY <2>1, <2>2, <3>1 DEF ConfigTypes, TypeOK
  <2>3. CASE \E status \in {"ok", "failed"} : request' = [request EXCEPT ![q] = Answered(status)]
    BY <2>1, <2>3, ApplyNewConfigSteps, AnswerKeepsTypes
  <2> QED
    BY <2>2, <2>3, ApplyNewConfigSteps
<1> QED
  BY <1>3, <1>4 DEF TypeInv

(***************************************************************************)
(* The types hold initially.                                               *)
(***************************************************************************)
LEMMA InitIsTyped == ServiceInit => TypeInv
<1> SUFFICES ASSUME ServiceInit PROVE TypeInv
  OBVIOUS
<1>1. Initial \in Sources
  BY DEF Sources
<1>2. Whole(Initial, Routines) \in Config
  BY <1>1, WholeIsTyped
<1>3. file \in File
  BY <1>2, TruncatedIsTyped, SerializedIsTyped DEF ServiceInit, Init
<1>4. Loaded(file) \in Config
  <2>1. CASE file = Truncated
    BY <1>3, <2>1, TruncatedIsSound, SoundFileLoads, LoadedIsTyped
  <2>2. CASE file = Serialized(Whole(Initial, Routines))
    BY <1>1, <1>3, <2>2, WholeIsSound, SerializedIsSound, SoundFileLoads, LoadedIsTyped
  <2> QED
    BY <2>1, <2>2 DEF ServiceInit, Init
<1>5. ConfigTypes
  <2>1. configs \in [Sources -> Config] /\ current \in Sources
    BY <1>1, <1>4, TruncatedIsTyped DEF ServiceInit, Init
  <2>2. /\ request = [q \in Requests |-> request[q]] /\ DOMAIN request = Requests
        /\ \A q \in Requests : request[q].step = "new"
    BY DEF ServiceInit, Init, New
  <2>3. unsaved \in BOOLEAN /\ crashes \in 0..MaxCrashes
    <3>1. unsaved = FALSE /\ crashes = 0
      BY DEF ServiceInit, Init
    <3>2. MaxCrashes \in Nat
      BY ConfigurationAssumption
    <3>3. unsaved \in BOOLEAN
      BY <3>1, Zenon
    <3> QED
      BY <3>1, <3>2, <3>3
  <2> QED
    BY <1>3, <2>1, <2>2, <2>3 DEF ConfigTypes, TypeOK
<1>6. Scheduler!TypeOK
  <2>1. RoutinesOf(config) \in SUBSET Routines
    BY DEF RoutinesOf
  <2> QED
    BY <1>1, <2>1, IdleIsTyped, StartIsTyped DEF ServiceInit, Scheduler!Init, Scheduler!TypeOK, CallTypes
<1> QED
  BY <1>5, <1>6 DEF TypeInv

(***************************************************************************)
(* Every step of the service keeps the types.                              *)
(***************************************************************************)
LEMMA NextKeepsTypes ==
    ASSUME TypeInv, [Next]_serviceVars
    PROVE  TypeInv'
<1>1. CASE UNCHANGED serviceVars
  BY <1>1 DEF serviceVars, vars, schedulerVars, TypeInv, ConfigTypes, TypeOK, Scheduler!TypeOK
<1>2. ASSUME UNCHANGED schedulerVars PROVE Scheduler!TypeOK'
  BY <1>2 DEF schedulerVars, TypeInv, Scheduler!TypeOK
<1>3. ASSUME NEW q \in Requests, (Handle(q) \/ Proceed(q)) /\ UNCHANGED schedulerVars
      PROVE  TypeInv'
  BY <1>2, <1>3, HandleKeepsTypes, ProceedKeepsTypes DEF TypeInv
<1>4. ASSUME NEW q \in Requests, ApplyConfig(q) \/ ApplyNewConfig(q) PROVE TypeInv'
  BY <1>4, ApplyConfigKeepsTypes, ApplyNewConfigKeepsTypes
<1>5. ASSUME NEW q \in Requests, ScheduleFullBackup(q) PROVE TypeInv'
  <2>1. file \in File \cup {Broken} /\ unsaved \in BOOLEAN /\ ConfigTypes
    BY DEF TypeInv, ConfigTypes, TypeOK
  <2>2. \E status \in {"ok", "failed"} : request' = [request EXCEPT ![q] = Answered(status)]
    BY <1>5 DEF ScheduleFullBackup
  <2>3. ConfigTypes'
    BY <1>5, <2>1, <2>2, AnswerKeepsTypes DEF ScheduleFullBackup
  <2>4. UNCHANGED schedulerVars \/ \E r \in Routines : Scheduler!ScheduleFullBackup(r)
    BY <1>5 DEF ScheduleFullBackup
  <2>5. Scheduler!TypeOK'
    BY <1>2, <2>4, RunKeepsTypes DEF TypeInv
  <2> QED
    BY <2>3, <2>5 DEF TypeInv
<1>6. ASSUME NEW q \in Requests, ReadAllBackups(q) \/ ReadBackups(q) \/ GetCurrentBackupInfo(q)
      PROVE  TypeInv'
  <2>1. UNCHANGED schedulerVars /\ \E found \in BOOLEAN : Read(q, found)
    BY <1>6 DEF ReadAllBackups, ReadBackups, GetCurrentBackupInfo
  <2> QED
    BY <1>2, <2>1, ReadKeepsTypes DEF TypeInv
<1>7. CASE Scheduler!Run /\ UNCHANGED vars
  BY <1>7, RunKeepsTypes DEF TypeInv, ConfigTypes, TypeOK, vars
<1>8. CASE RestartService
  <2>1. RoutinesOf(configs'[Initial]) \in SUBSET Routines
    BY DEF RoutinesOf
  <2> QED
    BY <1>8, <2>1, RestartKeepsTypes, StartKeepsTypes DEF RestartService, TypeInv
<1> QED
  BY <1>1, <1>3, <1>4, <1>5, <1>6, <1>7, <1>8 DEF Next

(***************************************************************************)
(* The maps, the file, the requests, the jobs and the handlers keep their  *)
(* types, whatever is sent, in whichever order.                            *)
(***************************************************************************)
THEOREM ServiceTypeCorrect == Spec => []ServiceTypeOK
<1>1. TypeInv /\ [Next]_serviceVars => TypeInv'
  BY NextKeepsTypes
<1>2. TypeInv => ServiceTypeOK
  BY DEF TypeInv, ConfigTypes, ServiceTypeOK
<1> QED
  BY <1>1, <1>2, InitIsTyped, PTL DEF Spec

-----------------------------------------------------------------------------
(* The jobs of a routine *)

(***************************************************************************)
(* A job but one on request is there only with the scheduled full backup,  *)
(* the key of which keeps a second call from adding to the first's jobs.   *)
(***************************************************************************)
JobsInv ==
    \A j \in jobs : j.group # "adhoc" =>
       j.handler = jobStore[j.routine] /\ Scheduler!HasKey(j.routine, "full")

(***************************************************************************)
(* A round of scheduleRoutines adds to a routine that has no such jobs.    *)
(***************************************************************************)
LEMMA ScheduledKeepsJobs ==
    ASSUME TypeInv, JobsInv, NEW q, NEW r \in Routines, Scheduled(q, r)
    PROVE  JobsInv'
<1> DEFINE handler == apply[q].handlers[r]
<1>1. CASE UNCHANGED <<jobs, jobStore>>
  BY <1>1 DEF JobsInv, Scheduler!HasKey
<1>2. CASE /\ ~Scheduler!HasKey(r, "full")
           /\ jobStore' = Scheduler!Stored(r, handler)
           /\ \E groups \in SUBSET {"full", "incremental", "now"} :
                 /\ "full" \in groups
                 /\ jobs' = jobs \cup {Scheduler!Job(r, group, handler) : group \in groups}
  <2>1. PICK groups \in SUBSET {"full", "incremental", "now"} :
          /\ "full" \in groups
          /\ jobs' = jobs \cup {Scheduler!Job(r, group, handler) : group \in groups}
    BY <1>2
  <2>2. jobStore'[r] = handler /\ \A x \in Routines : x # r => jobStore'[x] = jobStore[x]
    BY <1>2 DEF Scheduler!Stored, TypeInv, Scheduler!TypeOK
  <2>3. jobs \subseteq jobs' /\ Scheduler!HasKey(r, "full")'
    <3>1. Scheduler!Job(r, "full", handler) \in jobs'
      BY <2>1
    <3>2. Scheduler!Job(r, "full", handler).routine = r /\ Scheduler!Job(r, "full", handler).group = "full"
      BY DEF Scheduler!Job
    <3> QED
      BY <2>1, <3>1, <3>2 DEF Scheduler!HasKey
  <2>4. ASSUME NEW j \in jobs', j.group # "adhoc"
        PROVE  j.handler = jobStore'[j.routine] /\ Scheduler!HasKey(j.routine, "full")'
    <3>1. CASE j \in jobs
      <4>1. j.handler = jobStore[j.routine] /\ Scheduler!HasKey(j.routine, "full")
            /\ j.routine \in Routines
        BY <2>4, <3>1 DEF JobsInv, TypeInv, Scheduler!TypeOK, Scheduler!Jobs
      <4>2. j.routine # r
        BY <1>2, <4>1
      <4>3. Scheduler!HasKey(j.routine, "full")'
        BY <2>3, <4>1 DEF Scheduler!HasKey
      <4> QED
        BY <2>2, <4>1, <4>2, <4>3
    <3>2. CASE j \notin jobs
      <4>1. j.routine = r /\ j.handler = handler
        BY <2>1, <3>2 DEF Scheduler!Job
      <4> QED
        BY <2>2, <2>3, <4>1
    <3> QED
      BY <3>1, <3>2
  <2> QED
    BY <2>4 DEF JobsInv
<1> QED
  BY <1>1, <1>2 DEF Scheduled

(***************************************************************************)
(* A job that fired once is taken away, and the others stay.               *)
(***************************************************************************)
LEMMA FiredKeepsJobs ==
    ASSUME JobsInv, NEW j \in jobs, jobs' = Scheduler!Fired(j), jobStore' = jobStore
    PROVE  JobsInv'
<1>1. jobs' \subseteq jobs /\ \A k \in jobs : k.group = "full" => k \in jobs'
  BY DEF Scheduler!Fired
<1> QED
  BY <1>1 DEF JobsInv, Scheduler!HasKey

(***************************************************************************)
(* The service starts with the jobs of the handlers it stored.             *)
(***************************************************************************)
LEMMA StartHasJobs ==
    ASSUME NEW R \in SUBSET Routines, NEW due \in SUBSET R
    PROVE  \A j \in Scheduler!StartJobs(R, due) :
              /\ j.handler = Scheduler!StartHandlers(R)[j.routine]
              /\ \E k \in Scheduler!StartJobs(R, due) : k.routine = j.routine /\ k.group = "full"
<1> TAKE j \in Scheduler!StartJobs(R, due)
<1>1. PICK r \in R, g \in {"full", "incremental", "now"} :
        j = Scheduler!Job(r, g, Scheduler!Handler(r, Initial))
  BY DEF Scheduler!StartJobs
<1>2. j.routine = r /\ j.handler = Scheduler!Handler(r, Initial)
  BY <1>1 DEF Scheduler!Job
<1> DEFINE full == Scheduler!Job(r, "full", Scheduler!Handler(r, Initial))
<1>3. full \in Scheduler!StartJobs(R, due)
  BY DEF Scheduler!StartJobs
<1>4. full.routine = r /\ full.group = "full"
  BY DEF Scheduler!Job
<1>5. Scheduler!StartHandlers(R)[r] = Scheduler!Handler(r, Initial)
  BY DEF Scheduler!StartHandlers
<1> QED
  BY <1>2, <1>3, <1>4, <1>5

(***************************************************************************)
(* Every step of the service keeps the jobs of a routine together.         *)
(***************************************************************************)
LEMMA NextKeepsJobs ==
    ASSUME TypeInv, JobsInv, [Next]_serviceVars
    PROVE  JobsInv'
<1>1. ASSUME UNCHANGED <<jobs, jobStore>> PROVE JobsInv'
  BY <1>1 DEF JobsInv, Scheduler!HasKey
<1>2. ASSUME NEW q \in Requests,
             \/ (Handle(q) \/ Proceed(q)) /\ UNCHANGED schedulerVars
             \/ ReadAllBackups(q) \/ ReadBackups(q) \/ GetCurrentBackupInfo(q)
      PROVE  JobsInv'
  BY <1>1, <1>2 DEF schedulerVars, ReadAllBackups, ReadBackups, GetCurrentBackupInfo
<1>3. ASSUME NEW q \in Requests, ApplyConfig(q) PROVE JobsInv'
  <2>1. jobs' = {}
    BY <1>3 DEF ApplyConfig, Scheduler!Clear
  <2> QED
    BY <2>1 DEF JobsInv
<1>4. ASSUME NEW q \in Requests, ApplyNewConfig(q) PROVE JobsInv'
  <2> DEFINE R == RoutinesOf(configs[request[q].config])
  <2>1. \/ Scheduler!SetData(q, R) \/ Scheduler!MakeHandlers(q, R)
        \/ Scheduler!ScheduleRoutine(q, R) \/ Scheduler!ApplyReturns(q, R)
    BY <1>4, ApplyNewConfigSteps
  <2>2. R \subseteq Routines
    BY DEF RoutinesOf
  <2> HIDE DEF R
  <2>3. CASE Scheduler!ScheduleRoutine(q, R)
    BY <2>2, <2>3, ScheduleRoutineSteps, ScheduledKeepsJobs
  <2>4. CASE Scheduler!SetData(q, R) \/ Scheduler!MakeHandlers(q, R) \/ Scheduler!ApplyReturns(q, R)
    BY <1>1, <2>4 DEF Scheduler!SetData, Scheduler!MakeHandlers, Scheduler!ApplyReturns
  <2> QED
    BY <2>1, <2>3, <2>4
<1>5. ASSUME NEW q \in Requests, ScheduleFullBackup(q) PROVE JobsInv'
  <2>1. CASE UNCHANGED schedulerVars
    BY <1>1, <2>1 DEF schedulerVars
  <2>2. ASSUME NEW r \in Routines, Scheduler!ScheduleFullBackup(r) PROVE JobsInv'
    BY <2>2 DEF Scheduler!ScheduleFullBackup, Scheduler!Job, Scheduler!HasKey, JobsInv
  <2> QED
    BY <1>5, <2>1, <2>2 DEF ScheduleFullBackup
<1>6. CASE Scheduler!Run
  <2>1. ASSUME NEW j \in jobs, Scheduler!SkipFull(j) \/ \E e \in Executions : Scheduler!Execute(j, e)
        PROVE  JobsInv'
    BY <2>1, FiredKeepsJobs DEF Scheduler!SkipFull, Scheduler!Execute
  <2>2. ASSUME NEW a \in attempts, Scheduler!Lock(a) \/ Scheduler!End(a) \/ Scheduler!FireTimer(a)
        PROVE  JobsInv'
    BY <1>1, <2>2 DEF Scheduler!Lock, Scheduler!End, Scheduler!FireTimer
  <2> QED
    BY <1>6, <2>1, <2>2 DEF Scheduler!Run
<1>7. CASE RestartService
  <2> DEFINE R == RoutinesOf(configs'[Initial])
  <2>1. PICK due \in SUBSET R :
          jobs' = Scheduler!StartJobs(R, due) /\ jobStore' = Scheduler!StartHandlers(R)
    BY <1>7 DEF RestartService, Scheduler!Restart
  <2>2. R \subseteq Routines
    BY DEF RoutinesOf
  <2> HIDE DEF R
  <2> QED
    BY <2>1, <2>2, StartHasJobs DEF JobsInv, Scheduler!HasKey
<1>8. CASE UNCHANGED serviceVars
  BY <1>1, <1>8 DEF serviceVars, schedulerVars
<1> QED
  BY <1>2, <1>3, <1>4, <1>5, <1>6, <1>7, <1>8 DEF Next

(***************************************************************************)
(* However requests apply configurations, change them and ask for full     *)
(* backups, and wherever an apply stops: the jobs of a routine on schedule *)
(* have one handler, and a full backup on request gets the same.           *)
(***************************************************************************)
THEOREM JobsAlwaysShareHandler == Spec => []JobsShareHandler
<1>1. ServiceInit => JobsInv
  <2> SUFFICES ASSUME ServiceInit PROVE JobsInv
    OBVIOUS
  <2> DEFINE R == RoutinesOf(config)
  <2>1. PICK due \in SUBSET R :
          jobs = Scheduler!StartJobs(R, due) /\ jobStore = Scheduler!StartHandlers(R)
    BY DEF ServiceInit, Scheduler!Init
  <2>2. R \subseteq Routines
    BY DEF RoutinesOf
  <2> HIDE DEF R
  <2> QED
    BY <2>1, <2>2, StartHasJobs DEF JobsInv, Scheduler!HasKey
<1>2. TypeInv /\ JobsInv /\ [Next]_serviceVars => TypeInv' /\ JobsInv'
  BY NextKeepsTypes, NextKeepsJobs
<1>3. JobsInv => JobsShareHandler
  BY DEF JobsInv, JobsShareHandler, Scheduler!JobsShareHandler
<1> QED
  BY <1>1, <1>2, <1>3, InitIsTyped, PTL DEF Spec

-----------------------------------------------------------------------------
(* Pointers and items *)

(***************************************************************************)
(* An object is the item of its own name only, and only a storage is nil.  *)
(***************************************************************************)
Own(items) ==
    \A i \in Items :
       /\ items[i] \in Objects => items[i].item = i
       /\ items[i] = Null => i \in Storages

ItemsInv ==
    /\ \A s \in Sources : Own(configs[s].items)
    /\ file # Broken => Own(file.items)
    /\ \A q \in Requests : request[q].step = "writing" => Own(request[q].data.items)

Resolves(c) == \A r \in Routines : c.routines[r] # Absent => Found(c, c.routines[r].ref)

(***************************************************************************)
(* What a step of request q has to show.                                   *)
(***************************************************************************)
Kept(q) ==
    /\ ItemsInv'
    /\ ReferencesResolve =>
          \/ ReferencesResolve'
          \/ /\ request[q].step = "resolved" /\ request'[q].step = "changed"
             /\ ~Found(config, request[q].to.ref)

(***************************************************************************)
(* A reference is found when each pointer is to an item of its kind.       *)
(***************************************************************************)
LEMMA FoundIn ==
    ASSUME NEW c, NEW ref
    PROVE  Found(c, ref) <=> /\ \E i \in Clusters : c.items[i] = ref.cluster
                             /\ \E i \in Storages : c.items[i] = ref.storage
                             /\ \E i \in Policies : c.items[i] = ref.policy
<1>1. ASSUME NEW kind \in {Clusters, Storages, Policies}, NEW object
      PROVE  KeyOf(c, kind, object) # NoName <=> \E i \in kind : c.items[i] = object
  <2>1. NoName \notin kind
    BY ConfigurationAssumption DEF Items
  <2>2. CASE \E i \in kind : c.items[i] = object
    <3>1. (CHOOSE i \in kind : c.items[i] = object) \in kind
      BY <2>2
    <3> QED
      BY <2>1, <2>2, <3>1 DEF KeyOf
  <2>3. CASE ~ \E i \in kind : c.items[i] = object
    BY <2>3 DEF KeyOf
  <2> QED
    BY <2>2, <2>3
<1> QED
  BY <1>1 DEF Found

(***************************************************************************)
(* The references of the configuration in use, and those of the next one.  *)
(***************************************************************************)
LEMMA ReferencesAre ==
    /\ ReferencesResolve <=> Resolves(config)
    /\ ReferencesResolve' <=> Resolves(config')
<1>1. ReferencesResolve <=> Resolves(config)
  BY DEF ReferencesResolve, Resolves
<1>2. ReferencesResolve' <=> Resolves(config')
  BY DEF ReferencesResolve, Resolves, Found, KeyOf
<1> QED
  BY <1>1, <1>2

(***************************************************************************)
(* A step that leaves the maps and the file alone, and starts no write.    *)
(***************************************************************************)
LEMMA SameIsKept ==
    ASSUME ItemsInv, NEW q, UNCHANGED <<configs, current, file>>,
           \A p \in Requests : request'[p].step = "writing" => request'[p] = request[p]
    PROVE  Kept(q)
<1>1. config' = config
  BY DEF config
<1>2. ReferencesResolve' <=> ReferencesResolve
  BY <1>1, ReferencesAre
<1>3. ItemsInv'
  BY DEF ItemsInv
<1> QED
  BY <1>2, <1>3 DEF Kept

(***************************************************************************)
(* A request that is answered, or goes on without a write, is such a step. *)
(***************************************************************************)
LEMMA AnswerIsKept ==
    ASSUME ConfigTypes, ItemsInv, NEW q \in Requests, NEW answer, answer.step # "writing",
           request' = [request EXCEPT ![q] = answer], UNCHANGED <<configs, current, file>>
    PROVE  Kept(q)
<1>1. request'[q] = answer /\ \A p \in Requests : p # q => request'[p] = request[p]
  BY DEF ConfigTypes
<1>2. \A p \in Requests : request'[p].step = "writing" => request'[p] = request[p]
  BY <1>1
<1> QED
  BY <1>2, SameIsKept

(***************************************************************************)
(* The maps were changed.                                                  *)
(***************************************************************************)
LEMMA ChangeIsKept ==
    ASSUME ConfigTypes, ItemsInv, NEW q \in Requests, NEW op, NEW c, Change(q, op, c),
           Own(c.items), Resolves(config) => Resolves(c)
    PROVE  Kept(q)
<1>1. configs \in [Sources -> Config] /\ current \in Sources
  BY DEF ConfigTypes, TypeOK
<1>2. /\ configs' = [configs EXCEPT ![current] = c] /\ current' = current /\ file' = file
  BY DEF Change
<1>3. config' = c
  BY <1>1, <1>2 DEF config
<1>4. \A s \in Sources : Own(configs'[s].items)
  BY <1>1, <1>2 DEF ItemsInv
<1>5. \A p \in Requests : request'[p].step = "writing" => request'[p] = request[p]
  BY DEF Change, ConfigTypes
<1>6. ItemsInv'
  BY <1>2, <1>4, <1>5 DEF ItemsInv
<1> QED
  BY <1>3, <1>6, ReferencesAre DEF Kept

(***************************************************************************)
(* The configuration in use has its items under their names.               *)
(***************************************************************************)
LEMMA ConfigOwns ==
    ASSUME ConfigTypes, ItemsInv
    PROVE  Own(config.items)
BY DEF ConfigTypes, TypeOK, ItemsInv, config

(***************************************************************************)
(* A request that is rejected keeps everything.                            *)
(***************************************************************************)
LEMMA RejectIsKept ==
    ASSUME ConfigTypes, ItemsInv, NEW q \in Requests, NEW op, Reject(q, op)
    PROVE  Kept(q)
<1>1. Answered("failed").step # "writing"
  BY DEF Answered
<1> QED
  BY <1>1, AnswerIsKept DEF Reject

(***************************************************************************)
(* So does a read.                                                         *)
(***************************************************************************)
LEMMA ReadIsKept ==
    ASSUME ConfigTypes, ItemsInv, NEW q \in Requests, NEW found, Read(q, found)
    PROVE  Kept(q)
<1> DEFINE answer == Answered(IF found THEN "ok" ELSE "failed")
<1>1. answer.step # "writing"
  BY DEF Answered
<1>2. request' = [request EXCEPT ![q] = answer] /\ UNCHANGED <<configs, current, file>>
  BY DEF Read
<1> HIDE DEF answer
<1> QED
  BY <1>1, <1>2, AnswerIsKept

(***************************************************************************)
(* The references of a routine of the configuration in use, by type.       *)
(***************************************************************************)
LEMMA RefIsTyped ==
    ASSUME ConfigTypes, NEW r \in Routines, config.routines[r] # Absent
    PROVE  LET ref == config.routines[r].ref
           IN  /\ ref \in Refs
               /\ {ref.cluster, ref.storage, ref.policy} \subseteq Objects \cup {Null}
<1>1. config.routines[r].ref \in Refs
  BY ConfigIsTyped
<1> QED
  BY <1>1 DEF Refs

(***************************************************************************)
(* An item that no pointer of the configuration is to becomes another, or  *)
(* none.                                                                   *)
(***************************************************************************)
LEMMA SetItemResolves ==
    ASSUME ConfigTypes, NEW i \in Items, NEW object,
           \A r \in Routines : ~Uses(config.routines[r], config.items[i])
    PROVE  Resolves(config) => Resolves([config EXCEPT !.items[i] = object])
<1> DEFINE c == [config EXCEPT !.items[i] = object]
<1>1. /\ c.routines = config.routines
      /\ \A k \in Items : k # i => c.items[k] = config.items[k]
  BY ConfigIsTyped
<1> HIDE DEF c
<1> SUFFICES ASSUME Resolves(config), NEW r \in Routines, c.routines[r] # Absent
             PROVE  Found(c, c.routines[r].ref)
  BY DEF Resolves, c
<1> DEFINE ref == config.routines[r].ref
<1>2. Found(config, ref)
  BY <1>1 DEF Resolves
<1>3. config.items[i] \notin {ref.cluster, ref.storage, ref.policy}
  BY <1>1 DEF Uses
<1> HIDE DEF ref
<1>4. Clusters \subseteq Items /\ Storages \subseteq Items /\ Policies \subseteq Items
  BY DEF Items
<1>5. Found(c, ref)
  <2>1. \E k \in Clusters : c.items[k] = ref.cluster
    BY <1>1, <1>2, <1>3, <1>4, FoundIn
  <2>2. \E k \in Storages : c.items[k] = ref.storage
    BY <1>1, <1>2, <1>3, <1>4, FoundIn
  <2>3. \E k \in Policies : c.items[k] = ref.policy
    BY <1>1, <1>2, <1>3, <1>4, FoundIn
  <2> QED
    BY <2>1, <2>2, <2>3, FoundIn
<1> QED
  BY <1>1, <1>5 DEF ref

(***************************************************************************)
(* An item that a request brings is put under its name.                    *)
(***************************************************************************)
LEMMA SetItemOwns ==
    ASSUME NEW items \in [Items -> Objects \cup {Absent, Null}], Own(items), NEW i \in Items, NEW object,
           object \in Objects => object.item = i,
           object = Null => i \in Storages
    PROVE  Own([items EXCEPT ![i] = object])
BY DEF Own

(***************************************************************************)
(* Adding an item takes none away.                                         *)
(***************************************************************************)
LEMMA AddIsKept ==
    ASSUME ConfigTypes, ItemsInv, NEW q \in Requests, NEW op, NEW i \in Items,
           NEW object \in Objects, object.item = i, Add(q, op, i, object)
    PROVE  Kept(q)
<1>1. CASE config.items[i] # Absent
  BY <1>1, RejectIsKept DEF Add
<1>2. CASE config.items[i] = Absent
  <2> DEFINE c == [config EXCEPT !.items[i] = object]
  <2>1. Change(q, op, c)
    BY <1>2 DEF Add
  <2>2. Own(c.items)
    <3>1. c.items = [config.items EXCEPT ![i] = object]
      BY ConfigIsTyped
    <3> QED
      BY <3>1, ConfigIsTyped, ConfigOwns, SetItemOwns, ConfigurationAssumption
  <2>3. \A r \in Routines : ~Uses(config.routines[r], config.items[i])
    <3> SUFFICES ASSUME NEW r \in Routines, Uses(config.routines[r], Absent) PROVE FALSE
      BY <1>2
    <3>1. Absent \in Objects \cup {Null}
      BY RefIsTyped DEF Uses
    <3> QED
      BY <3>1, ConfigurationAssumption
  <2> QED
    BY <2>1, <2>2, <2>3, SetItemResolves, ChangeIsKept
<1> QED
  BY <1>1, <1>2

(***************************************************************************)
(* Deleting an item is refused while a routine uses it.                    *)
(***************************************************************************)
LEMMA DeleteIsKept ==
    ASSUME ConfigTypes, ItemsInv, NEW q \in Requests, NEW op, NEW i \in Items, Delete(q, op, i)
    PROVE  Kept(q)
<1> DEFINE used == config.items[i] = Absent \/ \E r \in Routines : Uses(config.routines[r], config.items[i])
<1>1. CASE used
  BY <1>1, RejectIsKept DEF Delete
<1>2. CASE ~used
  <2> DEFINE c == [config EXCEPT !.items[i] = Absent]
  <2>1. Change(q, op, c)
    BY <1>2 DEF Delete
  <2>2. Own(c.items)
    <3>1. c.items = [config.items EXCEPT ![i] = Absent]
      BY ConfigIsTyped
    <3> QED
      BY <3>1, ConfigIsTyped, ConfigOwns, SetItemOwns, ConfigurationAssumption
  <2> QED
    BY <1>2, <2>1, <2>2, SetItemResolves, ChangeIsKept
<1> QED
  BY <1>1, <1>2

(***************************************************************************)
(* Two names that have the same item are of one kind.                      *)
(***************************************************************************)
LEMMA SameItemSameKind ==
    ASSUME NEW items \in [Items -> Objects \cup {Absent, Null}], Own(items),
           NEW kind \in {Clusters, Storages, Policies}, NEW i \in Items, NEW j \in kind,
           items[i] = items[j], items[i] # Absent
    PROVE  i \in kind
<1>1. j \in Items
  BY DEF Items
<1>2. CASE items[i] \in Objects
  BY <1>1, <1>2 DEF Own
<1>3. CASE items[i] = Null
  <2>1. i \in Storages /\ j \in Storages
    BY <1>1, <1>3 DEF Own
  <2> QED
    BY <2>1, ConfigurationAssumption
<1> QED
  BY <1>2, <1>3

(***************************************************************************)
(* Updating an item reaches every routine that refers to it.               *)
(***************************************************************************)
LEMMA UpdateResolves ==
    ASSUME ConfigTypes, ItemsInv, NEW i \in Items, NEW object, config.items[i] # Absent
    PROVE  Resolves(config) =>
             Resolves([items    |-> [config.items EXCEPT ![i] = object],
                       routines |-> [r \in Routines |->
                          Repoint(config.routines[r], config.items[i], object)]])
<1> DEFINE items == [config.items EXCEPT ![i] = object]
           routines == [r \in Routines |-> Repoint(config.routines[r], config.items[i], object)]
           c == [items |-> items, routines |-> routines]
<1> SUFFICES ASSUME Resolves(config), NEW r \in Routines, c.routines[r] # Absent
             PROVE  Found(c, c.routines[r].ref)
  BY DEF Resolves
<1> DEFINE x == config.routines[r]
           new == [k \in DOMAIN x.ref |-> IF x.ref[k] = config.items[i] THEN object ELSE x.ref[k]]
<1>1. x # Absent
  BY DEF Repoint
<1>2. x \in [ref : Refs, large : BOOLEAN, by : Sources]
  BY <1>1, ConfigIsTyped
<1>3. c.routines[r].ref = new
  <2>1. c.routines[r] = [x EXCEPT !.ref = new]
    BY <1>1 DEF Repoint
  <2> HIDE DEF x, new, c
  <2> QED
    BY <1>2, <2>1
<1>4. DOMAIN x.ref = {"cluster", "storage", "policy"}
  BY <1>2 DEF Refs
<1>5. Found(config, x.ref)
  BY <1>1 DEF Resolves
<1> HIDE DEF x
<1>6. /\ new.cluster = IF x.ref.cluster = config.items[i] THEN object ELSE x.ref.cluster
      /\ new.storage = IF x.ref.storage = config.items[i] THEN object ELSE x.ref.storage
      /\ new.policy = IF x.ref.policy = config.items[i] THEN object ELSE x.ref.policy
  BY <1>4
<1>7. config.items \in [Items -> Objects \cup {Absent, Null}] /\ Own(config.items) /\ c.items = items
  BY ConfigIsTyped, ConfigOwns
<1> HIDE DEF c, new
<1>11. ASSUME NEW kind \in {Clusters, Storages, Policies}, NEW pointer,
               \E j \in kind : config.items[j] = pointer
        PROVE  \E j \in kind : c.items[j] = IF pointer = config.items[i] THEN object ELSE pointer
  <2> PICK j \in kind : config.items[j] = pointer
    BY <1>11
  <2>1. j \in Items
    BY DEF Items
  <2>2. CASE pointer = config.items[i]
    <3>1. config.items[i] = config.items[j]
      BY <2>2
    <3>2. i \in kind
      BY <1>7, <3>1, SameItemSameKind
    <3>3. c.items[i] = object
      BY <1>7
    <3> QED
      BY <2>2, <3>2, <3>3
  <2>3. CASE pointer # config.items[i]
    <3>1. c.items[j] = config.items[j]
      BY <1>7, <2>1, <2>3
    <3> QED
      BY <2>3, <3>1
  <2> QED
    BY <2>2, <2>3
<1> HIDE DEF items
<1>12. /\ \E j \in Clusters : config.items[j] = x.ref.cluster
       /\ \E j \in Storages : config.items[j] = x.ref.storage
       /\ \E j \in Policies : config.items[j] = x.ref.policy
  BY <1>5, FoundIn
<1>8. \E j \in Clusters : c.items[j] = new.cluster
  BY <1>6, <1>11, <1>12
<1>9. \E j \in Storages : c.items[j] = new.storage
  BY <1>6, <1>11, <1>12
<1>10. \E j \in Policies : c.items[j] = new.policy
  <2>1. \E j \in Policies : c.items[j] = IF x.ref.policy = config.items[i] THEN object ELSE x.ref.policy
    BY <1>11, <1>12, Zenon
  <2> QED
    BY <1>6, <2>1
<1> QED
  BY <1>3, <1>8, <1>9, <1>10, FoundIn

(***************************************************************************)
(* An update is that, or is rejected.                                      *)
(***************************************************************************)
LEMMA UpdateIsKept ==
    ASSUME ConfigTypes, ItemsInv, NEW q \in Requests, NEW op, NEW i \in Items, NEW object,
           object \in Objects => object.item = i, object = Null => i \in Storages,
           Update(q, op, i, object)
    PROVE  Kept(q)
<1>1. CASE config.items[i] = Absent
  BY <1>1, RejectIsKept DEF Update
<1>2. CASE config.items[i] # Absent
  <2> DEFINE items == [config.items EXCEPT ![i] = object]
             c == [items    |-> items,
                   routines |-> [r \in Routines |->
                      Repoint(config.routines[r], config.items[i], object)]]
  <2>1. Change(q, op, c)
    BY <1>2 DEF Update
  <2>2. Own(c.items)
    BY ConfigIsTyped, ConfigOwns, SetItemOwns
  <2>3. Resolves(config) => Resolves(c)
    BY <1>2, UpdateResolves
  <2> HIDE DEF c
  <2> QED
    BY <2>1, <2>2, <2>3, ChangeIsKept
<1> QED
  BY <1>1, <1>2

(***************************************************************************)
(* The conversion of a routine only looks at the maps.                     *)
(***************************************************************************)
LEMMA ResolveIsKept ==
    ASSUME ConfigTypes, ItemsInv, NEW q \in Requests, ResolveRoutine(q)
    PROVE  Kept(q)
<1>1. PICK op \in {"addRoutine", "updateRoutine"}, r \in Routines, large \in Sizes,
           names \in [cluster : Clusters, storage : Storages, policy : Policies] :
         \/ /\ request' = [request EXCEPT ![q] =
                 [op |-> op, step |-> "resolved", routine |-> r,
                  to |-> [ref |-> Resolve(config, names), large |-> large, by |-> q]]]
            /\ UNCHANGED <<configs, current, file, unsaved, crashes>>
         \/ Reject(q, op)
  BY Zenon DEF ResolveRoutine
<1>2. CASE Reject(q, op)
  BY <1>2, RejectIsKept
<1>3. CASE ~Reject(q, op)
  <2> DEFINE answer == [op |-> op, step |-> "resolved", routine |-> r,
                        to |-> [ref |-> Resolve(config, names), large |-> large, by |-> q]]
  <2>1. answer.step = "resolved" /\ request' = [request EXCEPT ![q] = answer]
        /\ UNCHANGED <<configs, current, file>>
    BY <1>1, <1>3
  <2> HIDE DEF answer
  <2> QED
    BY <2>1, AnswerIsKept
<1> QED
  BY <1>2, <1>3

(***************************************************************************)
(* A routine is put in or taken out.                                       *)
(***************************************************************************)
LEMMA SetRoutineResolves ==
    ASSUME ConfigTypes, NEW r \in Routines, NEW to, to # Absent => Found(config, to.ref)
    PROVE  /\ [config EXCEPT !.routines[r] = to].items = config.items
           /\ Resolves(config) => Resolves([config EXCEPT !.routines[r] = to])
<1> DEFINE c == [config EXCEPT !.routines[r] = to]
<1>1. /\ c.items = config.items /\ c.routines[r] = to
      /\ \A k \in Routines : k # r => c.routines[k] = config.routines[k]
  BY ConfigIsTyped
<1> HIDE DEF c
<1>2. ASSUME NEW ref, Found(config, ref) PROVE Found(c, ref)
  BY <1>1, <1>2, FoundIn
<1>3. ASSUME Resolves(config), NEW k \in Routines, c.routines[k] # Absent
      PROVE  Found(c, c.routines[k].ref)
  <2>1. CASE k = r
    BY <1>1, <1>2, <1>3, <2>1
  <2>2. CASE k # r
    BY <1>1, <1>2, <1>3, <2>2 DEF Resolves
  <2> QED
    BY <2>1, <2>2
<1> QED
  BY <1>1, <1>3 DEF Resolves, c

(***************************************************************************)
(* A routine whose references are still found breaks none; others are the  *)
(* stale ones.                                                             *)
(***************************************************************************)
LEMMA PutIsKept ==
    ASSUME ConfigTypes, ItemsInv, NEW q \in Requests, NEW op, NEW accepted,
           PutRoutine(q, op, accepted)
    PROVE  Kept(q)
<1>1. request[q].step = "resolved" /\ request[q].routine \in Routines
  BY DEF PutRoutine, ConfigTypes, TypeOK
<1> DEFINE r == request[q].routine
           to == request[q].to
           c == [config EXCEPT !.routines[r] = to]
<1>2. CASE ~accepted
  <2>1. Answered("failed").step # "writing"
    BY DEF Answered
  <2> QED
    BY <1>2, <2>1, AnswerIsKept DEF PutRoutine
<1>3. CASE accepted /\ Found(config, to.ref)
  <2>1. Change(q, op, c)
    BY <1>3 DEF PutRoutine
  <2>2. c.items = config.items /\ (Resolves(config) => Resolves(c))
    BY <1>1, <1>3, SetRoutineResolves
  <2> HIDE DEF c
  <2> QED
    BY <2>1, <2>2, ConfigOwns, ChangeIsKept
<1>4. CASE accepted /\ ~Found(config, to.ref)
  <2>1. Change(q, op, c)
    BY <1>4 DEF PutRoutine
  <2>2. c.items = config.items
    BY ConfigIsTyped
  <2> HIDE DEF c
  <2>3. /\ configs' = [configs EXCEPT ![current] = c] /\ current' = current /\ file' = file
        /\ request' = [request EXCEPT ![q] = [op |-> op, step |-> "changed", argument |-> {current}]]
    BY <2>1 DEF Change
  <2>4. request'[q].step = "changed" /\ \A p \in Requests : p # q => request'[p] = request[p]
    BY <2>3 DEF ConfigTypes
  <2>5. configs \in [Sources -> Config] /\ current \in Sources
    BY DEF ConfigTypes, TypeOK
  <2>6. \A s \in Sources : Own(configs'[s].items)
    BY <2>2, <2>3, <2>5, ConfigOwns DEF ItemsInv
  <2>7. ItemsInv'
    BY <2>3, <2>4, <2>6 DEF ItemsInv
  <2> QED
    BY <1>1, <1>4, <2>4, <2>7 DEF Kept
<1> QED
  BY <1>2, <1>3, <1>4

(***************************************************************************)
(* Without a routine there are no references of it.                        *)
(***************************************************************************)
LEMMA DeleteRoutineIsKept ==
    ASSUME ConfigTypes, ItemsInv, NEW q \in Requests, DeleteRoutine(q)
    PROVE  Kept(q)
<1>1. PICK r \in Routines : \/ Reject(q, "deleteRoutine")
                            \/ Change(q, "deleteRoutine", [config EXCEPT !.routines[r] = Absent])
  BY DEF DeleteRoutine
<1> DEFINE c == [config EXCEPT !.routines[r] = Absent]
<1>2. c.items = config.items /\ (Resolves(config) => Resolves(c))
  BY SetRoutineResolves
<1>3. Reject(q, "deleteRoutine") \/ Change(q, "deleteRoutine", c)
  BY <1>1
<1> HIDE DEF c
<1> QED
  BY <1>2, <1>3, ConfigOwns, RejectIsKept, ChangeIsKept

(***************************************************************************)
(* What was loaded has only pointers that were found.                      *)
(***************************************************************************)
LEMMA LoadedResolves ==
    ASSUME NEW f \in File, Loadable(f)
    PROVE  Loaded(f).items = f.items /\ Resolves(Loaded(f))
<1> DEFINE c == Loaded(f)
<1>1. c.items = f.items
  BY DEF Loaded
<1>2. ASSUME NEW r \in Routines, c.routines[r] # Absent PROVE Found(c, c.routines[r].ref)
  <2> DEFINE x == f.routines[r]
             ref == Resolve(f, x.ref)
  <2>1. x # Absent /\ c.routines[r] = [x EXCEPT !.ref = ref]
    BY <1>2 DEF Loaded
  <2>2. x \in [ref : Names, large : BOOLEAN, by : Sources]
    BY <2>1 DEF File
  <2>3. Resolvable(f, x.ref, x.large)
    BY <2>1 DEF Loadable
  <2>4. /\ x.ref.cluster \in Clusters /\ f.items[x.ref.cluster] = ref.cluster
        /\ x.ref.storage \in Storages /\ f.items[x.ref.storage] = ref.storage
        /\ x.ref.policy \in Policies /\ f.items[x.ref.policy] = ref.policy
    BY <2>3 DEF Resolvable, Resolve
  <2> HIDE DEF x, ref, c
  <2>5. c.routines[r].ref = ref
    BY <2>1, <2>2
  <2>6. Found(c, ref)
    BY <1>1, <2>4, FoundIn
  <2> QED
    BY <2>5, <2>6
<1> QED
  BY <1>1, <1>2 DEF Resolves

(***************************************************************************)
(* So does a whole configuration, which has its items under their names.   *)
(***************************************************************************)
LEMMA WholeResolves ==
    ASSUME NEW q \in Sources, NEW R \in SUBSET Routines
    PROVE  Own(Whole(q, R).items) /\ Resolves(Whole(q, R))
<1> DEFINE c == Whole(q, R)
<1>1. Sound(c)
  BY WholeIsSound
<1> HIDE DEF c
<1>2. Own(c.items)
  BY <1>1, ConfigurationAssumption DEF Sound, PlainItems, Own
<1>3. ASSUME NEW r \in Routines, c.routines[r] # Absent PROVE Found(c, c.routines[r].ref)
  <2> DEFINE ref == c.routines[r].ref
  <2>1. /\ ref.cluster.item \in Clusters /\ c.items[ref.cluster.item] = ref.cluster
        /\ ref.storage.item \in Storages /\ c.items[ref.storage.item] = ref.storage
        /\ ref.policy.item \in Policies /\ c.items[ref.policy.item] = ref.policy
    BY <1>1, <1>3, KeysOfRoutine
  <2> HIDE DEF ref
  <2>2. Found(c, ref)
    BY <2>1, FoundIn
  <2> QED
    BY <2>2 DEF ref
<1> QED
  BY <1>2, <1>3 DEF c, Resolves

(***************************************************************************)
(* A whole configuration replaces everything.                              *)
(***************************************************************************)
LEMMA UpdateConfigIsKept ==
    ASSUME ConfigTypes, ItemsInv, NEW q \in Requests, UpdateConfig(q)
    PROVE  Kept(q)
<1>1. PICK R \in SUBSET Routines :
         /\ configs' = [configs EXCEPT ![q] = Whole(q, R)]
         /\ current' = q
         /\ request' = [p \in Requests |->
              IF p = q THEN [op |-> "updateConfig", step |-> "changed", argument |-> {q}]
              ELSE IF request[p].step = "changed" THEN [request[p] EXCEPT !.argument = @ \cup {q}]
              ELSE request[p]]
         /\ UNCHANGED <<file, unsaved, crashes>>
  BY DEF UpdateConfig
<1>2. q \in Sources /\ configs \in [Sources -> Config]
  BY DEF Sources, ConfigTypes, TypeOK
<1>3. Own(Whole(q, R).items) /\ Resolves(Whole(q, R))
  BY <1>2, WholeResolves
<1>4. config' = Whole(q, R) /\ \A s \in Sources : Own(configs'[s].items)
  BY <1>1, <1>2, <1>3 DEF config, ItemsInv
<1>5. ASSUME NEW p \in Requests, request'[p].step = "writing" PROVE request'[p] = request[p]
  <2>1. CASE p = q
    BY <1>1, <1>5, <2>1
  <2>2. CASE p # q /\ request[p].step = "changed"
    <3>1. request'[p] = [request[p] EXCEPT !.argument = @ \cup {q}]
      BY <1>1, <2>2
    <3> QED
      BY <1>5, <2>2, <3>1
  <2>3. CASE p # q /\ request[p].step # "changed"
    BY <1>1, <2>3
  <2> QED
    BY <2>1, <2>2, <2>3
<1>6. ItemsInv'
  BY <1>1, <1>4, <1>5 DEF ItemsInv
<1>7. ReferencesResolve'
  BY <1>3, <1>4, ReferencesAre
<1> QED
  BY <1>6, <1>7 DEF Kept

(***************************************************************************)
(* The handlers, one by one.                                               *)
(***************************************************************************)
LEMMA HandleIsKept ==
    ASSUME ConfigTypes, ItemsInv, NEW q \in Requests, Handle(q)
    PROVE  Kept(q)
<1>1. Clusters \subseteq Items /\ Storages \subseteq Items /\ Policies \subseteq Items
  BY DEF Items
<1>2. ASSUME NEW i \in Items, NEW traits \in SUBSET Traits, NEW object \in Versions(q, i, traits)
      PROVE  object \in Objects /\ object.item = i
  <2>1. object \in Objects
    BY VersionsAreObjects
  <2> QED
    BY <2>1 DEF Versions, Version
<1>3. {"small", "bare"} \subseteq Traits /\ {"compressed"} \subseteq Traits /\ {"pathless"} \subseteq Traits
  BY DEF Traits
<1>4. CASE AddCluster(q) \/ AddPolicy(q)
  BY <1>1, <1>2, <1>3, <1>4, AddIsKept DEF AddCluster, AddPolicy
<1>5. CASE AddStorage(q)
  <2>1. PICK i \in Storages : Add(q, "add", i, Version(q, i, "plain"))
    BY <1>5 DEF AddStorage
  <2>2. Version(q, i, "plain") \in Objects /\ Version(q, i, "plain").item = i
    BY <1>1, VersionsAreObjects DEF Version
  <2> QED
    BY <1>1, <2>1, <2>2, AddIsKept
<1>6. CASE DeleteCluster(q) \/ DeleteStorage(q) \/ DeletePolicy(q)
  BY <1>1, <1>6, DeleteIsKept DEF DeleteCluster, DeleteStorage, DeletePolicy
<1>7. CASE UpdateCluster(q) \/ UpdatePolicy(q)
  <2>1. PICK i \in Items, traits \in SUBSET Traits :
          \E object \in Versions(q, i, traits) : Update(q, "update", i, object)
    BY <1>1, <1>3, <1>7 DEF UpdateCluster, UpdatePolicy
  <2>2. PICK object \in Versions(q, i, traits) : Update(q, "update", i, object)
    BY <2>1
  <2>3. object \in Objects /\ object.item = i /\ object # Null
    BY <1>2, ConfigurationAssumption
  <2> QED
    BY <2>2, <2>3, UpdateIsKept
<1>8. CASE UpdateStorage(q)
  <2>1. PICK i \in Storages :
          \E object \in Versions(q, i, {"pathless"}) \cup (IF i \in Flawed THEN {Null} ELSE {}) :
             Update(q, "update", i, object)
    BY <1>8 DEF UpdateStorage
  <2>2. PICK object \in Versions(q, i, {"pathless"}) \cup {Null} : Update(q, "update", i, object)
    BY <2>1, Zenon
  <2>3. object \in Objects => object.item = i
    BY <1>1, <1>2, <1>3, ConfigurationAssumption
  <2> QED
    BY <1>1, <2>2, <2>3, UpdateIsKept
<1>9. CASE ResolveRoutine(q) \/ DeleteRoutine(q) \/ UpdateConfig(q)
  BY <1>9, ResolveIsKept, DeleteRoutineIsKept, UpdateConfigIsKept
<1>10. CASE ReadConfig(q) \/ ReadCluster(q) \/ ReadStorage(q) \/ ReadPolicy(q) \/ ReadRoutine(q)
  BY <1>10, ReadIsKept DEF ReadConfig, ReadCluster, ReadStorage, ReadPolicy, ReadRoutine
<1> QED
  BY <1>4, <1>5, <1>6, <1>7, <1>8, <1>9, <1>10 DEF Handle

(***************************************************************************)
(* What is written of a configuration, whole or in part, has the items     *)
(* under their names.                                                      *)
(***************************************************************************)
LEMMA SerializedOwns ==
    ASSUME NEW c \in Config, Own(c.items)
    PROVE  Own(Serialized(c).items)
<1> DEFINE written == Serialized(c).items
<1>1. ASSUME NEW i \in Items
      PROVE  /\ written[i] \in Objects => written[i].item = i
             /\ written[i] = Null => i \in Storages
  <2>1. written[i] = IF Trait(c.items[i]) = "compressed"
                     THEN [c.items[i] EXCEPT !.trait = "plain"] ELSE c.items[i]
    BY DEF Serialized
  <2> HIDE DEF written
  <2>2. CASE Trait(c.items[i]) = "compressed"
    <3>1. c.items[i] \in Objects
      BY <2>2 DEF Trait, Config
    <3>2. c.items[i].item = i
      BY <3>1 DEF Own
    <3>3. written[i] \in Objects /\ written[i].item = i
      BY <2>1, <2>2, <3>1, <3>2 DEF Objects, Traits
    <3> QED
      BY <3>3, ConfigurationAssumption
  <2>3. CASE Trait(c.items[i]) # "compressed"
    BY <2>1, <2>3 DEF Own
  <2> QED
    BY <2>2, <2>3
<1> QED
  BY <1>1 DEF Own

(***************************************************************************)
(* What is left of a write that ends half-way does too.                    *)
(***************************************************************************)
LEMMA PartialOwns ==
    ASSUME ItemsInv, NEW data, Own(data.items), NEW f \in Partial(data), f # Broken
    PROVE  Own(f.items)
<1>1. ASSUME NEW p \in Prefixes PROVE Own(Cut(data, p).items)
  <2>1. Cut(data, p).items = [i \in Items |-> IF i \in p.items THEN data.items[i] ELSE Absent]
    BY DEF Cut
  <2> QED
    BY <2>1, ConfigurationAssumption DEF Own
<1> QED
  BY <1>1 DEF Partial, ItemsInv

(***************************************************************************)
(* The beginning of a write, its end and its failure leave the maps alone. *)
(***************************************************************************)
LEMMA WriteIsKept ==
    ASSUME ConfigTypes, ItemsInv, NEW q \in Requests,
           WriteConfiguration(q) \/ FinishWrite(q) \/ FailWrite(q)
    PROVE  Kept(q)
<1>1. configs' = configs /\ current' = current /\ config' = config
  BY DEF WriteConfiguration, FinishWrite, FailWrite, config
<1>2. \A p \in Requests : p # q => request'[p] = request[p]
  BY DEF WriteConfiguration, FinishWrite, FailWrite, ConfigTypes
<1>3. request[q].step = "writing" => Own(request[q].data.items)
  BY DEF ItemsInv
<1>4. CASE WriteConfiguration(q)
  <2>1. PICK c \in request[q].argument :
           request' = [request EXCEPT ![q] =
             [op |-> request[q].op, step |-> "writing", data |-> Serialized(configs[c])]]
    BY <1>4 DEF WriteConfiguration
  <2>2. c \in Sources
    BY <1>4 DEF WriteConfiguration, ConfigTypes, TypeOK
  <2>3. Own(Serialized(configs[c]).items)
    BY <2>2, SerializedOwns DEF ItemsInv, ConfigTypes, TypeOK
  <2> DEFINE data == Serialized(configs[c])
             writing == [op |-> request[q].op, step |-> "writing", data |-> data]
  <2>4. writing.data = data
    OBVIOUS
  <2>5. request'[q] = writing
    BY <2>1 DEF ConfigTypes
  <2> HIDE DEF data, writing
  <2>6. request'[q].step = "writing" => Own(request'[q].data.items)
    BY <2>3, <2>4, <2>5 DEF data
  <2>7. file' # Broken => Own(file'.items)
    <3>1. Own(Truncated.items)
      BY ConfigurationAssumption DEF Truncated, Own
    <3> QED
      BY <1>4, <3>1 DEF WriteConfiguration, ItemsInv
  <2>8. ItemsInv'
    BY <1>1, <1>2, <2>6, <2>7 DEF ItemsInv
  <2> QED
    BY <1>1, <2>8, ReferencesAre DEF Kept
<1>5. CASE FinishWrite(q) \/ FailWrite(q)
  <2>1. request'[q].step # "writing"
    BY <1>5 DEF FinishWrite, FailWrite, ConfigTypes, Answered
  <2>2. file' # Broken => Own(file'.items)
    <3>1. CASE FinishWrite(q)
      BY <1>3, <3>1 DEF FinishWrite, ItemsInv
    <3>2. CASE FailWrite(q)
      BY <1>3, <3>2, PartialOwns DEF FailWrite, ItemsInv
    <3> QED
      BY <1>5, <3>1, <3>2
  <2>3. ItemsInv'
    BY <1>1, <1>2, <2>1, <2>2 DEF ItemsInv
  <2> QED
    BY <1>1, <2>3, ReferencesAre DEF Kept
<1> QED
  BY <1>4, <1>5

(***************************************************************************)
(* A restart finds every name, or does not start.                          *)
(***************************************************************************)
LEMMA RestartIsKept ==
    ASSUME TypeInv, ItemsInv, Restart, TypeInv'
    PROVE  ItemsInv' /\ ReferencesResolve'
<1>1. /\ configs' = [s \in Sources |-> IF s = Initial THEN Loaded(file') ELSE Truncated]
      /\ current' = Initial /\ Loadable(file') /\ Initial \in Sources
  BY DEF Restart, Sources
<1>2. file' \in File
  BY <1>1 DEF Loadable, TypeInv, ConfigTypes, TypeOK
<1>3. Own(file'.items)
  <2>1. file' # Broken
    BY <1>1 DEF Loadable
  <2> QED
    BY <2>1, PartialOwns DEF Restart, ItemsInv
<1>4. config' = Loaded(file')
  BY <1>1 DEF config
<1>5. Loaded(file').items = file'.items /\ Resolves(Loaded(file'))
  BY <1>1, <1>2, LoadedResolves
<1>6. Own(Truncated.items)
  BY ConfigurationAssumption DEF Truncated, Own
<1>7. \A s \in Sources : Own(configs'[s].items)
  BY <1>1, <1>3, <1>5, <1>6
<1>8. \A q \in Requests : request'[q].step # "writing"
  BY DEF Restart, InProgress, Answered
<1> QED
  BY <1>3, <1>4, <1>5, <1>7, <1>8, ReferencesAre DEF ItemsInv

(***************************************************************************)
(* Requests that apply the configuration, schedule a backup or read what   *)
(* the scheduler has only answer.                                          *)
(***************************************************************************)
LEMMA ServiceIsKept ==
    ASSUME ConfigTypes, ItemsInv, NEW q \in Requests,
           \/ ApplyConfig(q) \/ ApplyNewConfig(q) \/ ScheduleFullBackup(q)
           \/ ReadAllBackups(q) \/ ReadBackups(q) \/ GetCurrentBackupInfo(q)
    PROVE  Kept(q)
<1>1. Answered("ok").step # "writing" /\ Answered("failed").step # "writing"
  BY DEF Answered
<1>2. CASE ApplyConfig(q)
  <2> DEFINE answer == [op |-> "apply", step |-> "applying", config |-> current]
  <2>1. answer.step # "writing" /\ request' = [request EXCEPT ![q] = answer]
        /\ UNCHANGED <<configs, current, file>>
    BY <1>2 DEF ApplyConfig
  <2> HIDE DEF answer
  <2> QED
    BY <2>1, AnswerIsKept
<1>3. CASE ApplyNewConfig(q)
  <2>1. /\ UNCHANGED <<configs, current, file>>
        /\ \/ request' = [request EXCEPT ![q] = Answered("ok")]
           \/ request' = [request EXCEPT ![q] = Answered("failed")]
           \/ request' = request
    BY <1>3 DEF ApplyNewConfig
  <2> QED
    BY <1>1, <2>1, AnswerIsKept, SameIsKept
<1>4. CASE ScheduleFullBackup(q)
  BY <1>1, <1>4, AnswerIsKept DEF ScheduleFullBackup
<1>5. CASE ReadAllBackups(q) \/ ReadBackups(q) \/ GetCurrentBackupInfo(q)
  BY <1>5, ReadIsKept DEF ReadAllBackups, ReadBackups, GetCurrentBackupInfo
<1> QED
  BY <1>2, <1>3, <1>4, <1>5

(***************************************************************************)
(* Every step of the service.                                              *)
(***************************************************************************)
LEMMA NextIsKept ==
    ASSUME TypeInv, ItemsInv, [Next]_serviceVars
    PROVE  /\ ItemsInv'
           /\ ReferencesResolve /\ ~ReferencesResolve' =>
                \E q \in Requests :
                   /\ request[q].step = "resolved" /\ request'[q].step = "changed"
                   /\ ~Found(config, request[q].to.ref)
<1>1. CASE \E q \in Requests : Kept(q)
  BY <1>1 DEF Kept
<1>2. ConfigTypes
  BY DEF TypeInv
<1>3. ASSUME NEW q \in Requests, Handle(q) \/ Proceed(q) PROVE Kept(q)
  <2>1. CASE Handle(q)
    BY <1>2, <2>1, HandleIsKept
  <2>2. CASE Proceed(q)
    BY <1>2, <2>2, PutIsKept, WriteIsKept DEF Proceed, AddRoutine, UpdateRoutine
  <2> QED
    BY <1>3, <2>1, <2>2
<1>4. ASSUME UNCHANGED vars PROVE ItemsInv' /\ (ReferencesResolve' <=> ReferencesResolve)
  <2>1. config' = config
    BY <1>4 DEF vars, config
  <2> QED
    BY <1>4, <2>1, ReferencesAre DEF vars, ItemsInv
<1>5. CASE RestartService
  BY <1>5, RestartIsKept, NextKeepsTypes DEF RestartService
<1>6. CASE UNCHANGED serviceVars \/ (Scheduler!Run /\ UNCHANGED vars)
  BY <1>4, <1>6 DEF serviceVars
<1> QED
  BY <1>1, <1>2, <1>3, <1>5, <1>6, ServiceIsKept DEF Next

(***************************************************************************)
(* Of all the ways in which requests may overlap one leaves a pointer of a *)
(* routine without its item: a routine is put whose names were resolved    *)
(* before the item was updated, deleted or replaced.                       *)
(***************************************************************************)
THEOREM OnlyStaleRoutinesBreak == Spec => OnlyStaleBreaks
<1>1. ServiceInit => ItemsInv
  <2> SUFFICES ASSUME ServiceInit PROVE ItemsInv
    OBVIOUS
  <2>1. /\ file \in {Truncated, Serialized(Whole(Initial, Routines))}
        /\ configs = [s \in Sources |-> IF s = Initial THEN Loaded(file) ELSE Truncated]
        /\ request = [q \in Requests |-> New]
    BY DEF ServiceInit, Init
  <2>2. Own(Truncated.items)
    BY ConfigurationAssumption DEF Truncated, Own
  <2>3. Initial \in Sources
    BY DEF Sources
  <2>4. Own(Serialized(Whole(Initial, Routines)).items)
    BY <2>3, WholeResolves, WholeIsTyped, SerializedOwns
  <2>5. Own(file.items) /\ Loaded(file).items = file.items
    BY <2>1, <2>2, <2>4 DEF Loaded
  <2>6. \A q \in Requests : request[q].step = "new"
    BY <2>1 DEF New
  <2> QED
    BY <2>1, <2>2, <2>5, <2>6 DEF ItemsInv
<1>2. TypeInv /\ ItemsInv /\ [Next]_serviceVars => TypeInv' /\ ItemsInv'
  BY NextKeepsTypes, NextIsKept
<1>3. TypeInv /\ ItemsInv /\ [Next]_serviceVars =>
         [ReferencesResolve /\ ~ReferencesResolve' =>
            \E q \in Requests :
               /\ request[q].step = "resolved" /\ request'[q].step = "changed"
               /\ ~Found(config, request[q].to.ref)]_vars
  BY NextIsKept
<1> QED
  BY <1>1, <1>2, <1>3, InitIsTyped, PTL DEF Spec, OnlyStaleBreaks

=============================================================================
