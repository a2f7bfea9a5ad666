---------------------------- MODULE DocumentsProofs ----------------------------
(***************************************************************************)
(* The documents of the configuration survive being written to the file    *)
(* and read again, and restore policies are as documented, for all strings *)
(* numbers and options.                                                    *)
(***************************************************************************)
EXTENDS RestoreRequests, TLAPS

(***************************************************************************)
(* A pointer is nil or points to one value.                                *)
(***************************************************************************)
LEMMA PointerCases ==
    ASSUME NEW S, NEW p \in Optional(S)
    PROVE  p = {} \/ \E v \in S : p = {v}
BY DEF Optional

(***************************************************************************)
(* What OrDefault gives of a pointer that is not nil.                      *)
(***************************************************************************)
LEMMA OrDefaultOf ==
    ASSUME NEW v, NEW default
    PROVE  OrDefault({v}, default) = v /\ OrDefault({}, default) = default
BY DEF OrDefault

-----------------------------------------------------------------------------
(* Policies *)

(***************************************************************************)
(* The level that Validate put in is valid, and is not replaced again.     *)
(***************************************************************************)
LEMMA LevelStays ==
    ASSUME NEW c \in Optional(CompressionDocs), ValidCompression(c)
    PROVE  ValidCompression(Leveled(c)) /\ Leveled(Leveled(c)) = Leveled(c)
<1>1. CASE c = {}
  BY <1>1 DEF ValidCompression, Leveled
<1>2. CASE \E d \in CompressionDocs : c = {d}
  <2>1. PICK d \in CompressionDocs : c = {d}
    BY <1>2
  <2> DEFINE e == [d EXCEPT !.level = IF @ = 0 THEN -1 ELSE @]
  <2>2. e.mode = d.mode /\ e.level = (IF d.level = 0 THEN -1 ELSE d.level) /\ e.level # 0
    BY <2>1 DEF CompressionDocs
  <2>3. Leveled(c) = {e}
    BY <2>1 DEF Leveled
  <2>4. [e EXCEPT !.level = IF @ = 0 THEN -1 ELSE @] = e
    BY <2>2 DEF CompressionDocs
  <2>5. Leveled({e}) = {e}
    BY <2>4, Zenon DEF Leveled
  <2>6. d.mode \in CompressionModes /\ d.level >= -1 /\ d.level \in Int
    BY <2>1 DEF ValidCompression, CompressionDocs
  <2>7. e.mode \in CompressionModes /\ e.level >= -1
    BY <2>2, <2>6
  <2>8. ValidCompression({e})
    BY <2>7, Zenon DEF ValidCompression
  <2> HIDE DEF e
  <2> QED
    BY <2>3, <2>5, <2>8
<1> QED
  BY <1>1, <1>2, PointerCases

(***************************************************************************)
(* A policy that was accepted is accepted again from the file and gives    *)
(* its jobs the same options, compression left out.                        *)
(***************************************************************************)
THEOREM PoliciesSurviveSave == PoliciesSurvive
<1> SUFFICES ASSUME NEW p \in PolicyDocs, ValidPolicy(p)
             PROVE  LET m == PolicyToModel(p)
                        q == PolicyFromModel(m)
                        n == PolicyToModel(q)
                    IN  /\ ValidPolicy(m) /\ ValidPolicy(q)
                        /\ SameBut("compression", BackupOptions(n), BackupOptions(m))
                        /\ SameBut("compression", BackupOptions(IncrementalPolicy(n)),
                                                  BackupOptions(IncrementalPolicy(m)))
  BY DEF PoliciesSurvive
<1> DEFINE m == PolicyToModel(p)
           q == PolicyFromModel(m)
<1>1. ValidCompression(Leveled(p.compression))
  BY LevelStays DEF PolicyDocs, ValidPolicy
<1>2. /\ m.limits = p.limits /\ m.counts = p.counts /\ m.remove = p.remove /\ m.flags = p.flags
      /\ m.encryption = p.encryption /\ m.compression = Leveled(p.compression)
  BY DEF PolicyToModel, PolicyDocs
<1>3. q = [m EXCEPT !.compression = {}] /\ q.compression = {}
  BY DEF PolicyFromModel, PolicyToModel, PolicyDocs
<1>4. /\ q.limits = p.limits /\ q.counts = p.counts /\ q.remove = p.remove /\ q.flags = p.flags
      /\ q.encryption = p.encryption
  BY DEF PolicyFromModel, PolicyToModel, PolicyDocs
<1>5. Leveled({}) = {}
  BY DEF Leveled
<1>6. PolicyToModel(q) = q
  BY <1>5 DEF PolicyFromModel, PolicyToModel, PolicyDocs
<1>7. ValidPolicy(m)
  BY <1>1, <1>2 DEF ValidPolicy
<1>8. ValidPolicy(q)
  <2>1. ValidCompression({})
    BY DEF ValidCompression
  <2> QED
    BY <1>3, <1>4, <2>1 DEF ValidPolicy
<1>9. SameBut("compression", BackupOptions(q), BackupOptions(m))
  BY <1>2, <1>4 DEF BackupOptions, SameBut
<1>10. IncrementalPolicy(q) = IncrementalPolicy(m)
  BY <1>2, <1>3, <1>4 DEF IncrementalPolicy, PolicyToModel, PolicyFromModel, PolicyDocs
<1>11. SameBut("compression", BackupOptions(IncrementalPolicy(q)),
                              BackupOptions(IncrementalPolicy(m)))
  BY <1>10 DEF SameBut
<1> QED
  BY <1>6, <1>7, <1>8, <1>9, <1>11

-----------------------------------------------------------------------------
(* Storages *)

(***************************************************************************)
(* A storage of one type: the other pointers are nil.                      *)
(***************************************************************************)
LEMMA StorageCases ==
    ASSUME NEW s \in StorageDocs, ValidStorage(s)
    PROVE  \/ \E l \in LocalDocs : s.local = {l} /\ s.s3 = {} /\ s.gcp = {} /\ s.azure = {}
           \/ \E b \in S3Docs : s.local = {} /\ s.s3 = {b} /\ s.gcp = {} /\ s.azure = {}
           \/ \E g \in GcpDocs : s.local = {} /\ s.s3 = {} /\ s.gcp = {g} /\ s.azure = {}
           \/ \E a \in AzureDocs : s.local = {} /\ s.s3 = {} /\ s.gcp = {} /\ s.azure = {a}
<1>1. /\ s.local \in Optional(LocalDocs) /\ s.s3 \in Optional(S3Docs)
      /\ s.gcp \in Optional(GcpDocs) /\ s.azure \in Optional(AzureDocs)
  BY DEF StorageDocs
<1>2. /\ s.local = {} \/ \E l \in LocalDocs : s.local = {l}
      /\ s.s3 = {} \/ \E b \in S3Docs : s.s3 = {b}
      /\ s.gcp = {} \/ \E g \in GcpDocs : s.gcp = {g}
      /\ s.azure = {} \/ \E a \in AzureDocs : s.azure = {a}
  BY <1>1 DEF Optional
<1>3. PICK t \in {"local", "s3", "gcp", "azure"} : StorageTypes(s) = {t}
  BY DEF ValidStorage
<1>4. /\ "local" \in StorageTypes(s) <=> s.local # {}
      /\ "s3" \in StorageTypes(s) <=> s.s3 # {}
      /\ "gcp" \in StorageTypes(s) <=> s.gcp # {}
      /\ "azure" \in StorageTypes(s) <=> s.azure # {}
  BY DEF StorageTypes
<1> QED
  BY <1>2, <1>3, <1>4

(***************************************************************************)
(* The types of a storage that has one.                                    *)
(***************************************************************************)
LEMMA TypesOf ==
    ASSUME NEW s
    PROVE  /\ s.local # {} /\ s.s3 = {} /\ s.gcp = {} /\ s.azure = {} => StorageTypes(s) = {"local"}
           /\ s.local = {} /\ s.s3 # {} /\ s.gcp = {} /\ s.azure = {} => StorageTypes(s) = {"s3"}
           /\ s.local = {} /\ s.s3 = {} /\ s.gcp # {} /\ s.azure = {} => StorageTypes(s) = {"gcp"}
           /\ s.local = {} /\ s.s3 = {} /\ s.gcp = {} /\ s.azure # {} => StorageTypes(s) = {"azure"}
<1>1. /\ "local" \in StorageTypes(s) <=> s.local # {}
      /\ "s3" \in StorageTypes(s) <=> s.s3 # {}
      /\ "gcp" \in StorageTypes(s) <=> s.gcp # {}
      /\ "azure" \in StorageTypes(s) <=> s.azure # {}
  BY DEF StorageTypes
<1>2. StorageTypes(s) \subseteq {"local", "s3", "gcp", "azure"}
  BY DEF StorageTypes
<1> HIDE DEF StorageTypes
<1> QED
  BY <1>1, <1>2

(***************************************************************************)
(* The model of a storage that has one type.                               *)
(***************************************************************************)
LEMMA ModelOf ==
    ASSUME NEW s, NEW v
    PROVE  /\ s.local = {v} => StorageToModel(s) = {[type |-> "local", of |-> v]}
           /\ s.local = {} /\ s.s3 = {v} => StorageToModel(s) = {[type |-> "s3", of |-> v]}
           /\ s.local = {} /\ s.s3 = {} /\ s.gcp = {v} =>
                StorageToModel(s) = {[type |-> "gcp", of |-> v]}
           /\ s.local = {} /\ s.s3 = {} /\ s.gcp = {} /\ s.azure = {v} =>
                StorageToModel(s) = {[type |-> "azure", of |->
                  [endpoint |-> v.endpoint, container |-> v.container, auth |-> AzureAuth(v)]]}
<1>1. s.local = {v} => StorageToModel(s) = {[type |-> "local", of |-> v]}
  BY DEF StorageToModel
<1>2. s.local = {} /\ s.s3 = {v} => StorageToModel(s) = {[type |-> "s3", of |-> v]}
  BY DEF StorageToModel
<1>3. s.local = {} /\ s.s3 = {} /\ s.gcp = {v} => StorageToModel(s) = {[type |-> "gcp", of |-> v]}
  BY DEF StorageToModel
<1>4. s.local = {} /\ s.s3 = {} /\ s.gcp = {} /\ s.azure = {v} =>
        StorageToModel(s) = {[type |-> "azure", of |->
          [endpoint |-> v.endpoint, container |-> v.container, auth |-> AzureAuth(v)]]}
  BY DEF StorageToModel
<1> QED
  BY <1>1, <1>2, <1>3, <1>4, Zenon

(***************************************************************************)
(* The document of a storage has the pointer of its type alone.            *)
(***************************************************************************)
LEMMA FromModelOf ==
    ASSUME NEW v, NEW k
    PROVE  LET t == StorageFromModel({[type |-> k, of |-> v]})
           IN  /\ t.local = (IF k = "local" THEN {v} ELSE {})
               /\ t.s3 = (IF k = "s3" THEN {v} ELSE {})
               /\ t.gcp = (IF k = "gcp" THEN {v} ELSE {})
               /\ t.azure = (IF k = "azure" THEN {AzureFromModel(v)} ELSE {})
<1> DEFINE m == [type |-> k, of |-> v]
           Of(type) == {x \in {m} : x.type = type}
<1>1. m.type = k /\ m.of = v
  OBVIOUS
<1> HIDE DEF m
<1>2. ASSUME NEW type PROVE Of(type) = IF k = type THEN {m} ELSE {}
  BY <1>1
<1>3. /\ {x.of : x \in {m}} = {v} /\ {AzureFromModel(x.of) : x \in {m}} = {AzureFromModel(v)}
      /\ {x.of : x \in {}} = {} /\ {AzureFromModel(x.of) : x \in {}} = {}
  BY <1>1
<1>4. StorageFromModel({m}) =
        [local |-> {x.of : x \in Of("local")}, s3 |-> {x.of : x \in Of("s3")},
         gcp |-> {x.of : x \in Of("gcp")}, azure |-> {AzureFromModel(x.of) : x \in Of("azure")}]
  BY Zenon DEF StorageFromModel
<1> HIDE DEF Of
<1>5. ASSUME NEW type
      PROVE  /\ {x.of : x \in Of(type)} = (IF k = type THEN {v} ELSE {})
             /\ {AzureFromModel(x.of) : x \in Of(type)} =
                  (IF k = type THEN {AzureFromModel(v)} ELSE {})
  BY <1>2, <1>3
<1> DEFINE local == {x.of : x \in Of("local")}
           s3 == {x.of : x \in Of("s3")}
           gcp == {x.of : x \in Of("gcp")}
           azure == {AzureFromModel(x.of) : x \in Of("azure")}
<1>6. /\ local = (IF k = "local" THEN {v} ELSE {})
      /\ s3 = (IF k = "s3" THEN {v} ELSE {})
      /\ gcp = (IF k = "gcp" THEN {v} ELSE {})
      /\ azure = (IF k = "azure" THEN {AzureFromModel(v)} ELSE {})
  BY <1>5, Zenon
<1>7. StorageFromModel({m}) = [local |-> local, s3 |-> s3, gcp |-> gcp, azure |-> azure]
  BY <1>4, Zenon
<1> HIDE DEF local, s3, gcp, azure
<1>8. /\ StorageFromModel({m}).local = (IF k = "local" THEN {v} ELSE {})
      /\ StorageFromModel({m}).s3 = (IF k = "s3" THEN {v} ELSE {})
      /\ StorageFromModel({m}).gcp = (IF k = "gcp" THEN {v} ELSE {})
      /\ StorageFromModel({m}).azure = (IF k = "azure" THEN {AzureFromModel(v)} ELSE {})
  BY <1>6, <1>7
<1> QED
  BY <1>8 DEF m

(***************************************************************************)
(* The authentication of Azure is the same after it was written.           *)
(***************************************************************************)
LEMMA AuthStays ==
    ASSUME NEW a
    PROVE  LET n == [endpoint |-> a.endpoint, container |-> a.container, auth |-> AzureAuth(a)]
               b == AzureFromModel(n)
           IN  /\ b.endpoint = a.endpoint /\ b.container = a.container
               /\ ~(HasSharedKey(b) /\ HasAAD(b)) /\ AzureAuth(b) = AzureAuth(a)
<1> DEFINE n == [endpoint |-> a.endpoint, container |-> a.container, auth |-> AzureAuth(a)]
           b == AzureFromModel(n)
<1>1. b.endpoint = a.endpoint /\ b.container = a.container
  BY DEF AzureFromModel
<1>2. CASE HasSharedKey(a)
  <2>1. AzureAuth(a) = [kind |-> "SharedKey", account |-> a.account, key |-> a.key]
    BY <1>2 DEF AzureAuth
  <2>2. b.account = a.account /\ b.key = a.key /\ b.tenant = Empty
    BY <2>1 DEF AzureFromModel
  <2>3. HasSharedKey(b) /\ ~HasAAD(b)
    BY <1>2, <2>2 DEF HasSharedKey, HasAAD
  <2>4. AzureAuth(b) = [kind |-> "SharedKey", account |-> b.account, key |-> b.key]
    BY <2>3 DEF AzureAuth
  <2> QED
    BY <1>1, <2>1, <2>2, <2>3, <2>4
<1>3. CASE ~HasSharedKey(a) /\ HasAAD(a)
  <2>1. AzureAuth(a) =
          [kind |-> "AD", tenant |-> a.tenant, client |-> a.client, secret |-> a.secret]
    BY <1>3 DEF AzureAuth
  <2>2. b.account = Empty /\ b.tenant = a.tenant /\ b.client = a.client /\ b.secret = a.secret
    BY <2>1 DEF AzureFromModel
  <2>3. ~HasSharedKey(b) /\ HasAAD(b)
    BY <1>3, <2>2 DEF HasSharedKey, HasAAD
  <2>4. AzureAuth(b) =
          [kind |-> "AD", tenant |-> b.tenant, client |-> b.client, secret |-> b.secret]
    BY <2>3 DEF AzureAuth
  <2> QED
    BY <1>1, <2>1, <2>2, <2>3, <2>4
<1>4. CASE ~HasSharedKey(a) /\ ~HasAAD(a)
  <2>1. AzureAuth(a) = [kind |-> "none"]
    BY <1>4 DEF AzureAuth
  <2>2. b.account = Empty /\ b.tenant = Empty
    BY <2>1 DEF AzureFromModel
  <2>3. ~HasSharedKey(b) /\ ~HasAAD(b)
    BY <2>2 DEF HasSharedKey, HasAAD
  <2>4. AzureAuth(b) = [kind |-> "none"]
    BY <2>3 DEF AzureAuth
  <2> QED
    BY <1>1, <2>1, <2>3, <2>4
<1> QED
  BY <1>2, <1>3, <1>4

(***************************************************************************)
(* A storage of each type, written and read.                               *)
(***************************************************************************)
LEMMA StorageStays ==
    ASSUME NEW s \in StorageDocs, ValidStorage(s)
    PROVE  LET t == StorageFromModel(StorageToModel(s))
           IN  /\ StorageToModel(s) # {}
               /\ ValidStorage(t)
               /\ StorageToModel(t) = StorageToModel(s)
<1> DEFINE t == StorageFromModel(StorageToModel(s))
<1>1. CASE \E l \in LocalDocs : s.local = {l} /\ s.s3 = {} /\ s.gcp = {} /\ s.azure = {}
  <2>1. PICK l \in LocalDocs : s.local = {l} /\ s.s3 = {} /\ s.gcp = {} /\ s.azure = {}
    BY <1>1
  <2>2. StorageToModel(s) = {[type |-> "local", of |-> l]}
    BY <2>1, ModelOf
  <2>3. t.local = {l} /\ t.s3 = {} /\ t.gcp = {} /\ t.azure = {}
    BY <2>2, FromModelOf, ZenonT(30)
  <2>4. l.path # Empty
    BY <2>1 DEF ValidStorage
  <2>5. StorageTypes(t) = {"local"}
    BY <2>3, TypesOf
  <2>6. ValidStorage(t)
    <3> HIDE DEF t
    <3> QED
      BY <2>3, <2>4, <2>5 DEF ValidStorage
  <2>7. StorageToModel(t) = {[type |-> "local", of |-> l]}
    <3> HIDE DEF t
    <3> QED
      BY <2>3, ModelOf
  <2> QED
    BY <2>2, <2>6, <2>7
<1>2. CASE \E b \in S3Docs : s.local = {} /\ s.s3 = {b} /\ s.gcp = {} /\ s.azure = {}
  <2>1. PICK b \in S3Docs : s.local = {} /\ s.s3 = {b} /\ s.gcp = {} /\ s.azure = {}
    BY <1>2
  <2>2. StorageToModel(s) = {[type |-> "s3", of |-> b]}
    BY <2>1, ModelOf
  <2>3. t.local = {} /\ t.s3 = {b} /\ t.gcp = {} /\ t.azure = {}
    BY <2>2, FromModelOf, ZenonT(30)
  <2>4. b.bucket # Empty /\ b.region # Empty
    BY <2>1 DEF ValidStorage
  <2>5. StorageTypes(t) = {"s3"}
    BY <2>3, TypesOf
  <2>6. ValidStorage(t)
    <3> HIDE DEF t
    <3> QED
      BY <2>3, <2>4, <2>5 DEF ValidStorage
  <2>7. StorageToModel(t) = {[type |-> "s3", of |-> b]}
    <3> HIDE DEF t
    <3> QED
      BY <2>3, ModelOf
  <2> QED
    BY <2>2, <2>6, <2>7
<1>3. CASE \E g \in GcpDocs : s.local = {} /\ s.s3 = {} /\ s.gcp = {g} /\ s.azure = {}
  <2>1. PICK g \in GcpDocs : s.local = {} /\ s.s3 = {} /\ s.gcp = {g} /\ s.azure = {}
    BY <1>3
  <2>2. StorageToModel(s) = {[type |-> "gcp", of |-> g]}
    BY <2>1, ModelOf
  <2>3. t.local = {} /\ t.s3 = {} /\ t.gcp = {g} /\ t.azure = {}
    BY <2>2, FromModelOf, ZenonT(30)
  <2>4. g.key # Empty /\ g.bucket # Empty
    BY <2>1 DEF ValidStorage
  <2>5. StorageTypes(t) = {"gcp"}
    BY <2>3, TypesOf
  <2>6. ValidStorage(t)
    <3> HIDE DEF t
    <3> QED
      BY <2>3, <2>4, <2>5 DEF ValidStorage
  <2>7. StorageToModel(t) = {[type |-> "gcp", of |-> g]}
    <3> HIDE DEF t
    <3> QED
      BY <2>3, ModelOf
  <2> QED
    BY <2>2, <2>6, <2>7
<1>4. CASE \E a \in AzureDocs : s.local = {} /\ s.s3 = {} /\ s.gcp = {} /\ s.azure = {a}
  <2>1. PICK a \in AzureDocs : s.local = {} /\ s.s3 = {} /\ s.gcp = {} /\ s.azure = {a}
    BY <1>4
  <2> DEFINE n == [endpoint |-> a.endpoint, container |-> a.container, auth |-> AzureAuth(a)]
             b == AzureFromModel(n)
  <2>2. StorageToModel(s) = {[type |-> "azure", of |-> n]}
    BY <2>1, ModelOf
  <2>3. /\ b.endpoint = a.endpoint /\ b.container = a.container
        /\ ~(HasSharedKey(b) /\ HasAAD(b)) /\ AzureAuth(b) = AzureAuth(a)
    BY AuthStays
  <2>4. a.endpoint # Empty /\ a.container # Empty
    BY <2>1 DEF ValidStorage
  <2>5. t.local = {} /\ t.s3 = {} /\ t.gcp = {} /\ t.azure = {b}
    <3>1. t = StorageFromModel({[type |-> "azure", of |-> n]})
      BY <2>2
    <3> HIDE DEF n, t
    <3> QED
      BY <3>1, FromModelOf
  <2>6. StorageTypes(t) = {"azure"}
    <3> HIDE DEF t, b
    <3> QED
      BY <2>5, TypesOf
  <2>7. ValidStorage(t)
    <3> HIDE DEF t, b
    <3> QED
      BY <2>3, <2>4, <2>5, <2>6 DEF ValidStorage
  <2>8. StorageToModel(t) = {[type |-> "azure", of |-> n]}
    <3>1. StorageToModel(t) = {[type |-> "azure", of |->
             [endpoint |-> b.endpoint, container |-> b.container, auth |-> AzureAuth(b)]]}
      <4> HIDE DEF b, t
      <4> QED
        BY <2>5, ModelOf
    <3> QED
      BY <3>1, <2>3
  <2> QED
    BY <2>2, <2>7, <2>8
<1> QED
  BY <1>1, <1>2, <1>3, <1>4, StorageCases

(***************************************************************************)
(* A storage that was accepted is accepted again from the file and is the  *)
(* same storage, whatever its strings are.                                 *)
(***************************************************************************)
THEOREM StoragesSurviveWrite == StoragesSurvive
BY StorageStays DEF StoragesSurvive

-----------------------------------------------------------------------------
(* Clusters and the service *)

(***************************************************************************)
(* A cluster with credentials keeps all its fields: whatever nodes, files  *)
(* and passwords it has, clients are made with the policy of its document. *)
(***************************************************************************)
THEOREM ClustersSurviveSave == ClustersSurvive
<1> SUFFICES ASSUME NEW c \in ClusterDocs, ValidCluster(c), c.credentials # {}
             PROVE  \E d \in ClusterFromModel(ClusterToModel(c)) :
                       /\ ValidCluster(d)
                       /\ \A content \in Optional(Texts), readable \in BOOLEAN :
                             ClientPolicy(ClusterToModel(d), content, readable)
                               = ClientPolicy(c, content, readable)
  BY DEF ClustersSurvive
<1>1. c = [nodes |-> c.nodes, scans |-> c.scans, credentials |-> c.credentials, tls |-> c.tls]
  BY DEF ClusterDocs
<1>2. ASSUME NEW node \in c.nodes
      PROVE  [host |-> node.host, port |-> node.port] = node
  BY DEF ClusterDocs, Nodes
<1>3. {[host |-> node.host, port |-> node.port] : node \in c.nodes} = c.nodes
  BY <1>2
<1>4. PICK k \in Credentials : c.credentials = {k}
  BY DEF ClusterDocs, Optional
<1>5. [user |-> k.user, password |-> k.password, path |-> k.path, mode |-> k.mode] = k
  BY DEF Credentials
<1>6. {CredentialsToModel(x) : x \in c.credentials} = c.credentials
  BY <1>4, <1>5 DEF CredentialsToModel
<1>7. ClusterToModel(c) = c
  BY <1>1, <1>3, <1>6, Zenon DEF ClusterToModel, NodeToModel
<1>8. c \in ClusterFromModel(c)
  BY <1>1, <1>3, <1>4, <1>5, Zenon DEF ClusterFromModel
<1> QED
  BY <1>7, <1>8

(***************************************************************************)
(* The options of the server and of the logger stay the same: an empty     *)
(* rate limiter has the limits of none, and a log file its size.           *)
(***************************************************************************)
THEOREM ServiceSurvivesSave == ServiceSurvives
<1>1. ASSUME NEW h \in HTTPDocs, ValidHTTP(h)
      PROVE  ValidHTTP(HTTPFromModel(h)) /\ HTTPOptions(HTTPFromModel(h)) = HTTPOptions(h)
  <2> DEFINE m == HTTPFromModel(h)
             empty == [tps |-> {}, size |-> {}, whiteList |-> {}]
             none == [tps |-> {1024}, size |-> {1024}, whiteList |-> {}]
  <2>1. /\ m.address = h.address /\ m.port = h.port /\ m.path = h.path /\ m.timeout = h.timeout
        /\ m.rate = IF h.rate = {} THEN {empty} ELSE h.rate
    BY DEF HTTPFromModel, HTTPDocs
  <2>2. ValidHTTP(m)
    BY <1>1, <2>1 DEF ValidHTTP
  <2>3. HTTPOptions(m) = HTTPOptions(h)
    <3>1. CASE h.rate # {}
      <4>1. m.rate = h.rate
        BY <2>1, <3>1
      <4> HIDE DEF m
      <4> QED
        BY <2>1, <4>1 DEF HTTPOptions
    <3>2. CASE h.rate = {}
      <4>1. OrDefault(m.rate, none) = empty /\ OrDefault(h.rate, none) = none
        <5>1. m.rate = {empty}
          BY <2>1, <3>2
        <5> HIDE DEF m, empty, none
        <5> QED
          BY <3>2, <5>1, OrDefaultOf
      <4>2. /\ OrDefault(empty.tps, 1024) = OrDefault(none.tps, 1024)
            /\ OrDefault(empty.size, 1024) = OrDefault(none.size, 1024)
            /\ empty.whiteList = none.whiteList
        <5>1. /\ empty.tps = {} /\ empty.size = {} /\ none.tps = {1024} /\ none.size = {1024}
              /\ empty.whiteList = none.whiteList
          OBVIOUS
        <5>2. ASSUME NEW v PROVE OrDefault({}, v) = OrDefault({v}, v)
          BY OrDefaultOf
        <5> HIDE DEF empty, none
        <5> QED
          BY <5>1, <5>2
      <4> HIDE DEF m, empty
      <4> QED
        BY <2>1, <4>1, <4>2 DEF HTTPOptions
    <3> QED
      BY <3>1, <3>2
  <2> QED
    BY <2>2, <2>3
<1>2. ASSUME NEW l \in LoggerDocs, ValidLogger(l)
      PROVE  /\ ValidLogger(LoggerToModel(l))
             /\ LoggerOptions(LoggerToModel(LoggerToModel(l))) = LoggerOptions(LoggerToModel(l))
  <2> DEFINE m == LoggerToModel(l)
  <2>1. /\ m.level = l.level /\ m.format = l.format /\ m.stdout = l.stdout
        /\ m.file = Sized(l.file)
    BY DEF LoggerToModel, LoggerDocs
  <2>2. /\ \A f \in Sized(l.file) : ValidLogFile(f)
        /\ Sized(Sized(l.file)) = Sized(l.file)
    <3>1. CASE l.file = {}
      BY <3>1 DEF Sized
    <3>2. CASE \E f \in FileDocs : l.file = {f}
      <4>1. PICK f \in FileDocs : l.file = {f}
        BY <3>2
      <4> DEFINE g == [f EXCEPT !.size = IF @ = 0 THEN 100 ELSE @]
      <4>2. /\ g.name = f.name /\ g.age = f.age /\ g.backups = f.backups
            /\ g.size = IF f.size = 0 THEN 100 ELSE f.size
        BY DEF FileDocs
      <4>3. Sized(l.file) = {g}
        BY <4>1 DEF Sized
      <4>4. [g EXCEPT !.size = IF @ = 0 THEN 100 ELSE @] = g
        BY <4>2 DEF FileDocs
      <4>5. Sized({g}) = {g}
        BY <4>4, ZenonT(30) DEF Sized
      <4>6. ValidLogFile(f)
        BY <1>2, <4>1 DEF ValidLogger
      <4>7. ValidLogFile(g)
        BY <4>2, <4>6 DEF ValidLogFile
      <4> HIDE DEF g
      <4> QED
        BY <4>3, <4>5, <4>7
    <3>3. l.file \in Optional(FileDocs)
      BY DEF LoggerDocs
    <3> QED
      BY <3>1, <3>2, <3>3, PointerCases
  <2>3. ValidLogger(m)
    BY <1>2, <2>1, <2>2 DEF ValidLogger
  <2>4. LoggerToModel(m) = m
    <3>1. m = [l EXCEPT !.file = Sized(l.file)]
      BY DEF LoggerToModel
    <3>2. m = [m EXCEPT !.file = m.file]
      BY <3>1 DEF LoggerDocs
    <3>3. Sized(m.file) = m.file
      BY <2>1, <2>2
    <3> HIDE DEF m
    <3> QED
      BY <3>2, <3>3 DEF LoggerToModel
  <2> QED
    BY <2>3, <2>4
<1> QED
  BY <1>1, <1>2, Zenon DEF ServiceSurvives

-----------------------------------------------------------------------------
(* Restore policies *)

(***************************************************************************)
(* With an accepted policy the options of which do not exclude each other, *)
(* whatever its limits, the database does to a record what the comments of *)
(* the policy say.                                                         *)
(***************************************************************************)
THEOREM RestoresAreAsDocumented == AcceptedAsDocumented
<1> SUFFICES ASSUME NEW p \in RestorePolicyDocs, ValidRestorePolicy(p)
             PROVE  /\ ValidRestoreRequest({Empty}, p)
                    /\ ~(Exclusive \subseteq p.flags) => \A exists, newer \in BOOLEAN :
                          Written(RestoreOptions(p), exists, newer)
                            \in Documented(p.flags, exists, newer)
  BY DEF AcceptedAsDocumented
<1>1. ValidRestoreRequest({Empty}, p)
  <2> DEFINE q == [p EXCEPT !.compression = Leveled(@)]
  <2>1. /\ q.limits = p.limits /\ q.flags = p.flags /\ q.namespace = p.namespace
        /\ q.retry = p.retry /\ q.encryption = p.encryption
        /\ q.compression = Leveled(p.compression)
    BY DEF RestorePolicyDocs
  <2>2. ValidCompression(Leveled(p.compression))
    BY LevelStays DEF RestorePolicyDocs, ValidRestorePolicy
  <2> HIDE DEF q
  <2>3. ValidRestorePolicy(q)
    BY <2>1, <2>2 DEF ValidRestorePolicy
  <2> QED
    BY <2>3 DEF ValidRestoreRequest, q
<1>2. ASSUME ~(Exclusive \subseteq p.flags), NEW exists \in BOOLEAN, NEW newer \in BOOLEAN
      PROVE  Written(RestoreOptions(p), exists, newer) \in Documented(p.flags, exists, newer)
  <2>1. /\ RestoreOptions(p).action = RecordExistsAction(p.flags)
        /\ RestoreOptions(p).generation = GenerationPolicy(p.flags)
    BY DEF RestoreOptions
  <2>2. ~("replace" \in p.flags /\ "unique" \in p.flags)
    BY DEF ValidRestorePolicy
  <2>3. /\ "unique" \in p.flags <=> RecordExistsAction(p.flags) = "CREATE_ONLY"
        /\ "replace" \in p.flags <=> RecordExistsAction(p.flags) = "REPLACE"
        /\ "no-generation" \notin p.flags <=> GenerationPolicy(p.flags) = "EXPECT_GEN_GT"
    BY <2>2 DEF RecordExistsAction, GenerationPolicy
  <2>4. ~("unique" \in p.flags /\ "no-generation" \in p.flags)
    BY <1>2 DEF Exclusive
  <2> DEFINE w == Written(RestoreOptions(p), exists, newer)
  <2>5. /\ w \in {"created", "kept", "replaced", "merged"}
        /\ w = "created" <=> ~exists
        /\ w = "kept" <=> exists /\ ("unique" \in p.flags \/ ("no-generation" \notin p.flags /\ ~newer))
        /\ w = "replaced" => "replace" \in p.flags
        /\ w = "merged" => "replace" \notin p.flags
    BY <2>1, <2>3 DEF Written
  <2>6. Exclusive \cap p.flags = {} <=> "unique" \notin p.flags /\ "no-generation" \notin p.flags
    BY DEF Exclusive
  <2>7. w \in Documented(p.flags, exists, newer)
    BY <2>4, <2>5, <2>6 DEF Documented
  <2> QED
    BY <2>7
<1> QED
  BY <1>1, <1>2

=============================================================================
