------------------------------- MODULE Documents -------------------------------
(***************************************************************************)
(* The documents a configuration is made of: what Validate accepts, what   *)
(* ToModel and fromModel make of it, and what the service gets from the    *)
(* model in the end. Configuration works with the versions of items as a   *)
(* whole; this module opens them.                                          *)
(*                                                                         *)
(* A pointer is the set of what it points to; nil is the empty set.        *)
(* Options that are validated, copied and used alike are a function.       *)
(***************************************************************************)
EXTENDS Integers

CONSTANTS
    Texts, Empty,   \* strings, and the empty one
    Limits,         \* the options of a policy that have to be positive
    Counts,         \* the options of a policy that must not be negative
    MaxNumber       \* numbers are bounded by it, in either direction

ASSUME DocumentsAssumption ==
    /\ Empty \in Texts
    /\ "max-retries" \in Counts /\ "retry-delay" \in Counts
    /\ MaxNumber \in Nat

Numbers == -MaxNumber..MaxNumber

Optional(S) == {{}} \cup {{v} : v \in S}

OrDefault(pointer, default) ==
    IF pointer = {} THEN default ELSE CHOOSE v \in pointer : TRUE

Positive(pointer)    == \A v \in pointer : v > 0
NotNegative(pointer) == \A v \in pointer : v >= 0

-----------------------------------------------------------------------------
(* Backup policies *)

EncryptionModes  == {"NONE", "AES128", "AES256"}
CompressionModes == {"NONE", "ZSTD"}
RemoveTypes      == {"KeepAll", "RemoveAll", "RemoveIncremental"}
SMDFlags         == {"no-indexes", "no-udfs"}
Flags            == SMDFlags \cup {"no-records", "sealed"}

EncryptionDocs  == [mode : {"NONE", "AES128", "DES"}, key : SUBSET {"file", "secret"}]
CompressionDocs == [mode : {"NONE", "ZSTD", "LZ4"}, level : -2..1]

PolicyDocs ==
    [limits : [Limits -> Optional(Numbers)], counts : [Counts -> Optional(Numbers)],
     remove : Optional({"KeepAll", "RemoveAll", "RemoveFull"}), flags : SUBSET Flags,
     encryption : Optional(EncryptionDocs), compression : Optional(CompressionDocs)]

ValidEncryption(pointer) ==
    \A e \in pointer : e.mode \in EncryptionModes /\ e.key # {}

\* Mutant of ValidCompression: the level that Validate puts in is refused.
ValidCompressionNoDefault(pointer) ==
    \A c \in pointer : c.mode \in CompressionModes /\ c.level >= 0

(***************************************************************************)
(* The level is checked after Validate has replaced a level of 0.          *)
(***************************************************************************)
ValidCompression(pointer) ==
    \A c \in pointer : c.mode \in CompressionModes /\ c.level >= -1

Leveled(pointer) == {[c EXCEPT !.level = IF @ = 0 THEN -1 ELSE @] : c \in pointer}

ValidPolicy(p) ==
    /\ \A l \in Limits : Positive(p.limits[l])
    /\ \A c \in Counts : NotNegative(p.counts[c])
    /\ p.remove \subseteq RemoveTypes
    /\ ValidEncryption(p.encryption)
    /\ ValidCompression(p.compression)

(***************************************************************************)
(* ToModel of a policy that was validated, and back: fromModel looks for   *)
(* the compression policy in the document, where there is none yet.        *)
(***************************************************************************)
PolicyToModel(p) == [p EXCEPT !.compression = Leveled(@)]

PolicyFromModel(m) == [m EXCEPT !.compression = {}]

(***************************************************************************)
(* What the jobs of a routine get from its policy. Options that are not    *)
(* set are left to backup-go.                                              *)
(***************************************************************************)
BackupOptions(m) ==
    [limits     |-> m.limits,
     retries    |-> OrDefault(m.counts["max-retries"], 3),
     delay      |-> OrDefault(m.counts["retry-delay"], 60000),
     remove     |-> OrDefault(m.remove, "KeepAll"),
     flags      |-> m.flags,
     encryption |-> m.encryption, compression |-> m.compression]

(***************************************************************************)
(* CopySMDDisabled, the policy of incremental backups. It has neither the  *)
(* encryption nor the compression of the policy.                           *)
(***************************************************************************)
IncrementalPolicy(m) ==
    [m EXCEPT !.flags = @ \cup SMDFlags, !.encryption = {}, !.compression = {}]

-----------------------------------------------------------------------------
(* Storages *)

LocalDocs == [path : Texts]
S3Docs    == [bucket : Texts, region : Texts, path : Texts]
GcpDocs   == [key : Texts, bucket : Texts, path : Texts]
AzureDocs == [endpoint : Texts, container : Texts,
              account : Texts, key : Texts, tenant : Texts, client : Texts, secret : Texts]

StorageDocs == [local : Optional(LocalDocs), s3 : Optional(S3Docs),
                gcp : Optional(GcpDocs), azure : Optional(AzureDocs)]

StorageTypes(s) ==
    {t \in {"local", "s3", "gcp", "azure"} :
       CASE t = "local" -> s.local # {} [] t = "s3"    -> s.s3 # {}
         [] t = "gcp"   -> s.gcp # {}   [] t = "azure" -> s.azure # {}}

HasSharedKey(a) == a.account # Empty /\ a.key # Empty
HasAAD(a)       == a.tenant # Empty /\ a.client # Empty /\ a.secret # Empty

(***************************************************************************)
(* One type, with what this type requires; half an authentication of Azure *)
(* is accepted, two are not.                                               *)
(***************************************************************************)
ValidStorage(s) ==
    /\ \E t \in {"local", "s3", "gcp", "azure"} : StorageTypes(s) = {t}
    /\ \A l \in s.local : l.path # Empty
    /\ \A b \in s.s3 : b.bucket # Empty /\ b.region # Empty
    /\ \A g \in s.gcp : g.key # Empty /\ g.bucket # Empty
    /\ \A a \in s.azure :
          a.endpoint # Empty /\ a.container # Empty /\ ~(HasSharedKey(a) /\ HasAAD(a))

AzureAuth(a) ==
    CASE HasSharedKey(a) -> [kind |-> "SharedKey", account |-> a.account, key |-> a.key]
      [] ~HasSharedKey(a) /\ HasAAD(a) ->
           [kind |-> "AD", tenant |-> a.tenant, client |-> a.client, secret |-> a.secret]
      [] OTHER -> [kind |-> "none"]

\* Mutant of StorageToModel: the container of an Azure storage is left out.
StorageToModelNoContainer(s) ==
    CASE s.local # {} -> {[type |-> "local", of |-> l] : l \in s.local}
      [] s.local = {} /\ s.s3 # {} -> {[type |-> "s3", of |-> b] : b \in s.s3}
      [] s.local = {} /\ s.s3 = {} /\ s.gcp # {} -> {[type |-> "gcp", of |-> g] : g \in s.gcp}
      [] OTHER -> {[type |-> "azure", of |-> [endpoint |-> a.endpoint, container |-> Empty,
                                             auth |-> AzureAuth(a)]] : a \in s.azure}

(***************************************************************************)
(* The first type that is there. A storage of no type is nil.              *)
(***************************************************************************)
StorageToModel(s) ==
    CASE s.local # {} -> {[type |-> "local", of |-> l] : l \in s.local}
      [] s.local = {} /\ s.s3 # {} -> {[type |-> "s3", of |-> b] : b \in s.s3}
      [] s.local = {} /\ s.s3 = {} /\ s.gcp # {} -> {[type |-> "gcp", of |-> g] : g \in s.gcp}
      [] OTHER -> {[type |-> "azure", of |-> [endpoint |-> a.endpoint, container |-> a.container,
                                             auth |-> AzureAuth(a)]] : a \in s.azure}

AzureFromModel(a) ==
    [endpoint  |-> a.endpoint, container |-> a.container,
     account   |-> IF a.auth.kind = "SharedKey" THEN a.auth.account ELSE Empty,
     key       |-> IF a.auth.kind = "SharedKey" THEN a.auth.key ELSE Empty,
     tenant    |-> IF a.auth.kind = "AD" THEN a.auth.tenant ELSE Empty,
     client    |-> IF a.auth.kind = "AD" THEN a.auth.client ELSE Empty,
     secret    |-> IF a.auth.kind = "AD" THEN a.auth.secret ELSE Empty]

StorageFromModel(m) ==
    [local |-> {s.of : s \in {x \in m : x.type = "local"}},
     s3    |-> {s.of : s \in {x \in m : x.type = "s3"}},
     gcp   |-> {s.of : s \in {x \in m : x.type = "gcp"}},
     azure |-> {AzureFromModel(s.of) : s \in {x \in m : x.type = "azure"}}]

-----------------------------------------------------------------------------
(* Clusters *)

Nodes == [host : Texts, port : {0, 65535, 65536}]

Credentials == [user : Optional(Texts), password : Optional(Texts), path : Optional(Texts),
                mode : Optional({"INTERNAL", "EXTERNAL_INSECURE", "PKI"})]

TLSDocs == SUBSET {"ca", "cert", "key"}   \* the files it names

ClusterDocs == [nodes : SUBSET Nodes, scans : Optional({0, 100, 200}),
                credentials : Optional(Credentials), tls : Optional(TLSDocs)]

ValidNode(node) == node.host # Empty /\ node.port \in 1..65535

ValidCluster(c) == c.nodes # {} /\ \A node \in c.nodes : ValidNode(node)

NodeToModel(node) == [host |-> node.host, port |-> node.port]

CredentialsToModel(c) ==
    [user |-> c.user, password |-> c.password, path |-> c.path, mode |-> c.mode]

ClusterToModel(c) ==
    [nodes       |-> {NodeToModel(node) : node \in c.nodes},
     scans       |-> c.scans,
     credentials |-> {CredentialsToModel(k) : k \in c.credentials},
     tls         |-> c.tls]

(***************************************************************************)
(* fromModel follows the pointer to the credentials whether it is nil or   *)
(* not, so that a cluster without them has no document.                    *)
(***************************************************************************)
ClusterFromModel(m) ==
    {[nodes       |-> {[host |-> node.host, port |-> node.port] : node \in m.nodes},
      scans       |-> m.scans,
      credentials |-> {[user |-> k.user, password |-> k.password, path |-> k.path, mode |-> k.mode]},
      tls         |-> m.tls] : k \in m.credentials}

(***************************************************************************)
(* A password of the configuration is preferred to the one in a file.      *)
(***************************************************************************)
GetPassword(c, content) ==
    IF c.password # {} THEN c.password ELSE IF c.path # {} THEN content ELSE {}

(***************************************************************************)
(* initTLS: what cannot be read leaves the connection without TLS, and a   *)
(* certificate without a key, or a key without a certificate, is a nil     *)
(* pointer dereferenced.                                                   *)
(***************************************************************************)
TLSConfig(files, readable) ==
    CASE ~readable /\ "ca" \in files -> "nil"
      [] (readable \/ "ca" \notin files) /\ "key" \in files /\ "cert" \notin files -> "panic"
      [] ~readable /\ "ca" \notin files /\ "cert" \in files -> "nil"
      [] readable /\ "cert" \in files /\ "key" \notin files -> "panic"
      [] OTHER -> "config"

AuthMode(c) ==
    LET mode == OrDefault(c.mode, "INTERNAL")
    IN  IF mode = "EXTERNAL_INSECURE" THEN "INTERNAL" ELSE mode

ClientPolicy(m, content, readable) ==
    [hosts     |-> m.nodes,
     auth      |-> {[user     |-> OrDefault(c.user, Empty),
                     password |-> OrDefault(GetPassword(c, content), Empty),
                     mode     |-> AuthMode(c)] : c \in m.credentials},
     tls       |-> {TLSConfig(files, readable) : files \in m.tls},
     queue     |-> {IF 2 * n < 256 THEN 256 ELSE 2 * n : n \in {s \in m.scans : s > 0}}]

-----------------------------------------------------------------------------
(* The service: HTTP server and logger *)

RateDocs == [tps : Optional(Numbers), size : Optional(Numbers), whiteList : SUBSET Texts]
HTTPDocs == [address : Optional(Texts), port : Optional(Numbers), rate : Optional(RateDocs),
             path : Optional({"/", "api"}), timeout : Optional(Numbers)]

FileDocs   == [name : Texts, size : Numbers, age : Numbers, backups : Numbers]
LoggerDocs == [level : Optional({"INFO", "FATAL"}), format : Optional({"JSON", "XML"}),
               stdout : Optional(BOOLEAN), file : Optional(FileDocs)]

ValidHTTP(h) == h.path \subseteq {"/"} /\ NotNegative(h.timeout)

(***************************************************************************)
(* A rate limiter that was not there is an empty one in the document.      *)
(***************************************************************************)
HTTPFromModel(m) ==
    [m EXCEPT !.rate = IF @ = {} THEN {[tps |-> {}, size |-> {}, whiteList |-> {}]} ELSE @]

HTTPOptions(m) ==
    LET rate == OrDefault(m.rate, [tps |-> {1024}, size |-> {1024}, whiteList |-> {}])
    IN  [address |-> OrDefault(m.address, "0.0.0.0"), port |-> OrDefault(m.port, 8080),
         timeout |-> OrDefault(m.timeout, 5000), whiteList |-> rate.whiteList,
         tps |-> OrDefault(rate.tps, 1024), size |-> OrDefault(rate.size, 1024)]

ValidLogFile(f) == f.name # Empty /\ f.size >= 0 /\ f.age >= 0 /\ f.backups >= 0

Sized(pointer) == {[f EXCEPT !.size = IF @ = 0 THEN 100 ELSE @] : f \in pointer}

ValidLogger(l) ==
    /\ l.level \subseteq {"TRACE", "DEBUG", "INFO", "WARN", "WARNING", "ERROR"}
    /\ l.format \subseteq {"PLAIN", "JSON"}
    /\ \A f \in l.file : ValidLogFile(f)

LoggerToModel(l) == [l EXCEPT !.file = Sized(@)]

LoggerOptions(m) ==
    [level  |-> OrDefault(m.level, "DEBUG"), format |-> OrDefault(m.format, "PLAIN"),
     stdout |-> OrDefault(m.stdout, TRUE), file |-> m.file]

-----------------------------------------------------------------------------
(* What is accepted, written to the file and read from it again *)

SameBut(option, a, b) == \A o \in DOMAIN a \cup DOMAIN b : o # option => a[o] = b[o]

(***************************************************************************)
(* A policy that was accepted is accepted again and gives its jobs the     *)
(* same options: the values that Validate put in are valid, and what was   *)
(* not set has its default again. Compression is left out: fromModel loses *)
(* it (dto/backup_policy.go:167).                                          *)
(***************************************************************************)
PoliciesSurvive ==
    \A p \in PolicyDocs : ValidPolicy(p) =>
       LET m == PolicyToModel(p)
           q == PolicyFromModel(m)
           n == PolicyToModel(q)
       IN  /\ ValidPolicy(m) /\ ValidPolicy(q)
           /\ SameBut("compression", BackupOptions(n), BackupOptions(m))
           /\ SameBut("compression", BackupOptions(IncrementalPolicy(n)),
                                     BackupOptions(IncrementalPolicy(m)))

(***************************************************************************)
(* A cluster with credentials gives the client policy that its document    *)
(* describes, whatever the files that it names contain.                    *)
(***************************************************************************)
ClustersSurvive ==
    \A c \in ClusterDocs : ValidCluster(c) /\ c.credentials # {} =>
       \E d \in ClusterFromModel(ClusterToModel(c)) :
          /\ ValidCluster(d)
          /\ \A content \in Optional(Texts), readable \in BOOLEAN :
                ClientPolicy(ClusterToModel(d), content, readable)
                  = ClientPolicy(c, content, readable)

(***************************************************************************)
(* The server and the logger get the same options.                         *)
(***************************************************************************)
ServiceSurvives ==
    /\ \A h \in HTTPDocs : ValidHTTP(h) =>
          ValidHTTP(HTTPFromModel(h)) /\ HTTPOptions(HTTPFromModel(h)) = HTTPOptions(h)
    /\ \A l \in LoggerDocs : ValidLogger(l) =>
          LET m == LoggerToModel(l)
          IN  ValidLogger(m) /\ LoggerOptions(LoggerToModel(m)) = LoggerOptions(m)

(***************************************************************************)
(* A storage is the same storage: of its type, with its one way of         *)
(* authentication.                                                         *)
(***************************************************************************)
StoragesSurvive ==
    \A s \in StorageDocs : ValidStorage(s) =>
       LET m == StorageToModel(s)
           t == StorageFromModel(m)
       IN  /\ m # {}
           /\ ValidStorage(t)
           /\ StorageToModel(t) = m

=============================================================================
