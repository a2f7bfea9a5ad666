---------------------------- MODULE RestoreRequests ----------------------------
(***************************************************************************)
(* The policy of a restore request: what Validate accepts, and what the    *)
(* write policy that is made of it does to a record of the destination.    *)
(***************************************************************************)
EXTENDS Documents

WriteFlags == {"replace", "unique", "no-generation"}

RetryDocs == [base : {0, 1}, multiplier : {0, 1}, max : {-1, 0}]

RestorePolicyDocs ==
    [limits : [Limits -> Optional(Numbers)], flags : SUBSET WriteFlags,
     namespace : Optional(SUBSET {"source", "destination"}), retry : Optional(RetryDocs),
     encryption : Optional(EncryptionDocs), compression : Optional(CompressionDocs)]

ValidRetry(pointer) == \A r \in pointer : r.base > 0 /\ r.multiplier >= 1 /\ r.max >= 0

ValidNamespace(pointer) == \A n \in pointer : n = {"source", "destination"}

ValidRestorePolicy(p) ==
    /\ \A l \in Limits : Positive(p.limits[l])
    /\ ~({"replace", "unique"} \subseteq p.flags)
    /\ ValidNamespace(p.namespace) /\ ValidRetry(p.retry)
    /\ ValidEncryption(p.encryption) /\ ValidCompression(p.compression)

(***************************************************************************)
(* A request from a path validates its policy twice: the second time with  *)
(* the compression level of the first.                                     *)
(***************************************************************************)
ValidRestoreRequest(path, p) ==
    /\ path # {}
    /\ ValidRestorePolicy(p)
    /\ ValidRestorePolicy([p EXCEPT !.compression = Leveled(@)])

RecordExistsAction(flags) ==
    CASE "replace" \in flags -> "REPLACE"
      [] "replace" \notin flags /\ "unique" \in flags -> "CREATE_ONLY"
      [] OTHER -> "UPDATE"

GenerationPolicy(flags) == IF "no-generation" \in flags THEN "NONE" ELSE "EXPECT_GEN_GT"

RestoreOptions(p) ==
    [limits |-> p.limits, action |-> RecordExistsAction(p.flags),
     generation |-> GenerationPolicy(p.flags), namespace |-> p.namespace,
     retry |-> OrDefault(p.retry, [base |-> 2000, multiplier |-> 2, max |-> 5]),
     encryption |-> p.encryption, compression |-> p.compression]

(***************************************************************************)
(* What the database does with a record of a backup that is written with   *)
(* these options; newer says whether its generation is greater than that   *)
(* of the record that exists.                                              *)
(***************************************************************************)
Written(options, exists, newer) ==
    CASE ~exists -> "created"
      [] exists /\ options.action = "CREATE_ONLY" -> "kept"
      [] exists /\ options.action # "CREATE_ONLY" /\ options.generation = "EXPECT_GEN_GT" /\ ~newer -> "kept"
      [] OTHER -> IF options.action = "REPLACE" THEN "replaced" ELSE "merged"

(***************************************************************************)
(* What the comments of RestorePolicy allow: with unique an existing       *)
(* record takes precedence, with no-generation the backup does, both       *)
(* "regardless of generation numbers"; else the higher generation does.    *)
(* The backup overwrites all bins or its own. The comments of unique and   *)
(* no-generation exclude each other, and Validate accepts the two          *)
(* together.                                                               *)
(***************************************************************************)
Exclusive == {"unique", "no-generation"}

Documented(flags, exists, newer) ==
    {outcome \in {"created", "kept", "replaced", "merged"} :
       /\ outcome = "created" <=> ~exists
       /\ exists /\ "unique" \in flags => outcome = "kept"
       /\ exists /\ "no-generation" \in flags => outcome # "kept"
       /\ exists /\ Exclusive \cap flags = {} => (outcome = "kept" <=> ~newer)
       /\ outcome = "replaced" => "replace" \in flags
       /\ outcome = "merged" => "replace" \notin flags}

(***************************************************************************)
(* A policy that is accepted is accepted twice, and unless its options     *)
(* exclude each other, records are restored as its comments say.           *)
(***************************************************************************)
AcceptedAsDocumented ==
    \A p \in RestorePolicyDocs : ValidRestorePolicy(p) =>
       /\ ValidRestoreRequest({Empty}, p)
       /\ ~(Exclusive \subseteq p.flags) => \A exists, newer \in BOOLEAN :
             Written(RestoreOptions(p), exists, newer) \in Documented(p.flags, exists, newer)

(***************************************************************************)
(* A request with these options can be accepted.                           *)
(***************************************************************************)
AcceptedFlags(flags) ==
    \E p \in RestorePolicyDocs : p.flags = flags /\ ValidRestoreRequest({Empty}, p)

=============================================================================
