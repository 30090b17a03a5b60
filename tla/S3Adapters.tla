----------------------------- MODULE S3Adapters -----------------------------
(***************************************************************************)
(* Uploads stored in S3 (uploads/s3.py): the adapter for direct uploads to *)
(* a versioned bucket, and the one for uploads that pass through the       *)
(* server, on a bucket with or without versions.  One upload intent has a  *)
(* staging key and a final key; "old" is the key of a file it replaces.    *)
(*                                                                         *)
(* Operations of the adapters are sequences of S3 requests, run by several *)
(* workers (retries, leases that ran out), while other users of the bucket *)
(* write to it.  A request may be lost, or its answer.  The record of the  *)
(* upload in the database is reduced to what the adapters are asked to do  *)
(* with it; UploadTransfer and UploadFinalization have the rest.           *)
(***************************************************************************)
EXTENDS Naturals, FiniteSets

CONSTANTS
    S3Workers,       \* workers that run operations of the adapter
    AllSettings,     \* configurations of the storage, see Setting
    MaxObjects,      \* bound on objects written
    MaxS3Jobs,       \* bound on operations started
    MaxS3Faults      \* bound on lost requests and answers

VARIABLES
    storage,    \* the storage's settings, until an adapter has been chosen
    kind,       \* the adapter: "direct", "proxy" (versions), "plain" (no versions)
    options,    \* may staged objects be read by the public?
    store,      \* key -> its versions
    written,    \* objects written so far; their numbers are the version ids
    removed,    \* what operations of the adapter have taken away (history)
    intent,     \* the database's record: state, and the versions on record
    s3job,      \* worker -> its operation
    s3Jobs, s3Faults

s3Vars == <<storage, kind, options, store, written, removed, intent, s3job, s3Jobs, s3Faults>>

Keys == {"stage", "final", "old"}
Setting ==
    [public : BOOLEAN, querystring_auth : BOOLEAN, acl : {"none", "public-read", "public-read-write", "bucket-owner-full-control"},
     parameters : BOOLEAN, privatePrefix : BOOLEAN, aws : BOOLEAN, https : BOOLEAN, conditionalCopy : BOOLEAN,
     versioning : BOOLEAN, versioning_enabled : BOOLEAN, sigv4 : BOOLEAN, copyIfNoneMatch : BOOLEAN, conditionalMembers : BOOLEAN]

ASSUME S3Assumption == AllSettings \subseteq Setting

Announced == "announced"      \* the bytes the client announced, by checksum and size
Versioned == kind \in {"direct", "proxy"}
Object(body, meta) == [n |-> written + 1, body |-> body, meta |-> meta]
\* ObjectVersion: the version id, and the checksum, size and ETag that follow the bytes.
Version(object) == [vid |-> IF Versioned THEN object.n ELSE 0, body |-> object.body]
NoJob == [op |-> "", at |-> "", of |-> {}]

-----------------------------------------------------------------------------
(* The bucket *)

\* The answer to a HEAD: the newest version, if there is one.
_head_optional(key) == {o \in store[key] : \A p \in store[key] : p.n <= o.n}
\* The answer when an exact version is asked for; there is one object without versions.
Exact(key, v) == IF v.vid = 0 THEN _head_optional(key) ELSE {o \in store[key] : o.n = v.vid}

PutObject(key, object) ==
    /\ store' = [store EXCEPT ![key] = (IF Versioned THEN @ ELSE {}) \cup {object}]
    /\ written' = written + 1
    /\ UNCHANGED removed

\* A conditional PUT (IfNoneMatch).
PutIfAbsent(key, object) ==
    IF store[key] = {} THEN PutObject(key, object) ELSE UNCHANGED <<store, written, removed>>
\* Mutant: on a bucket with versions the PUT does not ask for an absent key.
PutNewVersion(key, object) == IF Versioned THEN PutObject(key, object) ELSE PutIfAbsent(key, object)
_put_if_none_match(key, object) == PutIfAbsent(key, object)

Takes(key, objects) ==
    /\ store' = [store EXCEPT ![key] = @ \ objects]
    /\ removed' = removed \cup {[key |-> key, object |-> o] : o \in objects}
\* A DELETE of an exact version, with IfMatch when the adapter is for the server.
DeleteExact(key, v) == Takes(key, {o \in Exact(key, v) : kind = "direct" \/ o.body = v.body})
\* Mutant: the DELETE of the server's adapter names the key only.
DeleteWhatever(key, v) == Takes(key, Exact(key, v))
_delete_if_match(key, v) == DeleteExact(key, v)

-----------------------------------------------------------------------------
(* Choice of the adapter (UploadAdapterRegistry.resolve) *)

\* public, or without signed URLs, the bucket is open to readers whatever the ACL of an object.
OpenBucket(s) == s.public \/ ~s.querystring_auth
PublicAcl == {"public-read", "public-read-write"}
_storage_is_public(s) == OpenBucket(s) \/ s.acl \in PublicAcl
StagingIsPrivate(s) == _storage_is_public(s) => s.privatePrefix
_validate_direct_support(s) ==
    /\ s.parameters /\ StagingIsPrivate(s)
    /\ s.aws \/ s.conditionalCopy
    /\ s.versioning_enabled /\ s.sigv4 /\ s.copyIfNoneMatch /\ s.versioning
_validate_proxy_support(s) ==
    /\ s.parameters /\ StagingIsPrivate(s)
    /\ s.sigv4
    /\ s.aws \/ (s.https /\ s.conditionalCopy)
    /\ s.conditionalMembers

\* Mutant: the object parameters go to staged objects as they are.
AllParametersStaged(s) == s.acl
\* _storage_object_options: only "bucket-owner-full-control" is sent for staged objects.
StagingAcl(s) == IF s.acl = "bucket-owner-full-control" THEN s.acl ELSE "none"

\* Without an adapter of S3 the general one stores the upload, see UploadFinalization.
Configure ==
    /\ kind = ""
    /\ _validate_direct_support(storage) \/ _validate_proxy_support(storage)
    /\ kind' = IF _validate_direct_support(storage) THEN "direct" ELSE IF storage.versioning THEN "proxy" ELSE "plain"
    /\ options' = [publicAcl |-> StagingAcl(storage) \in PublicAcl, publicPrefix |-> OpenBucket(storage) /\ ~storage.privatePrefix]
    /\ storage' = << >>
    /\ UNCHANGED <<store, written, removed, intent, s3job, s3Jobs, s3Faults>>

-----------------------------------------------------------------------------
(* Requests *)

Does(w, op, at) == s3job[w].op = op /\ s3job[w].at = at
Proceeds(w, at, of) == s3job' = [s3job EXCEPT ![w] = [op |-> s3job[w].op, at |-> at, of |-> of]]
GivesUp(w) == s3job' = [s3job EXCEPT ![w] = NoJob]
Starts(w, op, at, of) ==
    /\ kind # "" /\ s3job[w] = NoJob /\ s3Jobs < MaxS3Jobs
    /\ s3Jobs' = s3Jobs + 1
    /\ s3job' = [s3job EXCEPT ![w] = [op |-> op, at |-> at, of |-> of]]
    /\ UNCHANGED <<storage, kind, options, store, written, removed, intent, s3Faults>>
Same == UNCHANGED <<storage, kind, options, s3Jobs>>

\* The answer to a PUT or a copy arrives, or the adapter has to ask what became of it.
Answered(w, absent) ==
    \/ Proceeds(w, IF absent THEN "verify" ELSE "doubt", {}) /\ UNCHANGED s3Faults
    \/ s3Faults < MaxS3Faults /\ s3Faults' = s3Faults + 1 /\ Proceeds(w, "doubt", {})

\* The request does not arrive: the adapter sees an error.
Lost(w) ==
    /\ s3job[w].at \in {"put", "copy", "delete"} /\ s3Faults < MaxS3Faults
    /\ s3Faults' = s3Faults + 1
    /\ IF s3job[w].at = "delete" THEN GivesUp(w) ELSE Proceeds(w, "doubt", {})
    /\ UNCHANGED <<storage, kind, options, store, written, removed, intent, s3Jobs>>
\* A HEAD or a GET fails, or the worker stops.
Stops(w) ==
    /\ s3job[w] # NoJob /\ s3Faults < MaxS3Faults
    /\ s3Faults' = s3Faults + 1 /\ GivesUp(w)
    /\ UNCHANGED <<storage, kind, options, store, written, removed, intent, s3Jobs>>

-----------------------------------------------------------------------------
(* Staging *)

\* The version that the adapter reports is put on record while the upload is awaited.
Binds(objects) ==
    intent' = IF objects # {} /\ intent.state = "pending"
              THEN [intent EXCEPT !.state = "uploaded", !.bound = {Version(o) : o \in objects}] ELSE intent

\* The client sends its bytes to S3 with the signed request, as often as it likes.
DirectPut ==
    /\ kind = "direct" /\ written < MaxObjects
    /\ PutObject("stage", Object(Announced, "none"))
    /\ UNCHANGED <<storage, kind, options, intent, s3job, s3Jobs, s3Faults>>

\* S3ProxyUploadAdapter.save_stage, after the bytes were spooled and their checksum compared.
StartSave(w) == kind # "direct" /\ intent.state = "pending" /\ Starts(w, "save", "put", {})
SavePut(w) ==
    /\ Does(w, "save", "put") /\ written < MaxObjects
    /\ _put_if_none_match("stage", Object(Announced, "stage"))
    /\ Answered(w, store["stage"] = {})
    /\ Same /\ UNCHANGED intent
_matches_proxy_stage(o) == o.meta = "stage" /\ o.body = Announced
\* After an error the object that is there may be the one of an earlier try.
SaveVerify(w) ==
    /\ s3job[w].op = "save" /\ s3job[w].at \in {"verify", "doubt"}
    /\ Binds({o \in _head_optional("stage") : _matches_proxy_stage(o)})
    /\ GivesUp(w) /\ Same /\ UNCHANGED <<store, written, removed, s3Faults>>

\* Preflight of a direct upload: the checksum and size are those that were announced.
inspect_staged ==
    /\ kind = "direct" /\ intent.state = "pending"
    /\ Binds({o \in _head_optional("stage") : o.body = Announced})
    /\ UNCHANGED <<storage, kind, options, store, written, removed, s3job, s3Jobs, s3Faults>>

-----------------------------------------------------------------------------
(* Materialisation: the final object is created from the bound version *)

\* The mutation binds the upload; the version of the file it replaces is recorded if it
\* is to be deleted and can be inspected.
inspect_replaced_object ==
    /\ intent.state = "uploaded"
    /\ \E old \in {{}, {Version(o) : o \in _head_optional("old")}} :
         intent' = [intent EXCEPT !.state = "finalizing", !.old = old]
    /\ UNCHANGED <<storage, kind, options, store, written, removed, s3job, s3Jobs, s3Faults>>

_matches_materialization(o) == o.meta = "intent" /\ \E v \in intent.bound : o.body = v.body
FinalObject(v) == Object(v.body, "intent")

StartMaterialize(w) == intent.state = "finalizing" /\ Starts(w, "materialize", "look", {})
\* What has the final key is the intent's own, or somebody else's.
Look(w) ==
    /\ Does(w, "materialize", "look")
    /\ LET now == _head_optional("final")
       IN  IF now = {} THEN Proceeds(w, IF kind = "direct" THEN "copy" ELSE "open", {})
           ELSE IF \E o \in now : _matches_materialization(o) THEN Proceeds(w, "done", {}) ELSE GivesUp(w)
    /\ Same /\ UNCHANGED <<store, written, removed, intent, s3Faults>>

\* Direct: a copy of the bound version to an absent key, inside S3.
Copy(w) ==
    /\ Does(w, "materialize", "copy") /\ written < MaxObjects
    /\ \E v \in intent.bound :
         IF Exact("stage", v) = {} THEN UNCHANGED <<store, written, removed>>
         ELSE _put_if_none_match("final", FinalObject(v))
    /\ Answered(w, store["final"] = {} /\ \A v \in intent.bound : Exact("stage", v) # {})
    /\ Same /\ UNCHANGED intent

\* Proxy: the bytes are read with IfMatch and checked while they are spooled ...
_verified_body(key, v) == \E o \in Exact(key, v) : o.body = v.body
open_stage(w) ==
    /\ Does(w, "materialize", "open")
    /\ IF \E v \in intent.bound : _verified_body("stage", v) THEN Proceeds(w, "put", {}) ELSE GivesUp(w)
    /\ Same /\ UNCHANGED <<store, written, removed, intent, s3Faults>>
\* ... and put to an absent key.
FinalPut(w) ==
    /\ Does(w, "materialize", "put") /\ written < MaxObjects
    /\ \E v \in intent.bound : _put_if_none_match("final", FinalObject(v))
    /\ Answered(w, store["final"] = {})
    /\ Same /\ UNCHANGED intent

\* What was created, or what an earlier or a concurrent try created.
Verify(w) ==
    /\ s3job[w].op = "materialize" /\ s3job[w].at \in {"verify", "doubt"}
    /\ IF \E o \in _head_optional("final") : _matches_materialization(o) THEN Proceeds(w, "done", {}) ELSE GivesUp(w)
    /\ Same /\ UNCHANGED <<store, written, removed, intent, s3Faults>>

\* inspect_materialized: the version that the record is completed with, unless the worker
\* has lost its lease or the upload was superseded.
inspect_materialized(w) ==
    /\ Does(w, "materialize", "done")
    /\ LET own == {o \in _head_optional("final") : _matches_materialization(o)}
       IN  \/ UNCHANGED intent
           \/ /\ own # {} /\ intent.state = "finalizing"
              /\ intent' = [intent EXCEPT !.state = "consumed", !.final = {Version(o) : o \in own}]
    /\ GivesUp(w) /\ Same /\ UNCHANGED <<store, written, removed, s3Faults>>

\* A download asks for the recorded version; a signed URL finds what has its version id,
\* and a public URL what is under the key.
inspect_download(v) == {o \in Exact("final", v) : Version(o) = v}
private_download_url(v) == Exact("final", v)
public_url == _head_optional("final")

\* The row has another file by now, or the upload is too late.
Supersede ==
    /\ intent.state = "finalizing"
    /\ intent' = [intent EXCEPT !.state = "superseded"]
    /\ UNCHANGED <<storage, kind, options, store, written, removed, s3job, s3Jobs, s3Faults>>
Expire ==
    /\ kind # "" /\ intent.state \in {"pending", "uploaded"}
    /\ intent' = [intent EXCEPT !.state = "expired"]
    /\ UNCHANGED <<storage, kind, options, store, written, removed, s3job, s3Jobs, s3Faults>>

-----------------------------------------------------------------------------
(* Deletion of exact versions *)

\* The direct adapter deletes staged and claimed versions as they are.
Unchecked(at) == IF kind = "direct" THEN "delete" ELSE at

\* delete_stage of the bound version, or of what an expired upload left; delete_materialized
\* for a superseded one, which has no final version on record.
StartDelete(w) ==
    \/ /\ intent.state \in {"consumed", "superseded", "expired"} /\ intent.bound # {}
       /\ Starts(w, "delete stage", Unchecked("check"), intent.bound)
    \/ intent.state = "expired" /\ intent.bound = {} /\ Starts(w, "delete stage", "inspect", {})
    \/ intent.state = "superseded" /\ Starts(w, "delete final", "inspect", {})

\* plan_replaced_object_claim: what the adapters on S3 claim, they delete where it is.
plan_replaced_object_claim ==
    /\ intent.state = "consumed" /\ intent.claim = {} /\ intent.old # {}
    /\ intent' = [intent EXCEPT !.claim = intent.old]
    /\ UNCHANGED <<storage, kind, options, store, written, removed, s3job, s3Jobs, s3Faults>>
StartDeleteClaimed(w) == intent.claim # {} /\ Starts(w, "delete old", Unchecked("claim"), intent.claim)

KeyOf(w) == CASE s3job[w].op = "delete stage" -> "stage" [] s3job[w].op = "delete final" -> "final" [] OTHER -> "old"
Own(w, o) == KeyOf(w) = "final" => _matches_materialization(o)

\* The version that will be deleted.
Inspect(w) ==
    /\ s3job[w].at = "inspect"
    /\ LET found == {o \in _head_optional(KeyOf(w)) : Own(w, o)}
       IN  IF found = {} THEN GivesUp(w)
           ELSE Proceeds(w, IF kind = "direct" THEN IF KeyOf(w) = "final" THEN "compare" ELSE "delete" ELSE "check", {Version(o) : o \in found})
    /\ Same /\ UNCHANGED <<store, written, removed, intent, s3Faults>>
\* delete_materialized of the direct adapter inspects once more and compares.
CompareFinal(w) ==
    /\ s3job[w].at = "compare"
    /\ IF \E o \in _head_optional(KeyOf(w)) : Own(w, o) /\ Version(o) \in s3job[w].of THEN Proceeds(w, "check", s3job[w].of) ELSE GivesUp(w)
    /\ Same /\ UNCHANGED <<store, written, removed, intent, s3Faults>>
\* claim_replaced_object: an object that differs is left alone.
claim_replaced_object(w) ==
    /\ s3job[w].at = "claim"
    /\ IF \A v \in s3job[w].of : \A o \in Exact("old", v) : Version(o) = v THEN Proceeds(w, "check", s3job[w].of) ELSE GivesUp(w)
    /\ Same /\ UNCHANGED <<store, written, removed, intent, s3Faults>>
\* delete_object: the version is compared before it is deleted; the direct adapter looks
\* at the current object, the other one at the exact version.
Check(w) ==
    /\ s3job[w].at = "check"
    /\ IF \E v \in s3job[w].of : \E o \in (IF kind = "direct" THEN _head_optional(KeyOf(w)) ELSE Exact(KeyOf(w), v)) : Version(o) = v
       THEN Proceeds(w, "delete", s3job[w].of) ELSE GivesUp(w)
    /\ Same /\ UNCHANGED <<store, written, removed, intent, s3Faults>>
Delete(w) ==
    /\ s3job[w].at = "delete"
    /\ \E v \in s3job[w].of : _delete_if_match(KeyOf(w), v)
    /\ GivesUp(w) /\ Same /\ UNCHANGED <<written, intent, s3Faults>>

-----------------------------------------------------------------------------
(* Others: an application overwrites its file, takes the final key, or a tool touches the *)
(* staging prefix.                                                                       *)

Outsider(key) ==
    /\ kind # "" /\ written < MaxObjects
    /\ key # "old" => store[key] = {}
    /\ PutObject(key, Object("other", "none"))
    /\ UNCHANGED <<storage, kind, options, intent, s3job, s3Jobs, s3Faults>>

-----------------------------------------------------------------------------
(* Specification *)

S3Init ==
    /\ storage \in AllSettings
    /\ kind = "" /\ options = [publicAcl |-> FALSE, publicPrefix |-> FALSE]
    /\ store = [key \in Keys |-> IF key = "old" THEN {[n |-> 1, body |-> "oldest", meta |-> "none"]} ELSE {}]
    /\ written = 1 /\ removed = {}
    /\ intent = [state |-> "pending", bound |-> {}, old |-> {}, final |-> {}, claim |-> {}]
    /\ s3job = [w \in S3Workers |-> NoJob]
    /\ s3Jobs = 0 /\ s3Faults = 0

S3Step(w) ==
    \/ Lost(w) \/ Stops(w)
    \/ StartSave(w) \/ SavePut(w) \/ SaveVerify(w)
    \/ StartMaterialize(w) \/ Look(w) \/ Copy(w) \/ open_stage(w) \/ FinalPut(w) \/ Verify(w) \/ inspect_materialized(w)
    \/ StartDelete(w) \/ StartDeleteClaimed(w) \/ Inspect(w) \/ CompareFinal(w) \/ claim_replaced_object(w) \/ Check(w) \/ Delete(w)

S3Next ==
    \/ \E w \in S3Workers : S3Step(w)
    \/ Configure \/ DirectPut \/ inspect_staged \/ inspect_replaced_object \/ Supersede \/ Expire \/ plan_replaced_object_claim
    \/ \E key \in Keys : Outsider(key)

S3Spec == S3Init /\ [][S3Next]_s3Vars

-----------------------------------------------------------------------------
(* Properties *)

\* Downloads of a consumed upload find the recorded version, and it is the intent's own and
\* holds the bytes that were bound; until then the bound bytes stay staged.
FinalIsTheBound ==
    /\ intent.state = "consumed" =>
         \E v \in intent.final :
           /\ inspect_download(v) # {} /\ \A o \in public_url : Version(o) = v
           /\ \A o \in private_download_url(v) : o.meta = "intent" /\ \E b \in intent.bound : o.body = b.body
    /\ intent.state \in {"uploaded", "finalizing"} =>
         \E v \in intent.bound : \E o \in Exact("stage", v) : Version(o) = v

\* The adapters remove nothing but the versions on record and final objects the intent made
\* itself, by version id where there are versions and by their bytes where there are none.
OnlyRecordedRemoved ==
    \A r \in removed :
      /\ r.key = "stage" /\ intent.bound # {} => Version(r.object) \in intent.bound
      /\ r.key = "final" => /\ intent.state = "superseded" /\ \E v \in intent.bound : r.object.body = v.body
                            /\ Versioned => r.object.meta = "intent"
      /\ r.key = "old" => Version(r.object) \in intent.claim

\* Staged objects are never readable by the public.
StagedStaysPrivate == ~options.publicAcl /\ ~options.publicPrefix

\* What the adapters promise.
S3Sound == FinalIsTheBound /\ OnlyRecordedRemoved /\ StagedStaysPrivate
=============================================================================
