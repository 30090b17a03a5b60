------------------------- MODULE UploadFinalization -------------------------
(***************************************************************************)
(* The saga that binds an uploaded file to a model row.  A mutation claims *)
(* an UPLOADED intent and writes the reserved final key into the row in    *)
(* one transaction; after the commit a finalizer copies the staged bytes   *)
(* to that key; terminal cleanup removes what is no longer needed.  The    *)
(* database and the object store share no transaction, so every storage    *)
(* call and every database transaction is a step of its own.               *)
(*                                                                         *)
(* The on_commit callback and the cleanup command run the same functions;  *)
(* both are workers here.  The storage is the local one (ProxyUploadAdapter *)
(* on FileSystemStorage).  A time stamp is abstracted to whether it has    *)
(* passed; renewing a lease (heartbeat included) keeps it from passing.    *)
(***************************************************************************)
EXTENDS Naturals, FiniteSets

CONSTANTS
    Intent,          \* upload intents; each is also the name of its final key
    Row,             \* model rows with one file field; each is also the name of
                     \* the key it references before any upload
    Client,          \* requests that run a mutation
    Worker,          \* on_commit callbacks and cleanup commands
    Bound,           \* Bound[i]: row i may update, or NoRow for a create
    NoRow, NoKey, NoWorker,
    DeleteReplaced,  \* setting DELETE_REPLACED_FILES
    StaleSaves,      \* ordinary updates save a row they read earlier
    MaxWrites,       \* bound on ordinary writes of the file field
    MaxFaults        \* bound on crashes, storage errors and overrun leases

ASSUME ValuesAssumption ==
    /\ Intent # {}
    /\ Intent \cap Row = {}
    /\ NoKey \notin Intent \cup Row
    /\ NoRow \notin Row
    /\ NoWorker \notin Worker
    /\ Bound \in [Intent -> Row \cup {NoRow}]
ASSUME ScenarioAssumption ==
    /\ DeleteReplaced \in BOOLEAN
    /\ StaleSaves \in BOOLEAN
    /\ MaxWrites \in Nat
    /\ MaxFaults \in Nat

Key == Intent \cup Row

VARIABLES
    state,     \* UploadIntent.state
    target,    \* final_target_pk
    old,       \* old_key
    oldVer,    \* old_object_version: inode of the replaced object, 0 if none
    plan,      \* old_cleanup_key is set
    oldDone,   \* old_cleanup_completed_at is set
    cleaned,   \* cleanup_completed_at is set
    token,     \* cleanup_lease_token
    live,      \* cleanup_lease_expires_at lies in the future
    field,     \* field[r]: key stored in the row's file field
    stage,     \* intents whose staged object exists
    obj,       \* obj[k]: the object at key k and its completion marker
    inode,     \* inode[k]: identity of the object last created at k
    held,      \* held[i]: gm-upload-old-claims/<i> holds the replaced object
    cpc, cint, cold, cver,    \* clients: step, intent, old key, old version
    pc, job, todo,            \* workers: step, intent, work on the old object
    reader,    \* the row an ordinary update has read, and the key it saw
    writes, faults

rowVars == <<state, target, old, oldVer>>
oldVars == <<plan, oldDone>>
leaseVars == <<token, live>>
storeVars == <<stage, obj, inode, held>>
clientVars == <<cpc, cint, cold, cver>>
workerVars == <<pc, job, todo>>
writeVars == <<reader, writes>>
vars == <<rowVars, oldVars, cleaned, leaseVars, field, storeVars, clientVars,
          workerVars, writeVars, faults>>

Terminal == {"consumed", "superseded", "rejected", "expired"}
States == Terminal \cup {"uploaded", "finalizing", "gone"}
Finalizing == {"begin", "renew", "spool", "save", "mark", "inspect", "renew2",
               "complete", "fail"}
Tidying == {"delStage", "delFinal", "check", "plan", "claimOld", "delOld",
            "markOld", "finish", "cleanFail"}
Labels == {"idle", "tidy"} \cup Finalizing \cup Tidying

TypeOK ==
    /\ state \in [Intent -> States]
    /\ target \in [Intent -> Row \cup {NoRow}]
    /\ old \in [Intent -> Key \cup {NoKey}]
    /\ oldVer \in [Intent -> Nat]
    /\ plan \in [Intent -> BOOLEAN]
    /\ oldDone \in [Intent -> BOOLEAN]
    /\ cleaned \in [Intent -> BOOLEAN]
    /\ token \in [Intent -> Worker \cup {NoWorker}]
    /\ live \in [Intent -> BOOLEAN]
    /\ field \in [Row -> Key \cup {NoKey}]
    /\ stage \in SUBSET Intent
    /\ obj \in [Key -> {"none", "saved", "complete"}]
    /\ inode \in [Key -> Nat]
    /\ held \in [Intent -> BOOLEAN]
    /\ cpc \in [Client -> {"idle", "prepared"}]
    /\ cint \in [Client -> Intent]
    /\ cold \in [Client -> Key \cup {NoKey}]
    /\ cver \in [Client -> Nat]
    /\ pc \in [Worker -> Labels]
    /\ job \in [Worker -> Intent]
    /\ todo \in [Worker -> {"nothing", "resume", "plan"}]
    /\ reader \in [row : Row \cup {NoRow}, key : Key \cup {NoKey}]
    /\ writes \in 0..MaxWrites
    /\ faults \in 0..MaxFaults

\* Rows that an intent may update reference an object of their own; the others
\* do not exist yet.
Init ==
    /\ state = [i \in Intent |-> "uploaded"]
    /\ target = [i \in Intent |-> NoRow]
    /\ old = [i \in Intent |-> NoKey]
    /\ oldVer = [i \in Intent |-> 0]
    /\ plan = [i \in Intent |-> FALSE]
    /\ oldDone = [i \in Intent |-> FALSE]
    /\ cleaned = [i \in Intent |-> FALSE]
    /\ token = [i \in Intent |-> NoWorker]
    /\ live = [i \in Intent |-> FALSE]
    /\ field = [r \in Row |-> IF \E i \in Intent : Bound[i] = r
                              THEN r ELSE NoKey]
    /\ stage = Intent
    /\ obj = [k \in Key |-> IF k \in Row THEN "complete" ELSE "none"]
    /\ inode = [k \in Key |-> IF k \in Row THEN 1 ELSE 0]
    /\ held = [i \in Intent |-> FALSE]
    /\ cpc = [c \in Client |-> "idle"]
    /\ cint = [c \in Client |-> CHOOSE i \in Intent : TRUE]
    /\ cold = [c \in Client |-> NoKey]
    /\ cver = [c \in Client |-> 0]
    /\ pc = [w \in Worker |-> "idle"]
    /\ job = [w \in Worker |-> CHOOSE i \in Intent : TRUE]
    /\ todo = [w \in Worker |-> "nothing"]
    /\ reader = [row |-> NoRow, key |-> NoKey]
    /\ writes = 0
    /\ faults = 0

Fault == faults < MaxFaults /\ faults' = faults + 1

-----------------------------------------------------------------------------
(* The mutation: prepare_upload_claims outside the transaction, then        *)
(* lock_upload_claims, reserve_upload_names, the save of the row and        *)
(* mark_uploads_finalizing inside it.                                       *)

\* Mutant: an unreadable object is recorded as version -1.
ReplacedVersionUnknown(k) ==
    IF DeleteReplaced /\ k # NoKey /\ obj[k] # "none" THEN inode[k] ELSE 0 - 1

\* _inspect_old_object: the identity of the replaced object is kept only if
\* it may be deleted later, and only if it can be read.
ReplacedVersion(k) ==
    IF DeleteReplaced /\ k # NoKey /\ obj[k] # "none" THEN inode[k] ELSE 0

PrepareClaim(c, i) ==
    /\ cpc[c] = "idle"
    /\ state[i] = "uploaded"
    /\ LET k == IF Bound[i] = NoRow THEN NoKey ELSE field[Bound[i]] IN
       /\ cold' = [cold EXCEPT ![c] = k]
       /\ cver' = [cver EXCEPT ![c] = ReplacedVersion(k)]
    /\ cpc' = [cpc EXCEPT ![c] = "prepared"]
    /\ cint' = [cint EXCEPT ![c] = i]
    /\ UNCHANGED <<rowVars, oldVars, cleaned, leaseVars, field, storeVars,
                   workerVars, writeVars, faults>>

Forget(c) ==
    /\ cpc' = [cpc EXCEPT ![c] = "idle"]
    /\ cint' = [cint EXCEPT ![c] = CHOOSE i \in Intent : TRUE]
    /\ cold' = [cold EXCEPT ![c] = NoKey]
    /\ cver' = [cver EXCEPT ![c] = 0]

\* A created row is one that nothing references yet.
Fresh(r) == field[r] = NoKey /\ \A i \in Intent : Bound[i] # r /\ target[i] # r

\* Mutant: the locked intent is not revalidated.
MayClaimAnyState(c, r) ==
    IF Bound[cint[c]] = NoRow THEN Fresh(r)
    ELSE r = Bound[cint[c]] /\ field[r] = cold[c]

\* The row the claimed intent is written to: its own, still holding the key
\* seen by prepare, or a new one.
MayClaim(c, r) ==
    /\ state[cint[c]] = "uploaded"
    /\ IF Bound[cint[c]] = NoRow THEN Fresh(r)
       ELSE r = Bound[cint[c]] /\ field[r] = cold[c]

CommitClaim(c, r) ==
    /\ cpc[c] = "prepared"
    /\ MayClaim(c, r)
    /\ LET i == cint[c] IN
       /\ state' = [state EXCEPT ![i] = "finalizing"]
       /\ target' = [target EXCEPT ![i] = r]
       /\ old' = [old EXCEPT ![i] = cold[c]]
       /\ oldVer' = [oldVer EXCEPT ![i] = cver[c]]
       /\ field' = [field EXCEPT ![r] = i]
    /\ Forget(c)
    /\ UNCHANGED <<oldVars, cleaned, leaseVars, storeVars, workerVars,
                   writeVars, faults>>

\* A failed revalidation, a validation error of the row, or a dead process.
AbandonClaim(c) ==
    /\ cpc[c] = "prepared"
    /\ Forget(c)
    /\ UNCHANGED <<rowVars, oldVars, cleaned, leaseVars, field, storeVars,
                   workerVars, writeVars, faults>>

\* _reject_content_intent and _expire_upload_intent_once.
CloseUploaded(i, s) ==
    /\ state[i] = "uploaded"
    /\ state' = [state EXCEPT ![i] = s]
    /\ UNCHANGED <<target, old, oldVer, oldVars, cleaned, leaseVars, field,
                   storeVars, clientVars, workerVars, writeVars, faults>>

RejectContent(i) == CloseUploaded(i, "rejected")
ExpireUploaded(i) == CloseUploaded(i, "expired")

-----------------------------------------------------------------------------
(* Ordinary updates of the row.  The row is read outside the transaction,   *)
(* without a lock, and saved whole.                                         *)

ReadForUpdate(r) ==
    /\ StaleSaves
    /\ reader.row = NoRow
    /\ writes < MaxWrites
    /\ field[r] # NoKey
    /\ reader' = [row |-> r, key |-> field[r]]
    /\ writes' = writes + 1
    /\ UNCHANGED <<rowVars, oldVars, cleaned, leaseVars, field, storeVars,
                   clientVars, workerVars, faults>>

SaveWholeRow ==
    /\ reader.row # NoRow
    /\ field' = [field EXCEPT ![reader.row] = reader.key]
    /\ reader' = [row |-> NoRow, key |-> NoKey]
    /\ UNCHANGED <<rowVars, oldVars, cleaned, leaseVars, storeVars, clientVars,
                   workerVars, writes, faults>>

\* An explicit null for the file field, or the deletion of the row.
ClearField(r) ==
    /\ writes < MaxWrites
    /\ field[r] # NoKey
    /\ field' = [field EXCEPT ![r] = NoKey]
    /\ writes' = writes + 1
    /\ UNCHANGED <<rowVars, oldVars, cleaned, leaseVars, storeVars, clientVars,
                   workerVars, reader, faults>>

-----------------------------------------------------------------------------
(* Finalization *)

\* Only the named variables of a worker's step change.
WorkerGoes(w, from, to) ==
    /\ pc[w] = from
    /\ pc' = [pc EXCEPT ![w] = to]

\* The exact owner of a lease that has not run out.
HoldsLease(w) == token[job[w]] = w /\ live[job[w]]
OwnsToken(w) == token[job[w]] = w

ClearLease(i) ==
    /\ token' = [token EXCEPT ![i] = NoWorker]
    /\ live' = [live EXCEPT ![i] = FALSE]

Referenced(i) == target[i] # NoRow /\ field[target[i]] = i
\* Mutant: a token left by a dead worker keeps others out.
StartFinalizationUntoken(w, i) ==
    /\ WorkerGoes(w, "idle", "begin")
    /\ state[i] = "finalizing"
    /\ ~live[i] /\ token[i] = NoWorker
    /\ job' = [job EXCEPT ![w] = i]
    /\ token' = [token EXCEPT ![i] = w]
    /\ live' = [live EXCEPT ![i] = TRUE]
    /\ UNCHANGED <<rowVars, oldVars, cleaned, field, storeVars, clientVars,
                   todo, writeVars, faults>>

\* _start_finalization_attempt with a new claim.
StartFinalization(w, i) ==
    /\ WorkerGoes(w, "idle", "begin")
    /\ state[i] = "finalizing"
    /\ ~live[i]
    /\ job' = [job EXCEPT ![w] = i]
    /\ token' = [token EXCEPT ![i] = w]
    /\ live' = [live EXCEPT ![i] = TRUE]
    /\ UNCHANGED <<rowVars, oldVars, cleaned, field, storeVars, clientVars,
                   todo, writeVars, faults>>

\* A transaction that decides the intent: superseded when the row has moved
\* on, and the step the worker takes next.
Supersede(w, from) ==
    /\ WorkerGoes(w, from, "tidy")
    /\ state[job[w]] = "finalizing" /\ HoldsLease(w) /\ ~Referenced(job[w])
    /\ state' = [state EXCEPT ![job[w]] = "superseded"]
    /\ ClearLease(job[w])
    /\ UNCHANGED <<target, old, oldVer, oldVars, cleaned, field, storeVars,
                   clientVars, job, todo, writeVars, faults>>

\* A worker leaves, or goes on, without an effect of its own.
Move(w, from, to) ==
    /\ WorkerGoes(w, from, to)
    /\ UNCHANGED <<rowVars, oldVars, cleaned, leaseVars, field, storeVars,
                   clientVars, job, todo, writeVars, faults>>

MayProceed(w) == state[job[w]] = "finalizing" /\ HoldsLease(w)

\* _begin_finalization_attempt: "done", "superseded" or "proceed".
BeginFinalization(w) ==
    \/ ~MayProceed(w) /\ Move(w, "begin", "idle")
    \/ Supersede(w, "begin")
    \/ MayProceed(w) /\ Referenced(job[w]) /\ Move(w, "begin", "renew")

\* _renew_finalization_lease; a lost lease is an exception.
RenewLease(w, from, to) ==
    \/ MayProceed(w) /\ Move(w, from, to)
    \/ ~MayProceed(w) /\ Move(w, from, "fail")

SetObject(k, s) == obj' = [obj EXCEPT ![k] = s]

\* materialize, first part: an object that is already there is completed,
\* otherwise the staged bytes are read.
Spool(w) ==
    LET i == job[w] IN
    \/ /\ obj[i] # "none"
       /\ WorkerGoes(w, "spool", "inspect")
       /\ SetObject(i, "complete")
       /\ UNCHANGED <<rowVars, oldVars, cleaned, leaseVars, field, stage,
                      inode, held, clientVars, job, todo, writeVars, faults>>
    \/ obj[i] = "none" /\ i \in stage /\ Move(w, "spool", "save")
    \/ obj[i] = "none" /\ i \notin stage /\ Move(w, "spool", "fail")

\* materialize, second part: the conditional save of the final object.
Save(w) ==
    LET i == job[w] IN
    /\ WorkerGoes(w, "save", "mark")
    /\ IF obj[i] = "none"
       THEN SetObject(i, "saved") /\ inode' = [inode EXCEPT ![i] = @ + 1]
       ELSE UNCHANGED <<obj, inode>>
    /\ UNCHANGED <<rowVars, oldVars, cleaned, leaseVars, field, stage, held,
                   clientVars, job, todo, writeVars, faults>>

\* materialize, last part: the completion marker.
Mark(w) ==
    LET i == job[w] IN
    /\ WorkerGoes(w, "mark", "inspect")
    /\ IF obj[i] = "none" THEN UNCHANGED obj ELSE SetObject(i, "complete")
    /\ UNCHANGED <<rowVars, oldVars, cleaned, leaseVars, field, stage, inode,
                   held, clientVars, job, todo, writeVars, faults>>

InspectMaterialized(w) ==
    \/ obj[job[w]] = "complete" /\ Move(w, "inspect", "renew2")
    \/ obj[job[w]] # "complete" /\ Move(w, "inspect", "fail")

\* _complete_finalization: "consumed", "superseded" or "stale".
CompleteFinalization(w) ==
    \/ Supersede(w, "complete")
    \/ /\ WorkerGoes(w, "complete", "tidy")
       /\ MayProceed(w) /\ Referenced(job[w])
       /\ state' = [state EXCEPT ![job[w]] = "consumed"]
       /\ ClearLease(job[w])
       /\ UNCHANGED <<target, old, oldVer, oldVars, cleaned, field, storeVars,
                      clientVars, job, todo, writeVars, faults>>
    \/ state[job[w]] = "consumed" /\ Move(w, "complete", "tidy")
    \/ /\ state[job[w]] # "consumed" /\ ~MayProceed(w)
       /\ Move(w, "complete", "idle")

\* Mutant: the failure is recorded without comparing the token.
RecordFailureUnowned(w) ==
    LET i == job[w] IN
    /\ WorkerGoes(w, "fail", "idle")
    /\ token' = [token EXCEPT ![i] = NoWorker]
    /\ live' = [live EXCEPT ![i] = state[i] # "finalizing"]
    /\ UNCHANGED <<rowVars, oldVars, cleaned, field, storeVars, clientVars,
                   job, todo, writeVars, faults>>

\* _record_finalization_failure: the owner puts the intent into a cool-down,
\* a lease without a token.
RecordFailure(w) ==
    LET i == job[w]
        mine == state[i] = "finalizing" /\ OwnsToken(w) IN
    /\ WorkerGoes(w, "fail", "idle")
    /\ token' = IF mine THEN [token EXCEPT ![i] = NoWorker] ELSE token
    /\ live' = IF mine THEN [live EXCEPT ![i] = TRUE] ELSE live
    /\ UNCHANGED <<rowVars, oldVars, cleaned, field, storeVars, clientVars,
                   job, todo, writeVars, faults>>

-----------------------------------------------------------------------------
(* Terminal cleanup *)

\* What is left to do for the replaced object, from the locked row.
OldWork(i) ==
    IF state[i] # "consumed" \/ old[i] = NoKey \/ oldDone[i] THEN "nothing"
    ELSE IF plan[i] THEN "resume"
    ELSE IF DeleteReplaced THEN "plan"
    ELSE "nothing"

\* Mutant: an intent that is still being finalized may be cleaned up.
MayTidyAnyState(i) ==
    /\ state[i] \in Terminal \cup {"finalizing"}
    /\ ~cleaned[i] /\ ~live[i]

\* _claim_terminal_cleanup_once
MayTidy(i) == state[i] \in Terminal /\ ~cleaned[i] /\ ~live[i]

ClaimTerminal(w, i) ==
    /\ \/ pc[w] = "idle"
       \/ pc[w] = "tidy" /\ job[w] = i
    /\ MayTidy(i)
    /\ pc' = [pc EXCEPT ![w] = "delStage"]
    /\ job' = [job EXCEPT ![w] = i]
    /\ todo' = [todo EXCEPT ![w] = OldWork(i)]
    /\ token' = [token EXCEPT ![i] = w]
    /\ live' = [live EXCEPT ![i] = TRUE]
    /\ UNCHANGED <<rowVars, oldVars, cleaned, field, storeVars, clientVars,
                   writeVars, faults>>

\* Cleaned already, or leased by another worker.
SkipTidy(w) == ~MayTidy(job[w]) /\ Move(w, "tidy", "idle")

\* delete_stage of the adapter: the object and its markers.
Unstage(i) == stage' = stage \ {i}

\* _delete_staging_objects; a missing object is no error.
DeleteStage(w) ==
    /\ WorkerGoes(w, "delStage",
                  CASE state[job[w]] = "superseded" -> "delFinal"
                    [] todo[w] = "resume" -> "claimOld"
                    [] todo[w] = "plan" -> "check"
                    [] OTHER -> "finish")
    /\ Unstage(job[w])
    /\ UNCHANGED <<rowVars, oldVars, cleaned, leaseVars, field, obj, inode,
                   held, clientVars, job, todo, writeVars, faults>>

\* Mutant: the final object of a superseded intent is left alone.
DeleteFinalSkipped(w) == Move(w, "delFinal", "finish")

\* Mutant: an object that is already gone is an error.
DeleteFinalMissingFails(w) ==
    LET i == job[w] IN
    \/ obj[i] # "complete" /\ Move(w, "delFinal", "cleanFail")
    \/ /\ obj[i] = "complete"
       /\ WorkerGoes(w, "delFinal", "finish")
       /\ SetObject(i, "none")
       /\ UNCHANGED <<rowVars, oldVars, cleaned, leaseVars, field, stage,
                      inode, held, clientVars, job, todo, writeVars, faults>>

\* _delete_superseded_final: an object without its completion marker is not
\* proven to belong to the intent.
DeleteFinal(w) ==
    LET i == job[w] IN
    \/ obj[i] = "none" /\ Move(w, "delFinal", "finish")
    \/ obj[i] = "saved" /\ Move(w, "delFinal", "cleanFail")
    \/ /\ obj[i] = "complete"
       /\ WorkerGoes(w, "delFinal", "finish")
       /\ SetObject(i, "none")
       /\ UNCHANGED <<rowVars, oldVars, cleaned, leaseVars, field, stage,
                      inode, held, clientVars, job, todo, writeVars, faults>>

ResolveOld(w, from) ==
    /\ WorkerGoes(w, from, "finish")
    /\ oldDone' = [oldDone EXCEPT ![job[w]] = TRUE]
    /\ UNCHANGED <<rowVars, plan, cleaned, leaseVars, field, storeVars,
                   clientVars, job, todo, writeVars, faults>>

\* _delete_consumed_old_object: the row is read without a lock.
CheckTarget(w) ==
    \/ Referenced(job[w]) /\ Move(w, "check", "plan")
    \/ ~Referenced(job[w]) /\ ResolveOld(w, "check")

\* _plan_old_cleanup_claim
PlanOldCleanup(w) ==
    LET i == job[w] IN
    \/ state[i] # "consumed" /\ Move(w, "plan", "cleanFail")
    \/ /\ state[i] = "consumed"
       /\ oldDone[i] \/ (~plan[i] /\ oldVer[i] = 0)
       /\ ResolveOld(w, "plan")
    \/ /\ state[i] = "consumed" /\ ~oldDone[i] /\ (plan[i] \/ oldVer[i] # 0)
       /\ WorkerGoes(w, "plan", "claimOld")
       /\ plan' = [plan EXCEPT ![i] = TRUE]
       /\ UNCHANGED <<rowVars, oldDone, cleaned, leaseVars, field, storeVars,
                      clientVars, job, todo, writeVars, faults>>

\* The object that was replaced, and not another one created at its key.
ReplacedObjectThere(i) ==
    old[i] # NoKey /\ obj[old[i]] # "none" /\ inode[old[i]] = oldVer[i]

\* claim_replaced_object: the exact object is moved into the claim namespace.
ClaimOld(w) ==
    LET i == job[w] IN
    \/ held[i] /\ Move(w, "claimOld", "delOld")
    \/ ~held[i] /\ ~ReplacedObjectThere(i) /\ Move(w, "claimOld", "cleanFail")
    \/ /\ ~held[i] /\ ReplacedObjectThere(i)
       /\ WorkerGoes(w, "claimOld", "delOld")
       /\ held' = [held EXCEPT ![i] = TRUE]
       /\ SetObject(old[i], "none")
       /\ UNCHANGED <<rowVars, oldVars, cleaned, leaseVars, field, stage,
                      inode, clientVars, job, todo, writeVars, faults>>

DeleteClaimed(w) ==
    /\ WorkerGoes(w, "delOld", "markOld")
    /\ held' = [held EXCEPT ![job[w]] = FALSE]
    /\ UNCHANGED <<rowVars, oldVars, cleaned, leaseVars, field, stage, obj,
                   inode, clientVars, job, todo, writeVars, faults>>

\* _mark_old_cleanup_completed
MarkOldCleanup(w) ==
    /\ WorkerGoes(w, "markOld", "finish")
    /\ oldDone' = [oldDone EXCEPT ![job[w]] = @ \/ state[job[w]] = "consumed"]
    /\ UNCHANGED <<rowVars, plan, cleaned, leaseVars, field, storeVars,
                   clientVars, job, todo, writeVars, faults>>

\* The compare-and-set that ends _cleanup_terminal_intent.
EndTidy(w, from, done) ==
    LET i == job[w]
        mine == OwnsToken(w) /\ ~cleaned[i] IN
    /\ WorkerGoes(w, from, "idle")
    /\ IF mine THEN ClearLease(i) ELSE UNCHANGED leaseVars
    /\ cleaned' = [cleaned EXCEPT ![i] = @ \/ (mine /\ done)]
    /\ UNCHANGED <<rowVars, oldVars, field, storeVars, clientVars, job, todo,
                   writeVars, faults>>

FinishTidy(w) == EndTidy(w, "finish", TRUE)
FailTidy(w) == EndTidy(w, "cleanFail", FALSE)

\* _delete_retained_intent_once
DropIntent(i) ==
    /\ state[i] \in Terminal /\ cleaned[i]
    /\ state[i] = "consumed" => ~Referenced(i)
    /\ state' = [state EXCEPT ![i] = "gone"]
    /\ UNCHANGED <<target, old, oldVer, oldVars, cleaned, leaseVars, field,
                   storeVars, clientVars, workerVars, writeVars, faults>>

-----------------------------------------------------------------------------
(* The environment *)

Working(i) == \E w \in Worker : token[i] = w /\ job[w] = i /\ pc[w] # "idle"

\* A cool-down, or the lease of a dead worker, runs out.
LeaseRunsOut(i) ==
    /\ live[i] /\ ~Working(i)
    /\ live' = [live EXCEPT ![i] = FALSE]
    /\ UNCHANGED <<rowVars, oldVars, cleaned, token, field, storeVars,
                   clientVars, workerVars, writeVars, faults>>

\* A paused worker does not renew in time.
LeaseOverrun(i) ==
    /\ live[i] /\ Working(i) /\ Fault
    /\ live' = [live EXCEPT ![i] = FALSE]
    /\ UNCHANGED <<rowVars, oldVars, cleaned, token, field, storeVars,
                   clientVars, workerVars, writeVars>>

\* An adapter or database error inside the try blocks.
StorageFails(w) ==
    /\ pc[w] \in (Finalizing \cup Tidying) \ {"fail", "cleanFail", "finish"}
    /\ Fault
    /\ pc' = [pc EXCEPT ![w] = IF @ \in Finalizing THEN "fail" ELSE "cleanFail"]
    /\ UNCHANGED <<rowVars, oldVars, cleaned, leaseVars, field, storeVars,
                   clientVars, job, todo, writeVars>>

WorkerDies(w) ==
    /\ pc[w] # "idle" /\ Fault
    /\ pc' = [pc EXCEPT ![w] = "idle"]
    /\ UNCHANGED <<rowVars, oldVars, cleaned, leaseVars, field, storeVars,
                   clientVars, job, todo, writeVars>>

-----------------------------------------------------------------------------

WorkerStep(w) ==
    \/ BeginFinalization(w)
    \/ RenewLease(w, "renew", "spool")
    \/ Spool(w) \/ Save(w) \/ Mark(w)
    \/ InspectMaterialized(w)
    \/ RenewLease(w, "renew2", "complete")
    \/ CompleteFinalization(w)
    \/ RecordFailure(w)
    \/ pc[w] = "tidy" /\ ClaimTerminal(w, job[w])
    \/ SkipTidy(w)
    \/ DeleteStage(w) \/ DeleteFinal(w)
    \/ CheckTarget(w) \/ PlanOldCleanup(w) \/ ClaimOld(w)
    \/ DeleteClaimed(w) \/ MarkOldCleanup(w)
    \/ FinishTidy(w) \/ FailTidy(w)

\* run_upload_cleanup, and the on_commit callback, pick up an intent.
PickUp(w, i) ==
    \/ StartFinalization(w, i)
    \/ pc[w] = "idle" /\ ClaimTerminal(w, i)

Next ==
    \/ \E c \in Client, i \in Intent : PrepareClaim(c, i)
    \/ \E c \in Client, r \in Row : CommitClaim(c, r)
    \/ \E c \in Client : AbandonClaim(c)
    \/ \E i \in Intent : RejectContent(i) \/ ExpireUploaded(i)
    \/ \E r \in Row : ReadForUpdate(r) \/ ClearField(r)
    \/ SaveWholeRow
    \/ \E w \in Worker : WorkerStep(w)
    \/ \E w \in Worker, i \in Intent : PickUp(w, i)
    \/ \E i \in Intent : DropIntent(i) \/ LeaseRunsOut(i) \/ LeaseOverrun(i)
    \/ \E w \in Worker : StorageFails(w) \/ WorkerDies(w)

Spec == Init /\ [][Next]_vars

\* A worker that is running goes on; leases end with time; the cleanup command
\* is scheduled again and again, and its queries let no intent starve (a failed
\* one is put behind by its new updated_at).
Fairness ==
    /\ \A w \in Worker : WF_vars(WorkerStep(w))
    /\ \A i \in Intent : WF_vars(LeaseRunsOut(i))
    /\ \A i \in Intent : SF_vars(\E w \in Worker : PickUp(w, i))

FairSpec == Spec /\ Fairness

-----------------------------------------------------------------------------
(* Properties *)

\* A key stored in a row always has bytes behind it: its first object is
\* still there, a key being finalized still has its staged object, and a
\* consumed one its final object.  Neither a finalizer that lost its lease nor
\* a cleanup of a replaced or superseded object can take them away.
BoundBytesExist ==
    \A r \in Row :
        /\ field[r] = r => obj[r] # "none"
        /\ \A i \in Intent : field[r] = i =>
             /\ state[i] \in {"finalizing", "consumed"}
             /\ state[i] = "finalizing" => i \in stage
             /\ state[i] = "consumed" => obj[i] = "complete"

\* A token is single-use: two requests that submit the same upload never bind
\* it to two rows.
SingleUse ==
    \A i \in Intent : Cardinality({r \in Row : field[r] = i}) <= 1

\* When the cleanup of an intent is recorded as completed, none of the objects
\* that only the intent owned is left.
CleanupLeavesNothing ==
    \A i \in Intent : cleaned[i] =>
        /\ i \notin stage
        /\ state[i] \in {"superseded", "rejected", "expired"} => obj[i] = "none"
        /\ ~held[i]

\* An intent moves only forward: a stale worker never reopens one that is
\* decided, nor decides one that was not claimed.
Forward(s, t) ==
    \/ s = t
    \/ s = "uploaded" /\ t \in {"finalizing", "rejected", "expired"}
    \/ s = "finalizing" /\ t \in {"consumed", "superseded"}
    \/ s \in Terminal /\ t = "gone"
MovesForward == \A i \in Intent : Forward(state[i], state'[i])

\* A working finalizer's lease and token are taken away only when they have
\* run out: a second worker, or a failure recorded by one, never ends them.
LeaseExclusive ==
    \A w \in Worker :
      (pc[w] \in Finalizing /\ HoldsLease(w) /\ pc'[w] = pc[w]) => token'[job[w]] = w

\* Every committed upload is decided in the end, whatever one crash, storage
\* error or overrun lease does.
FinalizingDecided ==
    \A i \in Intent :
        state[i] = "finalizing" ~> state[i] \in {"consumed", "superseded", "gone"}

\* Reconciliation completes the cleanup of every intent.
CleanupCompletes ==
    \A i \in Intent : state[i] \in Terminal ~> cleaned[i]

\* The state is well formed and no stored key has lost its bytes, whichever
\* finalizer, cleanup or update runs last (uploads/finalization.py).
BindingSound == TypeOK /\ BoundBytesExist

\* No worker undoes what another one decided: intents move forward, and a lease
\* that runs is not taken away (uploads/finalization.py).
FinalizersKeepOrder == [][MovesForward /\ LeaseExclusive]_vars

=============================================================================
