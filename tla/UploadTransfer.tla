--------------------------- MODULE UploadTransfer ---------------------------
(***************************************************************************)
(* How an upload intent gets its bytes: admission under the quotas, the    *)
(* proxy transfer endpoint with its finite leases and numbered attempts,   *)
(* direct uploads confirmed by the mutation's preflight, and the expiry    *)
(* sweep.  UploadFinalization takes over from UPLOADED; here the claiming  *)
(* mutation is only a transaction that locks the row and commits.          *)
(*                                                                         *)
(* A time stamp is abstracted to whether it has passed.  Every conditional *)
(* update of the transfer compares the lease time stamp, the attempt       *)
(* number and the staging key; the attempt number stands for all three,    *)
(* because only the attempt that owns the lease renews it.                 *)
(***************************************************************************)
EXTENDS Naturals, FiniteSets

CONSTANTS
    Intent, User, Request,
    Owner,              \* Owner[i]: the user who begins i
    Size,               \* Size[i]: declared size
    Direct,             \* intents whose bytes go straight to the store
    MaxAttempts,        \* max_transfer_attempts_per_intent
    MaxPending,         \* max_pending_intents_global
    MaxPendingPerUser,  \* max_pending_intents_per_user
    MaxBytes,           \* max_pending_bytes_global
    MaxBytesPerUser,    \* max_pending_bytes_per_user
    MaxDeaths           \* bound on handlers and sweeps that die

ASSUME TransferAssumption ==
    /\ Intent # {}
    /\ Owner \in [Intent -> User]
    /\ Size \in [Intent -> Nat]
    /\ Direct \subseteq Intent
    /\ {MaxAttempts, MaxPending, MaxPendingPerUser, MaxBytes, MaxBytesPerUser,
        MaxDeaths} \subseteq Nat

VARIABLES
    state,      \* UploadIntent.state; "none" before it is created
    expired,    \* expires_at has passed
    lapsed,     \* transfer_lease_expires_at has passed
    count,      \* transfer_attempt_count
    staging,    \* staging_key: the base key (0) or that of an attempt
    cleaned,    \* cleanup_completed_at is set
    stages,     \* stages[i]: keys below which a staged object exists
    locked,     \* rows locked by a claiming mutation
    confirmed,  \* direct uploads that a preflight has inspected
    swept,      \* swept[i]: stage keys the running sweep has handled
    step, rint, attempt,   \* transfer requests: step, intent, attempt number
    faults

rowVars == <<state, expired, lapsed, count, staging, cleaned>>
requestVars == <<step, rint, attempt>>
mutationVars == <<locked, confirmed>>
transferVars == <<rowVars, stages, mutationVars, swept, requestVars, faults>>

Open == {"pending", "transferring", "uploaded"}
States == {"none", "finalizing", "decided", "expired"} \cup Open

\* What a request that is idle refers to.
AnyIntent == CHOOSE i \in Intent : TRUE

TransferTypeOK ==
    /\ state \in [Intent -> States]
    /\ expired \in [Intent -> BOOLEAN]
    /\ lapsed \in [Intent -> BOOLEAN]
    /\ count \in [Intent -> 0..MaxAttempts]
    /\ staging \in [Intent -> 0..MaxAttempts]
    /\ cleaned \in [Intent -> BOOLEAN]
    /\ stages \in [Intent -> SUBSET (0..MaxAttempts)]
    /\ locked \in SUBSET Intent
    /\ confirmed \in SUBSET Intent
    /\ swept \in [Intent -> 0..(MaxAttempts + 1)]
    /\ step \in [Request -> {"idle", "claim", "stream", "complete", "reset",
                           "release"}]
    /\ rint \in [Request -> Intent]
    /\ attempt \in [Request -> 0..MaxAttempts]
    /\ faults \in 0..MaxDeaths

TransferInit ==
    /\ state = [i \in Intent |-> "none"]
    /\ expired = [i \in Intent |-> FALSE]
    /\ lapsed = [i \in Intent |-> FALSE]
    /\ count = [i \in Intent |-> 0]
    /\ staging = [i \in Intent |-> 0]
    /\ cleaned = [i \in Intent |-> FALSE]
    /\ stages = [i \in Intent |-> {}]
    /\ locked = {}
    /\ confirmed = {}
    /\ swept = [i \in Intent |-> 0]
    /\ step = [r \in Request |-> "idle"]
    /\ rint = [r \in Request |-> AnyIntent]
    /\ attempt = [r \in Request |-> 0]
    /\ faults = 0

SetState(i, s) == state' = [state EXCEPT ![i] = s]

-----------------------------------------------------------------------------
(* Admission *)

\* Mutant: an uploaded intent that waits for its mutation is not counted.
ActiveNotUploaded ==
    {i \in Intent : \/ state[i] = "finalizing"
                    \/ state[i] \in Open \ {"uploaded"} /\ ~expired[i]}

\* The intents _enforce_pending_quotas counts.
Active ==
    {i \in Intent : \/ state[i] = "finalizing"
                    \/ state[i] \in Open /\ ~expired[i]}

\* The declared bytes of some intents; their number is the sum of the sizes.
BytesOf(i) == {i} \X (1..Size[i])
Bytes(S) == Cardinality(UNION {BytesOf(i) : i \in S})

WithinQuota(i) ==
    LET mine == {j \in Active : Owner[j] = Owner[i]} IN
    /\ Cardinality(Active) < MaxPending
    /\ Bytes(Active) + Size[i] <= MaxBytes
    /\ Cardinality(mine) < MaxPendingPerUser
    /\ Bytes(mine) + Size[i] <= MaxBytesPerUser

\* _begin_file_upload, serialized by the global quota lock.
BeginUpload(i) ==
    /\ state[i] = "none"
    /\ WithinQuota(i)
    /\ SetState(i, "pending")
    /\ UNCHANGED <<expired, lapsed, count, staging, cleaned, stages,
                   mutationVars, swept, requestVars, faults>>

-----------------------------------------------------------------------------
(* The proxy transfer *)

Goes(r, from, to) ==
    /\ step[r] = from
    /\ step' = [step EXCEPT ![r] = to]

Leave(r, from) ==
    /\ step[r] = from
    /\ step' = [step EXCEPT ![r] = "idle"]
    /\ rint' = [rint EXCEPT ![r] = AnyIntent]
    /\ attempt' = [attempt EXCEPT ![r] = 0]

\* Mutant: the limit counts one attempt too many.
MayAttemptOneMore(i) == count[i] <= MaxAttempts

MayAttempt(i) == count[i] < MaxAttempts

\* The checks of _transfer and the read of _claim_transfer_once, which also
\* fixes the time that the update compares with.
ReadIntent(r, i) ==
    /\ Goes(r, "idle", "claim")
    /\ i \notin Direct
    /\ state[i] # "none"
    /\ ~expired[i]
    /\ MayAttempt(i)
    /\ rint' = [rint EXCEPT ![r] = i]
    /\ attempt' = [attempt EXCEPT ![r] = count[i]]
    /\ UNCHANGED <<rowVars, stages, mutationVars, swept, faults>>

\* _mark_expired: a request that comes too late closes the intent.
MarkExpired(i) ==
    /\ expired[i] /\ state[i] \in {"pending", "transferring"}
    /\ SetState(i, "expired")
    /\ UNCHANGED <<expired, lapsed, count, staging, cleaned, stages,
                   mutationVars, swept, requestVars, faults>>

\* Mutant: a lease that is still running may be taken over.
LeasableRunning(i) == state[i] \in {"pending", "transferring"}

Leasable(i) ==
    \/ state[i] = "pending"
    \/ state[i] = "transferring" /\ lapsed[i]

\* Mutant: a reclaimed transfer writes to the key of the attempt before it.
NextAttemptReused(i) == IF count[i] = 0 THEN 1 ELSE count[i]

\* The attempt number, and with it the stage key, is new for every claim.
NextAttempt(i) == count[i] + 1

\* _claim_transfer_once: the conditional update.  Its time is that of the
\* read, so the intent may expire before it, and a lease that passes after the
\* read is not taken over.
MayClaim(r) == count[rint[r]] = attempt[r] /\ Leasable(rint[r])

TakeLease(r) ==
    LET i == rint[r] IN
    /\ MayClaim(r)
    /\ Goes(r, "claim", "stream")
    /\ SetState(i, "transferring")
    /\ lapsed' = [lapsed EXCEPT ![i] = expired[i]]
    /\ count' = [count EXCEPT ![i] = NextAttempt(i)]
    /\ attempt' = [attempt EXCEPT ![r] = NextAttempt(i)]
    /\ UNCHANGED <<expired, staging, cleaned, stages, mutationVars, swept,
                   rint, faults>>

MissLease(r) ==
    /\ MayClaim(r) => state[rint[r]] = "transferring"
    /\ Leave(r, "claim")
    /\ UNCHANGED <<rowVars, stages, mutationVars, swept, faults>>

ClaimTransfer(r) == TakeLease(r) \/ MissLease(r)

\* Mutant: the attempt number is not compared.
OwnsAnyAttempt(r) == state[rint[r]] = "transferring"

\* The row is still the one this attempt claimed.
OwnsAttempt(r) ==
    state[rint[r]] = "transferring" /\ count[rint[r]] = attempt[r]

\* One chunk of the body: _renew_transfer_lease, which also revives a lease
\* that has passed and that nobody has taken over.
RenewLease(r) ==
    LET i == rint[r] IN
    /\ step[r] = "stream" /\ ~expired[i] /\ OwnsAttempt(r) /\ lapsed[i]
    /\ lapsed' = [lapsed EXCEPT ![i] = FALSE]
    /\ UNCHANGED <<state, expired, count, staging, cleaned, stages,
                   mutationVars, swept, requestVars, faults>>

LoseLease(r) ==
    /\ expired[rint[r]] \/ ~OwnsAttempt(r)
    /\ Goes(r, "stream", "reset")
    /\ UNCHANGED <<rowVars, stages, mutationVars, swept, rint, attempt, faults>>

ReceiveChunk(r) == RenewLease(r) \/ LoseLease(r)

\* A request that does not match the declaration: refused before the adapter
\* is called, while it reads, or by the checks of what it has stored.
RefuseBody(r) ==
    /\ \/ Goes(r, "stream", "release")
       \/ Goes(r, "stream", "reset")
       \/ Goes(r, "complete", "reset")
    /\ UNCHANGED <<rowVars, stages, mutationVars, swept, rint, attempt, faults>>

\* save_stage creates the object of this attempt.
SaveStage(r) ==
    /\ Goes(r, "stream", "complete")
    /\ stages' = [stages EXCEPT ![rint[r]] = @ \cup {attempt[r]}]
    /\ UNCHANGED <<rowVars, mutationVars, swept, rint, attempt, faults>>

\* _complete_transfer
MayComplete(r) == ~expired[rint[r]] /\ OwnsAttempt(r)

AcceptUpload(r) ==
    LET i == rint[r] IN
    /\ MayComplete(r)
    /\ Leave(r, "complete")
    /\ SetState(i, "uploaded")
    /\ staging' = [staging EXCEPT ![i] = attempt[r]]
    /\ UNCHANGED <<expired, lapsed, count, cleaned, stages, mutationVars,
                   swept, faults>>

CompletesLate(r) ==
    /\ ~MayComplete(r)
    /\ Goes(r, "complete", "reset")
    /\ UNCHANGED <<rowVars, stages, mutationVars, swept, rint, attempt, faults>>

CompleteTransfer(r) == AcceptUpload(r) \/ CompletesLate(r)

\* _reset_failed_transfer deletes the object of this attempt only.
ResetTransfer(r) ==
    /\ Goes(r, "reset", "release")
    /\ stages' = [stages EXCEPT ![rint[r]] = @ \ {attempt[r]}]
    /\ UNCHANGED <<rowVars, mutationVars, swept, rint, attempt, faults>>

\* _release_unstarted_transfer
ReleaseTransfer(r) ==
    LET i == rint[r] IN
    /\ Leave(r, "release")
    /\ IF OwnsAttempt(r)
       THEN SetState(i, IF expired[i] THEN "expired" ELSE "pending")
       ELSE UNCHANGED state
    /\ UNCHANGED <<expired, lapsed, count, staging, cleaned, stages,
                   mutationVars, swept, faults>>

-----------------------------------------------------------------------------
(* Direct uploads and the mutation *)

\* The client sends the bytes to the store while its signed URL is valid.
PutDirect(i) ==
    /\ i \in Direct /\ state[i] # "none" /\ ~expired[i] /\ 0 \notin stages[i]
    /\ stages' = [stages EXCEPT ![i] = @ \cup {0}]
    /\ UNCHANGED <<rowVars, mutationVars, swept, requestVars, faults>>

\* _validate_preflight_version: what the store holds is what was declared.
Inspected(i) == 0 \in stages[i]

\* _preflight_upload_tokens inspects the object without a lock.
InspectDirect(i) ==
    /\ i \in Direct /\ state[i] = "pending" /\ ~expired[i]
    /\ Inspected(i) /\ i \notin confirmed
    /\ confirmed' = confirmed \cup {i}
    /\ UNCHANGED <<rowVars, stages, locked, swept, requestVars, faults>>

Confirmable(i) == i \in confirmed /\ state[i] = "pending" /\ ~expired[i]

\* _persist_direct_preflight revalidates under the row lock.
PersistDirect(i) ==
    /\ Confirmable(i)
    /\ SetState(i, "uploaded")
    /\ confirmed' = confirmed \ {i}
    /\ UNCHANGED <<expired, lapsed, count, staging, cleaned, stages, locked,
                   swept, requestVars, faults>>

DropPreflight(i) ==
    /\ i \in confirmed
    /\ confirmed' = confirmed \ {i}
    /\ UNCHANGED <<rowVars, stages, locked, swept, requestVars, faults>>

\* lock_upload_claims: the row stays locked until the mutation ends.
LockClaim(i) ==
    /\ state[i] = "uploaded" /\ ~expired[i] /\ i \notin locked
    /\ locked' = locked \cup {i}
    /\ UNCHANGED <<rowVars, stages, confirmed, swept, requestVars, faults>>

CommitClaim(i) ==
    /\ i \in locked
    /\ locked' = locked \ {i}
    /\ SetState(i, "finalizing")
    /\ UNCHANGED <<expired, lapsed, count, staging, cleaned, stages, confirmed,
                   swept, requestVars, faults>>

RollBackClaim(i) ==
    /\ i \in locked
    /\ locked' = locked \ {i}
    /\ UNCHANGED <<rowVars, stages, confirmed, swept, requestVars, faults>>

\* UploadFinalization decides the intent and deletes its staged objects.
Decide(i) ==
    /\ state[i] = "finalizing"
    /\ SetState(i, "decided")
    /\ stages' = [stages EXCEPT ![i] = @ \ (0..count[i])]
    /\ UNCHANGED <<expired, lapsed, count, staging, cleaned, mutationVars,
                   swept, requestVars, faults>>

-----------------------------------------------------------------------------
(* Expiry and the sweep *)

ClockPassesExpiry(i) ==
    /\ state[i] # "none" /\ ~expired[i]
    /\ expired' = [expired EXCEPT ![i] = TRUE]
    /\ lapsed' = [lapsed EXCEPT ![i] = TRUE]
    /\ UNCHANGED <<state, count, staging, cleaned, stages, mutationVars, swept,
                   requestVars, faults>>

ClockPassesLease(i) ==
    /\ state[i] = "transferring" /\ ~lapsed[i]
    /\ lapsed' = [lapsed EXCEPT ![i] = TRUE]
    /\ UNCHANGED <<state, expired, count, staging, cleaned, stages,
                   mutationVars, swept, requestVars, faults>>

\* Mutant: an uploaded intent that no mutation claims is not closed.
ExpirableUnclaimed(i) ==
    /\ expired[i]
    /\ state[i] \in {"pending", "transferring"}
    /\ state[i] = "transferring" => lapsed[i]

Expirable(i) ==
    /\ expired[i]
    /\ state[i] \in Open
    /\ state[i] = "transferring" => lapsed[i]

\* _expire_upload_intent_once, under the row lock.
SweepExpire(i) ==
    /\ Expirable(i) /\ i \notin locked
    /\ SetState(i, "expired")
    /\ UNCHANGED <<expired, lapsed, count, staging, cleaned, stages,
                   mutationVars, swept, requestVars, faults>>

\* Mutant: the key of the last attempt is left out.
StageKeysButLast(i) == 0..(count[i] - 1)

\* The base key and iter_proxy_attempt_stage_keys.
StageKeys(i) == 0..count[i]

\* Mutant: a key without an object is an error.
SweepKeyMissingFails(i) ==
    /\ state[i] = "expired" /\ ~cleaned[i] /\ swept[i] \in StageKeys(i)
    /\ swept[i] \in stages[i]
    /\ stages' = [stages EXCEPT ![i] = @ \ {swept[i]}]
    /\ swept' = [swept EXCEPT ![i] = @ + 1]
    /\ UNCHANGED <<rowVars, mutationVars, requestVars, faults>>

\* _delete_staging_objects, one key after the other.
SweepKey(i) ==
    /\ state[i] = "expired" /\ ~cleaned[i] /\ swept[i] \in StageKeys(i)
    /\ stages' = [stages EXCEPT ![i] = @ \ {swept[i]}]
    /\ swept' = [swept EXCEPT ![i] = @ + 1]
    /\ UNCHANGED <<rowVars, mutationVars, requestVars, faults>>

SweepDone(i) ==
    /\ state[i] = "expired" /\ ~cleaned[i] /\ swept[i] \notin StageKeys(i)
    /\ cleaned' = [cleaned EXCEPT ![i] = TRUE]
    /\ swept' = [swept EXCEPT ![i] = 0]
    /\ UNCHANGED <<state, expired, lapsed, count, staging, stages,
                   mutationVars, requestVars, faults>>

Fault == faults < MaxDeaths /\ faults' = faults + 1

\* The sweep fails or dies and starts again.
SweepDies(i) ==
    /\ swept[i] > 0 /\ Fault
    /\ swept' = [swept EXCEPT ![i] = 0]
    /\ UNCHANGED <<rowVars, stages, mutationVars, requestVars>>

RequestDies(r) ==
    /\ Fault
    /\ step[r] # "idle" /\ Leave(r, step[r])
    /\ UNCHANGED <<rowVars, stages, mutationVars, swept>>

-----------------------------------------------------------------------------

RequestStep(r) ==
    \/ ClaimTransfer(r) \/ ReceiveChunk(r) \/ RefuseBody(r) \/ SaveStage(r)
    \/ CompleteTransfer(r) \/ ResetTransfer(r) \/ ReleaseTransfer(r)

Sweep(i) == SweepExpire(i) \/ SweepKey(i) \/ SweepDone(i)

TransferNext ==
    \/ \E i \in Intent : BeginUpload(i) \/ MarkExpired(i)
    \/ \E r \in Request, i \in Intent : ReadIntent(r, i)
    \/ \E r \in Request : RequestStep(r) \/ RequestDies(r)
    \/ \E i \in Intent : PutDirect(i) \/ InspectDirect(i) \/ PersistDirect(i)
                         \/ DropPreflight(i)
    \/ \E i \in Intent : LockClaim(i) \/ CommitClaim(i) \/ RollBackClaim(i)
                         \/ Decide(i)
    \/ \E i \in Intent : ClockPassesExpiry(i) \/ ClockPassesLease(i)
    \/ \E i \in Intent : Sweep(i) \/ SweepDies(i)

TransferSpec == TransferInit /\ [][TransferNext]_transferVars

\* A request that runs comes to an end (the body is finite), a transaction
\* ends, and the cleanup command is scheduled.
TransferFairness ==
    /\ \A r \in Request :
         /\ WF_transferVars(\/ ClaimTransfer(r) \/ CompleteTransfer(r)
                            \/ ResetTransfer(r) \/ ReleaseTransfer(r))
         /\ WF_transferVars(SaveStage(r) \/ RefuseBody(r))
    /\ \A i \in Intent : /\ WF_transferVars(CommitClaim(i) \/ RollBackClaim(i))
                         /\ WF_transferVars(ClockPassesExpiry(i))
                         /\ WF_transferVars(Sweep(i))

-----------------------------------------------------------------------------
(* Properties *)

\* An intent that was accepted as uploaded has its bytes until it is decided
\* or expires: neither a slow handler that lost its lease nor one that fails
\* late deletes them.
UploadedBytesExist ==
    \A i \in Intent : state[i] \in {"uploaded", "finalizing"} =>
        staging[i] \in stages[i]

\* The recorded staging key is that of the last attempt, which is what the
\* cleanup needs to find the keys of all attempts.
StagingKeyCurrent ==
    \A i \in Intent : staging[i] \in {0, count[i]}

\* The intents that are open and have not expired respect every quota at all
\* times, whatever is admitted while others are uploaded, claimed or closed.
QuotasRespected ==
    LET open == {i \in Intent : state[i] \in Open /\ ~expired[i]}
        of(u) == {i \in open : Owner[i] = u} IN
    /\ Cardinality(open) <= MaxPending /\ Bytes(open) <= MaxBytes
    /\ \A u \in User : /\ Cardinality(of(u)) <= MaxPendingPerUser
                       /\ Bytes(of(u)) <= MaxBytesPerUser

\* A handler whose lease is running keeps the transfer: no other request
\* takes the intent over.
LeaseKeepsTransfer ==
    [][\A r \in Request :
         step[r] \in {"stream", "complete"} /\ OwnsAttempt(r) /\ ~lapsed[rint[r]]
           => count'[rint[r]] = count[rint[r]]]_transferVars

\* Once an expired intent is cleaned up, and unless a process has died, staged
\* objects remain only where a handler is still on its way to delete its own.
SweepLeavesNothing ==
    \A i \in Intent : cleaned[i] /\ faults = 0 =>
        \A n \in stages[i] : \E r \in Request :
            /\ rint[r] = i /\ attempt[r] = n
            /\ step[r] \in {"complete", "reset"}

\* Accepted bytes stay until the intent is decided, their key is recorded, and
\* a sweep leaves no staged object (uploads/views.py, uploads/finalization.py).
TransfersSound ==
    TransferTypeOK /\ UploadedBytesExist /\ StagingKeyCurrent /\ SweepLeavesNothing

\* No intent stays open after its expiry (_expire_upload_intent_once), every one
\* that is closed so is cleaned up, and nothing that it staged is left unless a
\* process has died (_claim_terminal_cleanup).  An intent that is past its expiry
\* or closed stays so, so what holds again and again is what is reached from it.
ExpiredIsTidied ==
    []<>(\A i \in Intent :
           /\ expired[i] => state[i] \notin Open
           /\ state[i] = "expired" => cleaned[i] /\ (faults = 0 => stages[i] = {}))

=============================================================================
