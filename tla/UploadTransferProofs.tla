------------------------ MODULE UploadTransferProofs ------------------------
(***************************************************************************)
(* Safety of the transfer of uploads for any intents, requests, sizes,     *)
(* quotas, number of attempts and faults: accepted bytes stay, their key   *)
(* is recorded, a sweep leaves nothing, the quotas hold, and a running     *)
(* lease keeps others out.                                                 *)
(***************************************************************************)
EXTENDS UploadTransfer, FiniteSetTheorems, TLAPS

\* Steps of a request that owns the number of an attempt.
Numbered == {"stream", "complete", "reset", "release"}

\* Requests are about proxy uploads that may be attempted; a number is one that was given out, and
\* to one request only.
AttemptInv ==
    /\ \A r \in Request :
         /\ step[r] # "idle" => rint[r] \notin Direct
         /\ step[r] = "claim" => attempt[r] < MaxAttempts
         /\ step[r] \in Numbered => attempt[r] \in 1..count[rint[r]]
    /\ \A r, s \in Request :
         r # s /\ step[r] \in Numbered /\ step[s] \in Numbered /\ rint[r] = rint[s]
           => attempt[r] # attempt[s]

\* What the state of an intent says about the rest of its row.
RowInv ==
    \A i \in Intent :
        /\ staging[i] \in {0, count[i]}
        /\ state[i] \in {"none", "pending", "transferring"} => staging[i] = 0
        /\ i \in Direct => count[i] = 0 /\ state[i] # "transferring"
        /\ state[i] = "expired" => expired[i]
        /\ cleaned[i] => state[i] = "expired"
        /\ swept[i] > 0 => state[i] = "expired"
        /\ swept[i] <= count[i] + 1
        /\ i \in locked => state[i] = "uploaded"
        /\ i \in confirmed => i \in Direct /\ state[i] # "none"

\* Where staged objects are: below the keys given out, below the key of a
\* request that has stored one, below the recorded key of an accepted upload,
\* which no request can delete any more, and below the base key of a direct
\* upload that was inspected.
StageInv ==
    /\ \A i \in Intent :
         /\ stages[i] \subseteq 0..count[i]
         /\ state[i] \in {"uploaded", "finalizing"} =>
              /\ staging[i] \in stages[i]
              /\ \A r \in Request : step[r] \in Numbered /\ rint[r] = i => attempt[r] # staging[i]
         /\ i \in confirmed /\ state[i] = "pending" => 0 \in stages[i]
    /\ \A r \in Request :
         step[r] = "complete" /\ state[rint[r]] \notin {"expired", "decided"}
           => attempt[r] \in stages[rint[r]]

\* Below a key that a sweep has handled there is only what a handler stores late.
SweepInv ==
    faults = 0 =>
      \A i \in Intent : state[i] = "expired" =>
        \A n \in stages[i] : cleaned[i] \/ n < swept[i] =>
          \E r \in Request : rint[r] = i /\ attempt[r] = n /\ step[r] \in {"complete", "reset"}

TransferInv == TransferTypeOK /\ AttemptInv /\ RowInv /\ StageInv /\ SweepInv

-----------------------------------------------------------------------------
(* The inductive invariant. *)

\* The bounds that steps compare with are numbers.
LEMMA Bounds == MaxAttempts \in Nat /\ MaxDeaths \in Nat
BY TransferAssumption

\* There is an intent that an idle request can refer to.
LEMMA AnyIntentExists == AnyIntent \in Intent
BY TransferAssumption DEF AnyIntent

LEMMA TransferInvInit == TransferInit => TransferInv
<1> SUFFICES ASSUME TransferInit PROVE TransferInv
  OBVIOUS
<1>1. TransferTypeOK
  BY TransferAssumption, AnyIntentExists DEF TransferInit, TransferTypeOK, States, Open
<1>2. AttemptInv /\ RowInv /\ StageInv /\ SweepInv
  BY DEF TransferInit, AttemptInv, RowInv, StageInv, SweepInv, Numbered
<1> QED BY <1>1, <1>2 DEF TransferInv

\* Admission and the clock move one intent on.
LEMMA RowStepKeeps ==
    ASSUME TransferInv, NEW i \in Intent,
           BeginUpload(i) \/ MarkExpired(i) \/ ClockPassesExpiry(i) \/ ClockPassesLease(i)
    PROVE  TransferInv'
<1> USE DEF TransferInv, TransferTypeOK, AttemptInv, RowInv, StageInv, SweepInv, SetState, Numbered,
            States, Open, requestVars, mutationVars, rowVars
<1>1. CASE BeginUpload(i)
  BY <1>1 DEF BeginUpload
<1>2. CASE MarkExpired(i)
  BY <1>2 DEF MarkExpired
<1>3. CASE ClockPassesExpiry(i)
  BY <1>3 DEF ClockPassesExpiry
<1>4. CASE ClockPassesLease(i)
  BY <1>4 DEF ClockPassesLease
<1> QED BY <1>1, <1>2, <1>3, <1>4

\* A request reads, claims, streams and stores.
LEMMA TransferStepKeeps ==
    ASSUME TransferInv, NEW r \in Request,
           \/ \E i \in Intent : ReadIntent(r, i)
           \/ ClaimTransfer(r) \/ ReceiveChunk(r) \/ RefuseBody(r) \/ SaveStage(r)
    PROVE  TransferInv'
<1> USE DEF TransferInv, TransferTypeOK, AttemptInv, RowInv, StageInv, SweepInv, SetState, Numbered,
            States, Open, requestVars, mutationVars, rowVars, Goes, Leave
<1>1. ASSUME NEW i \in Intent, ReadIntent(r, i) PROVE TransferInv'
  <2>1. TransferTypeOK'
    BY <1>1, Bounds DEF ReadIntent, MayAttempt
  <2>2. AttemptInv'
    BY <1>1, Bounds DEF ReadIntent, MayAttempt
  <2>3. RowInv'
    BY <1>1, Bounds DEF ReadIntent, MayAttempt
  <2>4. StageInv'
    BY <1>1, Bounds DEF ReadIntent, MayAttempt
  <2>5. SweepInv'
    BY <1>1, Bounds DEF ReadIntent, MayAttempt
  <2> QED BY <2>1, <2>2, <2>3, <2>4, <2>5
<1>2. CASE TakeLease(r)
  <2>1. TransferTypeOK'
    BY <1>2, Bounds DEF TakeLease, MayClaim, Leasable, NextAttempt
  <2>2. AttemptInv'
    BY <1>2, Bounds DEF TakeLease, MayClaim, Leasable, NextAttempt
  <2>3. RowInv'
    BY <1>2, Bounds DEF TakeLease, MayClaim, Leasable, NextAttempt
  <2>4. StageInv'
    BY <1>2, Bounds DEF TakeLease, MayClaim, Leasable, NextAttempt
  <2>5. SweepInv'
    BY <1>2, Bounds DEF TakeLease, MayClaim, Leasable, NextAttempt
  <2> QED BY <2>1, <2>2, <2>3, <2>4, <2>5
<1>3. CASE MissLease(r)
  <2>1. TransferTypeOK'
    BY <1>3, AnyIntentExists, Bounds DEF MissLease
  <2>2. AttemptInv'
    BY <1>3, AnyIntentExists, Bounds DEF MissLease
  <2>3. RowInv'
    BY <1>3, AnyIntentExists, Bounds DEF MissLease
  <2>4. StageInv'
    BY <1>3, AnyIntentExists, Bounds DEF MissLease
  <2>5. SweepInv'
    BY <1>3, AnyIntentExists, Bounds DEF MissLease
  <2> QED BY <2>1, <2>2, <2>3, <2>4, <2>5
<1>4. CASE RenewLease(r)
  <2>1. TransferTypeOK'
    BY <1>4, Bounds DEF RenewLease
  <2>2. AttemptInv'
    BY <1>4, Bounds DEF RenewLease
  <2>3. RowInv'
    BY <1>4, Bounds DEF RenewLease
  <2>4. StageInv'
    BY <1>4, Bounds DEF RenewLease
  <2>5. SweepInv'
    BY <1>4, Bounds DEF RenewLease
  <2> QED BY <2>1, <2>2, <2>3, <2>4, <2>5
<1>5. CASE LoseLease(r)
  <2>1. TransferTypeOK'
    BY <1>5, Bounds DEF LoseLease
  <2>2. AttemptInv'
    BY <1>5, Bounds DEF LoseLease
  <2>3. RowInv'
    BY <1>5, Bounds DEF LoseLease
  <2>4. StageInv'
    BY <1>5, Bounds DEF LoseLease
  <2>5. SweepInv'
    BY <1>5, Bounds DEF LoseLease
  <2> QED BY <2>1, <2>2, <2>3, <2>4, <2>5
<1>6. CASE RefuseBody(r)
  <2>1. TransferTypeOK'
    BY <1>6, Bounds DEF RefuseBody
  <2>2. AttemptInv'
    BY <1>6, Bounds DEF RefuseBody
  <2>3. RowInv'
    BY <1>6, Bounds DEF RefuseBody
  <2>4. StageInv'
    BY <1>6, Bounds DEF RefuseBody
  <2>5. SweepInv'
    BY <1>6, Bounds DEF RefuseBody
  <2> QED BY <2>1, <2>2, <2>3, <2>4, <2>5
<1>7. CASE SaveStage(r)
  BY <1>7 DEF SaveStage
<1> QED BY <1>1, <1>2, <1>3, <1>4, <1>5, <1>6, <1>7 DEF ClaimTransfer, ReceiveChunk

\* A request completes, gives up or dies.
LEMMA OutcomeStepKeeps ==
    ASSUME TransferInv, NEW r \in Request,
           CompleteTransfer(r) \/ ResetTransfer(r) \/ ReleaseTransfer(r) \/ RequestDies(r)
    PROVE  TransferInv'
<1> USE DEF TransferInv, TransferTypeOK, AttemptInv, RowInv, StageInv, SweepInv, SetState, Numbered,
            States, Open, requestVars, mutationVars, rowVars, Goes, Leave
<1>1. CASE AcceptUpload(r)
  <2>1. TransferTypeOK'
    BY <1>1, AnyIntentExists, Bounds DEF AcceptUpload, MayComplete, OwnsAttempt
  <2>2. AttemptInv'
    BY <1>1, AnyIntentExists, Bounds DEF AcceptUpload, MayComplete, OwnsAttempt
  <2>3. RowInv'
    BY <1>1, AnyIntentExists, Bounds DEF AcceptUpload, MayComplete, OwnsAttempt
  <2>4. StageInv'
    BY <1>1, AnyIntentExists, Bounds DEF AcceptUpload, MayComplete, OwnsAttempt
  <2>5. SweepInv'
    BY <1>1, AnyIntentExists, Bounds DEF AcceptUpload, MayComplete, OwnsAttempt
  <2> QED BY <2>1, <2>2, <2>3, <2>4, <2>5
<1>5. CASE CompletesLate(r)
  <2>1. TransferTypeOK'
    BY <1>5, Bounds DEF CompletesLate
  <2>2. AttemptInv'
    BY <1>5, Bounds DEF CompletesLate
  <2>3. RowInv'
    BY <1>5, Bounds DEF CompletesLate
  <2>4. StageInv'
    BY <1>5, Bounds DEF CompletesLate
  <2>5. SweepInv'
    BY <1>5, Bounds DEF CompletesLate
  <2> QED BY <2>1, <2>2, <2>3, <2>4, <2>5
<1>2. CASE ResetTransfer(r)
  <2>1. TransferTypeOK'
    BY <1>2 DEF ResetTransfer
  <2>2. AttemptInv'
    BY <1>2 DEF ResetTransfer
  <2>3. RowInv'
    BY <1>2 DEF ResetTransfer
  <2>4. StageInv'
    BY <1>2 DEF ResetTransfer
  <2>5. SweepInv'
    BY <1>2 DEF ResetTransfer
  <2> QED BY <2>1, <2>2, <2>3, <2>4, <2>5
<1>3. CASE ReleaseTransfer(r)
  <2>1. TransferTypeOK'
    BY <1>3, AnyIntentExists, Bounds DEF ReleaseTransfer, OwnsAttempt
  <2>2. AttemptInv'
    BY <1>3, AnyIntentExists, Bounds DEF ReleaseTransfer, OwnsAttempt
  <2>3. RowInv'
    BY <1>3, AnyIntentExists, Bounds DEF ReleaseTransfer, OwnsAttempt
  <2>4. StageInv'
    BY <1>3, AnyIntentExists, Bounds DEF ReleaseTransfer, OwnsAttempt
  <2>5. SweepInv'
    <3> SUFFICES ASSUME faults' = 0, NEW j \in Intent, state'[j] = "expired",
                        NEW n \in stages'[j], cleaned'[j] \/ n < swept'[j]
                 PROVE  \E q \in Request : rint'[q] = j /\ attempt'[q] = n
                                            /\ step'[q] \in {"complete", "reset"}
      BY DEF SweepInv
    <3>1. /\ step[r] = "release" /\ n \in stages[j] /\ faults = 0
          /\ cleaned[j] \/ n < swept[j]
      BY <1>3 DEF ReleaseTransfer
    <3>2. state[j] = "expired"
      BY <3>1
    <3>3. PICK q \in Request : rint[q] = j /\ attempt[q] = n /\ step[q] \in {"complete", "reset"}
      BY <3>1, <3>2
    <3> QED BY <1>3, <3>1, <3>3 DEF ReleaseTransfer
  <2> QED BY <2>1, <2>2, <2>3, <2>4, <2>5
<1>4. CASE RequestDies(r)
  BY <1>4, AnyIntentExists, Bounds DEF RequestDies, Fault
<1> QED BY <1>1, <1>2, <1>3, <1>4, <1>5 DEF CompleteTransfer

\* A direct upload is sent, inspected and accepted.
LEMMA DirectStepKeeps ==
    ASSUME TransferInv, NEW i \in Intent,
           PutDirect(i) \/ InspectDirect(i) \/ PersistDirect(i) \/ DropPreflight(i)
    PROVE  TransferInv'
<1> USE DEF TransferInv, TransferTypeOK, AttemptInv, RowInv, StageInv, SweepInv, SetState, Numbered,
            States, Open, requestVars, mutationVars, rowVars
<1>1. CASE PutDirect(i)
  BY <1>1, Bounds DEF PutDirect
<1>2. CASE InspectDirect(i)
  BY <1>2 DEF InspectDirect, Inspected
<1>3. CASE PersistDirect(i)
  BY <1>3 DEF PersistDirect, Confirmable
<1>4. CASE DropPreflight(i)
  BY <1>4 DEF DropPreflight
<1> QED BY <1>1, <1>2, <1>3, <1>4

\* A mutation claims the upload, and finalization decides it.
LEMMA MutationStepKeeps ==
    ASSUME TransferInv, NEW i \in Intent,
           LockClaim(i) \/ CommitClaim(i) \/ RollBackClaim(i) \/ Decide(i)
    PROVE  TransferInv'
<1> USE DEF TransferInv, TransferTypeOK, AttemptInv, RowInv, StageInv, SweepInv, SetState, Numbered,
            States, Open, requestVars, mutationVars, rowVars
<1>1. CASE LockClaim(i)
  BY <1>1 DEF LockClaim
<1>2. CASE CommitClaim(i)
  BY <1>2 DEF CommitClaim
<1>3. CASE RollBackClaim(i)
  BY <1>3 DEF RollBackClaim
<1>4. CASE Decide(i)
  BY <1>4 DEF Decide
<1> QED BY <1>1, <1>2, <1>3, <1>4

\* The sweep closes an intent and deletes its keys one by one.
LEMMA SweepStepKeeps ==
    ASSUME TransferInv, NEW i \in Intent,
           SweepExpire(i) \/ SweepKey(i) \/ SweepDone(i) \/ SweepDies(i)
    PROVE  TransferInv'
<1> USE DEF TransferInv, TransferTypeOK, AttemptInv, RowInv, StageInv, SweepInv, SetState, Numbered,
            States, Open, requestVars, mutationVars, rowVars
<1>1. CASE SweepExpire(i)
  <2>1. TransferTypeOK'
    BY <1>1 DEF SweepExpire, Expirable
  <2>2. AttemptInv'
    BY <1>1 DEF SweepExpire, Expirable
  <2>3. RowInv'
    BY <1>1 DEF SweepExpire, Expirable
  <2>4. StageInv'
    BY <1>1 DEF SweepExpire, Expirable
  <2>5. SweepInv'
    BY <1>1 DEF SweepExpire, Expirable
  <2> QED BY <2>1, <2>2, <2>3, <2>4, <2>5
<1>2. CASE SweepKey(i)
  <2>1. TransferTypeOK'
    BY <1>2, Bounds DEF SweepKey, StageKeys
  <2>2. AttemptInv'
    BY <1>2, Bounds DEF SweepKey, StageKeys
  <2>3. RowInv'
    BY <1>2, Bounds DEF SweepKey, StageKeys
  <2>4. StageInv'
    BY <1>2, Bounds DEF SweepKey, StageKeys
  <2>5. SweepInv'
    <3> SUFFICES ASSUME faults' = 0, NEW j \in Intent, state'[j] = "expired",
                        NEW n \in stages'[j], cleaned'[j] \/ n < swept'[j]
                 PROVE  \E q \in Request : rint'[q] = j /\ attempt'[q] = n
                                            /\ step'[q] \in {"complete", "reset"}
      BY DEF SweepInv
    <3>1. /\ state[j] = "expired" /\ faults = 0 /\ n \in stages[j] /\ n \in Nat
          /\ UNCHANGED <<rint, attempt, step>>
      BY <1>2, Bounds DEF SweepKey
    <3>2. CASE j = i
      <4>1. n # swept[i] /\ (cleaned[i] \/ n < swept[i] + 1) /\ swept[i] \in Nat
        BY <1>2, <3>2, Bounds DEF SweepKey
      <4>2. n < swept[i] \/ cleaned[i]
        BY <3>1, <4>1
      <4> QED BY <3>1, <3>2, <4>2
    <3>3. CASE j # i
      BY <1>2, <3>1, <3>3 DEF SweepKey
    <3> QED BY <3>2, <3>3
  <2> QED BY <2>1, <2>2, <2>3, <2>4, <2>5
<1>3. CASE SweepDone(i)
  <2>1. TransferTypeOK'
    BY <1>3, Bounds DEF SweepDone, StageKeys
  <2>2. AttemptInv'
    BY <1>3, Bounds DEF SweepDone, StageKeys
  <2>3. RowInv'
    BY <1>3, Bounds DEF SweepDone, StageKeys
  <2>4. StageInv'
    BY <1>3, Bounds DEF SweepDone, StageKeys
  <2>5. SweepInv'
    BY <1>3, Bounds DEF SweepDone, StageKeys
  <2> QED BY <2>1, <2>2, <2>3, <2>4, <2>5
<1>4. CASE SweepDies(i)
  <2>1. TransferTypeOK'
    BY <1>4, Bounds DEF SweepDies, Fault
  <2>2. AttemptInv'
    BY <1>4, Bounds DEF SweepDies, Fault
  <2>3. RowInv'
    BY <1>4, Bounds DEF SweepDies, Fault
  <2>4. StageInv'
    BY <1>4, Bounds DEF SweepDies, Fault
  <2>5. SweepInv'
    BY <1>4, Bounds DEF SweepDies, Fault
  <2> QED BY <2>1, <2>2, <2>3, <2>4, <2>5
<1> QED BY <1>1, <1>2, <1>3, <1>4

LEMMA TransferStep == TransferInv /\ [TransferNext]_transferVars => TransferInv'
<1> SUFFICES ASSUME TransferInv, [TransferNext]_transferVars PROVE TransferInv'
  OBVIOUS
<1>1. CASE UNCHANGED transferVars
  BY <1>1 DEF transferVars, rowVars, requestVars, mutationVars, TransferInv, TransferTypeOK, AttemptInv, RowInv,
              StageInv, SweepInv
<1>2. CASE TransferNext
  <2>1. ASSUME NEW i \in Intent,
               BeginUpload(i) \/ MarkExpired(i) \/ ClockPassesExpiry(i) \/ ClockPassesLease(i)
        PROVE  TransferInv'
    BY <2>1, RowStepKeeps
  <2>2. ASSUME NEW i \in Intent,
               PutDirect(i) \/ InspectDirect(i) \/ PersistDirect(i) \/ DropPreflight(i)
        PROVE  TransferInv'
    BY <2>2, DirectStepKeeps
  <2>3. ASSUME NEW i \in Intent,
               LockClaim(i) \/ CommitClaim(i) \/ RollBackClaim(i) \/ Decide(i)
        PROVE  TransferInv'
    BY <2>3, MutationStepKeeps
  <2>4. ASSUME NEW i \in Intent, Sweep(i) \/ SweepDies(i) PROVE TransferInv'
    BY <2>4, SweepStepKeeps DEF Sweep
  <2>5. ASSUME NEW r \in Request,
               \/ \E i \in Intent : ReadIntent(r, i)
               \/ RequestStep(r) \/ RequestDies(r)
        PROVE  TransferInv'
    BY <2>5, TransferStepKeeps, OutcomeStepKeeps DEF RequestStep
  <2> QED BY <1>2, <2>1, <2>2, <2>3, <2>4, <2>5 DEF TransferNext
<1> QED BY <1>1, <1>2

THEOREM TransferInvHolds == TransferSpec => []TransferInv
<1> QED BY TransferInvInit, TransferStep, PTL DEF TransferSpec

\* Accepted bytes stay until the intent is decided, their key is recorded and
\* a sweep leaves no staged object, for any requests, attempts and faults.
THEOREM TransfersSoundCorrect == TransferSpec => []TransfersSound
<1>1. TransferInv => TransfersSound
  BY DEF TransferInv, TransferTypeOK, RowInv, StageInv, SweepInv, TransfersSound, UploadedBytesExist,
         StagingKeyCurrent, SweepLeavesNothing
<1> QED BY <1>1, TransferInvHolds, PTL

\* A request that takes over an intent has found it claimable, and then
\* the lease of the request before it has passed.
LEMMA TakeoverNeedsLapse ==
    ASSUME TransferInv, TransferNext, NEW r \in Request, step[r] \in {"stream", "complete"}, OwnsAttempt(r),
           ~lapsed[rint[r]]
    PROVE  count'[rint[r]] = count[rint[r]]
<1>1. ASSUME NEW s \in Request, TakeLease(s) PROVE count'[rint[r]] = count[rint[r]]
  <2>1. rint[s] # rint[r]
    BY <1>1 DEF TakeLease, MayClaim, Leasable, OwnsAttempt
  <2> QED BY <1>1, <2>1 DEF TakeLease, TransferInv, TransferTypeOK
<1>2. (\E s \in Request : TakeLease(s)) \/ count' = count
  BY DEF TransferNext, BeginUpload, MarkExpired, ReadIntent, RequestStep, ClaimTransfer, MissLease,
         ReceiveChunk, RenewLease, LoseLease, RefuseBody, SaveStage, CompleteTransfer, AcceptUpload,
         CompletesLate, ResetTransfer, ReleaseTransfer, RequestDies, PutDirect, InspectDirect,
         PersistDirect, DropPreflight, LockClaim, CommitClaim, RollBackClaim, Decide,
         ClockPassesExpiry, ClockPassesLease, Sweep, SweepExpire, SweepKey, SweepDone, SweepDies,
         rowVars
<1> QED BY <1>1, <1>2

\* A handler whose lease is running keeps the transfer, whoever else asks.
THEOREM LeaseKeepsTransferCorrect == TransferSpec => LeaseKeepsTransfer
<1>1. TransferInv /\ [TransferNext]_transferVars =>
        [\A r \in Request :
           step[r] \in {"stream", "complete"} /\ OwnsAttempt(r) /\ ~lapsed[rint[r]]
             => count'[rint[r]] = count[rint[r]]]_transferVars
  BY TakeoverNeedsLapse
<1> QED BY <1>1, TransferInvHolds, PTL DEF TransferSpec, LeaseKeepsTransfer

-----------------------------------------------------------------------------
(* The quotas. *)

\* The bytes of some intents, as a set whose cardinality is their number.
Load(S) == UNION {BytesOf(j) : j \in S}

\* The bytes of one intent are as many as its declared size.
LEMMA BytesOfOne ==
    ASSUME NEW i \in Intent
    PROVE  IsFiniteSet(BytesOf(i)) /\ Cardinality(BytesOf(i)) = Size[i]
<1>1. Size[i] \in Nat
  BY TransferAssumption
<1>2. IsFiniteSet(1..Size[i]) /\ Cardinality(1..Size[i]) = Size[i]
  BY <1>1, FS_Interval
<1>3. IsFiniteSet({i}) /\ Cardinality({i}) = 1
  BY FS_Singleton
<1> DEFINE P == 1..Size[i]
<1>4. /\ IsFiniteSet({i} \X P)
      /\ Cardinality({i} \X P) = Cardinality({i}) * Cardinality(P)
  <2> HIDE DEF P
  <2>1. IsFiniteSet(P)
    BY <1>2 DEF P
  <2> QED BY <1>3, <2>1, FS_Product, Zenon
<1>5. Cardinality({i}) * Cardinality(P) = Size[i]
  BY <1>1, <1>2, <1>3
<1> QED BY <1>4, <1>5 DEF BytesOf

\* One intent more adds at most its size.
LEMMA BytesGrow ==
    ASSUME NEW S, NEW i \in Intent, IsFiniteSet(Load(S))
    PROVE  IsFiniteSet(Load(S \cup {i})) /\ Bytes(S \cup {i}) <= Bytes(S) + Size[i]
<1>1. Load(S \cup {i}) = Load(S) \cup BytesOf(i)
  BY DEF Load
<1>2. /\ IsFiniteSet(Load(S) \cup BytesOf(i))
      /\ Cardinality(Load(S) \cup BytesOf(i)) =
           Cardinality(Load(S)) + Size[i] - Cardinality(Load(S) \cap BytesOf(i))
  BY BytesOfOne, FS_Union
<1>3. Load(S) \cap BytesOf(i) \in SUBSET Load(S)
  OBVIOUS
<1>4. IsFiniteSet(Load(S) \cap BytesOf(i))
  BY <1>3, FS_Subset
<1>5. /\ Cardinality(Load(S) \cap BytesOf(i)) \in Nat /\ Cardinality(Load(S)) \in Nat
      /\ Size[i] \in Nat
  BY <1>4, FS_CardinalityType, TransferAssumption
<1>6. Bytes(S) = Cardinality(Load(S)) /\ Bytes(S \cup {i}) = Cardinality(Load(S) \cup BytesOf(i))
  BY <1>1 DEF Bytes, Load
<1>7. Bytes(S \cup {i}) <= Bytes(S) + Size[i]
  BY <1>2, <1>5, <1>6
<1> QED BY <1>1, <1>2, <1>7

\* Fewer intents have no more bytes and are no more themselves.
LEMMA PartIsSmaller ==
    ASSUME NEW T, NEW S \in SUBSET T, IsFiniteSet(T), IsFiniteSet(Load(T))
    PROVE  /\ IsFiniteSet(S) /\ IsFiniteSet(Load(S))
           /\ {Cardinality(S), Cardinality(T), Bytes(S), Bytes(T)} \subseteq Nat
           /\ Cardinality(S) <= Cardinality(T) /\ Bytes(S) <= Bytes(T)
<1>1. Load(S) \in SUBSET Load(T)
  BY DEF Load
<1>2. /\ IsFiniteSet(S) /\ Cardinality(S) <= Cardinality(T)
      /\ IsFiniteSet(Load(S)) /\ Cardinality(Load(S)) <= Cardinality(Load(T))
  BY <1>1, FS_Subset
<1>3. {Cardinality(S), Cardinality(T), Cardinality(Load(S)), Cardinality(Load(T))} \subseteq Nat
  BY <1>2, FS_CardinalityType
<1> QED BY <1>2, <1>3 DEF Bytes, Load

\* Intents that were begun are finitely many, and those that are open and
\* have not expired respect the quotas.
Begun == {i \in Intent : state[i] # "none"}
Unexpired == {i \in Intent : state[i] \in Open /\ ~expired[i]}
Fits(S, n, b) == Cardinality(S) <= n /\ Bytes(S) <= b
Mine(S, u) == {i \in S : Owner[i] = u}

QuotaInv ==
    /\ IsFiniteSet(Begun) /\ IsFiniteSet(Load(Begun))
    /\ Fits(Unexpired, MaxPending, MaxBytes)
    /\ \A u \in User : Fits(Mine(Unexpired, u), MaxPendingPerUser, MaxBytesPerUser)

\* A quota that counted more intents than are open leaves room for one more.
LEMMA RoomForOneMore ==
    ASSUME NEW T, NEW S \in SUBSET T, NEW i \in Intent, NEW n \in Nat, NEW b \in Nat,
           IsFiniteSet(T), IsFiniteSet(Load(T)),
           Cardinality(T) < n, Bytes(T) + Size[i] <= b
    PROVE  Fits(S \cup {i}, n, b)
<1>1. /\ IsFiniteSet(S) /\ IsFiniteSet(Load(S))
      /\ {Cardinality(S), Cardinality(T), Bytes(S), Bytes(T)} \subseteq Nat
      /\ Cardinality(S) <= Cardinality(T) /\ Bytes(S) <= Bytes(T)
  BY PartIsSmaller
<1>2. Cardinality(S \cup {i}) <= Cardinality(S) + 1
  <2>1. Cardinality(S \cup {i}) = IF i \in S THEN Cardinality(S) ELSE Cardinality(S) + 1
    BY <1>1, FS_AddElement, Zenon
  <2> QED BY <1>1, <2>1
<1>3. IsFiniteSet(S \cup {i}) /\ Cardinality(S \cup {i}) \in Nat
  BY <1>1, FS_AddElement, FS_CardinalityType
<1>4. IsFiniteSet(Load(S \cup {i})) /\ Bytes(S \cup {i}) <= Bytes(S) + Size[i]
  BY <1>1, BytesGrow
<1>5. Bytes(S \cup {i}) \in Nat /\ Size[i] \in Nat
  BY <1>4, FS_CardinalityType, TransferAssumption DEF Bytes, Load
<1>6. Cardinality(S \cup {i}) <= n
  BY <1>1, <1>2, <1>3
<1>7. Bytes(S \cup {i}) <= b
  BY <1>1, <1>4, <1>5
<1> QED BY <1>6, <1>7 DEF Fits

\* Admission is the only step after which there are more open intents.
LEMMA OnlyAdmissionOpens ==
    ASSUME TransferInv, TransferNext, ~ \E i \in Intent : BeginUpload(i)
    PROVE  Begun' = Begun /\ Unexpired' \subseteq Unexpired
<1> USE DEF TransferInv, TransferTypeOK, RowInv, SetState, Begun, Unexpired, Open, States, rowVars, Goes,
            Leave, requestVars, mutationVars
<1>1. ASSUME NEW i \in Intent, MarkExpired(i) \/ ClockPassesExpiry(i) \/ ClockPassesLease(i)
      PROVE  Begun' = Begun /\ Unexpired' \subseteq Unexpired
  BY <1>1 DEF MarkExpired, ClockPassesExpiry, ClockPassesLease
<1>2. ASSUME NEW i \in Intent,
             PutDirect(i) \/ InspectDirect(i) \/ PersistDirect(i) \/ DropPreflight(i)
      PROVE  Begun' = Begun /\ Unexpired' \subseteq Unexpired
  BY <1>2 DEF PutDirect, InspectDirect, PersistDirect, Confirmable, DropPreflight
<1>3. ASSUME NEW i \in Intent, LockClaim(i) \/ CommitClaim(i) \/ RollBackClaim(i) \/ Decide(i)
      PROVE  Begun' = Begun /\ Unexpired' \subseteq Unexpired
  BY <1>3 DEF LockClaim, CommitClaim, RollBackClaim, Decide
<1>4. ASSUME NEW i \in Intent, Sweep(i) \/ SweepDies(i)
      PROVE  Begun' = Begun /\ Unexpired' \subseteq Unexpired
  BY <1>4 DEF Sweep, SweepExpire, Expirable, SweepKey, SweepDone, SweepDies
<1>5. ASSUME NEW r \in Request, TakeLease(r) \/ AcceptUpload(r) \/ ReleaseTransfer(r)
      PROVE  Begun' = Begun /\ Unexpired' \subseteq Unexpired
  BY <1>5 DEF TakeLease, MayClaim, Leasable, AcceptUpload, MayComplete, OwnsAttempt, ReleaseTransfer
<1>6. ASSUME NEW r \in Request,
             \/ \E i \in Intent : ReadIntent(r, i)
             \/ MissLease(r) \/ ReceiveChunk(r) \/ RefuseBody(r) \/ SaveStage(r)
             \/ CompletesLate(r) \/ ResetTransfer(r) \/ RequestDies(r)
      PROVE  Begun' = Begun /\ Unexpired' \subseteq Unexpired
  <2>1. UNCHANGED <<state, expired>>
    BY <1>6 DEF ReadIntent, MissLease, ReceiveChunk, RenewLease, LoseLease, RefuseBody, SaveStage,
                CompletesLate, ResetTransfer, RequestDies
  <2> QED BY <2>1
<1> QED BY <1>1, <1>2, <1>3, <1>4, <1>5, <1>6
        DEF TransferNext, RequestStep, ClaimTransfer, CompleteTransfer

LEMMA QuotaStep == TransferInv /\ QuotaInv /\ [TransferNext]_transferVars => QuotaInv'
<1> SUFFICES ASSUME TransferInv, QuotaInv, [TransferNext]_transferVars PROVE QuotaInv'
  OBVIOUS
<1> USE DEF QuotaInv
<1>1. CASE UNCHANGED transferVars
  BY <1>1 DEF transferVars, rowVars, Begun, Unexpired, Load, Fits, Mine, Bytes
<1>2. CASE TransferNext /\ ~ \E i \in Intent : BeginUpload(i)
  <2>1. Begun' = Begun /\ Unexpired' \in SUBSET Unexpired
    BY <1>2, OnlyAdmissionOpens
  <2>2. IsFiniteSet(Begun') /\ IsFiniteSet(Load(Begun'))
    BY <2>1
  <2>3. IsFiniteSet(Unexpired) /\ IsFiniteSet(Load(Unexpired))
    BY PartIsSmaller, Unexpired \in SUBSET Begun DEF Unexpired, Begun, Open
  <2>4. Fits(Unexpired', MaxPending, MaxBytes)
    <3>1. /\ {Cardinality(Unexpired'), Cardinality(Unexpired), Bytes(Unexpired'),
               Bytes(Unexpired)} \subseteq Nat
          /\ Cardinality(Unexpired') <= Cardinality(Unexpired)
          /\ Bytes(Unexpired') <= Bytes(Unexpired)
      BY <2>1, <2>3, PartIsSmaller
    <3> QED BY <3>1, TransferAssumption DEF Fits
  <2>5. ASSUME NEW u \in User
        PROVE  Fits(Mine(Unexpired', u), MaxPendingPerUser, MaxBytesPerUser)
    <3>1. IsFiniteSet(Mine(Unexpired, u)) /\ IsFiniteSet(Load(Mine(Unexpired, u)))
      BY <2>3, PartIsSmaller, Mine(Unexpired, u) \in SUBSET Unexpired DEF Mine
    <3>2. Mine(Unexpired', u) \in SUBSET Mine(Unexpired, u)
      BY <2>1 DEF Mine
    <3>3. /\ {Cardinality(Mine(Unexpired', u)), Cardinality(Mine(Unexpired, u)),
               Bytes(Mine(Unexpired', u)), Bytes(Mine(Unexpired, u))} \subseteq Nat
          /\ Cardinality(Mine(Unexpired', u)) <= Cardinality(Mine(Unexpired, u))
          /\ Bytes(Mine(Unexpired', u)) <= Bytes(Mine(Unexpired, u))
      BY <3>1, <3>2, PartIsSmaller
    <3> QED BY <3>3, TransferAssumption DEF Fits
  <2> QED BY <2>2, <2>4, <2>5 DEF Fits, Mine, Bytes
<1>3. ASSUME NEW i \in Intent, BeginUpload(i) PROVE QuotaInv'
  <2>1. Begun' = Begun \cup {i} /\ Unexpired' \in SUBSET (Unexpired \cup {i})
    BY <1>3 DEF BeginUpload, SetState, Begun, Unexpired, Open, TransferInv, TransferTypeOK
  <2>2. IsFiniteSet(Begun') /\ IsFiniteSet(Load(Begun'))
    BY <2>1, FS_AddElement, BytesGrow
  <2>3. Unexpired \in SUBSET Active /\ Active \in SUBSET Begun
    BY DEF Unexpired, Active, Begun, Open
  <2>4. IsFiniteSet(Active) /\ IsFiniteSet(Load(Active))
    BY <2>3, PartIsSmaller
  <2>5. Unexpired' = Unexpired \/ Unexpired' = Unexpired \cup {i}
    BY <2>1, <1>3 DEF BeginUpload, SetState, Unexpired, Open, TransferInv, TransferTypeOK
  <2>6. Fits(Unexpired', MaxPending, MaxBytes)
    <3>1. Cardinality(Active) < MaxPending /\ Bytes(Active) + Size[i] <= MaxBytes
      BY <1>3 DEF BeginUpload, WithinQuota
    <3>2. MaxPending \in Nat /\ MaxBytes \in Nat
      BY TransferAssumption
    <3>3. Fits(Unexpired \cup {i}, MaxPending, MaxBytes)
      BY <2>3, <2>4, <3>1, <3>2, RoomForOneMore
    <3> QED BY <2>5, <3>3
  <2>7. ASSUME NEW u \in User
        PROVE  Fits(Mine(Unexpired', u), MaxPendingPerUser, MaxBytesPerUser)
    <3>1. CASE Owner[i] = u
      <4>1. Mine(Active, u) \in SUBSET Active /\ Mine(Unexpired, u) \in SUBSET Mine(Active, u)
        BY <2>3 DEF Mine
      <4>2. IsFiniteSet(Mine(Active, u)) /\ IsFiniteSet(Load(Mine(Active, u)))
        BY <2>4, <4>1, PartIsSmaller
      <4>3. /\ Cardinality(Mine(Active, u)) < MaxPendingPerUser
            /\ Bytes(Mine(Active, u)) + Size[i] <= MaxBytesPerUser
        BY <1>3, <3>1 DEF BeginUpload, WithinQuota, Mine
      <4>4. Fits(Mine(Unexpired, u) \cup {i}, MaxPendingPerUser, MaxBytesPerUser)
        BY <4>1, <4>2, <4>3, RoomForOneMore, TransferAssumption
      <4>5. \/ Mine(Unexpired', u) = Mine(Unexpired, u)
            \/ Mine(Unexpired', u) = Mine(Unexpired, u) \cup {i}
        BY <2>5, <3>1 DEF Mine
      <4> QED BY <4>4, <4>5
    <3>2. CASE Owner[i] # u
      <4>1. Mine(Unexpired', u) = Mine(Unexpired, u)
        BY <2>5, <3>2 DEF Mine
      <4> QED BY <4>1
    <3> QED BY <3>1, <3>2
  <2> QED BY <2>2, <2>6, <2>7 DEF Fits, Mine, Bytes
<1> QED BY <1>1, <1>2, <1>3

\* The open intents respect the quotas at all times, however many are begun
\* at once, expire, are claimed or are closed in between.
THEOREM QuotasRespectedCorrect == TransferSpec => []QuotasRespected
<1>1. TransferInit => QuotaInv
  <2> SUFFICES ASSUME TransferInit PROVE QuotaInv
    OBVIOUS
  <2>1. Begun = {} /\ Unexpired = {} /\ \A u : Mine(Unexpired, u) = {}
    BY DEF TransferInit, Begun, Unexpired, Mine, Open
  <2>2. Load({}) = {} /\ Bytes({}) = 0
    BY FS_EmptySet DEF Load, Bytes
  <2> QED BY <2>1, <2>2, FS_EmptySet, TransferAssumption DEF QuotaInv, Fits
<1>2. QuotaInv => QuotasRespected
  BY DEF QuotaInv, QuotasRespected, Unexpired, Fits, Mine
<1> QED BY <1>1, <1>2, QuotaStep, TransferInvHolds, PTL DEF TransferSpec
=============================================================================
