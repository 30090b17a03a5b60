----------------------- MODULE UploadFinalizationProofs -----------------------
(***************************************************************************)
(* Safety of the finalization saga for any intents, rows, clients, workers *)
(* and bounds: an upload is bound once, nobody undoes what is decided, the *)
(* bytes behind a stored key stay, and a completed cleanup leaves nothing. *)
(***************************************************************************)
EXTENDS UploadFinalization, FiniteSetTheorems, TLAPS

\* The values a variable starts from.
LEMMA AnyIntent == (CHOOSE i \in Intent : TRUE) \in Intent
BY ValuesAssumption

LEMMA TypeInit == Init => TypeOK
<1> SUFFICES ASSUME Init PROVE TypeOK
  OBVIOUS
<1>1. /\ \A k \in Key : obj[k] \in {"none", "saved", "complete"} /\ inode[k] \in Nat
      /\ \A r \in Row : field[r] \in Key \cup {NoKey}
  BY DEF Init, Key
<1> QED
  BY <1>1, AnyIntent, ValuesAssumption, ScenarioAssumption
  DEF Init, TypeOK, States, Terminal, Labels, Finalizing, Tidying

LEMMA ClientTypes ==
    ASSUME TypeOK, NEW c \in Client,
           \/ \E i \in Intent : PrepareClaim(c, i)
           \/ \E r \in Row : CommitClaim(c, r)
           \/ AbandonClaim(c)
    PROVE  TypeOK'
<1> USE DEF rowVars, oldVars, leaseVars, storeVars, clientVars, workerVars, writeVars
<1>1. ASSUME NEW i \in Intent, PrepareClaim(c, i) PROVE TypeOK'
  <2> DEFINE k == IF Bound[i] = NoRow THEN NoKey ELSE field[Bound[i]]
  <2>1. k \in Key \cup {NoKey}
    BY ValuesAssumption DEF TypeOK
  <2>2. ReplacedVersion(k) \in Nat
    BY <2>1 DEF ReplacedVersion, TypeOK
  <2>3. cold' = [cold EXCEPT ![c] = k] /\ cver' = [cver EXCEPT ![c] = ReplacedVersion(k)]
    BY <1>1 DEF PrepareClaim
  <2> HIDE DEF k
  <2> QED BY <1>1, <2>1, <2>2, <2>3 DEF PrepareClaim, TypeOK
<1>2. ASSUME NEW r \in Row, CommitClaim(c, r) PROVE TypeOK'
  <2>1. cint[c] \in Intent /\ cint[c] \in Key
    BY DEF TypeOK, Key
  <2> QED BY <1>2, <2>1, AnyIntent DEF CommitClaim, Forget, TypeOK, States
<1>3. CASE AbandonClaim(c)
  BY <1>3, AnyIntent DEF AbandonClaim, Forget, TypeOK
<1> QED BY <1>1, <1>2, <1>3

LEMMA RowTypes ==
    ASSUME TypeOK,
           \/ \E i \in Intent : RejectContent(i) \/ ExpireUploaded(i) \/ DropIntent(i)
           \/ \E r \in Row : ReadForUpdate(r) \/ ClearField(r)
           \/ SaveWholeRow
    PROVE  TypeOK'
<1> USE DEF rowVars, oldVars, leaseVars, storeVars, clientVars, workerVars, writeVars
<1>1. ASSUME NEW i \in Intent, RejectContent(i) \/ ExpireUploaded(i) \/ DropIntent(i) PROVE TypeOK'
  BY <1>1 DEF RejectContent, ExpireUploaded, CloseUploaded, DropIntent, TypeOK, States, Terminal
<1>2. ASSUME NEW r \in Row, ReadForUpdate(r) \/ ClearField(r) PROVE TypeOK'
  BY <1>2, ScenarioAssumption DEF ReadForUpdate, ClearField, TypeOK
<1>3. CASE SaveWholeRow
  BY <1>3 DEF SaveWholeRow, TypeOK
<1> QED BY <1>1, <1>2, <1>3

LEMMA FinalizerTypes ==
    ASSUME TypeOK, NEW w \in Worker,
           \/ BeginFinalization(w) \/ RenewLease(w, "renew", "spool")
           \/ Spool(w) \/ Save(w) \/ Mark(w) \/ InspectMaterialized(w)
           \/ RenewLease(w, "renew2", "complete") \/ CompleteFinalization(w) \/ RecordFailure(w)
           \/ \E i \in Intent : StartFinalization(w, i)
    PROVE  TypeOK'
<1> USE DEF rowVars, oldVars, leaseVars, storeVars, clientVars, workerVars, writeVars, Labels, Finalizing,
            WorkerGoes
<1>1. ASSUME NEW from, NEW to \in Labels, Move(w, from, to) PROVE TypeOK'
  BY <1>1 DEF Move, TypeOK
<1>2. ASSUME NEW from, Supersede(w, from) PROVE TypeOK'
  BY <1>2 DEF Supersede, ClearLease, TypeOK, States, Terminal
<1>3. job[w] \in Intent /\ job[w] \in Key
  BY DEF TypeOK, Key
<1>4. CASE BeginFinalization(w) \/ RenewLease(w, "renew", "spool") \/ InspectMaterialized(w)
           \/ RenewLease(w, "renew2", "complete")
  BY <1>1, <1>2, <1>4 DEF BeginFinalization, RenewLease, InspectMaterialized
<1>5. CASE Spool(w)
  BY <1>1, <1>3, <1>5 DEF Spool, SetObject, TypeOK
<1>6. CASE Save(w)
  BY <1>3, <1>6 DEF Save, SetObject, TypeOK
<1>7. CASE Mark(w)
  BY <1>3, <1>7 DEF Mark, SetObject, TypeOK
<1>8. CASE CompleteFinalization(w)
  <2>1. ASSUME WorkerGoes(w, "complete", "tidy"), ClearLease(job[w]),
               state' = [state EXCEPT ![job[w]] = "consumed"],
               UNCHANGED <<target, old, oldVer, oldVars, cleaned, field, storeVars, clientVars, job,
                           todo, writeVars, faults>>
        PROVE  TypeOK'
    BY <1>3, <2>1 DEF ClearLease, TypeOK, States, Terminal
  <2>2. "tidy" \in Labels /\ "idle" \in Labels
    OBVIOUS
  <2> QED BY <1>1, <1>2, <1>8, <2>1, <2>2, Zenon DEF CompleteFinalization
<1>9. CASE RecordFailure(w)
  BY <1>3, <1>9 DEF RecordFailure, TypeOK
<1>10. ASSUME NEW i \in Intent, StartFinalization(w, i) PROVE TypeOK'
  BY <1>10 DEF StartFinalization, TypeOK
<1> QED BY <1>4, <1>5, <1>6, <1>7, <1>8, <1>9, <1>10

LEMMA TidierTypes ==
    ASSUME TypeOK, NEW w \in Worker,
           \/ \E i \in Intent : ClaimTerminal(w, i)
           \/ SkipTidy(w) \/ DeleteStage(w) \/ DeleteFinal(w)
           \/ CheckTarget(w) \/ PlanOldCleanup(w) \/ ClaimOld(w)
           \/ DeleteClaimed(w) \/ MarkOldCleanup(w) \/ FinishTidy(w) \/ FailTidy(w)
    PROVE  TypeOK'
<1> USE DEF rowVars, oldVars, leaseVars, storeVars, clientVars, workerVars, writeVars, Labels, Tidying,
            WorkerGoes
<1>1. ASSUME NEW from, NEW to \in Labels, Move(w, from, to) PROVE TypeOK'
  BY <1>1 DEF Move, TypeOK
<1>2. ASSUME NEW from, ResolveOld(w, from) PROVE TypeOK'
  BY <1>2 DEF ResolveOld, TypeOK
<1>3. job[w] \in Intent /\ job[w] \in Key
  BY DEF TypeOK, Key
<1>4. ASSUME NEW i \in Intent, ClaimTerminal(w, i) PROVE TypeOK'
  <2>1. OldWork(i) \in {"nothing", "resume", "plan"}
    BY DEF OldWork
  <2> QED BY <1>4, <2>1 DEF ClaimTerminal, TypeOK
<1>5. CASE SkipTidy(w)
  BY <1>1, <1>5 DEF SkipTidy
<1>6. CASE DeleteStage(w)
  BY <1>3, <1>6 DEF DeleteStage, Unstage, TypeOK
<1>7. CASE DeleteFinal(w)
  BY <1>1, <1>3, <1>7 DEF DeleteFinal, SetObject, TypeOK
<1>8. CASE CheckTarget(w)
  BY <1>1, <1>2, <1>8 DEF CheckTarget
<1>9. CASE PlanOldCleanup(w)
  <2>1. ASSUME WorkerGoes(w, "plan", "claimOld"), plan' = [plan EXCEPT ![job[w]] = TRUE],
               UNCHANGED <<rowVars, oldDone, cleaned, leaseVars, field, storeVars, clientVars, job,
                           todo, writeVars, faults>>
        PROVE  TypeOK'
    BY <1>3, <2>1 DEF TypeOK
  <2>2. "cleanFail" \in Labels
    OBVIOUS
  <2> QED BY <1>1, <1>2, <1>9, <2>1, <2>2, Zenon DEF PlanOldCleanup
<1>10. CASE ClaimOld(w)
  BY <1>1, <1>3, <1>10 DEF ClaimOld, ReplacedObjectThere, SetObject, TypeOK
<1>11. CASE DeleteClaimed(w)
  BY <1>3, <1>11 DEF DeleteClaimed, TypeOK
<1>12. CASE MarkOldCleanup(w)
  <2> DEFINE done == oldDone[job[w]] \/ state[job[w]] = "consumed"
  <2>1. done \in BOOLEAN
    BY <1>3 DEF TypeOK
  <2>2. oldDone' = [oldDone EXCEPT ![job[w]] = done]
    BY <1>12, Zenon DEF MarkOldCleanup
  <2> HIDE DEF done
  <2> QED BY <1>3, <1>12, <2>1, <2>2 DEF MarkOldCleanup, TypeOK
<1>13. ASSUME NEW from, NEW end \in BOOLEAN, EndTidy(w, from, end) PROVE TypeOK'
  <2>1. PICK mine \in BOOLEAN, done \in BOOLEAN :
          /\ IF mine THEN ClearLease(job[w]) ELSE UNCHANGED leaseVars
          /\ cleaned' = [cleaned EXCEPT ![job[w]] = done]
    <3> DEFINE m == OwnsToken(w) /\ ~cleaned[job[w]]
    <3> DEFINE d == cleaned[job[w]] \/ (m /\ end)
    <3>1. m \in BOOLEAN /\ d \in BOOLEAN
      BY <1>3, <1>13 DEF TypeOK
    <3>2. /\ IF m THEN ClearLease(job[w]) ELSE UNCHANGED leaseVars
          /\ cleaned' = [cleaned EXCEPT ![job[w]] = d]
      BY <1>13, Zenon DEF EndTidy
    <3> QED BY <3>1, <3>2
  <2>2. UNCHANGED <<rowVars, oldVars, field, storeVars, clientVars, job, todo, writeVars, faults>>
        /\ pc' = [pc EXCEPT ![w] = "idle"]
    BY <1>13 DEF EndTidy
  <2>3. token' \in [Intent -> Worker \cup {NoWorker}] /\ live' \in [Intent -> BOOLEAN]
        /\ cleaned' \in [Intent -> BOOLEAN]
    BY <1>3, <2>1 DEF ClearLease, TypeOK
  <2> QED BY <2>2, <2>3 DEF TypeOK
<1> QED
  BY <1>4, <1>5, <1>6, <1>7, <1>8, <1>9, <1>10, <1>11, <1>12, <1>13 DEF FinishTidy, FailTidy

LEMMA TypeStep == TypeOK /\ [Next]_vars => TypeOK'
<1> SUFFICES ASSUME TypeOK, [Next]_vars PROVE TypeOK'
  OBVIOUS
<1> USE DEF rowVars, oldVars, leaseVars, storeVars, clientVars, workerVars, writeVars
<1>0. ASSUME Fault PROVE faults' \in 0 .. MaxFaults
  BY <1>0, ScenarioAssumption DEF Fault, TypeOK
<1>1. ASSUME NEW i \in Intent, LeaseRunsOut(i) \/ LeaseOverrun(i) PROVE TypeOK'
  <2>1. faults' \in 0 .. MaxFaults
    BY <1>0, <1>1 DEF LeaseRunsOut, LeaseOverrun, TypeOK
  <2> QED BY <1>1, <2>1 DEF LeaseRunsOut, LeaseOverrun, TypeOK
<1>2. ASSUME NEW w \in Worker, StorageFails(w) \/ WorkerDies(w) PROVE TypeOK'
  BY <1>0, <1>2 DEF StorageFails, WorkerDies, TypeOK, Labels, Finalizing, Tidying
<1>3. ASSUME NEW w \in Worker, WorkerStep(w) PROVE TypeOK'
  <2>1. job[w] \in Intent
    BY DEF TypeOK
  <2> QED BY <1>3, <2>1, FinalizerTypes, TidierTypes DEF WorkerStep
<1>4. CASE UNCHANGED vars
  BY <1>4 DEF vars, TypeOK
<1> QED
  BY <1>1, <1>2, <1>3, <1>4, ClientTypes, RowTypes, FinalizerTypes, TidierTypes DEF Next, PickUp

\* Every variable of the saga keeps its type.
THEOREM TypeCorrect == Spec => []TypeOK
BY TypeInit, TypeStep, PTL DEF Spec

-----------------------------------------------------------------------------
(* What a worker may do. *)

\* A worker that holds the lease decides its intent.
Decides(w, decision) ==
    /\ state[job[w]] = "finalizing" /\ HoldsLease(w)
    /\ state' = [state EXCEPT ![job[w]] = decision]
    /\ UNCHANGED <<obj, stage, held, oldVars, cleaned, job, todo>>

Works(w) == WorkerStep(w) \/ \E i \in Intent : PickUp(w, i)

LEMMA WorkerDecides ==
    ASSUME TypeOK, NEW w \in Worker, Works(w)
    PROVE  /\ UNCHANGED <<target, old, oldVer, field, clientVars, writeVars>>
           /\ \/ UNCHANGED state
              \/ /\ Decides(w, "superseded") /\ ~Referenced(job[w])
                 /\ WorkerGoes(w, "begin", "tidy") \/ WorkerGoes(w, "complete", "tidy")
              \/ /\ Decides(w, "consumed") /\ Referenced(job[w])
                 /\ WorkerGoes(w, "complete", "tidy")
<1> USE DEF rowVars, oldVars, leaseVars, storeVars, clientVars, workerVars, writeVars
<1> DEFINE Rows == UNCHANGED <<target, old, oldVer, field, clientVars, writeVars>>
<1>1. ASSUME NEW from, NEW to, Move(w, from, to) PROVE Rows /\ UNCHANGED state
  BY <1>1 DEF Move
<1>2. ASSUME NEW from, Supersede(w, from)
      PROVE  Rows /\ Decides(w, "superseded") /\ ~Referenced(job[w]) /\ WorkerGoes(w, from, "tidy")
  BY <1>2 DEF Supersede, Decides
<1>3. ASSUME NEW from, ResolveOld(w, from) PROVE Rows /\ UNCHANGED state
  BY <1>3 DEF ResolveOld
<1>4. CASE BeginFinalization(w)
  BY <1>1, <1>2, <1>4 DEF BeginFinalization
<1>5. CASE CompleteFinalization(w)
  BY <1>1, <1>2, <1>5 DEF CompleteFinalization, MayProceed, Decides
<1>6. CASE \/ RenewLease(w, "renew", "spool") \/ RenewLease(w, "renew2", "complete")
           \/ InspectMaterialized(w) \/ SkipTidy(w) \/ CheckTarget(w) \/ PlanOldCleanup(w)
  BY <1>1, <1>3, <1>6 DEF RenewLease, InspectMaterialized, SkipTidy, CheckTarget, PlanOldCleanup
<1>7. CASE Spool(w) \/ Save(w) \/ Mark(w) \/ DeleteStage(w) \/ DeleteFinal(w) \/ ClaimOld(w)
  BY <1>1, <1>7 DEF Spool, Save, Mark, DeleteStage, Unstage, DeleteFinal, ClaimOld
<1>8. CASE RecordFailure(w) \/ DeleteClaimed(w) \/ MarkOldCleanup(w) \/ FinishTidy(w) \/ FailTidy(w)
  BY <1>8 DEF RecordFailure, DeleteClaimed, MarkOldCleanup, FinishTidy, FailTidy, EndTidy
<1>9. ASSUME NEW i \in Intent, StartFinalization(w, i) \/ ClaimTerminal(w, i)
      PROVE  Rows /\ UNCHANGED state
  BY <1>9 DEF StartFinalization, ClaimTerminal
<1>10. job[w] \in Intent
  BY DEF TypeOK
<1> QED
  BY <1>4, <1>5, <1>6, <1>7, <1>8, <1>9, <1>10 DEF Works, WorkerStep, PickUp

\* A worker's step moves that worker on its own, and takes a lease only when it
\* has run out or is its own.
LEMMA WorkerAlone ==
    ASSUME TypeOK, NEW w \in Worker, Works(w)
    PROVE  /\ \A v \in Worker : v # w => pc'[v] = pc[v] /\ job'[v] = job[v] /\ todo'[v] = todo[v]
           /\ \A i \in Intent :
                token'[i] # token[i] => /\ ~live[i] \/ token[i] = w
                                        /\ pc'[w] # pc[w]
           /\ \A i \in Intent : live'[i] # live[i] => ~live[i] \/ token[i] = w
<1> USE DEF rowVars, oldVars, leaseVars, storeVars, clientVars, workerVars, writeVars, WorkerGoes
<1> DEFINE Alone == \A v \in Worker : v # w => pc'[v] = pc[v] /\ job'[v] = job[v] /\ todo'[v] = todo[v]
           Taken == /\ \A i \in Intent : token'[i] # token[i] => /\ ~live[i] \/ token[i] = w
                                                                 /\ pc'[w] # pc[w]
                    /\ \A i \in Intent : live'[i] # live[i] => ~live[i] \/ token[i] = w
<1>0. job[w] \in Intent
  BY DEF TypeOK
<1>1. ASSUME NEW from, NEW to, WorkerGoes(w, from, to), UNCHANGED <<job, todo, leaseVars>>
      PROVE  Alone /\ Taken
  BY <1>1 DEF TypeOK
<1>2. ASSUME NEW from, NEW to, WorkerGoes(w, from, to), from # to, UNCHANGED <<job, todo>>,
             ClearLease(job[w]), token[job[w]] = w
      PROVE  Alone /\ Taken
  BY <1>0, <1>2 DEF ClearLease, TypeOK
<1>3. ASSUME BeginFinalization(w) \/ CompleteFinalization(w)
      PROVE  Alone /\ Taken
  <2>1. \/ \E from \in {"begin", "complete"}, to \in {"idle", "renew", "tidy"} : Move(w, from, to)
        \/ \E from \in {"begin", "complete"} :
             /\ WorkerGoes(w, from, "tidy") /\ UNCHANGED <<job, todo>>
             /\ ClearLease(job[w]) /\ token[job[w]] = w
    BY <1>3 DEF BeginFinalization, CompleteFinalization, Supersede, MayProceed, HoldsLease
  <2> QED BY <1>1, <1>2, <2>1 DEF Move
<1>4. ASSUME \/ RenewLease(w, "renew", "spool") \/ RenewLease(w, "renew2", "complete")
           \/ InspectMaterialized(w) \/ SkipTidy(w)
      PROVE  Alone /\ Taken
  BY <1>1, <1>4 DEF RenewLease, InspectMaterialized, SkipTidy, Move
<1>5. ASSUME Spool(w) \/ Save(w) \/ Mark(w) \/ DeleteClaimed(w) \/ MarkOldCleanup(w)
      PROVE  Alone /\ Taken
  BY <1>1, <1>5 DEF Spool, Save, Mark, DeleteClaimed, MarkOldCleanup, Move
<1>6. ASSUME DeleteFinal(w) \/ CheckTarget(w) \/ PlanOldCleanup(w) \/ ClaimOld(w) \/ DeleteStage(w)
      PROVE  Alone /\ Taken
  <2>1. \E from, to : WorkerGoes(w, from, to) /\ UNCHANGED <<job, todo, leaseVars>>
    BY <1>6 DEF DeleteFinal, CheckTarget, PlanOldCleanup, ClaimOld, DeleteStage, Unstage, Move, ResolveOld
  <2> QED BY <1>1, <2>1
<1>7. ASSUME RecordFailure(w)
      PROVE  Alone /\ Taken
  <2>1. token'[job[w]] # token[job[w]] \/ live'[job[w]] # live[job[w]] => token[job[w]] = w
    BY <1>0, <1>7 DEF RecordFailure, OwnsToken, TypeOK
  <2> QED BY <1>0, <1>7, <2>1 DEF RecordFailure, TypeOK
<1>8. ASSUME NEW from \in {"finish", "cleanFail"}, NEW done, EndTidy(w, from, done) PROVE Alone /\ Taken
  <2>1. WorkerGoes(w, from, "idle") /\ UNCHANGED <<job, todo>>
        /\ \/ UNCHANGED leaseVars
           \/ ClearLease(job[w]) /\ token[job[w]] = w
    BY <1>8 DEF EndTidy, OwnsToken
  <2> QED BY <1>1, <1>2, <2>1
<1>9. ASSUME NEW i \in Intent, StartFinalization(w, i) \/ ClaimTerminal(w, i) PROVE Alone /\ Taken
  BY <1>9 DEF StartFinalization, ClaimTerminal, MayTidy, TypeOK
<1> HIDE DEF Alone, Taken
<1>10. ASSUME FinishTidy(w) \/ FailTidy(w) PROVE Alone /\ Taken
  BY <1>8, <1>10 DEF FinishTidy, FailTidy
<1>11. ASSUME WorkerStep(w) PROVE Alone /\ Taken
  BY <1>0, <1>3, <1>4, <1>5, <1>6, <1>7, <1>9, <1>10, <1>11 DEF WorkerStep
<1>12. Alone /\ Taken
  BY <1>9, <1>11 DEF Works, PickUp
<1> QED BY <1>12 DEF Alone, Taken

\* The steps of the environment and of the mutations leave the workers to
\* themselves, apart from what strikes one of them.
LEMMA OthersMove ==
    ASSUME TypeOK, [Next]_vars, \A w \in Worker : ~Works(w)
    PROVE  /\ UNCHANGED <<token, job, todo, held, obj, inode, stage, oldVars, cleaned>>
           /\ \A w \in Worker : \/ pc'[w] = pc[w] \/ pc'[w] = "idle"
                                \/ pc'[w] = "fail" /\ pc[w] \in Finalizing
                                \/ pc'[w] = "cleanFail" /\ pc[w] \in Tidying
<1> USE DEF rowVars, oldVars, leaseVars, storeVars, clientVars, workerVars, writeVars
<1>1. ASSUME NEW w \in Worker, StorageFails(w) \/ WorkerDies(w)
      PROVE  \A v \in Worker : \/ pc'[v] = pc[v] \/ pc'[v] = "idle"
                               \/ pc'[v] = "fail" /\ pc[v] \in Finalizing
                               \/ pc'[v] = "cleanFail" /\ pc[v] \in Tidying
  BY <1>1 DEF StorageFails, WorkerDies, TypeOK
<1>2. CASE UNCHANGED vars
  BY <1>2 DEF vars
<1>3. CASE \E c \in Client : \/ \E i \in Intent : PrepareClaim(c, i)
                             \/ \E r \in Row : CommitClaim(c, r)
                             \/ AbandonClaim(c)
  BY <1>3 DEF PrepareClaim, CommitClaim, AbandonClaim
<1>4. CASE \/ \E i \in Intent : RejectContent(i) \/ ExpireUploaded(i)
           \/ \E r \in Row : ReadForUpdate(r) \/ ClearField(r)
           \/ SaveWholeRow
  BY <1>4 DEF RejectContent, ExpireUploaded, CloseUploaded, ReadForUpdate, ClearField, SaveWholeRow
<1>5. CASE \E i \in Intent : DropIntent(i) \/ LeaseRunsOut(i) \/ LeaseOverrun(i)
  BY <1>5 DEF DropIntent, LeaseRunsOut, LeaseOverrun
<1>6. CASE \E w \in Worker : StorageFails(w) \/ WorkerDies(w)
  BY <1>1, <1>6 DEF StorageFails, WorkerDies
<1> QED BY <1>2, <1>3, <1>4, <1>5, <1>6 DEF Next, Works

-----------------------------------------------------------------------------
(* Intents move forward, and a lease that runs is not taken away. *)

\* What the steps that no worker takes do to the state of an intent.
LEMMA OthersForward ==
    ASSUME TypeOK, [Next]_vars, \A w \in Worker : ~Works(w), NEW i \in Intent
    PROVE  Forward(state[i], state'[i])
<1> USE DEF rowVars, oldVars, leaseVars, storeVars, clientVars, workerVars, writeVars
<1>1. CASE UNCHANGED state
  BY <1>1 DEF Forward
<1>2. ASSUME NEW c \in Client, NEW r \in Row, CommitClaim(c, r) PROVE Forward(state[i], state'[i])
  <2>1. cint[c] \in Intent /\ state[cint[c]] = "uploaded"
        /\ state' = [state EXCEPT ![cint[c]] = "finalizing"]
    BY <1>2 DEF CommitClaim, MayClaim, TypeOK
  <2> QED BY <2>1 DEF Forward, TypeOK
<1>3. ASSUME NEW j \in Intent, RejectContent(j) \/ ExpireUploaded(j) \/ DropIntent(j)
      PROVE  Forward(state[i], state'[i])
  BY <1>3 DEF RejectContent, ExpireUploaded, CloseUploaded, DropIntent, Forward, TypeOK
<1> QED
  BY <1>1, <1>2, <1>3
  DEF Next, Works, vars, PrepareClaim, AbandonClaim, ReadForUpdate, ClearField, SaveWholeRow, LeaseRunsOut,
      LeaseOverrun, StorageFails, WorkerDies

LEMMA StepForward ==
    ASSUME TypeOK, [Next]_vars, NEW i \in Intent
    PROVE  Forward(state[i], state'[i])
<1>1. ASSUME NEW w \in Worker, Works(w) PROVE Forward(state[i], state'[i])
  <2>1. job[w] \in Intent
    BY DEF TypeOK
  <2>2. UNCHANGED state \/ Decides(w, "superseded") \/ Decides(w, "consumed")
    BY <1>1, WorkerDecides
  <2> QED BY <2>1, <2>2 DEF Decides, Forward, TypeOK
<1> QED BY <1>1, OthersForward

\* A stale worker neither reopens what is decided, nor takes a lease from its
\* owner, for any number of workers, crashes, storage errors and overruns.
THEOREM FinalizersKeepOrderCorrect == Spec => FinalizersKeepOrder
<1>1. TypeOK /\ [Next]_vars => MovesForward
  BY StepForward DEF MovesForward
<1>2. TypeOK /\ [Next]_vars => LeaseExclusive
  <2> SUFFICES ASSUME TypeOK, [Next]_vars, NEW w \in Worker,
                      HoldsLease(w), pc'[w] = pc[w]
               PROVE  token'[job[w]] = w
    BY DEF LeaseExclusive
  <2>1. job[w] \in Intent /\ token[job[w]] = w /\ live[job[w]]
    BY DEF TypeOK, HoldsLease
  <2>2. ASSUME NEW v \in Worker, Works(v) PROVE token'[job[w]] = w
    BY <2>1, <2>2, WorkerAlone
  <2>3. CASE \A v \in Worker : ~Works(v)
    BY <2>1, <2>3, OthersMove
  <2> QED BY <2>2, <2>3
<1> QED BY <1>1, <1>2, TypeCorrect, PTL DEF Spec, FinalizersKeepOrder

-----------------------------------------------------------------------------
(* A token is single-use. *)

\* The row that holds an intent's key, or that an update has read it from, is
\* the row the intent was claimed for, and no row while it is not claimed.
UseInv ==
    /\ TypeOK
    /\ \A r \in Row, i \in Intent : field[r] = i => target[i] = r
    /\ reader.row # NoRow /\ reader.key \in Intent => target[reader.key] = reader.row
    /\ \A i \in Intent : state[i] = "uploaded" => target[i] = NoRow

LEMMA UseStep == UseInv /\ [Next]_vars => UseInv'
<1> SUFFICES ASSUME UseInv, [Next]_vars PROVE UseInv'
  OBVIOUS
<1> USE DEF rowVars, oldVars, leaseVars, storeVars, clientVars, workerVars, writeVars
<1>0. TypeOK /\ TypeOK'
  BY TypeStep DEF UseInv
<1>1. ASSUME UNCHANGED <<target, field, reader>>, \A i \in Intent : Forward(state[i], state'[i])
      PROVE  UseInv'
  BY <1>0, <1>1 DEF UseInv, Forward, TypeOK, Terminal
<1>2. ASSUME NEW c \in Client, NEW r \in Row, CommitClaim(c, r) PROVE UseInv'
  <2>1. PICK i \in Intent : i = cint[c]
    BY <1>0 DEF TypeOK
  <2>2. /\ state[i] = "uploaded" /\ state' = [state EXCEPT ![i] = "finalizing"]
        /\ target' = [target EXCEPT ![i] = r] /\ field' = [field EXCEPT ![r] = i]
        /\ UNCHANGED reader
    BY <1>2, <2>1 DEF CommitClaim, MayClaim
  <2>3. target[i] = NoRow
    BY <2>2 DEF UseInv
  <2>4. \A q \in Row, j \in Intent : field'[q] = j => target'[j] = q
    <3> SUFFICES ASSUME NEW q \in Row, NEW j \in Intent, field'[q] = j PROVE target'[j] = q
      OBVIOUS
    <3>1. CASE q = r
      BY <1>0, <2>2, <3>1 DEF TypeOK
    <3>2. CASE q # r
      <4>1. field[q] = j /\ target[j] = q
        BY <1>0, <2>2, <3>2 DEF TypeOK, UseInv
      <4>2. j # i
        BY <2>3, <4>1, ValuesAssumption
      <4> QED BY <1>0, <2>2, <4>1, <4>2 DEF TypeOK
    <3> QED BY <3>1, <3>2
  <2>5. reader.row # NoRow /\ reader.key \in Intent => target'[reader.key] = reader.row
    BY <1>0, <2>2, <2>3 DEF TypeOK, UseInv
  <2> QED BY <1>0, <2>2, <2>4, <2>5 DEF UseInv, TypeOK
<1>3. ASSUME NEW r \in Row, ReadForUpdate(r) PROVE UseInv'
  BY <1>0, <1>3 DEF ReadForUpdate, UseInv
<1>4. ASSUME NEW r \in Row, ClearField(r) PROVE UseInv'
  <2>1. \A q \in Row, j \in Intent : field'[q] = j => field[q] = j
    BY <1>0, <1>4, ValuesAssumption DEF ClearField, TypeOK
  <2> QED BY <1>0, <1>4, <2>1 DEF ClearField, UseInv
<1>5. CASE SaveWholeRow
  <2>1. \A q \in Row, j \in Intent : field'[q] = j =>
          field[q] = j \/ (q = reader.row /\ j = reader.key /\ reader.row # NoRow)
    BY <1>0, <1>5 DEF SaveWholeRow, TypeOK
  <2>2. reader'.row = NoRow
    BY <1>5 DEF SaveWholeRow
  <2> QED BY <1>0, <1>5, <2>1, <2>2 DEF SaveWholeRow, UseInv
<1>6. CASE UNCHANGED <<target, field, reader>>
  BY <1>0, <1>1, <1>6, StepForward
<1>7. ASSUME NEW w \in Worker, Works(w) PROVE UNCHANGED <<target, field, reader>>
  BY <1>0, <1>7, WorkerDecides
<1> QED
  BY <1>2, <1>3, <1>4, <1>5, <1>6, <1>7
  DEF Next, Works, vars, PrepareClaim, AbandonClaim, RejectContent, ExpireUploaded, CloseUploaded, DropIntent,
      LeaseRunsOut, LeaseOverrun, StorageFails, WorkerDies

\* However requests submit it, and whatever stale saves write back, an upload
\* is never stored in two rows.
THEOREM SingleUseCorrect == Spec => []SingleUse
<1>1. Init => UseInv
  <2> SUFFICES ASSUME Init PROVE UseInv
    OBVIOUS
  <2>1. \A r \in Row, i \in Intent : field[r] # i
    BY ValuesAssumption DEF Init
  <2> QED BY <2>1, TypeInit DEF Init, UseInv
<1>2. UseInv => SingleUse
  <2> SUFFICES ASSUME UseInv, NEW i \in Intent PROVE Cardinality({r \in Row : field[r] = i}) <= 1
    BY DEF SingleUse
  <2>1. {r \in Row : field[r] = i} \subseteq {target[i]}
    BY DEF UseInv
  <2>2. IsFiniteSet({target[i]}) /\ Cardinality({target[i]}) = 1
    BY FS_Singleton
  <2> QED BY <2>1, <2>2, FS_Subset
<1> QED BY <1>1, <1>2, UseStep, PTL DEF Spec

-----------------------------------------------------------------------------
(* What a worker does to the store, and the way it takes. *)

LEMMA WorkerObjects ==
    ASSUME TypeOK, NEW w \in Worker, Works(w), NEW k \in Key, obj'[k] # obj[k]
    PROVE  \/ /\ WorkerGoes(w, "spool", "inspect") \/ WorkerGoes(w, "mark", "inspect")
              /\ k = job[w]
              /\ obj[k] # "none" /\ obj'[k] = "complete"
           \/ k = job[w] /\ WorkerGoes(w, "save", "mark") /\ obj[k] = "none" /\ obj'[k] = "saved"
           \/ k = job[w] /\ WorkerGoes(w, "delFinal", "finish") /\ obj[k] = "complete" /\ obj'[k] = "none"
           \/ k = old[job[w]] /\ WorkerGoes(w, "claimOld", "delOld") /\ obj'[k] = "none"
<1> USE DEF rowVars, oldVars, leaseVars, storeVars, clientVars, workerVars, writeVars, TypeOK
<1>1. CASE Spool(w)
  BY <1>1 DEF Spool, Move, SetObject, Key
<1>2. CASE Save(w)
  BY <1>2 DEF Save, SetObject, Key
<1>3. CASE Mark(w)
  BY <1>3 DEF Mark, SetObject, Key
<1>4. CASE DeleteFinal(w)
  BY <1>4 DEF DeleteFinal, Move, SetObject, Key
<1>5. CASE ClaimOld(w)
  BY <1>5 DEF ClaimOld, Move, SetObject, ReplacedObjectThere
<1>6. CASE \/ BeginFinalization(w) \/ CompleteFinalization(w) \/ InspectMaterialized(w) \/ SkipTidy(w)
           \/ RenewLease(w, "renew", "spool") \/ RenewLease(w, "renew2", "complete")
  BY <1>6 DEF BeginFinalization, CompleteFinalization, InspectMaterialized, SkipTidy, RenewLease, Move,
              Supersede
<1>7. CASE RecordFailure(w) \/ DeleteStage(w) \/ DeleteClaimed(w) \/ MarkOldCleanup(w)
  BY <1>7 DEF RecordFailure, DeleteStage, Unstage, DeleteClaimed, MarkOldCleanup
<1>8. CASE CheckTarget(w) \/ PlanOldCleanup(w) \/ FinishTidy(w) \/ FailTidy(w)
  BY <1>8 DEF CheckTarget, PlanOldCleanup, FinishTidy, FailTidy, EndTidy, ResolveOld, Move
<1>9. ASSUME NEW i \in Intent, StartFinalization(w, i) \/ ClaimTerminal(w, i) PROVE FALSE
  BY <1>9 DEF StartFinalization, ClaimTerminal
<1> QED
  BY <1>1, <1>2, <1>3, <1>4, <1>5, <1>6, <1>7, <1>8, <1>9 DEF Works, WorkerStep, PickUp

\* The steps of the way, apart from decisions.
LEMMA WorkerPath ==
    ASSUME TypeOK, NEW w \in Worker, Works(w)
    PROVE  /\ stage' = stage \/ (stage' = stage \ {job[w]} /\ pc[w] = "delStage" /\ job' = job)
           /\ pc'[w] \in {"renew2", "complete"} =>
                /\ job'[w] = job[w]
                /\ \/ pc[w] = "inspect" /\ obj[job[w]] = "complete" /\ obj' = obj
                   \/ pc[w] = "renew2" /\ MayProceed(w) /\ obj' = obj
           /\ pc'[w] \in Finalizing =>
                \/ job'[w] = job[w] /\ pc[w] \in Finalizing
                \/ pc'[w] = "begin" /\ pc[w] = "idle" /\ state[job'[w]] = "finalizing"
           /\ pc'[w] = "tidy" => job' = job /\ state'[job[w]] \in Terminal
           /\ pc'[w] \in Tidying =>
                \/ job'[w] = job[w] /\ pc[w] \in Tidying
                \/ pc'[w] = "delStage" /\ MayTidy(job'[w]) /\ todo'[w] = OldWork(job'[w])
           /\ pc'[w] = "delFinal" => pc[w] = "delStage" /\ state[job[w]] = "superseded"
<1> USE DEF rowVars, oldVars, leaseVars, storeVars, clientVars, workerVars, writeVars, Finalizing, Tidying,
            WorkerGoes
<1> DEFINE Path ==
       /\ stage' = stage \/ (stage' = stage \ {job[w]} /\ pc[w] = "delStage" /\ job' = job)
       /\ pc'[w] \in {"renew2", "complete"} =>
            /\ job'[w] = job[w]
            /\ \/ pc[w] = "inspect" /\ obj[job[w]] = "complete" /\ obj' = obj
               \/ pc[w] = "renew2" /\ MayProceed(w) /\ obj' = obj
       /\ pc'[w] \in Finalizing =>
            \/ job'[w] = job[w] /\ pc[w] \in Finalizing
            \/ pc'[w] = "begin" /\ pc[w] = "idle" /\ state[job'[w]] = "finalizing"
       /\ pc'[w] = "tidy" => job' = job /\ state'[job[w]] \in Terminal
       /\ pc'[w] \in Tidying =>
            \/ job'[w] = job[w] /\ pc[w] \in Tidying
            \/ pc'[w] = "delStage" /\ MayTidy(job'[w]) /\ todo'[w] = OldWork(job'[w])
       /\ pc'[w] = "delFinal" => pc[w] = "delStage" /\ state[job[w]] = "superseded"
<1>0. job[w] \in Intent /\ pc[w] \in Labels /\ \A l : pc' = [pc EXCEPT ![w] = l] => pc'[w] = l
  BY DEF TypeOK
<1>1. ASSUME NEW from, NEW to, WorkerGoes(w, from, to), UNCHANGED <<stage, job>>,
             from \in Finalizing \/ to \notin Finalizing, from \in Tidying \/ to \notin Tidying,
             to \notin {"tidy", "delFinal", "renew2", "complete"}
      PROVE  Path
  BY <1>0, <1>1
<1>2. ASSUME NEW from, Supersede(w, from) PROVE Path
  BY <1>0, <1>2 DEF Supersede, TypeOK, Terminal
<1>3. ASSUME BeginFinalization(w) \/ RenewLease(w, "renew", "spool") PROVE Path
  <2>1. \/ Supersede(w, "begin")
        \/ \E from \in {"begin", "renew"}, to \in {"idle", "renew", "spool", "fail"} : Move(w, from, to)
    BY <1>3 DEF BeginFinalization, RenewLease
  <2> QED BY <1>1, <1>2, <2>1 DEF Move
<1>4. ASSUME Spool(w) \/ Save(w) \/ Mark(w) \/ RecordFailure(w) PROVE Path
  <2>1. \E from \in Finalizing, to \in {"inspect", "save", "mark", "fail", "idle"} :
          WorkerGoes(w, from, to) /\ UNCHANGED <<stage, job>>
    BY <1>4 DEF Spool, Save, Mark, RecordFailure, Move
  <2> QED BY <1>1, <2>1
<1>5. ASSUME InspectMaterialized(w) \/ RenewLease(w, "renew2", "complete") PROVE Path
  <2>1. /\ job' = job /\ stage' = stage /\ obj' = obj
        /\ \/ WorkerGoes(w, "inspect", "renew2") /\ obj[job[w]] = "complete"
           \/ WorkerGoes(w, "renew2", "complete") /\ MayProceed(w)
           \/ WorkerGoes(w, "inspect", "fail") \/ WorkerGoes(w, "renew2", "fail")
    BY <1>5 DEF InspectMaterialized, RenewLease, Move
  <2>2. CASE WorkerGoes(w, "inspect", "fail") \/ WorkerGoes(w, "renew2", "fail")
    BY <1>1, <2>1, <2>2
  <2>3. CASE WorkerGoes(w, "inspect", "renew2") /\ obj[job[w]] = "complete"
    <3>1. pc[w] = "inspect" /\ pc'[w] = "renew2"
      BY <1>0, <2>3
    <3> QED BY <2>1, <2>3, <3>1
  <2>4. CASE WorkerGoes(w, "renew2", "complete") /\ MayProceed(w)
    BY <1>0, <2>1, <2>4
  <2> QED BY <2>1, <2>2, <2>3, <2>4
<1>6. ASSUME CompleteFinalization(w) PROVE Path
  <2>1. ASSUME WorkerGoes(w, "complete", "tidy"), UNCHANGED <<job, stage>>, state'[job[w]] \in Terminal
        PROVE  Path
    BY <1>0, <2>1
  <2>2. ASSUME MayProceed(w), state' = [state EXCEPT ![job[w]] = "consumed"]
        PROVE  state'[job[w]] \in Terminal
    BY <1>0, <2>2 DEF Terminal, TypeOK
  <2>3. ASSUME UNCHANGED state, state[job[w]] = "consumed" PROVE state'[job[w]] \in Terminal
    BY <2>3 DEF Terminal
  <2>4. ASSUME Move(w, "complete", "idle") PROVE Path
    BY <1>1, <2>4 DEF Move
  <2> QED BY <1>2, <1>6, <2>1, <2>2, <2>3, <2>4 DEF CompleteFinalization, Move
<1>7. ASSUME SkipTidy(w) \/ CheckTarget(w) \/ PlanOldCleanup(w) \/ ClaimOld(w) PROVE Path
  <2>1. \/ Move(w, "tidy", "idle")
        \/ \E from \in Tidying, to \in {"plan", "claimOld", "delOld", "finish", "cleanFail"} :
             WorkerGoes(w, from, to) /\ UNCHANGED <<stage, job>>
    BY <1>7 DEF SkipTidy, CheckTarget, PlanOldCleanup, ClaimOld, Move, ResolveOld
  <2> QED BY <1>1, <2>1 DEF Move
<1>8. ASSUME DeleteClaimed(w) \/ MarkOldCleanup(w) \/ FinishTidy(w) \/ FailTidy(w) PROVE Path
  <2>1. \E from \in Tidying, to \in {"markOld", "finish", "idle"} :
          WorkerGoes(w, from, to) /\ UNCHANGED <<stage, job>>
    BY <1>8 DEF DeleteClaimed, MarkOldCleanup, FinishTidy, FailTidy, EndTidy
  <2> QED BY <1>1, <2>1
<1>9. ASSUME DeleteFinal(w) PROVE Path
  <2>1. \E to \in {"finish", "cleanFail"} : WorkerGoes(w, "delFinal", to) /\ UNCHANGED <<stage, job>>
    BY <1>9 DEF DeleteFinal, Move
  <2> QED BY <1>1, <2>1
<1>10. ASSUME DeleteStage(w) PROVE Path
  <2> DEFINE next == CASE state[job[w]] = "superseded" -> "delFinal"
                       [] todo[w] = "resume" -> "claimOld"
                       [] todo[w] = "plan" -> "check"
                       [] OTHER -> "finish"
  <2>0. /\ WorkerGoes(w, "delStage", next)
        /\ next = "delFinal" => state[job[w]] = "superseded"
        /\ next \in {"delFinal", "claimOld", "check", "finish"}
    BY <1>10 DEF DeleteStage, Unstage
  <2>1. PICK to : /\ WorkerGoes(w, "delStage", to)
                  /\ to = "delFinal" => state[job[w]] = "superseded"
                  /\ to \in {"delFinal", "claimOld", "check", "finish"}
    BY <2>0
  <2> QED BY <1>0, <1>10, <2>1 DEF DeleteStage, Unstage
<1>11. ASSUME NEW i \in Intent, StartFinalization(w, i) PROVE Path
  BY <1>11 DEF StartFinalization, TypeOK
<1>12. ASSUME NEW i \in Intent, ClaimTerminal(w, i) PROVE Path
  BY <1>12 DEF ClaimTerminal, TypeOK
<1> HIDE DEF Path
<1>13. ASSUME WorkerStep(w) PROVE Path
  BY <1>0, <1>3, <1>4, <1>5, <1>6, <1>7, <1>8, <1>9, <1>10, <1>12, <1>13 DEF WorkerStep
<1>14. Path
  BY <1>11, <1>12, <1>13 DEF Works, PickUp
<1> QED BY <1>14 DEF Path

-----------------------------------------------------------------------------
(* The bytes behind a stored key. *)

\* A staged object stays until its intent is decided, and a worker finalizes
\* what was claimed and tidies what is decided.
StageInv ==
    /\ TypeOK
    /\ \A i \in Intent : state[i] \in {"uploaded", "finalizing"} => i \in stage
    /\ \A w \in Worker :
         /\ pc[w] \in Finalizing => state[job[w]] # "uploaded"
         /\ pc[w] \in Tidying \cup {"tidy"} => state[job[w]] \in Terminal \cup {"gone"}
         /\ pc[w] = "delFinal" => state[job[w]] \in {"superseded", "gone"}

\* The states that, once reached, are left only for others of the set.
Closed(S) == \A s \in S, t \in States : Forward(s, t) => t \in S

LEMMA ClosedStates ==
    /\ Closed(Terminal \cup {"gone"}) /\ Closed({"superseded", "gone"})
    /\ Closed(States \ {"uploaded"})
BY DEF Closed, Forward, Terminal, States

LEMMA StageStep == StageInv /\ [Next]_vars => StageInv'
<1> SUFFICES ASSUME StageInv, [Next]_vars PROVE StageInv'
  OBVIOUS
<1>0. TypeOK /\ TypeOK'
  BY TypeStep DEF StageInv
<1>1. \A i \in Intent : /\ state'[i] \in States /\ Forward(state[i], state'[i])
                        /\ state'[i] = "uploaded" => state[i] = "uploaded"
                        /\ state'[i] = "finalizing" => state[i] \in {"uploaded", "finalizing"}
  BY <1>0, StepForward DEF Forward, TypeOK, Terminal
<1>2. ASSUME NEW w \in Worker, job'[w] = job[w], pc'[w] = pc[w]
      PROVE  /\ pc'[w] \in Finalizing => state'[job'[w]] # "uploaded"
             /\ pc'[w] \in Tidying \cup {"tidy"} => state'[job'[w]] \in Terminal \cup {"gone"}
             /\ pc'[w] = "delFinal" => state'[job'[w]] \in {"superseded", "gone"}
  <2>1. job[w] \in Intent
    BY <1>0 DEF TypeOK
  <2> QED BY <1>1, <1>2, <2>1, ClosedStates DEF StageInv, Closed
<1>3. ASSUME NEW w \in Worker, Works(w) PROVE StageInv'
  <2>1. job[w] \in Intent /\ job'[w] \in Intent
    BY <1>0 DEF TypeOK
  <2>2. \A i \in Intent : state'[i] \in {"uploaded", "finalizing"} => i \in stage'
    <3>1. pc[w] = "delStage" => state[job[w]] \notin {"uploaded", "finalizing"}
      BY DEF StageInv, Tidying, Terminal
    <3>2. stage' = stage \/ (stage' = stage \ {job[w]} /\ pc[w] = "delStage")
      BY <1>0, <1>3, WorkerPath
    <3> QED BY <1>1, <3>1, <3>2 DEF StageInv
  <2>3. pc'[w] \in Finalizing => state'[job'[w]] # "uploaded"
    <3>1. pc'[w] \in Finalizing => \/ job'[w] = job[w] /\ pc[w] \in Finalizing
                                   \/ state[job'[w]] = "finalizing"
      BY <1>0, <1>3, WorkerPath
    <3> QED BY <1>1, <2>1, <3>1 DEF StageInv
  <2>4. pc'[w] \in Tidying \cup {"tidy"} => state'[job'[w]] \in Terminal \cup {"gone"}
    <3>1. CASE pc'[w] = "tidy"
      BY <1>0, <1>3, <3>1, WorkerPath
    <3>2. CASE pc'[w] \in Tidying
      <4>1. (job'[w] = job[w] /\ pc[w] \in Tidying) \/ MayTidy(job'[w])
        BY <1>0, <1>3, <3>2, WorkerPath
      <4>2. state[job'[w]] \in Terminal \cup {"gone"}
        BY <4>1 DEF StageInv, MayTidy
      <4> QED BY <1>1, <2>1, <4>2, ClosedStates DEF Closed
    <3> QED BY <3>1, <3>2
  <2>5. pc'[w] = "delFinal" => state'[job'[w]] \in {"superseded", "gone"}
    <3> SUFFICES ASSUME pc'[w] = "delFinal" PROVE state'[job'[w]] \in {"superseded", "gone"}
      OBVIOUS
    <3>1. pc[w] = "delStage" /\ state[job[w]] = "superseded" /\ job'[w] = job[w]
      BY <1>0, <1>3, WorkerPath DEF Tidying
    <3> QED BY <1>1, <2>1, <3>1, ClosedStates DEF Closed
  <2>6. \A v \in Worker : v # w => pc'[v] = pc[v] /\ job'[v] = job[v]
    BY <1>0, <1>3, WorkerAlone
  <2> QED BY <1>0, <1>2, <2>2, <2>3, <2>4, <2>5, <2>6 DEF StageInv
<1>4. CASE \A w \in Worker : ~Works(w)
  <2>1. /\ stage' = stage /\ job' = job
        /\ \A w \in Worker : \/ pc'[w] = pc[w] \/ pc'[w] = "idle"
                             \/ pc'[w] = "fail" /\ pc[w] \in Finalizing
                             \/ pc'[w] = "cleanFail" /\ pc[w] \in Tidying
    BY <1>0, <1>4, OthersMove
  <2>2. \A i \in Intent : state'[i] \in {"uploaded", "finalizing"} => i \in stage'
    BY <1>1, <2>1 DEF StageInv
  <2>3. ASSUME NEW w \in Worker
        PROVE  /\ pc'[w] \in Finalizing => state'[job'[w]] # "uploaded"
               /\ pc'[w] \in Tidying \cup {"tidy"} => state'[job'[w]] \in Terminal \cup {"gone"}
               /\ pc'[w] = "delFinal" => state'[job'[w]] \in {"superseded", "gone"}
    <3>1. CASE pc'[w] = pc[w]
      BY <1>2, <2>1, <3>1
    <3>2. CASE pc'[w] = "idle"
      BY <3>2 DEF Finalizing, Tidying
    <3>3. CASE pc'[w] = "fail" /\ pc[w] \in Finalizing
      <4>1. state'[job[w]] # "uploaded"
        BY <1>0, <1>1, <3>3 DEF StageInv, TypeOK
      <4> QED BY <2>1, <3>3, <4>1 DEF Finalizing, Tidying
    <3>4. CASE pc'[w] = "cleanFail" /\ pc[w] \in Tidying
      <4>1. state'[job[w]] \in Terminal \cup {"gone"}
        BY <1>0, <1>1, <3>4, ClosedStates DEF StageInv, TypeOK, Closed
      <4> QED BY <2>1, <3>4, <4>1 DEF Finalizing, Tidying
    <3> QED BY <2>1, <3>1, <3>2, <3>3, <3>4
  <2> QED BY <1>0, <2>2, <2>3 DEF StageInv
<1> QED BY <1>3, <1>4

\* A stored key is that of an upload being or been finalized, or the row's first;
\* a key that was replaced is not stored any more, and never will be.
BoundInv ==
    /\ UseInv
    /\ reader.row = NoRow
    /\ \A r \in Row, i \in Intent : field[r] = i => state[i] \in {"finalizing", "consumed"}
    /\ \A r \in Row : field[r] \in Row => field[r] = r
    /\ \A i \in Intent : old[i] # NoKey =>
         /\ \A r \in Row : field[r] # old[i]
         /\ old[i] \in Intent => state[old[i]] # "uploaded"
    /\ \A c \in Client : cpc[c] = "prepared" /\ Bound[cint[c]] = NoRow => cold[c] = NoKey

LEMMA BoundStep == ~StaleSaves /\ BoundInv /\ [Next]_vars => BoundInv'
<1> SUFFICES ASSUME ~StaleSaves, BoundInv, [Next]_vars PROVE BoundInv'
  OBVIOUS
<1> USE DEF rowVars, oldVars, leaseVars, storeVars, clientVars, workerVars, writeVars
<1>0. TypeOK /\ TypeOK' /\ UseInv /\ UseInv' /\ reader.row = NoRow
  BY UseStep DEF BoundInv, UseInv
<1>1. \A i \in Intent : Forward(state[i], state'[i])
  BY <1>0, StepForward
\* Fields that are not written, or cleared, while a stored key is not given up.
<1>2. ASSUME UNCHANGED <<old, reader, cpc, cint, cold>>,
             \A r \in Row : field'[r] = field[r] \/ field'[r] = NoKey,
             \A r \in Row, i \in Intent :
               (field'[r] = i /\ state[i] \in {"finalizing", "consumed"}) =>
                 state'[i] \in {"finalizing", "consumed"}
      PROVE  BoundInv'
  <2>1. \A r \in Row, k \in Key : field'[r] = k => field[r] = k
    BY <1>2, ValuesAssumption DEF Key
  <2>2. \A i \in Intent : old[i] \in Intent /\ state'[old[i]] = "uploaded" => state[old[i]] = "uploaded"
    BY <1>1 DEF Forward, Terminal
  <2>3. \A i \in Intent : old[i] \in Key \cup {NoKey}
    BY <1>0 DEF TypeOK
  <2> QED BY <1>0, <1>2, <2>1, <2>2, <2>3 DEF BoundInv, Key
<1>3. ASSUME NEW c \in Client, NEW q \in Row, CommitClaim(c, q) PROVE BoundInv'
  <2>1. PICK i \in Intent : i = cint[c]
    BY <1>0 DEF TypeOK
  <2>2. /\ cpc[c] = "prepared" /\ state[i] = "uploaded" /\ state' = [state EXCEPT ![i] = "finalizing"]
        /\ old' = [old EXCEPT ![i] = cold[c]] /\ field' = [field EXCEPT ![q] = i]
        /\ IF Bound[i] = NoRow THEN Fresh(q) ELSE q = Bound[i] /\ field[q] = cold[c]
        /\ UNCHANGED reader
        /\ cpc' = [cpc EXCEPT ![c] = "idle"] /\ cold' = [cold EXCEPT ![c] = NoKey]
        /\ \A d \in Client : d # c => cint'[d] = cint[d]
    BY <1>0, <1>3, <2>1 DEF CommitClaim, MayClaim, Forget, TypeOK
  <2>3. /\ state'[i] = "finalizing" /\ \A j \in Intent : j # i => state'[j] = state[j]
        /\ field'[q] = i /\ \A r \in Row : r # q => field'[r] = field[r]
        /\ old'[i] = cold[c] /\ \A j \in Intent : j # i => old'[j] = old[j]
    BY <1>0, <2>2 DEF TypeOK
  <2>4. \A r \in Row, j \in Intent : field'[r] = j => state'[j] \in {"finalizing", "consumed"}
    BY <2>3 DEF BoundInv
  <2>5. \A r \in Row : field'[r] \in Row => field'[r] = r
    BY <2>3, ValuesAssumption DEF BoundInv
  <2>6. ASSUME NEW j \in Intent, old'[j] # NoKey
        PROVE  /\ \A r \in Row : field'[r] # old'[j]
               /\ old'[j] \in Intent => state'[old'[j]] # "uploaded"
    <3>1. CASE j # i
      <4>1. old'[j] = old[j] /\ \A r \in Row : field[r] # old[j]
        BY <2>3, <2>6, <3>1 DEF BoundInv
      <4>2. old[j] \in Intent => state[old[j]] # "uploaded"
        BY <2>3, <2>6, <3>1 DEF BoundInv
      <4>3. old[j] # i
        BY <2>2, <4>2
      <4> QED BY <2>3, <4>1, <4>2, <4>3
    <3>2. CASE j = i
      <4>1. old'[j] = cold[c] /\ cold[c] # NoKey
        BY <2>3, <2>6, <3>2
      <4>2. Bound[i] # NoRow /\ field[q] = cold[c]
        BY <2>1, <2>2, <4>1 DEF BoundInv
      <4>3. cold[c] \in Key /\ cold[c] # i
        <5>1. cold[c] \in Key \cup {NoKey}
          BY <1>0 DEF TypeOK
        <5>2. field[q] # i
          BY <2>2 DEF BoundInv
        <5> QED BY <4>1, <4>2, <5>1, <5>2
      <4>4. cold[c] \in Intent => state[cold[c]] # "uploaded" /\ target[cold[c]] = q
        BY <1>0, <4>2 DEF BoundInv, UseInv
      <4>5. \A r \in Row : r # q => field[r] # cold[c]
        BY <1>0, <4>2, <4>3, <4>4 DEF BoundInv, UseInv, Key
      <4> QED BY <2>3, <4>1, <4>3, <4>4, <4>5
    <3> QED BY <3>1, <3>2
  <2>7. \A d \in Client : cpc'[d] = "prepared" /\ Bound[cint'[d]] = NoRow => cold'[d] = NoKey
    BY <1>0, <2>2 DEF TypeOK, BoundInv
  <2> QED BY <1>0, <2>2, <2>4, <2>5, <2>6, <2>7 DEF BoundInv
<1>4. ASSUME NEW c \in Client, NEW i \in Intent, PrepareClaim(c, i) PROVE BoundInv'
  <2>1. \A d \in Client : cpc'[d] = "prepared" /\ Bound[cint'[d]] = NoRow => cold'[d] = NoKey
    <3> SUFFICES ASSUME NEW d \in Client, cpc'[d] = "prepared", Bound[cint'[d]] = NoRow
                 PROVE  cold'[d] = NoKey
      OBVIOUS
    <3>1. CASE d = c
      BY <1>0, <1>4, <3>1 DEF PrepareClaim, TypeOK
    <3>2. CASE d # c
      BY <1>0, <1>4, <3>2 DEF PrepareClaim, TypeOK, BoundInv
    <3> QED BY <3>1, <3>2
  <2> QED BY <1>0, <1>4, <2>1 DEF PrepareClaim, BoundInv
<1>5. ASSUME NEW c \in Client, AbandonClaim(c) PROVE BoundInv'
  <2>1. \A d \in Client : cpc'[d] = "prepared" /\ Bound[cint'[d]] = NoRow => cold'[d] = NoKey
    BY <1>0, <1>5 DEF AbandonClaim, Forget, TypeOK, BoundInv
  <2> QED BY <1>0, <1>5, <2>1 DEF AbandonClaim, BoundInv
<1>6. ASSUME NEW i \in Intent, RejectContent(i) \/ ExpireUploaded(i) PROVE BoundInv'
  BY <1>0, <1>2, <1>6 DEF RejectContent, ExpireUploaded, CloseUploaded, TypeOK
<1>7. ASSUME NEW i \in Intent, DropIntent(i) PROVE BoundInv'
  <2>1. \A r \in Row : field[r] = i => state[i] \notin {"finalizing", "consumed"}
    BY <1>0, <1>7, ValuesAssumption DEF DropIntent, Referenced, UseInv, Terminal
  <2> QED BY <1>0, <1>2, <1>7, <2>1 DEF DropIntent, TypeOK
<1>8. ASSUME NEW r \in Row, ReadForUpdate(r) \/ ClearField(r) PROVE BoundInv'
  BY <1>0, <1>2, <1>8 DEF ReadForUpdate, ClearField, TypeOK
<1>9. CASE SaveWholeRow
  BY <1>0, <1>9 DEF SaveWholeRow
<1>10. ASSUME NEW w \in Worker, Works(w) PROVE BoundInv'
  <2>1. UNCHANGED <<old, reader, cpc, cint, cold, target, field>> /\ job[w] \in Intent
    BY <1>0, <1>10, WorkerDecides DEF TypeOK
  <2>2. \A r \in Row, i \in Intent :
          field'[r] = i /\ state[i] \in {"finalizing", "consumed"} =>
            state'[i] \in {"finalizing", "consumed"}
    <3> SUFFICES ASSUME NEW r \in Row, NEW i \in Intent, field[r] = i,
                        state[i] \in {"finalizing", "consumed"}
                 PROVE  state'[i] \in {"finalizing", "consumed"}
      BY <2>1
    <3>1. Referenced(i)
      BY <1>0, ValuesAssumption DEF UseInv, Referenced
    <3>2. \/ UNCHANGED state
          \/ Decides(w, "superseded") /\ ~Referenced(job[w])
          \/ Decides(w, "consumed")
      BY <1>0, <1>10, WorkerDecides
    <3> QED BY <1>0, <2>1, <3>1, <3>2 DEF Decides, TypeOK
  <2> QED BY <1>2, <2>1, <2>2
<1>11. CASE \/ UNCHANGED vars
            \/ \E i \in Intent : LeaseRunsOut(i) \/ LeaseOverrun(i)
            \/ \E w \in Worker : StorageFails(w) \/ WorkerDies(w)
  BY <1>2, <1>11 DEF vars, LeaseRunsOut, LeaseOverrun, StorageFails, WorkerDies
<1> QED
  BY <1>3, <1>4, <1>5, <1>6, <1>7, <1>8, <1>9, <1>10, <1>11 DEF Next, Works

\* What is stored has bytes, and a worker that has found the final object
\* complete may rely on it while the row holds its key.
BytesInv ==
    /\ StageInv /\ BoundInv
    /\ \A r \in Row : field[r] = r => obj[r] # "none"
    /\ \A i \in Intent : state[i] = "consumed" /\ Referenced(i) => obj[i] = "complete"
    /\ \A w \in Worker :
         pc[w] \in {"renew2", "complete"} /\ state[job[w]] = "finalizing" /\ Referenced(job[w])
           => obj[job[w]] = "complete"

LEMMA BytesStep == ~StaleSaves /\ BytesInv /\ [Next]_vars => BytesInv'
<1> SUFFICES ASSUME ~StaleSaves, BytesInv, [Next]_vars PROVE BytesInv'
  OBVIOUS
<1> USE DEF rowVars, oldVars, leaseVars, storeVars, clientVars, workerVars, writeVars
<1>0. /\ StageInv /\ StageInv' /\ BoundInv /\ BoundInv' /\ TypeOK /\ TypeOK' /\ UseInv /\ UseInv'
      /\ \A w \in Worker : job[w] \in Intent /\ job'[w] \in Intent
  <2>1. StageInv /\ BoundInv
    BY DEF BytesInv
  <2>2. StageInv' /\ BoundInv'
    BY <2>1, StageStep, BoundStep
  <2>3. TypeOK /\ TypeOK' /\ UseInv /\ UseInv'
    BY <2>1, <2>2 DEF BoundInv, UseInv
  <2> QED BY <2>1, <2>2, <2>3 DEF TypeOK
<1>1. ASSUME NEW w \in Worker, Works(w) PROVE BytesInv'
  <2>1. /\ UNCHANGED <<target, old, field>> /\ \A i \in Intent : Referenced(i)' = Referenced(i)
        /\ \/ UNCHANGED state
           \/ Decides(w, "superseded")
           \/ Decides(w, "consumed") /\ Referenced(job[w]) /\ WorkerGoes(w, "complete", "tidy")
    BY <1>0, <1>1, WorkerDecides DEF Referenced
  <2>2. \A i \in Intent : Referenced(i) => \E r \in Row : field[r] = i
    BY <1>0 DEF Referenced, TypeOK
  \* Nobody removes what is stored, and what is complete stays so meanwhile.
  <2>3. ASSUME NEW k \in Key, NEW r \in Row, field[r] = k
        PROVE  /\ obj[k] # "none" => obj'[k] # "none"
               /\ obj[k] = "complete" => obj'[k] = "complete"
    <3>1. k # old[job[w]]
      BY <1>0, <2>3, ValuesAssumption DEF BoundInv, Key
    <3>2. WorkerGoes(w, "delFinal", "finish") => k # job[w]
      BY <1>0, <2>3 DEF StageInv, BoundInv, WorkerGoes
    <3> QED BY <1>0, <1>1, <3>1, <3>2, WorkerObjects
  <2>4. \A r \in Row : field'[r] = r => obj'[r] # "none"
    BY <2>1, <2>3 DEF BytesInv, Key
  <2>5. ASSUME NEW i \in Intent, state'[i] = "consumed", Referenced(i)' PROVE obj'[i] = "complete"
    <3>1. Referenced(i) /\ \E r \in Row : field[r] = i
      BY <2>1, <2>2, <2>5
    <3>2. obj[i] = "complete"
      <4>1. CASE state[i] = "consumed"
        BY <3>1, <4>1 DEF BytesInv
      <4>2. CASE state[i] # "consumed"
        <5>1. i = job[w] /\ Decides(w, "consumed") /\ WorkerGoes(w, "complete", "tidy")
          BY <1>0, <2>1, <2>5, <4>2 DEF Decides, TypeOK
        <5> QED BY <3>1, <5>1 DEF BytesInv, Decides, WorkerGoes
      <4> QED BY <4>1, <4>2
    <3> QED BY <2>3, <3>1, <3>2 DEF Key
  <2>6. ASSUME NEW v \in Worker, pc'[v] \in {"renew2", "complete"}, state'[job'[v]] = "finalizing",
               Referenced(job[v])'
        PROVE  obj'[job'[v]] = "complete"
    <3>1. job'[v] = job[v] /\ (obj[job[v]] = "complete" \/ pc[v] \in {"renew2", "complete"})
      <4>1. CASE v = w
        BY <1>0, <1>1, <2>6, <4>1, WorkerPath
      <4>2. CASE v # w
        BY <1>0, <1>1, <2>6, <4>2, WorkerAlone
      <4> QED BY <4>1, <4>2
    <3>2. state[job[v]] = "finalizing" /\ Referenced(job[v]) /\ \E r \in Row : field[r] = job[v]
      <4>1. Referenced(job[v])
        BY <2>1, <2>6, <3>1 DEF Referenced
      <4>2. state[job[v]] = "finalizing"
        BY <1>0, <2>1, <2>6, <3>1 DEF Decides, TypeOK
      <4> QED BY <1>0, <2>2, <4>1, <4>2
    <3>3. obj[job[v]] = "complete"
      BY <3>1, <3>2 DEF BytesInv
    <3> QED BY <1>0, <2>3, <3>1, <3>2, <3>3 DEF Key
  <2> QED BY <1>0, <2>4, <2>5, <2>6 DEF BytesInv
<1>2. CASE \A w \in Worker : ~Works(w)
  <2>1. /\ obj' = obj /\ job' = job
        /\ \A w \in Worker :
             pc'[w] \in {"renew2", "complete"} => pc'[w] = pc[w] /\ pc[w] \in Finalizing
    BY <1>0, <1>2, OthersMove DEF Finalizing
  \* A row that comes to hold a key comes to hold that of a claimed intent.
  <2>2. ASSUME NEW i \in Intent, Referenced(i)', state'[i] \in {"finalizing", "consumed"}
        PROVE  \/ Referenced(i) /\ state[i] = state'[i]
               \/ state[i] = "uploaded" /\ state'[i] = "finalizing"
    <3>1. ASSUME NEW c \in Client, NEW r \in Row, CommitClaim(c, r), i # cint[c] 
          PROVE  Referenced(i) /\ state[i] = state'[i]
      BY <1>0, <2>2, <3>1 DEF CommitClaim, Referenced, TypeOK
    <3>2. ASSUME NEW c \in Client, NEW r \in Row, CommitClaim(c, r), i = cint[c]
          PROVE  state[i] = "uploaded" /\ state'[i] = "finalizing"
      BY <1>0, <3>2 DEF CommitClaim, MayClaim, TypeOK
    <3>3. ASSUME UNCHANGED <<target, field, state>> PROVE Referenced(i) /\ state[i] = state'[i]
      BY <2>2, <3>3 DEF Referenced
    <3>4. ASSUME NEW j \in Intent, RejectContent(j) \/ ExpireUploaded(j) \/ DropIntent(j)
          PROVE  Referenced(i) /\ state[i] = state'[i]
      BY <1>0, <2>2, <3>4 DEF RejectContent, ExpireUploaded, CloseUploaded, DropIntent, Referenced, TypeOK
    <3>5. ASSUME NEW r \in Row, ClearField(r) PROVE Referenced(i) /\ state[i] = state'[i]
      BY <1>0, <2>2, <3>5, ValuesAssumption DEF ClearField, Referenced, TypeOK
    <3>6. ~SaveWholeRow
      BY <1>0 DEF SaveWholeRow, BoundInv
    <3> QED
      BY <1>2, <3>1, <3>2, <3>3, <3>4, <3>5, <3>6
      DEF Next, Works, vars, PrepareClaim, AbandonClaim, ReadForUpdate, LeaseRunsOut, LeaseOverrun,
          StorageFails, WorkerDies
  <2>3. \A r \in Row : field'[r] = r => field[r] = r
    <3>1. ASSUME NEW c \in Client, NEW r \in Row, CommitClaim(c, r)
          PROVE  \A q \in Row : field'[q] = q => field[q] = q
      BY <1>0, <3>1, ValuesAssumption DEF CommitClaim, TypeOK
    <3>2. ASSUME NEW r \in Row, ClearField(r) PROVE \A q \in Row : field'[q] = q => field[q] = q
      BY <1>0, <3>2, ValuesAssumption DEF ClearField, TypeOK
    <3>3. ~SaveWholeRow
      BY <1>0 DEF SaveWholeRow, BoundInv
    <3> QED
      BY <1>2, <3>1, <3>2, <3>3
      DEF Next, Works, vars, PrepareClaim, AbandonClaim, RejectContent, ExpireUploaded, CloseUploaded,
          DropIntent, ReadForUpdate, LeaseRunsOut, LeaseOverrun, StorageFails, WorkerDies
  <2>4. ASSUME NEW v \in Worker, pc'[v] \in {"renew2", "complete"}, state'[job'[v]] = "finalizing",
               Referenced(job[v])'
        PROVE  obj'[job'[v]] = "complete"
    <3>1. state[job[v]] # "uploaded" /\ pc[v] = pc'[v] /\ job'[v] = job[v]
      BY <1>0, <2>1, <2>4 DEF StageInv
    <3>2. Referenced(job[v]) /\ state[job[v]] = "finalizing"
      <4>1. PICK i \in Intent : i = job[v]
        BY <1>0
      <4>2. Referenced(i)' /\ state'[i] = "finalizing"
        BY <2>4, <3>1, <4>1 DEF Referenced
      <4> QED BY <2>2, <3>1, <4>1, <4>2
    <3> QED BY <2>1, <2>4, <3>1, <3>2 DEF BytesInv
  <2>5. \A i \in Intent : state'[i] = "consumed" /\ Referenced(i)' => obj'[i] = "complete"
    BY <2>1, <2>2 DEF BytesInv
  <2> QED BY <1>0, <2>1, <2>3, <2>4, <2>5 DEF BytesInv
<1> QED BY <1>1, <1>2

\* While no update saves a row it read earlier, a stored key has its bytes:
\* neither a finalizer that lost its lease, nor a cleanup, nor a crash between
\* any two steps takes them away.
THEOREM BindingSoundCorrect == ~StaleSaves => (Spec => []BindingSound)
<1> SUFFICES ASSUME ~StaleSaves PROVE Spec => []BindingSound
  OBVIOUS
<1>1. Init => BytesInv
  <2> SUFFICES ASSUME Init PROVE BytesInv
    OBVIOUS
  <2>1. TypeOK /\ \A r \in Row, i \in Intent : field[r] # i
    BY TypeInit, ValuesAssumption DEF Init
  <2> QED
    BY <2>1, ValuesAssumption
    DEF Init, BytesInv, StageInv, BoundInv, UseInv, Finalizing, Tidying, Key, Referenced
<1>2. BytesInv => BindingSound
  <2> SUFFICES ASSUME BytesInv PROVE BoundBytesExist
    BY DEF BytesInv, StageInv, BindingSound
  <2>1. \A r \in Row, i \in Intent : field[r] = i => Referenced(i)
    BY ValuesAssumption DEF BytesInv, BoundInv, UseInv, Referenced
  <2> QED BY <2>1 DEF BytesInv, StageInv, BoundInv, BoundBytesExist
<1>3. BytesInv /\ [Next]_vars => BytesInv'
  BY BytesStep
<1> QED BY <1>1, <1>2, <1>3, PTL DEF Spec

-----------------------------------------------------------------------------
(* What a completed cleanup leaves, while workers keep to their leases. *)

AtWork(w) == pc[w] \in Finalizing \cup Tidying
LeaseInv == \A w \in Worker : AtWork(w) => HoldsLease(w)

\* What a worker at work has established about its intent.
Tidier(w) ==
    LET i == job[w] IN
    /\ pc[w] \in Finalizing => state[i] = "finalizing"
    /\ pc[w] \in Tidying => state[i] \in Terminal /\ ~cleaned[i]
    /\ pc[w] \in Tidying \ {"delStage", "cleanFail"} => i \notin stage
    /\ pc[w] = "delFinal" => state[i] = "superseded"
    /\ pc[w] \in {"check", "plan", "claimOld", "delOld", "markOld"} => state[i] = "consumed"
    /\ pc[w] = "delStage" => /\ todo[w] # "nothing" => state[i] = "consumed"
                             /\ todo[w] = "plan" => ~plan[i]
                             /\ held[i] => todo[w] = "resume"
                             /\ todo[w] = "resume" => plan[i] /\ ~oldDone[i]
    /\ pc[w] \in {"check", "plan"} => ~plan[i]
    /\ pc[w] = "claimOld" => plan[i] /\ ~oldDone[i]
    /\ pc[w] \in {"markOld", "finish"} => ~held[i]
    /\ pc[w] = "finish" /\ state[i] = "superseded" => obj[i] = "none"

\* An object that is held is one whose cleanup will be taken up again.
Tidied(i) ==
    /\ held[i] => state[i] = "consumed" /\ plan[i] /\ ~oldDone[i] /\ old[i] # NoKey
    /\ state[i] \in {"uploaded", "rejected", "expired"} => obj[i] = "none"
    /\ cleaned[i] => /\ state[i] \in Terminal \cup {"gone"}
                     /\ i \notin stage /\ ~held[i]
                     /\ state[i] \in {"superseded", "rejected", "expired"} => obj[i] = "none"

TidyInv ==
    TypeOK /\ LeaseInv /\ (\A w \in Worker : Tidier(w)) /\ (\A i \in Intent : Tidied(i))

\* No lease runs out under a worker that still works.
NoOverrun == [][\A i \in Intent : ~LeaseOverrun(i)]_vars

LEMMA LeaseStep ==
    ASSUME TidyInv, [Next]_vars, \A i \in Intent : ~LeaseOverrun(i)
    PROVE  LeaseInv'
<1> USE DEF rowVars, oldVars, leaseVars, storeVars, clientVars, workerVars, writeVars, AtWork
<1>0. TypeOK /\ TypeOK' /\ LeaseInv /\ \A w \in Worker : job[w] \in Intent /\ job'[w] \in Intent
  BY TypeStep DEF TidyInv, TypeOK
<1>1. ASSUME NEW w \in Worker, Works(w), AtWork(w)'
      PROVE  HoldsLease(w)'
  <2> DEFINE Keeps == AtWork(w) /\ UNCHANGED <<job, leaseVars>>
             Takes == token'[job'[w]] = w /\ live'[job'[w]]
  <2>1. ASSUME NEW from \in Labels, NEW to, WorkerGoes(w, from, to), UNCHANGED <<job, leaseVars>>,
               from \in Finalizing \cup Tidying \/ to \notin Finalizing \cup Tidying
        PROVE  Keeps
    BY <1>0, <1>1, <2>1 DEF WorkerGoes, TypeOK
  <2>2. ASSUME NEW from, WorkerGoes(w, from, "tidy") \/ WorkerGoes(w, from, "idle") PROVE FALSE
    BY <1>0, <1>1, <2>2 DEF WorkerGoes, TypeOK, Finalizing, Tidying
  <2>3. ASSUME BeginFinalization(w) \/ CompleteFinalization(w) PROVE Keeps
    <3>1. Move(w, "begin", "renew")
      BY <2>2, <2>3 DEF BeginFinalization, CompleteFinalization, Supersede, Move
    <3> QED BY <2>1, <3>1 DEF Move, Labels, Finalizing
  <2>4. ASSUME \/ Spool(w) \/ Save(w) \/ Mark(w) \/ InspectMaterialized(w)
               \/ RenewLease(w, "renew", "spool") \/ RenewLease(w, "renew2", "complete")
        PROVE  Keeps
    <3>1. \E from \in Finalizing : \E to : WorkerGoes(w, from, to) /\ UNCHANGED <<job, leaseVars>>
      BY <2>4 DEF Spool, Save, Mark, InspectMaterialized, RenewLease, Move, Finalizing
    <3> QED BY <2>1, <3>1 DEF Labels
  <2>5. ASSUME RecordFailure(w) \/ SkipTidy(w) \/ FinishTidy(w) \/ FailTidy(w) PROVE Keeps
    BY <2>2, <2>5 DEF RecordFailure, SkipTidy, FinishTidy, FailTidy, EndTidy, Move
  <2>6. ASSUME \/ DeleteStage(w) \/ DeleteFinal(w) \/ CheckTarget(w) \/ PlanOldCleanup(w)
               \/ ClaimOld(w) \/ DeleteClaimed(w) \/ MarkOldCleanup(w)
        PROVE  Keeps
    <3>1. \E from \in Tidying : \E to : WorkerGoes(w, from, to) /\ UNCHANGED <<job, leaseVars>>
      BY <2>6 DEF DeleteStage, Unstage, DeleteFinal, CheckTarget, PlanOldCleanup, ClaimOld, DeleteClaimed,
                  MarkOldCleanup, Move, ResolveOld, Tidying
    <3> QED BY <2>1, <3>1 DEF Labels
  <2>7. ASSUME NEW i \in Intent, StartFinalization(w, i) \/ ClaimTerminal(w, i) PROVE Takes
    BY <1>0, <2>7 DEF StartFinalization, ClaimTerminal, TypeOK
  <2> HIDE DEF Keeps, Takes
  <2>8. ASSUME WorkerStep(w) PROVE Keeps \/ Takes
    BY <1>0, <2>3, <2>4, <2>5, <2>6, <2>7, <2>8 DEF WorkerStep
  <2>9. Keeps \/ Takes
    BY <1>1, <2>7, <2>8 DEF Works, PickUp
  <2> QED BY <1>0, <2>9 DEF Keeps, Takes, LeaseInv, HoldsLease
<1>2. ASSUME NEW w \in Worker, Works(w) PROVE LeaseInv'
  <2>1. ASSUME NEW v \in Worker, v # w, AtWork(v)' PROVE HoldsLease(v)'
    <3>1. pc'[v] = pc[v] /\ job'[v] = job[v]
      BY <1>0, <1>2, <2>1, WorkerAlone
    <3>2. token[job[v]] = v /\ live[job[v]]
      BY <1>0, <2>1, <3>1 DEF LeaseInv, HoldsLease
    <3>3. token'[job[v]] = v /\ live'[job[v]] = live[job[v]]
      <4>1. job[v] \in Intent
        BY <1>0 DEF TypeOK
      <4>2. /\ token'[job[v]] # token[job[v]] => ~live[job[v]] \/ token[job[v]] = w
            /\ live'[job[v]] # live[job[v]] => ~live[job[v]] \/ token[job[v]] = w
        BY <1>0, <1>2, <4>1, WorkerAlone
      <4> QED BY <2>1, <3>2, <4>2
    <3> QED BY <3>1, <3>2, <3>3 DEF HoldsLease
  <2> QED BY <1>1, <1>2, <2>1 DEF LeaseInv
<1>3. CASE \A w \in Worker : ~Works(w)
  <2> SUFFICES ASSUME NEW w \in Worker, AtWork(w)' PROVE HoldsLease(w)'
    BY DEF LeaseInv
  <2>1. AtWork(w) /\ token' = token /\ job' = job
    BY <1>0, <1>3, OthersMove DEF Finalizing, Tidying
  <2>2. HoldsLease(w) /\ Working(job[w])
    BY <1>0, <2>1 DEF LeaseInv, HoldsLease, Working, Finalizing, Tidying
  <2>3. live'[job[w]] = live[job[w]]
    <3>1. ASSUME NEW i \in Intent, LeaseRunsOut(i) PROVE live'[job[w]] = live[job[w]]
      BY <1>0, <2>2, <3>1 DEF LeaseRunsOut, TypeOK
    <3>2. CASE UNCHANGED live
      BY <3>2
    <3> QED
      BY <1>3, <3>1, <3>2
      DEF Next, Works, vars, PrepareClaim, CommitClaim, AbandonClaim, RejectContent, ExpireUploaded,
          CloseUploaded, DropIntent, ReadForUpdate, ClearField, SaveWholeRow, StorageFails, WorkerDies
  <2> QED BY <2>1, <2>2, <2>3 DEF HoldsLease
<1> QED BY <1>2, <1>3

\* A worker changes what belongs to the intent it works on, and may take the
\* final object of another one as the replaced object of its own.
LEMMA WorkerEffects ==
    ASSUME TypeOK, NEW w \in Worker, Works(w), NEW i \in Intent, ~AtWork(w) \/ i # job[w]
    PROVE  /\ state'[i] = state[i] /\ cleaned'[i] = cleaned[i] /\ plan'[i] = plan[i]
           /\ oldDone'[i] = oldDone[i] /\ held'[i] = held[i] /\ old'[i] = old[i]
           /\ i \in stage' <=> i \in stage
           /\ obj'[i] = obj[i] \/ obj'[i] = "none"
<1> USE DEF rowVars, oldVars, leaseVars, storeVars, clientVars, workerVars, writeVars, AtWork, WorkerGoes,
            Finalizing, Tidying
<1>1. /\ state'[i] = state[i] /\ old' = old
      /\ obj'[i] = obj[i] \/ obj'[i] = "none"
  BY WorkerDecides, WorkerObjects DEF Decides, TypeOK, Key
<1>2. i \in stage' <=> i \in stage
  BY WorkerPath
<1> DEFINE Same == /\ cleaned'[i] = cleaned[i] /\ plan'[i] = plan[i]
                   /\ oldDone'[i] = oldDone[i] /\ held'[i] = held[i]
<1>3. ASSUME UNCHANGED <<cleaned, plan, oldDone, held>> PROVE Same
  BY <1>3
<1>4. ASSUME \/ BeginFinalization(w) \/ CompleteFinalization(w) \/ Spool(w) \/ Save(w) \/ Mark(w)
             \/ InspectMaterialized(w) \/ RenewLease(w, "renew", "spool")
             \/ RenewLease(w, "renew2", "complete") \/ RecordFailure(w) \/ SkipTidy(w)
             \/ DeleteStage(w) \/ DeleteFinal(w)
      PROVE  Same
  BY <1>3, <1>4 DEF BeginFinalization, CompleteFinalization, Supersede, Spool, Save, Mark,
       InspectMaterialized, RenewLease, RecordFailure, SkipTidy, DeleteStage, Unstage, DeleteFinal, Move
<1>5. ASSUME CheckTarget(w) \/ PlanOldCleanup(w) PROVE Same
  <2>1. \/ UNCHANGED <<cleaned, plan, oldDone, held>>
        \/ /\ AtWork(w) /\ UNCHANGED <<cleaned, held>>
           /\ plan' = plan \/ plan' = [plan EXCEPT ![job[w]] = TRUE]
           /\ oldDone' = oldDone \/ oldDone' = [oldDone EXCEPT ![job[w]] = TRUE]
    BY <1>5 DEF CheckTarget, PlanOldCleanup, ResolveOld, Move
  <2> QED BY <2>1 DEF TypeOK
<1>6. ASSUME ClaimOld(w) \/ DeleteClaimed(w) PROVE Same
  <2>1. /\ AtWork(w) /\ UNCHANGED <<cleaned, plan, oldDone>>
        /\ \/ held' = held
           \/ \E b \in BOOLEAN : held' = [held EXCEPT ![job[w]] = b]
    BY <1>6 DEF ClaimOld, DeleteClaimed, Move
  <2> QED BY <2>1 DEF TypeOK
<1>7. ASSUME MarkOldCleanup(w) \/ FinishTidy(w) \/ FailTidy(w) PROVE Same
  <2>1. /\ AtWork(w) /\ UNCHANGED <<plan, held>>
        /\ oldDone' = oldDone \/ \E b : oldDone' = [oldDone EXCEPT ![job[w]] = b]
        /\ cleaned' = cleaned \/ \E b : cleaned' = [cleaned EXCEPT ![job[w]] = b]
    BY <1>7 DEF MarkOldCleanup, FinishTidy, FailTidy, EndTidy
  <2> QED BY <2>1 DEF TypeOK
<1>8. ASSUME NEW j \in Intent, StartFinalization(w, j) \/ ClaimTerminal(w, j) PROVE Same
  BY <1>3, <1>8 DEF StartFinalization, ClaimTerminal
<1> HIDE DEF Same
<1>9. job[w] \in Intent
  BY DEF TypeOK
<1>10. ASSUME WorkerStep(w) PROVE Same
  BY <1>4, <1>5, <1>6, <1>7, <1>8, <1>9, <1>10 DEF WorkerStep
<1>11. Same
  BY <1>8, <1>10 DEF Works, PickUp
<1> QED BY <1>1, <1>2, <1>11 DEF Same

\* What a worker at work leaves of its own intent.
LEMMA TidierMoves ==
    ASSUME TidyInv, NEW w \in Worker, Works(w), AtWork(w), NEW i \in Intent, i = job[w]
    PROVE  Tidier(w)' /\ Tidied(i)'
<1> USE DEF rowVars, oldVars, leaseVars, storeVars, clientVars, workerVars, writeVars, AtWork, WorkerGoes,
            Finalizing, Tidying, TypeOK
<1>0. i = job[w]
  OBVIOUS
<1>1. /\ TypeOK /\ Tidier(w) /\ Tidied(i)
      /\ \A l : pc' = [pc EXCEPT ![w] = l] => pc'[w] = l
  BY DEF TidyInv
<1> DEFINE Goal == Tidier(w)' /\ Tidied(i)'
<1>2. ASSUME NEW from, NEW to \in {"idle", "tidy", "fail", "renew", "spool", "save", "mark", "inspect",
                                   "renew2", "complete"},
             WorkerGoes(w, from, to), from \in Finalizing \/ to = "idle",
             to \in Finalizing \/ to \in {"idle", "tidy"},
             UNCHANGED <<job, stage, held, oldVars, cleaned, old>>,
             state' = state, obj'[i] = obj[i] \/ from \in Finalizing
      PROVE  Goal
  BY <1>0, <1>1, <1>2 DEF Tidier, Tidied, Terminal
<1>3. ASSUME NEW decision \in {"consumed", "superseded"}, Decides(w, decision), UNCHANGED old,
             pc'[w] = "tidy"
      PROVE  Goal
  BY <1>0, <1>1, <1>3 DEF Decides, Tidier, Tidied, Terminal
<1>4. ASSUME BeginFinalization(w) \/ CompleteFinalization(w) PROVE Goal
  <2>1. \/ \E from \in {"begin", "complete"}, to \in {"idle", "renew", "tidy"} : Move(w, from, to)
                /\ (from = "begin" \/ to # "renew")
        \/ \E decision \in {"consumed", "superseded"} :
             Decides(w, decision) /\ UNCHANGED old /\ pc'[w] = "tidy"
    BY <1>1, <1>4 DEF BeginFinalization, CompleteFinalization, Supersede, MayProceed, Decides, Move
  <2> QED BY <1>2, <1>3, <2>1 DEF Move
<1>5. ASSUME \/ InspectMaterialized(w) \/ RenewLease(w, "renew", "spool")
             \/ RenewLease(w, "renew2", "complete")
      PROVE  Goal
  <2>1. \E from \in Finalizing, to \in {"fail", "spool", "renew2", "complete"} : Move(w, from, to)
    BY <1>5 DEF InspectMaterialized, RenewLease
  <2> QED BY <1>2, <2>1 DEF Move
<1>6. ASSUME Spool(w) \/ Save(w) \/ Mark(w) \/ RecordFailure(w) PROVE Goal
  <2>1. \E from \in Finalizing, to \in {"fail", "save", "inspect", "mark", "idle"} :
          /\ WorkerGoes(w, from, to)
          /\ UNCHANGED <<job, stage, held, oldVars, cleaned, old, state>>
    BY <1>6 DEF Spool, Save, Mark, RecordFailure, Move
  <2> QED BY <1>2, <2>1
\* Terminal cleanup.
<1>7. ASSUME NEW from \in Tidying, NEW to \in Tidying, WorkerGoes(w, from, to), UNCHANGED <<job, state, cleaned, old>>,
             obj'[i] = obj[i] \/ obj'[i] = "none",
             i \in stage' => i \in stage /\ to \in {"cleanFail", "delStage"},
             to = "delFinal" => state[i] = "superseded",
             to \in {"check", "plan", "claimOld", "delOld", "markOld"} => state[i] = "consumed",
             to # "delStage",
             to \in {"check", "plan"} => ~plan'[i],
             to = "claimOld" => plan'[i] /\ ~oldDone'[i],
             to \in {"markOld", "finish"} => ~held'[i],
             to = "finish" /\ state[i] = "superseded" => obj'[i] = "none",
             held'[i] => state[i] = "consumed" /\ plan'[i] /\ ~oldDone'[i] /\ old[i] # NoKey
      PROVE  Goal
  BY <1>0, <1>1, <1>7 DEF Tidier, Tidied, Terminal
<1>8. ASSUME DeleteStage(w) PROVE Goal
  <2>1. PICK to : /\ WorkerGoes(w, "delStage", to) /\ stage' = stage \ {i}
                  /\ \/ to = "delFinal" /\ state[i] = "superseded"
                     \/ to = "claimOld" /\ todo[w] = "resume" /\ state[i] # "superseded"
                     \/ to = "check" /\ todo[w] = "plan" /\ state[i] # "superseded"
                     \/ /\ to = "finish" /\ todo[w] \notin {"resume", "plan"}
                        /\ state[i] # "superseded"
    <3>1. CASE state[i] = "superseded"
      BY <1>0, <1>1, <1>8, <3>1 DEF DeleteStage, Unstage, Tidier
    <3>2. CASE state[i] # "superseded"
      BY <1>0, <1>8, <3>2 DEF DeleteStage, Unstage
    <3> QED BY <3>1, <3>2
  <2>2. UNCHANGED <<job, state, cleaned, old, obj, held, plan, oldDone>>
    BY <1>8 DEF DeleteStage, Unstage
  <2>3. to \in Tidying /\ "delStage" \in Tidying
    BY <2>1
  <2>4. /\ held[i] => todo[w] = "resume"
        /\ todo[w] = "resume" \/ todo[w] = "plan" => state[i] = "consumed"
        /\ todo[w] = "plan" => ~plan[i]
    BY <1>0, <1>1, <2>1 DEF Tidier
  <2>5. i \notin stage'
    BY <2>1
  <2>6. held[i] => state[i] = "consumed" /\ plan[i] /\ ~oldDone[i] /\ old[i] # NoKey
    BY <1>1 DEF Tidied
  <2>7. to = "finish" => ~held[i] /\ state[i] # "superseded"
    BY <2>1, <2>4
  <2>8. to = "check" => ~plan[i] /\ state[i] = "consumed"
    BY <2>1, <2>4
  <2>9. to = "claimOld" => state[i] = "consumed" /\ plan[i] /\ ~oldDone[i]
    BY <1>0, <1>1, <2>1, <2>4 DEF Tidier
  <2>10. to \in {"delFinal", "claimOld", "check", "finish"}
    BY <2>1
  <2> HIDE DEF Goal
  <2> QED BY <1>7, <2>1, <2>2, <2>3, <2>5, <2>6, <2>7, <2>8, <2>9, <2>10
<1>9. ASSUME DeleteFinal(w) PROVE Goal
  <2>1. PICK to \in {"finish", "cleanFail"} :
          /\ WorkerGoes(w, "delFinal", to)
          /\ obj'[i] = obj[i] \/ obj'[i] = "none"
          /\ to = "finish" => obj'[i] = "none"
          /\ UNCHANGED <<job, state, cleaned, old, held, plan, oldDone, stage>>
    BY <1>0, <1>1, <1>9 DEF DeleteFinal, Move, SetObject, Key
  <2>2. i \notin stage /\ state[i] = "superseded" /\ ~held[i]
    BY <1>0, <1>1, <2>1 DEF Tidier, Tidied
  <2> QED BY <1>7, <2>1, <2>2
<1>10. ASSUME CheckTarget(w) \/ PlanOldCleanup(w) PROVE Goal
  <2>1. PICK from \in {"check", "plan"}, to \in {"plan", "claimOld", "finish", "cleanFail"} :
          /\ WorkerGoes(w, from, to)
          /\ UNCHANGED <<job, state, cleaned, old, held, obj, stage>>
          /\ to = "plan" => plan' = plan
          /\ to = "claimOld" => plan' = [plan EXCEPT ![i] = TRUE] /\ oldDone' = oldDone /\ ~oldDone[i]
    BY <1>0, <1>10 DEF CheckTarget, PlanOldCleanup, ResolveOld, Move
  <2>2. i \notin stage /\ state[i] = "consumed" /\ ~plan[i] /\ ~held[i]
    BY <1>0, <1>1, <2>1 DEF Tidier, Tidied
  <2>3. to = "claimOld" => plan'[i] /\ ~oldDone'[i]
    BY <1>1, <2>1
  <2> QED BY <1>7, <2>1, <2>2, <2>3
<1>11. ASSUME ClaimOld(w) PROVE Goal
  <2>1. i \notin stage /\ state[i] = "consumed" /\ plan[i] /\ ~oldDone[i]
    BY <1>0, <1>1, <1>11 DEF Tidier, ClaimOld, Move
  <2>2. obj'[i] = obj[i] \/ obj'[i] = "none"
    BY <1>0, <1>1, <1>11 DEF ClaimOld, Move, SetObject, ReplacedObjectThere, Key
  <2>3. PICK to \in {"delOld", "cleanFail"} :
          /\ WorkerGoes(w, "claimOld", to)
          /\ UNCHANGED <<job, state, cleaned, old, stage, plan, oldDone>>
          /\ held'[i] => held[i] \/ old[i] # NoKey
    BY <1>0, <1>1, <1>11 DEF ClaimOld, Move, ReplacedObjectThere
  <2>4. held'[i] => old[i] # NoKey
    BY <1>1, <2>3 DEF Tidied
  <2> QED BY <1>7, <2>1, <2>2, <2>3, <2>4
<1>12. ASSUME DeleteClaimed(w) \/ MarkOldCleanup(w) PROVE Goal
  <2>1. PICK from \in {"delOld", "markOld"}, to \in {"markOld", "finish"} :
          /\ WorkerGoes(w, from, to)
          /\ UNCHANGED <<job, state, cleaned, old, stage, plan, obj>>
          /\ from = "delOld" => ~held'[i]
          /\ from = "markOld" => held' = held
    BY <1>0, <1>1, <1>12 DEF DeleteClaimed, MarkOldCleanup
  <2>2. i \notin stage /\ state[i] = "consumed" /\ ~held'[i]
    BY <1>0, <1>1, <2>1 DEF Tidier
  <2> QED BY <1>7, <2>1, <2>2
<1>13. ASSUME FinishTidy(w) \/ FailTidy(w) PROVE Goal
  <2>1. PICK from \in {"finish", "cleanFail"} :
          /\ WorkerGoes(w, from, "idle")
          /\ UNCHANGED <<job, state, old, stage, held, plan, oldDone, obj>>
          /\ from = "cleanFail" => cleaned'[i] = cleaned[i]
    BY <1>0, <1>1, <1>13 DEF FinishTidy, FailTidy, EndTidy
  <2>2. pc'[w] = "idle" /\ pc[w] = from
    BY <1>1, <2>1
  <2>3. Tidier(w)'
    BY <2>2 DEF Tidier
  <2>4. Tidied(i)'
    <3>1. CASE from = "cleanFail"
      BY <1>1, <2>1, <3>1 DEF Tidied
    <3>2. CASE from = "finish"
      BY <1>0, <1>1, <2>1, <2>2, <3>2 DEF Tidier, Tidied
    <3> QED BY <3>1, <3>2
  <2> QED BY <2>3, <2>4
<1>14. ASSUME \/ SkipTidy(w)
              \/ \E j \in Intent : StartFinalization(w, j)
              \/ pc[w] \in {"idle", "tidy"}
       PROVE  FALSE
  BY <1>14 DEF SkipTidy, StartFinalization, Move
<1> HIDE DEF Goal
<1>15. Goal
  BY <1>4, <1>5, <1>6, <1>8, <1>9, <1>10, <1>11, <1>12, <1>13, <1>14 DEF Works, WorkerStep, PickUp
<1> QED BY <1>15 DEF Goal

\* What a worker takes up.
LEMMA TidierStarts ==
    ASSUME TidyInv, NEW w \in Worker, Works(w), ~AtWork(w)
    PROVE  /\ Tidier(w)'
           /\ pc'[w] \in Finalizing \cup Tidying => ~live[job'[w]] \/ token[job'[w]] = w
<1> USE DEF rowVars, oldVars, leaseVars, storeVars, clientVars, workerVars, writeVars, AtWork, WorkerGoes,
            Finalizing, Tidying, TypeOK
<1>1. /\ TypeOK /\ job[w] \in Intent /\ \A i \in Intent : Tidied(i)
      /\ \A l : pc' = [pc EXCEPT ![w] = l] => pc'[w] = l
  BY DEF TidyInv
<1>2. pc[w] \in {"idle", "tidy"}
  BY <1>1 DEF Labels
<1>3. ASSUME NEW i \in Intent, StartFinalization(w, i) PROVE Tidier(w)' /\ ~live[job'[w]]
  <2>1. pc'[w] = "begin" /\ job'[w] = i /\ state'[i] = "finalizing" /\ ~live[i]
    BY <1>1, <1>3 DEF StartFinalization
  <2> QED BY <2>1 DEF Tidier
<1>4. ASSUME NEW i \in Intent, ClaimTerminal(w, i) PROVE Tidier(w)' /\ ~live[job'[w]]
  <2>1. /\ pc'[w] = "delStage" /\ job'[w] = i /\ state'[i] \in Terminal /\ ~cleaned[i] /\ ~live[i]
        /\ todo'[w] = OldWork(i) /\ UNCHANGED <<state, old, plan, oldDone, cleaned, held>>
    BY <1>1, <1>4 DEF ClaimTerminal, MayTidy
  <2>2. /\ todo'[w] # "nothing" => state[i] = "consumed"
        /\ todo'[w] = "plan" => ~plan[i]
        /\ held[i] => todo'[w] = "resume"
        /\ todo'[w] = "resume" => plan[i] /\ ~oldDone[i]
    <3>1. held[i] => state[i] = "consumed" /\ plan[i] /\ ~oldDone[i] /\ old[i] # NoKey
      BY <1>1 DEF Tidied
    <3>2. OldWork(i) = "resume" => state[i] = "consumed" /\ plan[i] /\ ~oldDone[i]
      BY DEF OldWork
    <3>3. OldWork(i) = "plan" => state[i] = "consumed" /\ ~plan[i]
      BY DEF OldWork
    <3>4. OldWork(i) \in {"nothing", "resume", "plan"}
      BY DEF OldWork
    <3>5. state[i] = "consumed" /\ plan[i] /\ ~oldDone[i] /\ old[i] # NoKey => OldWork(i) = "resume"
      BY DEF OldWork
    <3> HIDE DEF TypeOK
    <3> QED BY <2>1, <3>1, <3>2, <3>3, <3>4, <3>5
  <2> QED BY <2>1, <2>2 DEF Tidier
<1>5. ASSUME pc'[w] \in {"idle", "tidy"} PROVE Tidier(w)'
  BY <1>5 DEF Tidier
<1>6. ASSUME SkipTidy(w) PROVE pc'[w] \in {"idle", "tidy"}
  BY <1>1, <1>6 DEF SkipTidy, Move
<1>7. ASSUME WorkerStep(w) PROVE SkipTidy(w) \/ ClaimTerminal(w, job[w])
  BY <1>2, <1>7
  DEF WorkerStep, BeginFinalization, Supersede, Move, RenewLease, Spool, Save, Mark, InspectMaterialized,
      CompleteFinalization, RecordFailure, DeleteStage, Unstage, DeleteFinal, CheckTarget, ResolveOld, PlanOldCleanup,
      ClaimOld, DeleteClaimed, MarkOldCleanup, FinishTidy, FailTidy, EndTidy
<1> QED BY <1>1, <1>3, <1>4, <1>5, <1>6, <1>7 DEF Works, PickUp

\* Nobody but its worker decides, or drops, an intent that is being worked on.
LEMMA OthersDecide ==
    ASSUME TypeOK, [Next]_vars, \A w \in Worker : ~Works(w), NEW i \in Intent
    PROVE  \/ state'[i] = state[i] /\ old'[i] = old[i]
           \/ state[i] = "uploaded"
           \/ cleaned[i] /\ state'[i] = "gone"
<1> USE DEF rowVars, oldVars, leaseVars, storeVars, clientVars, workerVars, writeVars
<1>1. CASE UNCHANGED <<state, old>>
  BY <1>1
<1>2. ASSUME NEW c \in Client, NEW r \in Row, CommitClaim(c, r)
      PROVE  (state'[i] = state[i] /\ old'[i] = old[i]) \/ state[i] = "uploaded"
  BY <1>2 DEF CommitClaim, MayClaim, TypeOK
<1>3. ASSUME NEW j \in Intent, RejectContent(j) \/ ExpireUploaded(j) \/ DropIntent(j)
      PROVE  \/ state'[i] = state[i] /\ old'[i] = old[i]
             \/ state[i] = "uploaded"
             \/ cleaned[i] /\ state'[i] = "gone"
  BY <1>3 DEF RejectContent, ExpireUploaded, CloseUploaded, DropIntent, TypeOK
<1> QED
  BY <1>1, <1>2, <1>3
  DEF Next, Works, vars, PrepareClaim, AbandonClaim, ReadForUpdate, ClearField, SaveWholeRow, LeaseRunsOut,
      LeaseOverrun, StorageFails, WorkerDies

LEMMA TidyStep ==
    ASSUME TidyInv, [Next]_vars, \A i \in Intent : ~LeaseOverrun(i)
    PROVE  TidyInv'
<1>1. /\ TypeOK /\ TypeOK' /\ LeaseInv /\ LeaseInv'
      /\ \A w \in Worker : Tidier(w) /\ job[w] \in Intent
      /\ \A i \in Intent : Tidied(i) /\ Forward(state[i], state'[i])
  BY TypeStep, StepForward, LeaseStep DEF TidyInv, TypeOK
<1>2. ASSUME NEW w \in Worker, Works(w) PROVE TidyInv'
  <2>1. ASSUME NEW i \in Intent, ~AtWork(w) \/ i # job[w] PROVE Tidied(i)'
    BY <1>1, <1>2, <2>1, WorkerEffects DEF Tidied
  <2>2. ASSUME NEW i \in Intent PROVE Tidied(i)'
    BY <1>2, <2>1, TidierMoves
  <2>3. Tidier(w)'
    BY <1>1, <1>2, TidierMoves, TidierStarts
  <2>4. ASSUME NEW v \in Worker, v # w PROVE Tidier(v)'
    <3>1. pc'[v] = pc[v] /\ job'[v] = job[v] /\ todo'[v] = todo[v]
      BY <1>1, <1>2, <2>4, WorkerAlone
    <3>2. CASE ~AtWork(v)
      BY <3>1, <3>2 DEF Tidier, AtWork, Finalizing, Tidying
    <3>3. CASE AtWork(v)
      <4>1. ~AtWork(w) \/ job[v] # job[w]
        BY <1>1, <2>4, <3>3 DEF LeaseInv, HoldsLease
      <4>2. PICK i \in Intent : i = job[v]
        BY <1>1
      <4>3. /\ state'[i] = state[i] /\ cleaned'[i] = cleaned[i] /\ plan'[i] = plan[i]
            /\ oldDone'[i] = oldDone[i] /\ held'[i] = held[i]
            /\ i \in stage' <=> i \in stage
            /\ obj'[i] = obj[i] \/ obj'[i] = "none"
        BY <1>1, <1>2, <4>1, <4>2, WorkerEffects
      <4>4. Tidier(v) /\ job'[v] = i
        BY <1>1, <3>1, <4>2
      <4> QED BY <3>1, <4>2, <4>3, <4>4 DEF Tidier
    <3> QED BY <3>2, <3>3
  <2> QED BY <1>1, <2>2, <2>3, <2>4 DEF TidyInv
<1>3. CASE \A w \in Worker : ~Works(w)
  <2>1. /\ UNCHANGED <<job, todo, held, obj, stage, plan, oldDone, cleaned>>
        /\ \A w \in Worker : \/ pc'[w] = pc[w] \/ pc'[w] = "idle"
                             \/ pc'[w] = "fail" /\ pc[w] \in Finalizing
                             \/ pc'[w] = "cleanFail" /\ pc[w] \in Tidying
    BY <1>1, <1>3, OthersMove DEF oldVars
  <2>2. \A i \in Intent : \/ state'[i] = state[i] /\ old'[i] = old[i]
                          \/ state[i] = "uploaded"
                          \/ cleaned[i] /\ state'[i] = "gone"
    BY <1>1, <1>3, OthersDecide
  <2>3. ASSUME NEW i \in Intent PROVE Tidied(i)'
    <3>1. CASE state'[i] = state[i] /\ old'[i] = old[i]
      BY <1>1, <2>1, <3>1 DEF Tidied
    <3>2. CASE state[i] = "uploaded"
      <4>1. ~held[i] /\ ~cleaned[i] /\ obj[i] = "none"
        BY <1>1, <3>2 DEF Tidied, Terminal
      <4> QED BY <2>1, <4>1 DEF Tidied
    <3>3. CASE cleaned[i] /\ state'[i] = "gone"
      BY <1>1, <2>1, <3>3 DEF Tidied, Terminal
    <3> QED BY <2>2, <3>1, <3>2, <3>3
  <2>4. ASSUME NEW w \in Worker PROVE Tidier(w)'
    <3>1. PICK i \in Intent : i = job[w] /\ i = job'[w]
      BY <1>1, <2>1
    <3>2. AtWork(w) => state'[i] = state[i]
      <4> SUFFICES ASSUME AtWork(w) PROVE state'[i] = state[i]
        OBVIOUS
      <4>1. state[i] = "finalizing" \/ (state[i] \in Terminal /\ ~cleaned[i])
        BY <1>1, <3>1 DEF AtWork, Tidier
      <4>2. state[i] # "uploaded" /\ (cleaned[i] => state[i] = "finalizing")
        BY <4>1 DEF Terminal
      <4>3. state[i] # "finalizing" \/ state'[i] # "gone"
        BY <1>1 DEF Forward, Terminal
      <4> QED BY <2>2, <4>2, <4>3
    <3>3. CASE pc'[w] = pc[w] /\ AtWork(w)
      BY <1>1, <2>1, <3>1, <3>2, <3>3 DEF Tidier
    <3>4. CASE pc'[w] = "idle" \/ (pc'[w] = pc[w] /\ ~AtWork(w))
      BY <3>4 DEF Tidier, AtWork, Finalizing, Tidying
    <3>5. CASE pc'[w] = "fail" /\ pc[w] \in Finalizing
      BY <1>1, <3>1, <3>2, <3>5 DEF Tidier, AtWork, Finalizing, Tidying
    <3>6. CASE pc'[w] = "cleanFail" /\ pc[w] \in Tidying
      BY <1>1, <2>1, <3>1, <3>2, <3>6 DEF Tidier, AtWork, Finalizing, Tidying
    <3> QED BY <2>1, <3>3, <3>4, <3>5, <3>6
  <2> QED BY <1>1, <2>3, <2>4 DEF TidyInv
<1> QED BY <1>2, <1>3

\* A cleanup that is recorded as completed has left neither the staged object,
\* nor the final object of an upload that was not kept, nor a replaced object
\* that was claimed, as long as no lease runs out under a worker that still
\* works: a finalizer that has lost its lease may save the final object late.
THEOREM CleanupLeavesNothingCorrect == Spec /\ NoOverrun => []CleanupLeavesNothing
<1>1. Init => TidyInv
  <2> SUFFICES ASSUME Init PROVE TidyInv
    OBVIOUS
  <2>1. TypeOK
    BY TypeInit
  <2>2. LeaseInv /\ \A w \in Worker : Tidier(w)
    BY DEF Init, LeaseInv, AtWork, Tidier, Finalizing, Tidying
  <2>3. \A i \in Intent : Tidied(i)
    BY ValuesAssumption DEF Init, Tidied, Key
  <2> QED BY <2>1, <2>2, <2>3 DEF TidyInv
<1>2. TidyInv /\ [Next]_vars /\ [\A i \in Intent : ~LeaseOverrun(i)]_vars => TidyInv'
  <2> SUFFICES ASSUME TidyInv, [Next]_vars, [\A i \in Intent : ~LeaseOverrun(i)]_vars PROVE TidyInv'
    OBVIOUS
  <2>1. CASE UNCHANGED vars
    <3> USE DEF vars, rowVars, oldVars, leaseVars, storeVars, clientVars, workerVars, writeVars
    <3>1. TypeOK' /\ LeaseInv' /\ \A i \in Intent : Tidied(i)'
      BY <2>1, TypeStep DEF TidyInv, LeaseInv, AtWork, HoldsLease, Tidied
    <3>2. \A w \in Worker : Tidier(w)'
      BY <2>1 DEF TidyInv, Tidier
    <3> QED BY <3>1, <3>2 DEF TidyInv
  <2>2. CASE \A i \in Intent : ~LeaseOverrun(i)
    BY <2>2, TidyStep
  <2> QED BY <2>1, <2>2
<1>3. TidyInv => CleanupLeavesNothing
  BY DEF TidyInv, Tidied, CleanupLeavesNothing
<1> QED BY <1>1, <1>2, <1>3, PTL DEF Spec, NoOverrun
=============================================================================
