------------------------ MODULE DependencyCacheProofs ------------------------
(***************************************************************************)
(* Theorems about DependencyCache, for any finite set of workers and any   *)
(* keys, rows, number of changes and number of crashes.  Three inductive   *)
(* invariants build on one another: the barrier (lock, count, flag), the   *)
(* index (metadata before and after the value), and freshness, which needs *)
(* both of them.                                                           *)
(***************************************************************************)
EXTENDS DependencyCache, FiniteSetTheorems, TLAPS

\* The initial state is well typed.
LEMMA TypeInit == Init => TypeOK
  BY ReadsAssumption DEF Init, TypeOK, Labels, LockHeld, ChangeOpen

\* Every step of a worker, of the clock or of the backend keeps the types.
LEMMA TypeStep ==
  ASSUME TypeOK, [Next]_vars
  PROVE  TypeOK'
<1> USE ProcAssumption, ReadsAssumption
        DEF TypeOK, Goto, AcquireLock, ReleaseLock, KeepLock,
            ForgetComputation, Labels, LockHeld, ChangeOpen, vars, dbVars,
            barrierVars, storeVars, computeVars
<1>1. ASSUME NEW p \in Proc, Mutate(p)
      PROVE  TypeOK'
  <2>1. row[p] \in Row /\ db[row[p]] + 1 \in Nat
    OBVIOUS
  <2>2. db' \in [Row -> Nat]
    BY <1>1, <2>1 DEF Mutate
  <2> QED
    BY <1>1, <2>2 DEF Mutate
<1>2. ASSUME NEW p \in Proc, ExitAtomic(p)
      PROVE  TypeOK'
  <2>1. row[p] \in Row /\ db[row[p]] + 1 \in Nat
    OBVIOUS
  <2>2. db' \in [Row -> Nat]
    BY <1>2, <2>1 DEF ExitAtomic
  <2> QED
    BY <1>2, <2>2 DEF ExitAtomic
<1>3. ASSUME NEW p \in Proc, LockTimeout(p)
      PROVE  TypeOK'
  <2>1. pc' \in [Proc -> Labels]
    BY <1>3 DEF LockTimeout
  <2>2. UNCHANGED computeVars \/ ForgetComputation(p)
    BY <1>3 DEF LockTimeout
  <2>3. /\ started' \in [Proc -> Nat]
        /\ read' \in [Proc -> SUBSET Row]
        /\ seen' \in [Proc -> [Row -> Nat]]
        /\ quietProc' \in SUBSET Proc
    <3>1. CASE UNCHANGED computeVars
      BY <3>1
    <3>2. CASE ForgetComputation(p)
      BY <3>2
    <3> QED
      BY <2>2, <3>1, <3>2
  <2>4. dirty' \in SUBSET Proc
    BY <1>3 DEF LockTimeout
  <2> QED
    BY <1>3, <2>1, <2>3, <2>4 DEF LockTimeout
<1>4. ASSUME NEW p \in Proc, NEW k \in Key, Call(p, k)
      PROVE  TypeOK'
  BY <1>4 DEF Call
<1>5. ASSUME NEW p \in Proc, NEW r \in Row, StartChange(p, r)
      PROVE  TypeOK'
  BY <1>5 DEF StartChange
<1>6. ASSUME NEW p \in Proc, AcquireLease(p)
      PROVE  TypeOK'
  BY <1>6 DEF AcquireLease
<1>7. ASSUME NEW p \in Proc, WaitForHit(p)
      PROVE  TypeOK'
  BY <1>7 DEF WaitForHit
<1>8. ASSUME NEW p \in Proc, HitUnderLease(p)
      PROVE  TypeOK'
  BY <1>8 DEF HitUnderLease
<1>9. ASSUME NEW p \in Proc, StartCompute(p)
      PROVE  TypeOK'
  BY <1>9 DEF StartCompute
<1>10. ASSUME NEW p \in Proc, NEW r \in Row, ReadRow(p, r)
      PROVE  TypeOK'
  BY <1>10 DEF ReadRow
<1>11. ASSUME NEW p \in Proc, NEW k \in Key, UseNestedHit(p, k)
      PROVE  TypeOK'
  BY <1>11 DEF UseNestedHit
<1>12. ASSUME NEW p \in Proc, ComputeReturns(p)
      PROVE  TypeOK'
  BY <1>12 DEF ComputeReturns
<1>13. ASSUME NEW p \in Proc, ComputeRaises(p)
      PROVE  TypeOK'
  BY <1>13 DEF ComputeRaises
<1>14. ASSUME NEW p \in Proc, PublishRecord(p)
      PROVE  TypeOK'
  BY <1>14 DEF PublishRecord
<1>15. ASSUME NEW p \in Proc, PublishStore(p)
      PROVE  TypeOK'
  BY <1>15 DEF PublishStore
<1>16. ASSUME NEW p \in Proc, ReleaseCheck(p)
      PROVE  TypeOK'
  BY <1>16 DEF ReleaseCheck
<1>17. ASSUME NEW p \in Proc, ReleaseDelete(p)
      PROVE  TypeOK'
  BY <1>17 DEF ReleaseDelete
<1>18. ASSUME NEW p \in Proc, BeginCount(p)
      PROVE  TypeOK'
  BY <1>18 DEF BeginCount
<1>19. ASSUME NEW p \in Proc, BeginFlag(p)
      PROVE  TypeOK'
  BY <1>19 DEF BeginFlag
<1>20. ASSUME NEW p \in Proc, ChangeRaises(p)
      PROVE  TypeOK'
  BY <1>20 DEF ChangeRaises
<1>21. ASSUME NEW p \in Proc, NEW k \in Key, InvalidateDelete(p, k)
      PROVE  TypeOK'
  BY <1>21 DEF InvalidateDelete
<1>22. ASSUME NEW p \in Proc, InvalidateRemove(p)
      PROVE  TypeOK'
  BY <1>22 DEF InvalidateRemove
<1>23. ASSUME NEW p \in Proc, InvalidateDone(p)
      PROVE  TypeOK'
  BY <1>23 DEF InvalidateDone
<1>24. ASSUME NEW p \in Proc, EndFlag(p)
      PROVE  TypeOK'
  BY <1>24 DEF EndFlag
<1>25. ASSUME NEW p \in Proc, OuterCommit(p)
      PROVE  TypeOK'
  BY <1>25 DEF OuterCommit
<1>26. ASSUME NEW p \in Proc, OuterRollback(p)
      PROVE  TypeOK'
  BY <1>26 DEF OuterRollback
<1>27. ASSUME NEW p \in Proc, PublishCheck(p)
      PROVE  TypeOK'
  BY <1>27 DEF PublishCheck
<1>28. ASSUME NEW p \in Proc, PublishAborts(p)
      PROVE  TypeOK'
  BY <1>28 DEF PublishAborts
<1>29. ASSUME NEW p \in Proc, BeginGeneration(p)
      PROVE  TypeOK'
  BY <1>29 DEF BeginGeneration
<1>30. ASSUME NEW p \in Proc, InvalidateStart(p)
      PROVE  TypeOK'
  BY <1>30 DEF InvalidateStart
<1>31. ASSUME NEW p \in Proc, EndCount(p)
      PROVE  TypeOK'
  BY <1>31 DEF EndCount
<1>32. ASSUME NEW p \in Proc, Crash(p)
      PROVE  TypeOK'
  BY <1>32 DEF Crash
<1>33. ASSUME \/ LockExpires \/ UNCHANGED vars
             \/ \E k \in Key : LeaseExpires(k) \/ Evict(k)
      PROVE  TypeOK'
  BY <1>33
     DEF LeaseExpires, Evict, LockExpires
<1> QED
  BY <1>1, <1>2, <1>3, <1>4, <1>5, <1>6, <1>7, <1>8, <1>9, <1>10, <1>11,
     <1>12, <1>13, <1>14, <1>15, <1>16, <1>17, <1>18, <1>19, <1>20, <1>21,
     <1>22, <1>23, <1>24, <1>25, <1>26, <1>27, <1>28, <1>29, <1>30, <1>31,
     <1>32, <1>33
     DEF Next, ProcStep, LocalStep, LockStep

\* The index lock is exclusive: acquire_lock succeeds only on a free lock,
\* release_lock is called by the owner, and only a dead owner's lock expires.
LEMMA LockDisciplineStep ==
  ASSUME TypeOK, LockDiscipline, [Next]_vars
  PROVE  LockDiscipline'
<1> USE ProcAssumption
        DEF TypeOK, LockDiscipline, Goto, AcquireLock, ReleaseLock, KeepLock,
            LockHeld, vars, dbVars, barrierVars, storeVars, computeVars
<1>1. ASSUME NEW p \in Proc,
               \/ \E k \in Key : Call(p, k)
               \/ \E r \in Row : StartChange(p, r)
               \/ AcquireLease(p) \/ Mutate(p) \/ WaitForHit(p)
               \/ HitUnderLease(p) \/ StartCompute(p)
               \/ \E r \in Row : ReadRow(p, r)
      PROVE  LockDiscipline'
  BY <1>1
     DEF Call, StartChange, AcquireLease, Mutate, WaitForHit, HitUnderLease,
         StartCompute, ReadRow
<1>2. ASSUME NEW p \in Proc,
               \/ \E k \in Key : UseNestedHit(p, k)
               \/ ComputeReturns(p) \/ ComputeRaises(p) \/ PublishRecord(p)
               \/ PublishStore(p) \/ ReleaseCheck(p) \/ ReleaseDelete(p)
               \/ BeginCount(p)
      PROVE  LockDiscipline'
  BY <1>2
     DEF UseNestedHit, ComputeReturns, ComputeRaises, PublishRecord,
         PublishStore, ReleaseCheck, ReleaseDelete, BeginCount
<1>3. ASSUME NEW p \in Proc,
               \/ BeginFlag(p) \/ ChangeRaises(p)
               \/ \E k \in Key : InvalidateDelete(p, k)
               \/ InvalidateRemove(p) \/ InvalidateDone(p) \/ ExitAtomic(p)
               \/ EndFlag(p) \/ OuterCommit(p)
      PROVE  LockDiscipline'
  BY <1>3
     DEF BeginFlag, ChangeRaises, InvalidateDelete, InvalidateRemove,
         InvalidateDone, ExitAtomic, EndFlag, OuterCommit
<1>4. ASSUME NEW p \in Proc,
               \/ OuterRollback(p) \/ PublishCheck(p) \/ PublishAborts(p)
               \/ BeginGeneration(p) \/ InvalidateStart(p) \/ EndCount(p)
               \/ LockTimeout(p) \/ Crash(p)
      PROVE  LockDiscipline'
  BY <1>4
     DEF OuterRollback, PublishCheck, PublishAborts, BeginGeneration,
         InvalidateStart, EndCount, LockTimeout, Crash
<1>5. ASSUME \/ LockExpires \/ UNCHANGED vars
             \/ \E k \in Key : LeaseExpires(k) \/ Evict(k)
      PROVE  LockDiscipline'
  BY <1>5
     DEF LeaseExpires, Evict, LockExpires
<1> QED
  BY <1>1, <1>2, <1>3, <1>4, <1>5
     DEF Next, ProcStep, LocalStep, LockStep

\* Adding an element adds at most one to the cardinality.
LEMMA CardinalityPlusOne ==
  ASSUME NEW S, NEW T, NEW x, IsFiniteSet(S), T = S \cup {x}
  PROVE  /\ Cardinality(S) \in Nat
         /\ Cardinality(T) \in Nat
         /\ Cardinality(T) <= Cardinality(S) + 1
<1>1. /\ IsFiniteSet(T)
      /\ Cardinality(T) = IF x \in S THEN Cardinality(S) ELSE Cardinality(S) + 1
  BY FS_AddElement
<1>2. Cardinality(S) \in Nat /\ Cardinality(T) \in Nat
  BY <1>1, FS_CardinalityType
<1> QED
  BY <1>1, <1>2

\* Removing an element takes one from the cardinality.
LEMMA CardinalityMinusOne ==
  ASSUME NEW S, NEW T, NEW x \in S, IsFiniteSet(S), T = S \ {x}
  PROVE  /\ Cardinality(S) \in Nat
         /\ Cardinality(T) \in Nat
         /\ Cardinality(T) = Cardinality(S) - 1
  BY FS_RemoveElement, FS_CardinalityType

\* A step that brings no worker into the counted section keeps the count.
LEMMA CountMonotone ==
  ASSUME CountCoversChanges, UNCHANGED changeCount, TypeOK,
         \A p \in Proc : pc'[p] \in Counted => pc[p] \in Counted
  PROVE  CountCoversChanges'
<1> DEFINE C == {p \in Proc : pc[p] \in Counted}
<1>1. C' \subseteq C /\ IsFiniteSet(C) /\ IsFiniteSet(C')
  BY ProcAssumption, FS_Subset
<1>2. Cardinality(C') <= Cardinality(C)
  BY <1>1, FS_Subset
<1>3. Cardinality(C') \in Nat /\ Cardinality(C) \in Nat
  BY <1>1, FS_CardinalityType
<1> QED
  BY <1>2, <1>3 DEF CountCoversChanges, TypeOK

\* begin and end of a change keep the count in step with the open changes;
\* nothing else brings a worker into the counted section.
LEMMA CountStep ==
  ASSUME TypeOK, CountCoversChanges, [Next]_vars
  PROVE  CountCoversChanges'
<1> USE ProcAssumption
        DEF TypeOK, Goto, Counted, ChangeOpen, vars, dbVars, barrierVars,
            storeVars, computeVars
<1>1. ASSUME NEW p \in Proc, BeginCount(p)
      PROVE  CountCoversChanges'
  <2> DEFINE C == {q \in Proc : pc[q] \in Counted}
  <2>1. C' = C \cup {p}
    BY <1>1 DEF BeginCount
  <2>2. IsFiniteSet(C)
    BY FS_Subset
  <2>3. /\ Cardinality(C) \in Nat
        /\ Cardinality(C') \in Nat
        /\ Cardinality(C') <= Cardinality(C) + 1
    BY <2>1, <2>2, CardinalityPlusOne, Zenon
  <2> QED
    BY <1>1, <2>3 DEF BeginCount, CountCoversChanges
<1>2. ASSUME NEW p \in Proc, EndCount(p)
      PROVE  CountCoversChanges'
  <2> DEFINE C == {q \in Proc : pc[q] \in Counted}
  <2>1. p \in C /\ C' = C \ {p}
    BY <1>2 DEF EndCount
  <2>2. IsFiniteSet(C)
    BY FS_Subset
  <2>3. /\ Cardinality(C) \in Nat
        /\ Cardinality(C') \in Nat
        /\ Cardinality(C') = Cardinality(C) - 1
    BY <2>1, <2>2, CardinalityMinusOne, Zenon
  <2> QED
    BY <1>2, <2>3 DEF EndCount, CountCoversChanges
<1>3. ASSUME NEW p \in Proc,
               \/ \E k \in Key : Call(p, k)
               \/ \E r \in Row : StartChange(p, r)
               \/ AcquireLease(p) \/ Mutate(p) \/ WaitForHit(p)
               \/ HitUnderLease(p) \/ StartCompute(p)
               \/ \E r \in Row : ReadRow(p, r)
      PROVE  CountCoversChanges'
  BY <1>3, CountMonotone
     DEF Call, StartChange, AcquireLease, Mutate, WaitForHit, HitUnderLease,
         StartCompute, ReadRow
<1>4. ASSUME NEW p \in Proc,
               \/ \E k \in Key : UseNestedHit(p, k)
               \/ ComputeReturns(p) \/ ComputeRaises(p) \/ PublishRecord(p)
               \/ PublishStore(p) \/ ReleaseCheck(p) \/ ReleaseDelete(p)
               \/ BeginFlag(p)
      PROVE  CountCoversChanges'
  BY <1>4, CountMonotone
     DEF UseNestedHit, ComputeReturns, ComputeRaises, PublishRecord,
         PublishStore, ReleaseCheck, ReleaseDelete, BeginFlag
<1>5. ASSUME NEW p \in Proc,
               \/ ChangeRaises(p)
               \/ \E k \in Key : InvalidateDelete(p, k)
               \/ InvalidateRemove(p) \/ InvalidateDone(p) \/ ExitAtomic(p)
               \/ EndFlag(p) \/ OuterCommit(p) \/ OuterRollback(p)
      PROVE  CountCoversChanges'
  BY <1>5, CountMonotone
     DEF ChangeRaises, InvalidateDelete, InvalidateRemove, InvalidateDone,
         ExitAtomic, EndFlag, OuterCommit, OuterRollback
<1>6. ASSUME NEW p \in Proc,
               \/ PublishCheck(p) \/ PublishAborts(p) \/ BeginGeneration(p)
               \/ InvalidateStart(p) \/ LockTimeout(p) \/ Crash(p)
      PROVE  CountCoversChanges'
  BY <1>6, CountMonotone
     DEF PublishCheck, PublishAborts, BeginGeneration, InvalidateStart,
         LockTimeout, Crash
<1>7. ASSUME \/ LockExpires \/ UNCHANGED vars
             \/ \E k \in Key : LeaseExpires(k) \/ Evict(k)
      PROVE  CountCoversChanges'
  BY <1>7, CountMonotone
     DEF LeaseExpires, Evict, LockExpires
<1> QED
  BY <1>1, <1>2, <1>3, <1>4, <1>5, <1>6, <1>7
     DEF Next, ProcStep, LocalStep, LockStep

\* Only EndFlag takes the flag down, and only when nothing is counted.
LEMMA BarrierUpStep ==
  ASSUME TypeOK, BarrierInv, [Next]_vars
  PROVE  BarrierUpDuringChange'
<1> USE ProcAssumption
        DEF TypeOK, LockDiscipline, BarrierUpDuringChange, BarrierUp, Goto,
            AcquireLock, ReleaseLock, KeepLock, LockHeld, Counted,
            ChangeOpen, vars, dbVars, barrierVars, storeVars, computeVars
<1>1. ASSUME NEW p \in Proc, EndFlag(p)
      PROVE  BarrierUpDuringChange'
  <2> DEFINE C == {q \in Proc : pc[q] \in Counted}
  <2>1. CASE changeCount = 0
    <3>1. IsFiniteSet(C)
      BY FS_Subset
    <3>2. C = {}
      <4>1. Cardinality(C) \in Nat
        BY <3>1, FS_CardinalityType, Zenon
      <4>2. Cardinality(C) = 0
        BY <2>1, <4>1 DEF BarrierInv, CountCoversChanges
      <4> QED
        BY <3>1, <4>2, FS_EmptySet, Zenon
    <3> QED
      BY <1>1, <3>2 DEF EndFlag
  <2>2. CASE changeCount # 0
    BY <1>1, <2>2 DEF EndFlag
  <2> QED
    BY <2>1, <2>2
<1>2. ASSUME NEW p \in Proc, NEW k \in Key, Call(p, k)
      PROVE  BarrierUpDuringChange'
  BY <1>2 DEF Call, BarrierInv
<1>3. ASSUME NEW p \in Proc, NEW r \in Row, StartChange(p, r)
      PROVE  BarrierUpDuringChange'
  BY <1>3 DEF StartChange, BarrierInv
<1>4. ASSUME NEW p \in Proc, AcquireLease(p)
      PROVE  BarrierUpDuringChange'
  BY <1>4 DEF AcquireLease, BarrierInv
<1>5. ASSUME NEW p \in Proc, Mutate(p)
      PROVE  BarrierUpDuringChange'
  BY <1>5 DEF Mutate, BarrierInv
<1>6. ASSUME NEW p \in Proc, WaitForHit(p)
      PROVE  BarrierUpDuringChange'
  BY <1>6 DEF WaitForHit, BarrierInv
<1>7. ASSUME NEW p \in Proc, HitUnderLease(p)
      PROVE  BarrierUpDuringChange'
  BY <1>7 DEF HitUnderLease, BarrierInv
<1>8. ASSUME NEW p \in Proc, StartCompute(p)
      PROVE  BarrierUpDuringChange'
  BY <1>8 DEF StartCompute, BarrierInv
<1>9. ASSUME NEW p \in Proc, NEW r \in Row, ReadRow(p, r)
      PROVE  BarrierUpDuringChange'
  BY <1>9 DEF ReadRow, BarrierInv
<1>10. ASSUME NEW p \in Proc, NEW k \in Key, UseNestedHit(p, k)
      PROVE  BarrierUpDuringChange'
  BY <1>10 DEF UseNestedHit, BarrierInv
<1>11. ASSUME NEW p \in Proc, ComputeReturns(p)
      PROVE  BarrierUpDuringChange'
  BY <1>11 DEF ComputeReturns, BarrierInv
<1>12. ASSUME NEW p \in Proc, ComputeRaises(p)
      PROVE  BarrierUpDuringChange'
  BY <1>12 DEF ComputeRaises, BarrierInv
<1>13. ASSUME NEW p \in Proc, PublishRecord(p)
      PROVE  BarrierUpDuringChange'
  BY <1>13 DEF PublishRecord, BarrierInv
<1>14. ASSUME NEW p \in Proc, PublishStore(p)
      PROVE  BarrierUpDuringChange'
  BY <1>14 DEF PublishStore, BarrierInv
<1>15. ASSUME NEW p \in Proc, ReleaseCheck(p)
      PROVE  BarrierUpDuringChange'
  BY <1>15 DEF ReleaseCheck, BarrierInv
<1>16. ASSUME NEW p \in Proc, ReleaseDelete(p)
      PROVE  BarrierUpDuringChange'
  BY <1>16 DEF ReleaseDelete, BarrierInv
<1>17. ASSUME NEW p \in Proc, BeginCount(p)
      PROVE  BarrierUpDuringChange'
  BY <1>17 DEF BeginCount, BarrierInv
<1>18. ASSUME NEW p \in Proc, BeginFlag(p)
      PROVE  BarrierUpDuringChange'
  BY <1>18 DEF BeginFlag, BarrierInv
<1>19. ASSUME NEW p \in Proc, ChangeRaises(p)
      PROVE  BarrierUpDuringChange'
  BY <1>19 DEF ChangeRaises, BarrierInv
<1>20. ASSUME NEW p \in Proc, NEW k \in Key, InvalidateDelete(p, k)
      PROVE  BarrierUpDuringChange'
  BY <1>20 DEF InvalidateDelete, BarrierInv
<1>21. ASSUME NEW p \in Proc, InvalidateRemove(p)
      PROVE  BarrierUpDuringChange'
  BY <1>21 DEF InvalidateRemove, BarrierInv
<1>22. ASSUME NEW p \in Proc, InvalidateDone(p)
      PROVE  BarrierUpDuringChange'
  BY <1>22 DEF InvalidateDone, BarrierInv
<1>23. ASSUME NEW p \in Proc, ExitAtomic(p)
      PROVE  BarrierUpDuringChange'
  BY <1>23 DEF ExitAtomic, BarrierInv
<1>24. ASSUME NEW p \in Proc, OuterCommit(p)
      PROVE  BarrierUpDuringChange'
  BY <1>24 DEF OuterCommit, BarrierInv
<1>25. ASSUME NEW p \in Proc, OuterRollback(p)
      PROVE  BarrierUpDuringChange'
  BY <1>25 DEF OuterRollback, BarrierInv
<1>26. ASSUME NEW p \in Proc, PublishCheck(p)
      PROVE  BarrierUpDuringChange'
  BY <1>26 DEF PublishCheck, BarrierInv
<1>27. ASSUME NEW p \in Proc, PublishAborts(p)
      PROVE  BarrierUpDuringChange'
  BY <1>27 DEF PublishAborts, BarrierInv
<1>28. ASSUME NEW p \in Proc, BeginGeneration(p)
      PROVE  BarrierUpDuringChange'
  BY <1>28 DEF BeginGeneration, BarrierInv
<1>29. ASSUME NEW p \in Proc, InvalidateStart(p)
      PROVE  BarrierUpDuringChange'
  BY <1>29 DEF InvalidateStart, BarrierInv
<1>30. ASSUME NEW p \in Proc, EndCount(p)
      PROVE  BarrierUpDuringChange'
  BY <1>30 DEF EndCount, BarrierInv
<1>31. ASSUME NEW p \in Proc, LockTimeout(p)
      PROVE  BarrierUpDuringChange'
  BY <1>31 DEF LockTimeout, BarrierInv
<1>32. ASSUME NEW p \in Proc, Crash(p)
      PROVE  BarrierUpDuringChange'
  BY <1>32 DEF Crash, BarrierInv
<1>33. ASSUME \/ LockExpires \/ UNCHANGED vars
             \/ \E k \in Key : LeaseExpires(k) \/ Evict(k)
      PROVE  BarrierUpDuringChange'
  BY <1>33
     DEF LeaseExpires, Evict, LockExpires, BarrierInv
<1> QED
  BY <1>1, <1>2, <1>3, <1>4, <1>5, <1>6, <1>7, <1>8, <1>9, <1>10, <1>11,
     <1>12, <1>13, <1>14, <1>15, <1>16, <1>17, <1>18, <1>19, <1>20, <1>21,
     <1>22, <1>23, <1>24, <1>25, <1>26, <1>27, <1>28, <1>29, <1>30, <1>31,
     <1>32, <1>33
     DEF Next, ProcStep, LocalStep, LockStep

\* Metadata goes in before the value and out after it, under one lock, so a
\* visible value never loses its index entries.
LEMMA IndexStep ==
  ASSUME TypeOK, LockDiscipline, IndexInv, [Next]_vars
  PROVE  IndexInv'
<1> USE ProcAssumption, ReadsAssumption, NoEntryAssumption
        DEF TypeOK, LockDiscipline, IndexInv, IndexCoversEntries, Goto,
            AcquireLock, ReleaseLock, KeepLock, ForgetComputation, LockHeld,
            Computing, vars, dbVars, barrierVars, storeVars, computeVars
<1>1. ASSUME NEW p \in Proc, PublishStore(p)
      PROVE  IndexInv'
  <2>1. lock = p /\ \A q \in Proc \ {p} : pc[q] \notin LockHeld
    BY <1>1 DEF PublishStore
  <2>2. ASSUME NEW k \in Key, entries'[k] # NoEntry, NEW r \in Reads[k]
        PROVE  k \in index'[r]
    <3>1. CASE k = key[p] /\ pc[p] = "store"
      BY <1>1, <3>1 DEF PublishStore
    <3>2. CASE k # key[p]
      BY <1>1, <2>2, <3>2 DEF PublishStore
    <3> QED
      BY <1>1, <3>1, <3>2 DEF PublishStore
  <2>3. ASSUME NEW q \in Proc
        PROVE  /\ (pc[q] \in Computing \ {"compute"} => read[q] = Reads[key[q]])'
               /\ (pc[q] = "store" => \A r \in Reads[key[q]] : key[q] \in index[r])'
               /\ (pc[q] = "removing" => entries[key[q]] = NoEntry)'
    BY <1>1, <2>1 DEF PublishStore
  <2> QED
    BY <2>2, <2>3
<1>2. ASSUME NEW p \in Proc, NEW k \in Key, Call(p, k)
      PROVE  IndexInv'
  BY <1>2 DEF Call
<1>3. ASSUME NEW p \in Proc, NEW r \in Row, StartChange(p, r)
      PROVE  IndexInv'
  BY <1>3 DEF StartChange
<1>4. ASSUME NEW p \in Proc, AcquireLease(p)
      PROVE  IndexInv'
  BY <1>4 DEF AcquireLease
<1>5. ASSUME NEW p \in Proc, Mutate(p)
      PROVE  IndexInv'
  BY <1>5 DEF Mutate
<1>6. ASSUME NEW p \in Proc, WaitForHit(p)
      PROVE  IndexInv'
  BY <1>6 DEF WaitForHit
<1>7. ASSUME NEW p \in Proc, HitUnderLease(p)
      PROVE  IndexInv'
  BY <1>7 DEF HitUnderLease
<1>8. ASSUME NEW p \in Proc, StartCompute(p)
      PROVE  IndexInv'
  BY <1>8 DEF StartCompute
<1>9. ASSUME NEW p \in Proc, NEW r \in Row, ReadRow(p, r)
      PROVE  IndexInv'
  BY <1>9 DEF ReadRow
<1>10. ASSUME NEW p \in Proc, NEW k \in Key, UseNestedHit(p, k)
      PROVE  IndexInv'
  BY <1>10 DEF UseNestedHit
<1>11. ASSUME NEW p \in Proc, ComputeReturns(p)
      PROVE  IndexInv'
  BY <1>11 DEF ComputeReturns
<1>12. ASSUME NEW p \in Proc, ComputeRaises(p)
      PROVE  IndexInv'
  BY <1>12 DEF ComputeRaises
<1>13. ASSUME NEW p \in Proc, PublishRecord(p)
      PROVE  IndexInv'
  BY <1>13 DEF PublishRecord
<1>14. ASSUME NEW p \in Proc, ReleaseCheck(p)
      PROVE  IndexInv'
  BY <1>14 DEF ReleaseCheck
<1>15. ASSUME NEW p \in Proc, ReleaseDelete(p)
      PROVE  IndexInv'
  BY <1>15 DEF ReleaseDelete
<1>16. ASSUME NEW p \in Proc, BeginCount(p)
      PROVE  IndexInv'
  BY <1>16 DEF BeginCount
<1>17. ASSUME NEW p \in Proc, BeginFlag(p)
      PROVE  IndexInv'
  BY <1>17 DEF BeginFlag
<1>18. ASSUME NEW p \in Proc, ChangeRaises(p)
      PROVE  IndexInv'
  BY <1>18 DEF ChangeRaises
<1>19. ASSUME NEW p \in Proc, NEW k \in Key, InvalidateDelete(p, k)
      PROVE  IndexInv'
  BY <1>19 DEF InvalidateDelete
<1>20. ASSUME NEW p \in Proc, InvalidateRemove(p)
      PROVE  IndexInv'
  BY <1>20 DEF InvalidateRemove
<1>21. ASSUME NEW p \in Proc, InvalidateDone(p)
      PROVE  IndexInv'
  BY <1>21 DEF InvalidateDone
<1>22. ASSUME NEW p \in Proc, ExitAtomic(p)
      PROVE  IndexInv'
  BY <1>22 DEF ExitAtomic
<1>23. ASSUME NEW p \in Proc, EndFlag(p)
      PROVE  IndexInv'
  BY <1>23 DEF EndFlag
<1>24. ASSUME NEW p \in Proc, OuterCommit(p)
      PROVE  IndexInv'
  BY <1>24 DEF OuterCommit
<1>25. ASSUME NEW p \in Proc, OuterRollback(p)
      PROVE  IndexInv'
  BY <1>25 DEF OuterRollback
<1>26. ASSUME NEW p \in Proc, PublishCheck(p)
      PROVE  IndexInv'
  BY <1>26 DEF PublishCheck
<1>27. ASSUME NEW p \in Proc, PublishAborts(p)
      PROVE  IndexInv'
  BY <1>27 DEF PublishAborts
<1>28. ASSUME NEW p \in Proc, BeginGeneration(p)
      PROVE  IndexInv'
  BY <1>28 DEF BeginGeneration
<1>29. ASSUME NEW p \in Proc, InvalidateStart(p)
      PROVE  IndexInv'
  BY <1>29 DEF InvalidateStart
<1>30. ASSUME NEW p \in Proc, EndCount(p)
      PROVE  IndexInv'
  BY <1>30 DEF EndCount
<1>31. ASSUME NEW p \in Proc, LockTimeout(p)
      PROVE  IndexInv'
  BY <1>31 DEF LockTimeout
<1>32. ASSUME NEW p \in Proc, Crash(p)
      PROVE  IndexInv'
  BY <1>32 DEF Crash
<1>33. ASSUME \/ LockExpires \/ UNCHANGED vars
             \/ \E k \in Key : LeaseExpires(k) \/ Evict(k)
      PROVE  IndexInv'
  BY <1>33
     DEF LeaseExpires, Evict, LockExpires
<1> QED
  BY <1>1, <1>2, <1>3, <1>4, <1>5, <1>6, <1>7, <1>8, <1>9, <1>10, <1>11,
     <1>12, <1>13, <1>14, <1>15, <1>16, <1>17, <1>18, <1>19, <1>20, <1>21,
     <1>22, <1>23, <1>24, <1>25, <1>26, <1>27, <1>28, <1>29, <1>30, <1>31,
     <1>32, <1>33
     DEF Next, ProcStep, LocalStep, LockStep

\* In the designed setting the write of a change is committed or rolled back
\* before data_change returns.
LEMMA TransactionStep ==
  ASSUME Sound, TypeOK, TransactionInv, [Next]_vars
  PROVE  TransactionInv'
<1> USE ProcAssumption
        DEF Sound, TypeOK, TransactionInv, Goto, vars, dbVars, barrierVars,
            storeVars, computeVars
<1>1. ASSUME NEW p \in Proc,
               \/ \E k \in Key : Call(p, k)
               \/ \E r \in Row : StartChange(p, r)
               \/ AcquireLease(p) \/ Mutate(p) \/ WaitForHit(p)
               \/ HitUnderLease(p) \/ StartCompute(p)
               \/ \E r \in Row : ReadRow(p, r)
      PROVE  TransactionInv'
  BY <1>1
     DEF Call, StartChange, AcquireLease, Mutate, WaitForHit, HitUnderLease,
         StartCompute, ReadRow
<1>2. ASSUME NEW p \in Proc,
               \/ \E k \in Key : UseNestedHit(p, k)
               \/ ComputeReturns(p) \/ ComputeRaises(p) \/ PublishRecord(p)
               \/ PublishStore(p) \/ ReleaseCheck(p) \/ ReleaseDelete(p)
               \/ BeginCount(p)
      PROVE  TransactionInv'
  BY <1>2
     DEF UseNestedHit, ComputeReturns, ComputeRaises, PublishRecord,
         PublishStore, ReleaseCheck, ReleaseDelete, BeginCount
<1>3. ASSUME NEW p \in Proc,
               \/ BeginFlag(p) \/ ChangeRaises(p)
               \/ \E k \in Key : InvalidateDelete(p, k)
               \/ InvalidateRemove(p) \/ InvalidateDone(p) \/ ExitAtomic(p)
               \/ EndFlag(p) \/ OuterCommit(p)
      PROVE  TransactionInv'
  BY <1>3
     DEF BeginFlag, ChangeRaises, InvalidateDelete, InvalidateRemove,
         InvalidateDone, ExitAtomic, EndFlag, OuterCommit
<1>4. ASSUME NEW p \in Proc,
               \/ OuterRollback(p) \/ PublishCheck(p) \/ PublishAborts(p)
               \/ BeginGeneration(p) \/ InvalidateStart(p) \/ EndCount(p)
               \/ LockTimeout(p) \/ Crash(p)
      PROVE  TransactionInv'
  BY <1>4
     DEF OuterRollback, PublishCheck, PublishAborts, BeginGeneration,
         InvalidateStart, EndCount, LockTimeout, Crash
<1>5. ASSUME \/ LockExpires \/ UNCHANGED vars
             \/ \E k \in Key : LeaseExpires(k) \/ Evict(k)
      PROVE  TransactionInv'
  BY <1>5
     DEF LeaseExpires, Evict, LockExpires
<1> QED
  BY <1>1, <1>2, <1>3, <1>4, <1>5
     DEF Next, ProcStep, LocalStep, LockStep

\* The invalidation leaves no entry that depends on the changed row, and the
\* barrier keeps new ones out until the change has committed.
LEMMA InvalidatedStep ==
  ASSUME TypeOK, BarrierInv, IndexInv, InvalidatedInv, [Next]_vars
  PROVE  InvalidatedInv'
<1> USE ProcAssumption, ReadsAssumption
        DEF TypeOK, InvalidatedInv, Goto, vars, dbVars, barrierVars,
            storeVars, computeVars
<1>1. ASSUME NEW p \in Proc, PublishStore(p)
      PROVE  InvalidatedInv'
  <2>1. CASE PublishCurrent(p)
    <3>1. \A q \in Proc : pc'[q] # "exit"
      BY <1>1, <2>1 DEF PublishStore, PublishCurrent, BarrierInv,
                     BarrierUpDuringChange, Counted, ChangeOpen
    <3> QED
      BY <3>1
  <2>2. CASE ~PublishCurrent(p)
    BY <1>1, <2>2 DEF PublishStore
  <2> QED
    BY <2>1, <2>2
<1>2. ASSUME NEW p \in Proc, InvalidateDone(p)
      PROVE  InvalidatedInv'
  <2>1. \A k \in Key : row[p] \in Reads[k] => entries[k] = NoEntry
    BY <1>2 DEF InvalidateDone, IndexInv, IndexCoversEntries
  <2> QED
    BY <1>2, <2>1 DEF InvalidateDone
<1>3. ASSUME NEW p \in Proc, NEW k \in Key, Call(p, k)
      PROVE  InvalidatedInv'
  BY <1>3 DEF Call
<1>4. ASSUME NEW p \in Proc, NEW r \in Row, StartChange(p, r)
      PROVE  InvalidatedInv'
  BY <1>4 DEF StartChange
<1>5. ASSUME NEW p \in Proc, AcquireLease(p)
      PROVE  InvalidatedInv'
  BY <1>5 DEF AcquireLease
<1>6. ASSUME NEW p \in Proc, Mutate(p)
      PROVE  InvalidatedInv'
  BY <1>6 DEF Mutate
<1>7. ASSUME NEW p \in Proc, WaitForHit(p)
      PROVE  InvalidatedInv'
  BY <1>7 DEF WaitForHit
<1>8. ASSUME NEW p \in Proc, HitUnderLease(p)
      PROVE  InvalidatedInv'
  BY <1>8 DEF HitUnderLease
<1>9. ASSUME NEW p \in Proc, StartCompute(p)
      PROVE  InvalidatedInv'
  BY <1>9 DEF StartCompute
<1>10. ASSUME NEW p \in Proc, NEW r \in Row, ReadRow(p, r)
      PROVE  InvalidatedInv'
  BY <1>10 DEF ReadRow
<1>11. ASSUME NEW p \in Proc, NEW k \in Key, UseNestedHit(p, k)
      PROVE  InvalidatedInv'
  BY <1>11 DEF UseNestedHit
<1>12. ASSUME NEW p \in Proc, ComputeReturns(p)
      PROVE  InvalidatedInv'
  BY <1>12 DEF ComputeReturns
<1>13. ASSUME NEW p \in Proc, ComputeRaises(p)
      PROVE  InvalidatedInv'
  BY <1>13 DEF ComputeRaises
<1>14. ASSUME NEW p \in Proc, PublishRecord(p)
      PROVE  InvalidatedInv'
  BY <1>14 DEF PublishRecord
<1>15. ASSUME NEW p \in Proc, ReleaseCheck(p)
      PROVE  InvalidatedInv'
  BY <1>15 DEF ReleaseCheck
<1>16. ASSUME NEW p \in Proc, ReleaseDelete(p)
      PROVE  InvalidatedInv'
  BY <1>16 DEF ReleaseDelete
<1>17. ASSUME NEW p \in Proc, BeginCount(p)
      PROVE  InvalidatedInv'
  BY <1>17 DEF BeginCount
<1>18. ASSUME NEW p \in Proc, BeginFlag(p)
      PROVE  InvalidatedInv'
  BY <1>18 DEF BeginFlag
<1>19. ASSUME NEW p \in Proc, ChangeRaises(p)
      PROVE  InvalidatedInv'
  BY <1>19 DEF ChangeRaises
<1>20. ASSUME NEW p \in Proc, NEW k \in Key, InvalidateDelete(p, k)
      PROVE  InvalidatedInv'
  BY <1>20 DEF InvalidateDelete
<1>21. ASSUME NEW p \in Proc, InvalidateRemove(p)
      PROVE  InvalidatedInv'
  BY <1>21 DEF InvalidateRemove
<1>22. ASSUME NEW p \in Proc, ExitAtomic(p)
      PROVE  InvalidatedInv'
  BY <1>22 DEF ExitAtomic
<1>23. ASSUME NEW p \in Proc, EndFlag(p)
      PROVE  InvalidatedInv'
  BY <1>23 DEF EndFlag
<1>24. ASSUME NEW p \in Proc, OuterCommit(p)
      PROVE  InvalidatedInv'
  BY <1>24 DEF OuterCommit
<1>25. ASSUME NEW p \in Proc, OuterRollback(p)
      PROVE  InvalidatedInv'
  BY <1>25 DEF OuterRollback
<1>26. ASSUME NEW p \in Proc, PublishCheck(p)
      PROVE  InvalidatedInv'
  BY <1>26 DEF PublishCheck
<1>27. ASSUME NEW p \in Proc, PublishAborts(p)
      PROVE  InvalidatedInv'
  BY <1>27 DEF PublishAborts
<1>28. ASSUME NEW p \in Proc, BeginGeneration(p)
      PROVE  InvalidatedInv'
  BY <1>28 DEF BeginGeneration
<1>29. ASSUME NEW p \in Proc, InvalidateStart(p)
      PROVE  InvalidatedInv'
  BY <1>29 DEF InvalidateStart
<1>30. ASSUME NEW p \in Proc, EndCount(p)
      PROVE  InvalidatedInv'
  BY <1>30 DEF EndCount
<1>31. ASSUME NEW p \in Proc, LockTimeout(p)
      PROVE  InvalidatedInv'
  BY <1>31 DEF LockTimeout
<1>32. ASSUME NEW p \in Proc, Crash(p)
      PROVE  InvalidatedInv'
  BY <1>32 DEF Crash
<1>33. ASSUME \/ LockExpires \/ UNCHANGED vars
             \/ \E k \in Key : LeaseExpires(k) \/ Evict(k)
      PROVE  InvalidatedInv'
  BY <1>33
     DEF LeaseExpires, Evict, LockExpires
<1> QED
  BY <1>1, <1>2, <1>3, <1>4, <1>5, <1>6, <1>7, <1>8, <1>9, <1>10, <1>11,
     <1>12, <1>13, <1>14, <1>15, <1>16, <1>17, <1>18, <1>19, <1>20, <1>21,
     <1>22, <1>23, <1>24, <1>25, <1>26, <1>27, <1>28, <1>29, <1>30, <1>31,
     <1>32, <1>33
     DEF Next, ProcStep, LocalStep, LockStep

\* A change that opens makes every running computation old (BeginGeneration),
\* so a quiet computation of the current generation has met no commit.
LEMMA ComputationStep ==
  ASSUME Sound, TypeOK, TransactionInv, QuietEntriesFresh, ComputationInv, [Next]_vars
  PROVE  ComputationInv'
<1> USE ProcAssumption, ReadsAssumption
        DEF Sound, TypeOK, ComputationInv, NoChangeOpen, Computing,
            ChangeOpen, Goto, ForgetComputation, vars, dbVars, barrierVars,
            storeVars, computeVars
<1>1. ASSUME NEW p \in Proc, NEW k \in Key, UseNestedHit(p, k)
      PROVE  ComputationInv'
  <2>1. ASSUME k \in quietEntry, NEW r \in Reads[k]
        PROVE  entries[k][r] = db[r]
    BY <2>1 DEF QuietEntriesFresh, Fresh
  <2> QED
    BY <1>1, <2>1 DEF UseNestedHit
<1>2. ASSUME NEW p \in Proc, OuterCommit(p)
      PROVE  ComputationInv'
  BY <1>2 DEF OuterCommit, TransactionInv
<1>3. ASSUME NEW p \in Proc, OuterRollback(p)
      PROVE  ComputationInv'
  BY <1>3 DEF OuterRollback, TransactionInv
<1>4. ASSUME NEW p \in Proc, NEW k \in Key, Call(p, k)
      PROVE  ComputationInv'
  BY <1>4 DEF Call
<1>5. ASSUME NEW p \in Proc, NEW r \in Row, StartChange(p, r)
      PROVE  ComputationInv'
  BY <1>5 DEF StartChange
<1>6. ASSUME NEW p \in Proc, AcquireLease(p)
      PROVE  ComputationInv'
  BY <1>6 DEF AcquireLease
<1>7. ASSUME NEW p \in Proc, Mutate(p)
      PROVE  ComputationInv'
  BY <1>7 DEF Mutate
<1>8. ASSUME NEW p \in Proc, WaitForHit(p)
      PROVE  ComputationInv'
  BY <1>8 DEF WaitForHit
<1>9. ASSUME NEW p \in Proc, HitUnderLease(p)
      PROVE  ComputationInv'
  BY <1>9 DEF HitUnderLease
<1>10. ASSUME NEW p \in Proc, StartCompute(p)
      PROVE  ComputationInv'
  BY <1>10 DEF StartCompute
<1>11. ASSUME NEW p \in Proc, NEW r \in Row, ReadRow(p, r)
      PROVE  ComputationInv'
  BY <1>11 DEF ReadRow
<1>12. ASSUME NEW p \in Proc, ComputeReturns(p)
      PROVE  ComputationInv'
  BY <1>12 DEF ComputeReturns
<1>13. ASSUME NEW p \in Proc, ComputeRaises(p)
      PROVE  ComputationInv'
  BY <1>13 DEF ComputeRaises
<1>14. ASSUME NEW p \in Proc, PublishRecord(p)
      PROVE  ComputationInv'
  BY <1>14 DEF PublishRecord
<1>15. ASSUME NEW p \in Proc, PublishStore(p)
      PROVE  ComputationInv'
  BY <1>15 DEF PublishStore
<1>16. ASSUME NEW p \in Proc, ReleaseCheck(p)
      PROVE  ComputationInv'
  BY <1>16 DEF ReleaseCheck
<1>17. ASSUME NEW p \in Proc, ReleaseDelete(p)
      PROVE  ComputationInv'
  BY <1>17 DEF ReleaseDelete
<1>18. ASSUME NEW p \in Proc, BeginCount(p)
      PROVE  ComputationInv'
  BY <1>18 DEF BeginCount
<1>19. ASSUME NEW p \in Proc, BeginFlag(p)
      PROVE  ComputationInv'
  BY <1>19 DEF BeginFlag
<1>20. ASSUME NEW p \in Proc, ChangeRaises(p)
      PROVE  ComputationInv'
  BY <1>20 DEF ChangeRaises
<1>21. ASSUME NEW p \in Proc, NEW k \in Key, InvalidateDelete(p, k)
      PROVE  ComputationInv'
  BY <1>21 DEF InvalidateDelete
<1>22. ASSUME NEW p \in Proc, InvalidateRemove(p)
      PROVE  ComputationInv'
  BY <1>22 DEF InvalidateRemove
<1>23. ASSUME NEW p \in Proc, InvalidateDone(p)
      PROVE  ComputationInv'
  BY <1>23 DEF InvalidateDone
<1>24. ASSUME NEW p \in Proc, ExitAtomic(p)
      PROVE  ComputationInv'
  BY <1>24 DEF ExitAtomic
<1>25. ASSUME NEW p \in Proc, EndFlag(p)
      PROVE  ComputationInv'
  BY <1>25 DEF EndFlag
<1>26. ASSUME NEW p \in Proc, PublishCheck(p)
      PROVE  ComputationInv'
  BY <1>26 DEF PublishCheck
<1>27. ASSUME NEW p \in Proc, PublishAborts(p)
      PROVE  ComputationInv'
  BY <1>27 DEF PublishAborts
<1>28. ASSUME NEW p \in Proc, BeginGeneration(p)
      PROVE  ComputationInv'
  BY <1>28 DEF BeginGeneration
<1>29. ASSUME NEW p \in Proc, InvalidateStart(p)
      PROVE  ComputationInv'
  BY <1>29 DEF InvalidateStart
<1>30. ASSUME NEW p \in Proc, EndCount(p)
      PROVE  ComputationInv'
  BY <1>30 DEF EndCount
<1>31. ASSUME NEW p \in Proc, LockTimeout(p)
      PROVE  ComputationInv'
  BY <1>31 DEF LockTimeout
<1>32. ASSUME NEW p \in Proc, Crash(p)
      PROVE  ComputationInv'
  BY <1>32 DEF Crash
<1>33. ASSUME \/ LockExpires \/ UNCHANGED vars
             \/ \E k \in Key : LeaseExpires(k) \/ Evict(k)
      PROVE  ComputationInv'
  BY <1>33
     DEF LeaseExpires, Evict, LockExpires
<1> QED
  BY <1>1, <1>2, <1>3, <1>4, <1>5, <1>6, <1>7, <1>8, <1>9, <1>10, <1>11,
     <1>12, <1>13, <1>14, <1>15, <1>16, <1>17, <1>18, <1>19, <1>20, <1>21,
     <1>22, <1>23, <1>24, <1>25, <1>26, <1>27, <1>28, <1>29, <1>30, <1>31,
     <1>32, <1>33
     DEF Next, ProcStep, LocalStep, LockStep

\* A quiet entry is fresh when it is stored, and a commit touches only rows no
\* entry depends on.
LEMMA FreshStep ==
  ASSUME Sound, TypeOK, TransactionInv, IndexInv, ComputationInv,
         InvalidatedInv, QuietEntriesFresh, [Next]_vars
  PROVE  QuietEntriesFresh'
<1> USE ProcAssumption, ReadsAssumption, NoEntryAssumption
        DEF Sound, TypeOK, QuietEntriesFresh, Fresh, Goto, vars, dbVars,
            barrierVars, storeVars, computeVars
<1>1. ASSUME NEW p \in Proc, PublishStore(p)
      PROVE  QuietEntriesFresh'
  <2>1. CASE PublishCurrent(p) /\ p \in quietProc
    <3>1. \A r \in Reads[key[p]] : seen[p][r] = db[r]
      BY <1>1, <2>1 DEF PublishStore, PublishCurrent, ComputationInv, IndexInv,
                     Computing
    <3>2. ASSUME NEW k \in quietEntry'
          PROVE  entries'[k] # NoEntry /\ \A r \in Reads[k] : entries'[k][r] = db[r]
      <4>1. CASE k = key[p]
        BY <1>1, <2>1, <3>1, <4>1 DEF PublishStore
      <4>2. CASE k # key[p]
        BY <1>1, <2>1, <3>2, <4>2 DEF PublishStore
      <4> QED
        BY <4>1, <4>2
    <3> QED
      BY <1>1, <3>2 DEF PublishStore
  <2>2. CASE ~PublishCurrent(p) \/ p \notin quietProc
    BY <1>1, <2>2 DEF PublishStore
  <2> QED
    BY <2>1, <2>2
<1>2. ASSUME NEW p \in Proc, ExitAtomic(p)
      PROVE  QuietEntriesFresh'
  <2>1. \A k \in quietEntry : row[p] \notin Reads[k]
    BY <1>2 DEF ExitAtomic, InvalidatedInv
  <2> QED
    BY <1>2, <2>1 DEF ExitAtomic
<1>3. ASSUME NEW p \in Proc, OuterCommit(p)
      PROVE  QuietEntriesFresh'
  BY <1>3 DEF OuterCommit, TransactionInv
<1>4. ASSUME NEW p \in Proc,
               \/ \E k \in Key : Call(p, k)
               \/ \E r \in Row : StartChange(p, r)
               \/ AcquireLease(p) \/ Mutate(p) \/ WaitForHit(p)
               \/ HitUnderLease(p) \/ StartCompute(p)
               \/ \E r \in Row : ReadRow(p, r)
      PROVE  QuietEntriesFresh'
  BY <1>4
     DEF Call, StartChange, AcquireLease, Mutate, WaitForHit, HitUnderLease,
         StartCompute, ReadRow
<1>5. ASSUME NEW p \in Proc,
               \/ \E k \in Key : UseNestedHit(p, k)
               \/ ComputeReturns(p) \/ ComputeRaises(p) \/ PublishRecord(p)
               \/ ReleaseCheck(p) \/ ReleaseDelete(p) \/ BeginCount(p)
               \/ BeginFlag(p)
      PROVE  QuietEntriesFresh'
  BY <1>5
     DEF UseNestedHit, ComputeReturns, ComputeRaises, PublishRecord,
         ReleaseCheck, ReleaseDelete, BeginCount, BeginFlag
<1>6. ASSUME NEW p \in Proc,
               \/ ChangeRaises(p)
               \/ \E k \in Key : InvalidateDelete(p, k)
               \/ InvalidateRemove(p) \/ InvalidateDone(p) \/ EndFlag(p)
               \/ OuterRollback(p) \/ PublishCheck(p) \/ PublishAborts(p)
      PROVE  QuietEntriesFresh'
  BY <1>6
     DEF ChangeRaises, InvalidateDelete, InvalidateRemove, InvalidateDone,
         EndFlag, OuterRollback, PublishCheck, PublishAborts
<1>7. ASSUME NEW p \in Proc,
               \/ BeginGeneration(p) \/ InvalidateStart(p) \/ EndCount(p)
               \/ LockTimeout(p) \/ Crash(p)
      PROVE  QuietEntriesFresh'
  BY <1>7
     DEF BeginGeneration, InvalidateStart, EndCount, LockTimeout, Crash
<1>8. ASSUME \/ LockExpires \/ UNCHANGED vars
             \/ \E k \in Key : LeaseExpires(k) \/ Evict(k)
      PROVE  QuietEntriesFresh'
  BY <1>8
     DEF LeaseExpires, Evict, LockExpires
<1> QED
  BY <1>1, <1>2, <1>3, <1>4, <1>5, <1>6, <1>7, <1>8
     DEF Next, ProcStep, LocalStep, LockStep

NewEntriesAreStored ==
  \A j \in Key : entries'[j] \notin {entries[j], NoEntry}
    => \E q \in Proc : PublishStore(q) /\ PublishCurrent(q)

\* A new value becomes visible only in PublishStore.
LEMMA OnlyStorePublishes ==
  ASSUME TypeOK, [Next]_vars
  PROVE  NewEntriesAreStored
<1> USE DEF TypeOK, NewEntriesAreStored, vars, dbVars, barrierVars,
            storeVars, computeVars
<1>1. ASSUME NEW p \in Proc, PublishStore(p)
      PROVE  NewEntriesAreStored
  BY <1>1 DEF PublishStore
<1>2. ASSUME NEW p \in Proc,
               \/ \E k \in Key : Call(p, k)
               \/ \E r \in Row : StartChange(p, r)
               \/ AcquireLease(p) \/ Mutate(p) \/ WaitForHit(p)
               \/ HitUnderLease(p) \/ StartCompute(p)
               \/ \E r \in Row : ReadRow(p, r)
      PROVE  NewEntriesAreStored
  BY <1>2
     DEF Call, StartChange, AcquireLease, Mutate, WaitForHit, HitUnderLease,
         StartCompute, ReadRow
<1>3. ASSUME NEW p \in Proc,
               \/ \E k \in Key : UseNestedHit(p, k)
               \/ ComputeReturns(p) \/ ComputeRaises(p) \/ PublishRecord(p)
               \/ ReleaseCheck(p) \/ ReleaseDelete(p) \/ BeginCount(p)
               \/ BeginFlag(p)
      PROVE  NewEntriesAreStored
  BY <1>3
     DEF UseNestedHit, ComputeReturns, ComputeRaises, PublishRecord,
         ReleaseCheck, ReleaseDelete, BeginCount, BeginFlag
<1>4. ASSUME NEW p \in Proc,
               \/ ChangeRaises(p)
               \/ \E k \in Key : InvalidateDelete(p, k)
               \/ InvalidateRemove(p) \/ InvalidateDone(p) \/ ExitAtomic(p)
               \/ EndFlag(p) \/ OuterCommit(p) \/ OuterRollback(p)
      PROVE  NewEntriesAreStored
  BY <1>4
     DEF ChangeRaises, InvalidateDelete, InvalidateRemove, InvalidateDone,
         ExitAtomic, EndFlag, OuterCommit, OuterRollback
<1>5. ASSUME NEW p \in Proc,
               \/ PublishCheck(p) \/ PublishAborts(p) \/ BeginGeneration(p)
               \/ InvalidateStart(p) \/ EndCount(p) \/ LockTimeout(p)
               \/ Crash(p)
      PROVE  NewEntriesAreStored
  BY <1>5
     DEF PublishCheck, PublishAborts, BeginGeneration, InvalidateStart,
         EndCount, LockTimeout, Crash
<1>6. ASSUME \/ LockExpires \/ UNCHANGED vars
             \/ \E k \in Key : LeaseExpires(k) \/ Evict(k)
      PROVE  NewEntriesAreStored
  BY <1>6
     DEF LeaseExpires, Evict, LockExpires
<1> QED
  BY <1>1, <1>2, <1>3, <1>4, <1>5, <1>6
     DEF Next, ProcStep, LocalStep, LockStep

-----------------------------------------------------------------------------
(* The theorems. *)

\* Every reachable state is well typed.
THEOREM TypeCorrect == Spec => []TypeOK
<1>1. Init => TypeOK
  BY TypeInit
<1>2. TypeOK /\ [Next]_vars => TypeOK'
  BY TypeStep
<1> QED
  BY <1>1, <1>2, PTL DEF Spec

\* The lock discipline, the count and the barrier are inductive together.
LEMMA BarrierInvariant == Spec => []BarrierInv
<1>1. Init => BarrierInv
  <2> SUFFICES ASSUME Init PROVE BarrierInv
    OBVIOUS
  <2> DEFINE C == {p \in Proc : pc[p] \in Counted}
  <2>1. C = {}
    BY DEF Init, Counted, ChangeOpen
  <2>2. Cardinality(C) = 0
    BY <2>1, FS_EmptySet, Zenon
  <2> QED
    BY <2>2 DEF Init, BarrierInv, LockDiscipline, CountCoversChanges,
                BarrierUpDuringChange, LockHeld, Counted, ChangeOpen
<1>2. TypeOK /\ BarrierInv /\ [Next]_vars => BarrierInv'
  BY LockDisciplineStep, CountStep, BarrierUpStep DEF BarrierInv
<1> QED
  BY <1>1, <1>2, TypeCorrect, PTL DEF Spec

\* begin_dependency_data_change and end_dependency_data_change keep the publish
\* barrier up around every mutation, for any number of workers, overlapping
\* changes, crashes and time-outs.
THEOREM BarrierCorrect == Spec => []BarrierUpDuringChange
<1>1. BarrierInv => BarrierUpDuringChange
  BY DEF BarrierInv
<1> QED
  BY <1>1, BarrierInvariant, PTL

\* What publish and invalidation rely on under the lock is invariant.
LEMMA IndexInvariant == Spec => []IndexInv
<1>1. Init => IndexInv
  BY DEF Init, IndexInv, IndexCoversEntries, Computing
<1>2. TypeOK /\ BarrierInv /\ IndexInv /\ [Next]_vars => IndexInv'
  BY IndexStep DEF BarrierInv
<1> QED
  BY <1>1, <1>2, TypeCorrect, BarrierInvariant, PTL DEF Spec

\* A visible value is always reachable by a later invalidation, whoever died
\* half way through a publish or an invalidation.
THEOREM IndexCorrect == Spec => []IndexCoversEntries
<1>1. IndexInv => IndexCoversEntries
  BY DEF IndexInv
<1> QED
  BY <1>1, IndexInvariant, PTL

\* In the designed setting the freshness invariants are inductive.
LEMMA FreshInvariant == ASSUME Sound PROVE Spec => []FreshInv
<1>1. Init => FreshInv
  BY DEF Init, FreshInv, TransactionInv, ComputationInv, InvalidatedInv,
         QuietEntriesFresh, Computing
<1>2. TypeOK /\ BarrierInv /\ IndexInv /\ FreshInv /\ [Next]_vars => FreshInv'
  BY Sound, TransactionStep, ComputationStep, InvalidatedStep, FreshStep
     DEF FreshInv
<1> QED
  BY <1>1, <1>2, TypeCorrect, BarrierInvariant, IndexInvariant, PTL DEF Spec

\* In the designed setting (ORM backed, no surrounding transaction) a value
\* whose computation began while no change was open is never stale.
THEOREM QuietEntriesCorrect == Sound => (Spec => []QuietEntriesFresh)
<1> SUFFICES ASSUME Sound PROVE Spec => []QuietEntriesFresh
  OBVIOUS
<1>1. FreshInv => QuietEntriesFresh
  BY DEF FreshInv
<1> QED
  BY <1>1, FreshInvariant, PTL

\* Nothing becomes visible during a change, in every setting.
THEOREM NoPublishCorrect == Spec => NoPublishDuringChange
<1> DEFINE Quiet ==
      \A k \in Key : entries'[k] \notin {entries[k], NoEntry}
                       => \A p \in Proc : pc[p] \notin Counted
<1>1. TypeOK /\ BarrierInv /\ [Next]_vars => [Quiet]_vars
  <2> SUFFICES ASSUME TypeOK, BarrierInv, Next, NEW k \in Key,
                      entries'[k] \notin {entries[k], NoEntry},
                      NEW q \in Proc
               PROVE  pc[q] \notin Counted
    BY DEF vars, storeVars
  <2>1. PICK p \in Proc : PublishStore(p) /\ PublishCurrent(p)
    BY OnlyStorePublishes DEF NewEntriesAreStored
  <2>2. pc[p] = "store"
    BY <2>1 DEF PublishStore, Goto
  <2>3. lock = p /\ pc[q] # "flag"
    BY <2>2 DEF BarrierInv, LockDiscipline, LockHeld
  <2>4. ~BarrierUp
    BY <2>1 DEF PublishCurrent
  <2> QED
    BY <2>3, <2>4 DEF BarrierInv, BarrierUpDuringChange
<1> QED
  BY <1>1, TypeCorrect, BarrierInvariant, PTL DEF Spec, NoPublishDuringChange

=============================================================================
