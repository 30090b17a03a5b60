--------------------------- MODULE DependencyCache ---------------------------
(***************************************************************************)
(* The dependency-scoped result cache of general_manager: what @cached     *)
(* does on a miss (compute lease, generation snapshot, guarded publish),   *)
(* and what @data_change does around a mutation (publish barrier,          *)
(* generation bump, invalidation through the dependency index).  The two   *)
(* sides are run by different workers and meet only in the shared cache    *)
(* backend, whose get, set, add and delete are the atomic steps here.      *)
(*                                                                         *)
(* A cached result is abstracted to the versions of the rows it was        *)
(* computed from; a row is anything a change can touch and a result can    *)
(* depend on.  An acquisition of the index lock is merged with the first   *)
(* backend operation it protects, and its release with the last one.       *)
(***************************************************************************)
EXTENDS Integers, FiniteSets

CONSTANTS
    Proc,                   \* workers (threads or processes)
    Key,                    \* cache keys
    Row,                    \* units of data
    Reads,                  \* Reads[k]: the rows the function behind k reads
    NoProc, NoEntry,
    CallerOwnsTransaction,  \* data_change runs inside a caller's atomic block
    OrmBacked,              \* the changed manager is ORM backed
    MayTimeOut,             \* waiting for the index lock may time out
    MaxCrashes,             \* bound on workers that die
    MaxGeneration           \* bound on data changes

ASSUME ProcAssumption == IsFiniteSet(Proc) /\ NoProc \notin Proc
ASSUME ReadsAssumption ==
    Key # {} /\ Row # {} /\ Reads \in [Key -> SUBSET Row]
ASSUME NoEntryAssumption == NoEntry \notin [Row -> Nat]
ASSUME ScenarioAssumption ==
    /\ {CallerOwnsTransaction, OrmBacked, MayTimeOut} \subseteq BOOLEAN
    /\ MaxCrashes \in Nat
    /\ MaxGeneration \in Nat

\* The setting for which the cache is designed: the mutation commits, or rolls
\* back, inside data_change.
Sound == OrmBacked /\ ~CallerOwnsTransaction

VARIABLES
    db,           \* db[r]: committed version of row r
    dirty,        \* workers with an uncommitted write of row[p]
    row,          \* row[p]: the row p's data change touches
    lock,         \* owner of the dependency-index lock
    generation,   \* DEPENDENCY_GENERATION_KEY
    changeCount,  \* DATA_CHANGE_COUNT_KEY
    changeFlag,   \* DATA_CHANGE_LOCK_KEY: "1" or absent ("none")
    entries,      \* entries[k]: row versions behind the stored value
    index,        \* index[r]: keys whose recorded dependencies match r
    lease,        \* lease[k]: owner of the compute lease of k
    pc,
    key,          \* key[p]: the key p is computing, or is invalidating
    started,      \* started[p]: started_generation
    read,         \* read[p]: rows the tracker has collected
    seen,         \* seen[p][r]: version of r that p read
    quietProc,    \* history: computations started while no change was open
    quietEntry    \* history: entries published by such computations

dbVars == <<db, dirty, row>>
barrierVars == <<generation, changeCount, changeFlag>>
storeVars == <<entries, quietEntry>>
computeVars == <<started, read, seen, quietProc>>
vars == <<dbVars, lock, barrierVars, storeVars, index, lease, pc, key,
          computeVars>>

\* Labels at which a worker holds the index lock.
LockHeld == {"record", "store", "count", "flag", "invalidating", "removing",
             "endFlag"}

\* Labels from the first effect of begin_dependency_data_change to the last
\* one of end_dependency_data_change.
ChangeOpen == {"count", "flag", "body", "invalidate", "invalidating",
               "removing", "exit", "end", "endFlag"}

\* Labels at which the change is counted in DATA_CHANGE_COUNT_KEY.
Counted == ChangeOpen \ {"count", "endFlag"}

Labels == {"idle", "wantLease", "leased", "compute", "publish", "release",
           "delete", "begin", "outer", "crashed"} \cup LockHeld \cup ChangeOpen

TypeOK ==
    /\ db \in [Row -> Nat]
    /\ dirty \in SUBSET Proc
    /\ row \in [Proc -> Row]
    /\ lock \in Proc \cup {NoProc}
    /\ generation \in Nat
    /\ changeCount \in Nat
    /\ changeFlag \in {"1", "none"}
    /\ entries \in [Key -> [Row -> Nat] \cup {NoEntry}]
    /\ index \in [Row -> SUBSET Key]
    /\ lease \in [Key -> Proc \cup {NoProc}]
    /\ pc \in [Proc -> Labels]
    /\ key \in [Proc -> Key]
    /\ started \in [Proc -> Nat]
    /\ read \in [Proc -> SUBSET Row]
    /\ seen \in [Proc -> [Row -> Nat]]
    /\ quietProc \in SUBSET Proc
    /\ quietEntry \in SUBSET Key

Init ==
    /\ db = [r \in Row |-> 0]
    /\ dirty = {}
    /\ row = [p \in Proc |-> CHOOSE r \in Row : TRUE]
    /\ lock = NoProc
    /\ generation = 0
    /\ changeCount = 0
    /\ changeFlag = "none"
    /\ entries = [k \in Key |-> NoEntry]
    /\ index = [r \in Row |-> {}]
    /\ lease = [k \in Key |-> NoProc]
    /\ pc = [p \in Proc |-> "idle"]
    /\ key = [p \in Proc |-> CHOOSE k \in Key : TRUE]
    /\ started = [p \in Proc |-> 0]
    /\ read = [p \in Proc |-> {}]
    /\ seen = [p \in Proc |-> [r \in Row |-> 0]]
    /\ quietProc = {}
    /\ quietEntry = {}

-----------------------------------------------------------------------------
(* Shared helpers *)

Goto(p, from, to) ==
    /\ pc[p] = from
    /\ pc' = [pc EXCEPT ![p] = to]

\* acquire_lock: cache.add succeeds only while nobody owns the key.
AcquireLock(p) == lock = NoProc /\ lock' = p

\* release_lock: deletes the key while p's token is in it.
ReleaseLock(p) == lock' = IF lock = p THEN NoProc ELSE lock

KeepLock == UNCHANGED lock

\* The locals of a computation are dead once its result is handed over.
ForgetComputation(p) ==
    /\ started' = [started EXCEPT ![p] = 0]
    /\ read' = [read EXCEPT ![p] = {}]
    /\ seen' = [seen EXCEPT ![p] = [r \in Row |-> 0]]
    /\ quietProc' = quietProc \ {p}

\* No data_change call is between its begin and its end.
NoChangeOpen == \A q \in Proc : pc[q] \notin ChangeOpen

BarrierUp == changeFlag = "1"

\* Mutant: the generation is not compared.
PublishCurrentNoGeneration(p) == ~BarrierUp

\* Mutant: the barrier is not looked at.
PublishCurrentNoBarrier(p) == generation = started[p]

\* _ensure_publish_current
PublishCurrent(p) == ~BarrierUp /\ generation = started[p]

-----------------------------------------------------------------------------
(* A call of a @cached(cache="dependency") function.  A hit returns without *)
(* changing anything, so only misses are steps.                             *)

Call(p, k) ==
    /\ Goto(p, "idle", "wantLease")
    /\ entries[k] = NoEntry
    /\ key' = [key EXCEPT ![p] = k]
    /\ UNCHANGED <<dbVars, lock, barrierVars, storeVars, index, lease,
                   computeVars>>

\* acquire_compute_lease: cache.add on the key's lock.
AcquireLease(p) ==
    /\ Goto(p, "wantLease", "leased")
    /\ lease[key[p]] = NoProc
    /\ lease' = [lease EXCEPT ![key[p]] = p]
    /\ UNCHANGED <<dbVars, lock, barrierVars, storeVars, index, key,
                   computeVars>>

\* wait_for_cached_dependency_hit finds what another worker published; it
\* keeps polling for a while after the lease it waits for is free again.
WaitForHit(p) ==
    /\ Goto(p, "wantLease", "idle")
    /\ entries[key[p]] # NoEntry
    /\ UNCHANGED <<dbVars, lock, barrierVars, storeVars, index, lease, key,
                   computeVars>>

\* The second look at the entry, with the lease in hand.
HitUnderLease(p) ==
    /\ Goto(p, "leased", "release")
    /\ entries[key[p]] # NoEntry
    /\ UNCHANGED <<dbVars, lock, barrierVars, storeVars, index, lease, key,
                   computeVars>>

\* Mutant: the snapshot is off by one.
StartComputeOffByOne(p) ==
    /\ Goto(p, "leased", "compute")
    /\ entries[key[p]] = NoEntry
    /\ started' = [started EXCEPT ![p] = generation - 1]
    /\ quietProc' = IF NoChangeOpen THEN quietProc \cup {p}
                                    ELSE quietProc \ {p}
    /\ UNCHANGED <<dbVars, lock, barrierVars, storeVars, index, lease, key,
                   read, seen>>

\* started_generation = get_dependency_generation()
StartCompute(p) ==
    /\ Goto(p, "leased", "compute")
    /\ entries[key[p]] = NoEntry
    /\ started' = [started EXCEPT ![p] = generation]
    /\ quietProc' = IF NoChangeOpen THEN quietProc \cup {p}
                                    ELSE quietProc \ {p}
    /\ UNCHANGED <<dbVars, lock, barrierVars, storeVars, index, lease, key,
                   read, seen>>

\* The function reads a row (read committed) and the tracker records it.
ReadRow(p, r) ==
    /\ Goto(p, "compute", "compute")
    /\ r \in Reads[key[p]] \ read[p]
    /\ read' = [read EXCEPT ![p] = @ \cup {r}]
    /\ seen' = [seen EXCEPT ![p][r] = db[r]]
    /\ UNCHANGED <<dbVars, lock, barrierVars, storeVars, index, lease, key,
                   started, quietProc>>

\* The function calls another cached function and hits: the hit's recorded
\* dependencies are replayed into the caller's tracker, and the caller's
\* result is now built on the versions the hit was computed from.
UseNestedHit(p, k) ==
    /\ Goto(p, "compute", "compute")
    /\ k # key[p]
    /\ entries[k] # NoEntry
    /\ Reads[k] # {}
    /\ Reads[k] \subseteq Reads[key[p]] \ read[p]
    /\ read' = [read EXCEPT ![p] = @ \cup Reads[k]]
    /\ seen' = [seen EXCEPT ![p] =
                   [r \in Row |-> IF r \in Reads[k] THEN entries[k][r]
                                                    ELSE @[r]]]
    /\ quietProc' = IF k \in quietEntry THEN quietProc ELSE quietProc \ {p}
    /\ UNCHANGED <<dbVars, lock, barrierVars, storeVars, index, lease, key,
                   started>>

ComputeReturns(p) ==
    /\ Goto(p, "compute", "publish")
    /\ read[p] = Reads[key[p]]
    /\ UNCHANGED <<dbVars, lock, barrierVars, storeVars, index, lease, key,
                   computeVars>>

\* The function raises; the finally clause gives the lease back.
ComputeRaises(p) ==
    /\ Goto(p, "compute", "release")
    /\ ForgetComputation(p)
    /\ UNCHANGED <<dbVars, lock, barrierVars, storeVars, index, lease, key>>

\* publish_dependency_cache_entry up to the first _ensure_publish_current.
PublishCheck(p) ==
    /\ Goto(p, "publish", "record")
    /\ AcquireLock(p)
    /\ PublishCurrent(p)
    /\ UNCHANGED <<dbVars, barrierVars, storeVars, index, lease, key,
                   computeVars>>

\* Mutant: an aborted publish returns past the release of the lease.
PublishAbortsKeepingLease(p) ==
    /\ Goto(p, "publish", "idle")
    /\ lock = NoProc
    /\ ~PublishCurrent(p)
    /\ ForgetComputation(p)
    /\ UNCHANGED <<dbVars, lock, barrierVars, storeVars, index, lease, key>>

\* ... which raises CachePublishAborted: the lock is released, the result is
\* returned to the caller and is not shared.
PublishAborts(p) ==
    /\ Goto(p, "publish", "release")
    /\ lock = NoProc
    /\ ~PublishCurrent(p)
    /\ ForgetComputation(p)
    /\ UNCHANGED <<dbVars, lock, barrierVars, storeVars, index, lease, key>>

\* Mutant: a worker whose lease was lost skips the metadata.
PublishRecordIfLeased(p) ==
    /\ Goto(p, "record", "store")
    /\ index' = [r \in Row |->
                   IF r \in read[p] /\ lease[key[p]] = p
                     THEN index[r] \cup {key[p]} ELSE index[r]]
    /\ KeepLock
    /\ UNCHANGED <<dbVars, barrierVars, storeVars, lease, key, computeVars>>

\* record_many_cache_dependencies: the index learns of the key first.
PublishRecord(p) ==
    /\ Goto(p, "record", "store")
    /\ index' = [r \in Row |-> IF r \in read[p] THEN index[r] \cup {key[p]}
                                                ELSE index[r]]
    /\ KeepLock
    /\ UNCHANGED <<dbVars, barrierVars, storeVars, lease, key, computeVars>>

\* The second _ensure_publish_current, then cache_backend.set.
PublishStore(p) ==
    /\ Goto(p, "store", "release")
    /\ IF PublishCurrent(p)
         THEN /\ entries' = [entries EXCEPT ![key[p]] = seen[p]]
              /\ quietEntry' = IF p \in quietProc
                                 THEN quietEntry \cup {key[p]}
                                 ELSE quietEntry \ {key[p]}
         ELSE UNCHANGED storeVars
    /\ ReleaseLock(p)
    /\ ForgetComputation(p)
    /\ UNCHANGED <<dbVars, barrierVars, index, lease, key>>

\* release_compute_lease reads the token ...
ReleaseCheck(p) ==
    /\ pc[p] = "release"
    /\ pc' = [pc EXCEPT ![p] = IF lease[key[p]] = p THEN "delete" ELSE "idle"]
    /\ UNCHANGED <<dbVars, lock, barrierVars, storeVars, index, lease, key,
                   computeVars>>

\* ... and deletes the key in a second backend operation.
ReleaseDelete(p) ==
    /\ Goto(p, "delete", "idle")
    /\ lease' = [lease EXCEPT ![key[p]] = NoProc]
    /\ UNCHANGED <<dbVars, lock, barrierVars, storeVars, index, key,
                   computeVars>>

-----------------------------------------------------------------------------
(* A call of a @data_change method.                                         *)

StartChange(p, r) ==
    /\ Goto(p, "idle", "begin")
    /\ generation < MaxGeneration
    /\ row' = [row EXCEPT ![p] = r]
    /\ UNCHANGED <<db, dirty, lock, barrierVars, storeVars, index, lease, key,
                   computeVars>>

\* begin_dependency_data_change: generation, count, flag, in this order.
BeginGeneration(p) ==
    /\ Goto(p, "begin", "count")
    /\ AcquireLock(p)
    /\ generation' = generation + 1
    /\ UNCHANGED <<dbVars, changeCount, changeFlag, storeVars, index, lease,
                   key, computeVars>>

BeginCount(p) ==
    /\ Goto(p, "count", "flag")
    /\ changeCount' = changeCount + 1
    /\ KeepLock
    /\ UNCHANGED <<dbVars, generation, changeFlag, storeVars, index, lease,
                   key, computeVars>>

BeginFlag(p) ==
    /\ Goto(p, "flag", "body")
    /\ changeFlag' = "1"
    /\ ReleaseLock(p)
    /\ UNCHANGED <<dbVars, generation, changeCount, storeVars, index, lease,
                   key, computeVars>>

\* The decorated mutation.  The database blocks a second writer of a row
\* until the first one's transaction ends.
Mutate(p) ==
    /\ Goto(p, "body", "invalidate")
    /\ \A q \in dirty : row[q] # row[p]
    /\ IF OrmBacked
         THEN dirty' = dirty \cup {p} /\ UNCHANGED db
         ELSE db' = [db EXCEPT ![row[p]] = @ + 1] /\ UNCHANGED dirty
    /\ UNCHANGED <<row, lock, barrierVars, storeVars, index, lease, key,
                   computeVars>>

\* Mutant: a failed change skips the finally clause.
ChangeRaisesPastFinally(p) ==
    /\ pc[p] \in {"body", "exit"}
    /\ pc' = [pc EXCEPT ![p] = "idle"]
    /\ dirty' = dirty \ {p}
    /\ UNCHANGED <<db, row, lock, barrierVars, storeVars, index, lease, key,
                   computeVars>>

\* The mutation, a pre_data_change or a post_data_change receiver raises: the
\* atomic block (if there is one) rolls back and the finally clause runs.
ChangeRaises(p) ==
    /\ pc[p] \in {"body", "exit"}
    /\ pc' = [pc EXCEPT ![p] = "end"]
    /\ dirty' = dirty \ {p}
    /\ UNCHANGED <<db, row, lock, barrierVars, storeVars, index, lease, key,
                   computeVars>>

\* generic_cache_invalidation, called by post_data_change.send.
InvalidateStart(p) ==
    /\ Goto(p, "invalidate", "invalidating")
    /\ AcquireLock(p)
    /\ UNCHANGED <<dbVars, barrierVars, storeVars, index, lease, key,
                   computeVars>>

\* cache.delete(cache_key) ...
InvalidateDelete(p, k) ==
    /\ Goto(p, "invalidating", "removing")
    /\ k \in index[row[p]]
    /\ entries' = [entries EXCEPT ![k] = NoEntry]
    /\ quietEntry' = quietEntry \ {k}
    /\ key' = [key EXCEPT ![p] = k]
    /\ KeepLock
    /\ UNCHANGED <<dbVars, barrierVars, index, lease, computeVars>>

\* Mutant: the key stays in the shards it was found in.
InvalidateRemoveForgotten(p) ==
    /\ Goto(p, "removing", "invalidating")
    /\ KeepLock
    /\ UNCHANGED <<dbVars, barrierVars, storeVars, index, lease, key,
                   computeVars>>

\* ... then remove_cache_key_from_shards(cache_key).
InvalidateRemove(p) ==
    /\ Goto(p, "removing", "invalidating")
    /\ index' = [r \in Row |-> index[r] \ {key[p]}]
    /\ KeepLock
    /\ UNCHANGED <<dbVars, barrierVars, storeVars, lease, key, computeVars>>

InvalidateDone(p) ==
    /\ Goto(p, "invalidating", "exit")
    /\ index[row[p]] = {}
    /\ ReleaseLock(p)
    /\ UNCHANGED <<dbVars, barrierVars, storeVars, index, lease, key,
                   computeVars>>

\* The with-statement of data_change ends: COMMIT, or RELEASE SAVEPOINT when
\* the caller owns the transaction.
ExitAtomic(p) ==
    /\ Goto(p, "exit", "end")
    /\ IF OrmBacked /\ ~CallerOwnsTransaction
         THEN /\ db' = [db EXCEPT ![row[p]] = @ + 1]
              /\ dirty' = dirty \ {p}
         ELSE UNCHANGED <<db, dirty>>
    /\ UNCHANGED <<row, lock, barrierVars, storeVars, index, lease, key,
                   computeVars>>

\* end_dependency_data_change, in the finally clause.
EndCount(p) ==
    /\ Goto(p, "end", "endFlag")
    /\ AcquireLock(p)
    /\ changeCount' = IF changeCount > 0 THEN changeCount - 1 ELSE 0
    /\ UNCHANGED <<dbVars, generation, changeFlag, storeVars, index, lease,
                   key, computeVars>>

\* Mutant: the flag is deleted whatever the count.
EndFlagAlways(p) ==
    /\ pc[p] = "endFlag"
    /\ pc' = [pc EXCEPT ![p] = IF p \in dirty THEN "outer" ELSE "idle"]
    /\ changeFlag' = "none"
    /\ ReleaseLock(p)
    /\ UNCHANGED <<dbVars, generation, changeCount, storeVars, index, lease,
                   key, computeVars>>

EndFlag(p) ==
    /\ pc[p] = "endFlag"
    /\ pc' = [pc EXCEPT ![p] = IF p \in dirty THEN "outer" ELSE "idle"]
    /\ changeFlag' = IF changeCount = 0 THEN "none" ELSE "1"
    /\ ReleaseLock(p)
    /\ UNCHANGED <<dbVars, generation, changeCount, storeVars, index, lease,
                   key, computeVars>>

\* The caller's own transaction ends, after data_change has returned.
OuterCommit(p) ==
    /\ Goto(p, "outer", "idle")
    /\ db' = [db EXCEPT ![row[p]] = @ + 1]
    /\ dirty' = dirty \ {p}
    /\ UNCHANGED <<row, lock, barrierVars, storeVars, index, lease, key,
                   computeVars>>

OuterRollback(p) ==
    /\ Goto(p, "outer", "idle")
    /\ dirty' = dirty \ {p}
    /\ UNCHANGED <<db, row, lock, barrierVars, storeVars, index, lease, key,
                   computeVars>>

-----------------------------------------------------------------------------
(* Time-outs, crashes, expiry.                                              *)

\* acquire_lock_with_retry gives up: DependencyLockTimeoutError.  In publish
\* the lease is still released; begin has had no effect; the receiver's error
\* rolls the mutation back; end leaves the barrier as it is.
LockTimeout(p) ==
    /\ MayTimeOut
    /\ lock # NoProc
    /\ \/ /\ Goto(p, "publish", "release")
          /\ ForgetComputation(p)
          /\ UNCHANGED dirty
       \/ /\ Goto(p, "begin", "idle")
          /\ UNCHANGED <<dirty, computeVars>>
       \/ /\ Goto(p, "invalidate", "end")
          /\ dirty' = dirty \ {p}
          /\ UNCHANGED computeVars
       \/ /\ pc[p] = "end"
          /\ pc' = [pc EXCEPT ![p] = IF p \in dirty THEN "outer" ELSE "idle"]
          /\ UNCHANGED <<dirty, computeVars>>
    /\ UNCHANGED <<db, row, lock, barrierVars, storeVars, index, lease, key>>

\* A worker dies at any point; its open transaction is rolled back by the
\* database, and whatever it wrote to the cache stays.
Crash(p) ==
    /\ pc[p] # "crashed"
    /\ Cardinality({q \in Proc : pc[q] = "crashed"}) < MaxCrashes
    /\ pc' = [pc EXCEPT ![p] = "crashed"]
    /\ dirty' = dirty \ {p}
    /\ ForgetComputation(p)
    /\ UNCHANGED <<db, row, lock, barrierVars, storeVars, index, lease, key>>

\* The lock's TTL (LOCK_TIMEOUT) frees what a dead worker held.
LockExpires ==
    /\ lock # NoProc
    /\ pc[lock] = "crashed"
    /\ lock' = NoProc
    /\ UNCHANGED <<dbVars, barrierVars, storeVars, index, lease, pc, key,
                   computeVars>>

\* COMPUTE_LOCK_TIMEOUT may pass at any time, also under a slow owner.
LeaseExpires(k) ==
    /\ lease[k] # NoProc
    /\ lease' = [lease EXCEPT ![k] = NoProc]
    /\ UNCHANGED <<dbVars, lock, barrierVars, storeVars, index, pc, key,
                   computeVars>>

\* The backend drops a value: its timeout, or memory pressure.
Evict(k) ==
    /\ entries[k] # NoEntry
    /\ entries' = [entries EXCEPT ![k] = NoEntry]
    /\ quietEntry' = quietEntry \ {k}
    /\ UNCHANGED <<dbVars, lock, barrierVars, index, lease, pc, key,
                   computeVars>>

-----------------------------------------------------------------------------
\* Steps of a worker that needs nobody's lock or lease to go on.
LocalStep(p) ==
    \/ WaitForHit(p) \/ HitUnderLease(p) \/ StartCompute(p)
    \/ \E r \in Row : ReadRow(p, r)
    \/ \E k \in Key : UseNestedHit(p, k)
    \/ ComputeReturns(p) \/ ComputeRaises(p)
    \/ PublishRecord(p) \/ PublishStore(p)
    \/ ReleaseCheck(p) \/ ReleaseDelete(p)
    \/ BeginCount(p) \/ BeginFlag(p)
    \/ ChangeRaises(p)
    \/ \E k \in Key : InvalidateDelete(p, k)
    \/ InvalidateRemove(p) \/ InvalidateDone(p)
    \/ ExitAtomic(p) \/ EndFlag(p)
    \/ OuterCommit(p) \/ OuterRollback(p)

\* Steps that take the index lock.
LockStep(p) ==
    \/ PublishCheck(p) \/ PublishAborts(p)
    \/ BeginGeneration(p) \/ InvalidateStart(p) \/ EndCount(p)

ProcStep(p) ==
    \/ \E k \in Key : Call(p, k)
    \/ \E r \in Row : StartChange(p, r)
    \/ AcquireLease(p)
    \/ Mutate(p)
    \/ LocalStep(p)
    \/ LockStep(p)
    \/ LockTimeout(p)
    \/ Crash(p)

Next ==
    \/ \E p \in Proc : ProcStep(p)
    \/ \E k \in Key : LeaseExpires(k) \/ Evict(k)
    \/ LockExpires

Spec == Init /\ [][Next]_vars

\* A worker that can go on does; the retries of acquire_lock_with_retry are
\* spread by random jitter, so a lock that is free again and again is
\* eventually obtained (unless the wait times out first); TTLs pass.
Fairness ==
    /\ \A p \in Proc : WF_vars(LocalStep(p)) /\ WF_vars(Mutate(p))
    /\ \A p \in Proc : SF_vars(LockStep(p))
    /\ WF_vars(LockExpires)

FairSpec == Spec /\ Fairness

-----------------------------------------------------------------------------
(* Properties *)

\* Labels of a computation whose result is not handed over yet.
Computing == {"compute", "publish", "record", "store"}

Fresh(k) == \A r \in Reads[k] : entries[k][r] = db[r]

\* A value computed by a function that started while no data_change was open
\* is never stale: as long as publish_dependency_cache_entry lets it be
\* visible, every row it was computed from still has the version it read.
QuietEntriesFresh ==
    \A k \in quietEntry : entries[k] # NoEntry /\ Fresh(k)

\* The same without the restriction to quiet computations: what
\* docs/concepts/caching.md promises ("no data mutation overlapped the
\* computation and publish step").
EntriesFresh == \A k \in Key : entries[k] # NoEntry => Fresh(k)

\* A value that is visible can be reached by a later invalidation: the
\* dependency index names its key under every row it depends on, also after a
\* publisher or an invalidation died half way.
IndexCoversEntries ==
    \A k \in Key : entries[k] # NoEntry => \A r \in Reads[k] : k \in index[r]

\* The publish barrier is up from the return of begin_dependency_data_change
\* until end_dependency_data_change, however many changes overlap and whatever
\* other workers' changes ended, timed out or died in between.
BarrierUpDuringChange ==
    \A p \in Proc : pc[p] \in Counted \ {"flag"} => BarrierUp

\* No value becomes visible while a data change is between the return of its
\* begin_dependency_data_change and the start of its
\* end_dependency_data_change.
NoPublishDuringChange ==
    [][\A k \in Key :
          entries'[k] \notin {entries[k], NoEntry}
            => \A p \in Proc : pc[p] \notin Counted]_vars

\* Every way out of the cached wrapper gives the compute lease back: no lease
\* has to wait for its TTL.
LeasesReleased ==
    \A k \in Key : \A p \in Proc : []<>(lease[k] # p)

\* Every data change that began comes to its end: nobody waits for ever on
\* the index lock or on a row.
ChangesEnd ==
    \A p \in Proc : []<>(pc[p] \notin ChangeOpen)

\* With finitely many changes the barrier comes down again: publishing is not
\* switched off for good ("The dependency barrier is still closed in
\* `finally`", docs/api/cache.md).
BarrierCloses == []<>~BarrierUp

\* Every change ends and takes the barrier down with it (data_change).
ChangesSettle == ChangesEnd /\ BarrierCloses

-----------------------------------------------------------------------------
(* The inductive invariants behind the theorems of DependencyCacheProofs.   *)

\* A worker between acquiring and releasing the index lock is its owner.
LockDiscipline == \A p \in Proc : pc[p] \in LockHeld => lock = p

\* Every open change is counted (a dead or timed-out one may be counted too).
CountCoversChanges ==
    Cardinality({p \in Proc : pc[p] \in Counted}) <= changeCount

BarrierInv == LockDiscipline /\ CountCoversChanges /\ BarrierUpDuringChange

\* What publish and invalidation know of the index while they hold the lock.
IndexInv ==
    /\ IndexCoversEntries
    /\ \A p \in Proc :
          /\ pc[p] \in Computing \ {"compute"} => read[p] = Reads[key[p]]
          /\ pc[p] = "store" => \A r \in Reads[key[p]] : key[p] \in index[r]
          /\ pc[p] = "removing" => entries[key[p]] = NoEntry

\* A quiet computation of the current generation has seen the current data.
ComputationInv ==
    \A p \in Proc :
       /\ pc[p] \in Computing => started[p] <= generation
       /\ pc[p] \notin Computing => read[p] = {}
       /\ pc[p] \in Computing /\ p \in quietProc /\ started[p] = generation
            => NoChangeOpen /\ \A r \in read[p] : seen[p][r] = db[r]

\* When a change is about to commit, no entry depends on its row.
InvalidatedInv ==
    \A p \in Proc : \A k \in Key :
       pc[p] = "exit" /\ entries[k] # NoEntry => row[p] \notin Reads[k]

\* Uncommitted writes exist only inside data_change.
TransactionInv ==
    /\ \A p \in dirty :
          pc[p] \in {"invalidate", "invalidating", "removing", "exit"}
    /\ \A p \in Proc : pc[p] # "outer"

FreshInv ==
    /\ TransactionInv
    /\ ComputationInv
    /\ InvalidatedInv
    /\ QuietEntriesFresh

=============================================================================
