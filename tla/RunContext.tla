----------------------------- MODULE RunContext -----------------------------
(***************************************************************************)
(* The memory of one calculation run: cache/run_context.py, with the parts *)
(* of cache/cache_decorator.py, dependency_publish.py, dependency_index.py *)
(* and signals.py that fill, flush and discard it.                         *)
(*                                                                         *)
(* A run belongs to a thread.  It keeps row snapshots ("rows"), results of *)
(* cached functions ("hits") and the results it still has to publish       *)
(* ("pending"), each with the compute lease that the run keeps until then. *)
(* The database is one row; a value is the version it was computed from.   *)
(***************************************************************************)
EXTENDS Naturals, FiniteSets

CONSTANTS
    Threads,        \* threads with a run each
    Results,        \* cache keys of dependency-scoped functions
    BatchSize,      \* dependency_cache_publish_batch_size
    MaxWrites,      \* bound: data changes
    MaxCalls,       \* bound: computations
    MaxDepth        \* bound: how often the active context is entered again

Nobody == "nobody"

ASSUME RunAssumption == IsFiniteSet(Threads) /\ Nobody \notin Threads

VARIABLES
    run,        \* thread -> what its CalculationRunContext holds
    call,       \* thread -> the cached call it is in
    change,     \* thread -> the data_change it is in
    shared,     \* [entry, lease, gen, count]: the cache backend
    row,        \* [committed, written]: versions of the row; written counts changes
    calls       \* computations so far

runVars == <<run, call, change, shared, row, calls>>

Nothing == 0                            \* no value; versions start at 1
Empty == [k \in Results |-> Nothing]
NoCall == [pc |-> "none", key |-> "none", gen |-> 0, at |-> Nothing, quiet |-> FALSE]
NoChange == [pc |-> "none", at |-> Nothing]
NoPending == [k \in Results |-> [gen |-> 0, lease |-> FALSE, quiet |-> FALSE]]
NewRun == [depth |-> 0, rows |-> Nothing, hits |-> Empty, pending |-> {},
           entry |-> NoPending, wrote |-> Nothing]

RunInit ==
    /\ run = [t \in Threads |-> NewRun]
    /\ call = [t \in Threads |-> NoCall]
    /\ change = [t \in Threads |-> NoChange]
    /\ shared = [entry |-> [k \in Results |-> [at |-> Nothing, quiet |-> TRUE]],
                 lease |-> [k \in Results |-> Nobody], gen |-> 0, count |-> 0]
    /\ row = [committed |-> 1, written |-> 1]
    /\ calls = 0

\* What thread t sees: its own uncommitted version or the committed one.
Visible(t) == IF change[t].pc \in {"after", "invalidated"} THEN change[t].at ELSE row.committed

InRun(t) == run[t].depth > 0
Free(t) == call[t].pc = "none"

-----------------------------------------------------------------------------
(* Operators on a run and on the backend *)

\* release_compute_lease: only the holder's token deletes the lease.
release_compute_lease(s, t, keys) ==
    [s EXCEPT !.lease = [k \in Results |-> IF k \in keys /\ @[k] = t THEN Nobody ELSE @[k]]]

\* Mutant: results are published without looking at their generation.
PublishWithoutGeneration(s, r) ==
    IF s.count > 0 THEN s
    ELSE [s EXCEPT !.entry = [k \in Results |->
            IF k \in r.pending THEN [at |-> r.hits[k], quiet |-> r.entry[k].quiet] ELSE @[k]]]

\* publish_dependency_cache_entries, under the index lock: nothing during a
\* change, and of the batch only what was started in this generation.
publish_dependency_cache_entries(s, r) ==
    IF s.count > 0 THEN s
    ELSE [s EXCEPT !.entry = [k \in Results |->
            IF k \in r.pending /\ r.entry[k].gen = s.gen
            THEN [at |-> r.hits[k], quiet |-> r.entry[k].quiet] ELSE @[k]]]

Flushed(r) == [r EXCEPT !.pending = {}, !.entry = NoPending]

\* flush_dependency_cache_publications: every lease is released, published or not.
flush_dependency_cache_publications(t, r, s) ==
    [run |-> Flushed(r),
     shared |-> release_compute_lease(publish_dependency_cache_entries(s, r), t, r.pending)]

\* Mutant: the discarded publications keep their leases.
DiscardKeepingLeases(t, r, s) == [run |-> Flushed(r), shared |-> s]

\* discard_dependency_cache_publications: the same without publishing.
discard_dependency_cache_publications(t, r, s) ==
    [run |-> Flushed(r), shared |-> release_compute_lease(s, t, r.pending)]

\* discard_dependency_cache_state: no hit of the run survives either.
discard_dependency_cache_state(t, r, s) ==
    LET d == discard_dependency_cache_publications(t, r, s)
    IN  [run |-> [d.run EXCEPT !.hits = Empty], shared |-> d.shared]

\* clear_orm_bucket_results, clear_bucket_indexes, clear_bucket_projections and
\* clear_trusted_orm_managers: discard_prefix for every kind of row snapshot.
clear_orm_bucket_results(r) == [r EXCEPT !.rows = Nothing]

\* buffer_dependency_cache_publication: the result becomes a hit of the run,
\* and a full buffer is flushed at once.
buffer_dependency_cache_publication(t, r, s, c) ==
    LET held == [r EXCEPT !.hits[c.key] = c.at, !.pending = @ \cup {c.key},
                          !.entry[c.key] = [gen |-> c.gen, lease |-> TRUE, quiet |-> c.quiet]]
    IN  IF Cardinality(held.pending) >= BatchSize
        THEN flush_dependency_cache_publications(t, held, s)
        ELSE [run |-> held, shared |-> s]

Becomes(t, x) == run' = [run EXCEPT ![t] = x.run] /\ shared' = x.shared

-----------------------------------------------------------------------------
(* The run *)

\* __enter__: entering the active context again only deepens it.
RunEnter(t) ==
    /\ Free(t) /\ change[t].pc = "none"
    /\ run[t].depth < MaxDepth
    /\ run' = [run EXCEPT ![t].depth = @ + 1]
    /\ UNCHANGED <<call, change, shared, row, calls>>

\* __exit__: only the outermost exit publishes (or, after an exception,
\* discards) and empties the context.
RunExit(t, raised) ==
    /\ InRun(t) /\ Free(t) /\ change[t].pc = "none"
    /\ IF run[t].depth > 1
       THEN run' = [run EXCEPT ![t].depth = @ - 1] /\ UNCHANGED shared
       ELSE LET x == IF raised THEN discard_dependency_cache_publications(t, run[t], shared)
                     ELSE flush_dependency_cache_publications(t, run[t], shared)
            IN  Becomes(t, [x EXCEPT !.run = NewRun])
    /\ UNCHANGED <<call, change, row, calls>>

\* get_or_set of a row snapshot.
get_or_set(t) ==
    /\ InRun(t) /\ Free(t)
    /\ run[t].rows = Nothing
    /\ run' = [run EXCEPT ![t].rows = Visible(t)]
    /\ UNCHANGED <<call, change, shared, row, calls>>

-----------------------------------------------------------------------------
(* A cached call inside a run *)

\* The wrapper of `cached`: a hit of the run returns at once; a value in the
\* backend is returned without being remembered.  Otherwise the lease decides.
CallMisses(t, k) ==
    /\ InRun(t) /\ Free(t)
    /\ calls < MaxCalls
    /\ run[t].hits[k] = Nothing
    /\ shared.entry[k].at = Nothing
    /\ calls' = calls + 1
    /\ call' = [call EXCEPT ![t] = [NoCall EXCEPT !.pc = "lease", !.key = k]]
    /\ UNCHANGED <<run, change, shared, row>>

\* acquire_compute_lease: cache.add.
TakeLease(t) ==
    /\ call[t].pc = "lease"
    /\ shared.lease[call[t].key] = Nobody
    /\ shared' = [shared EXCEPT !.lease[call[t].key] = t]
    /\ call' = [call EXCEPT ![t].pc = "leased"]
    /\ UNCHANGED <<run, change, row, calls>>

\* wait_for_cached_dependency_hit returned what the lease's holder published.
WaitingHit(t) ==
    /\ call[t].pc = "lease"
    /\ shared.entry[call[t].key].at # Nothing
    /\ call' = [call EXCEPT ![t] = NoCall]
    /\ UNCHANGED <<run, change, shared, row, calls>>

\* The value may have appeared before the lease was free: then it is released.
LeasedHit(t) ==
    /\ call[t].pc = "leased"
    /\ shared.entry[call[t].key].at # Nothing
    /\ shared' = release_compute_lease(shared, t, {call[t].key})
    /\ call' = [call EXCEPT ![t] = NoCall]
    /\ UNCHANGED <<run, change, row, calls>>

\* The generation is read before the function body reads the row.
ReadGeneration(t) ==
    /\ call[t].pc = "leased"
    /\ shared.entry[call[t].key].at = Nothing
    /\ call' = [call EXCEPT ![t].pc = "compute", ![t].gen = shared.gen,
                            ![t].quiet = shared.count = 0]
    /\ UNCHANGED <<run, change, shared, row, calls>>

Compute(t) ==
    /\ call[t].pc = "compute"
    /\ call' = [call EXCEPT ![t].pc = "computed", ![t].at = Visible(t)]
    /\ UNCHANGED <<run, change, shared, row, calls>>

\* The lease goes to the context together with the result.
BufferResult(t) ==
    /\ call[t].pc = "computed"
    /\ Becomes(t, buffer_dependency_cache_publication(t, run[t], shared, call[t]))
    /\ call' = [call EXCEPT ![t] = NoCall]
    /\ UNCHANGED <<change, row, calls>>

\* The function body raises: the lease was not transferred.
ComputeFails(t) ==
    /\ call[t].pc = "compute"
    /\ shared' = release_compute_lease(shared, t, {call[t].key})
    /\ call' = [call EXCEPT ![t] = NoCall]
    /\ UNCHANGED <<run, change, row, calls>>

\* The backend drops a compute lease whose TTL has passed.
RunLeaseExpires(k) ==
    /\ shared.lease[k] # Nobody
    /\ shared' = [shared EXCEPT !.lease[k] = Nobody]
    /\ UNCHANGED <<run, call, change, row, calls>>

-----------------------------------------------------------------------------
(* A data_change of the thread, in its run *)

\* begin_dependency_data_change, which drops the run's results and leases, and
\* the first clearing of the run's snapshots.
BeginChange(t) ==
    /\ Free(t) /\ change[t].pc = "none"
    /\ shared.gen < MaxWrites
    /\ LET raised == [shared EXCEPT !.gen = @ + 1, !.count = @ + 1]
           x == IF InRun(t) THEN discard_dependency_cache_state(t, run[t], raised)
                ELSE [run |-> run[t], shared |-> raised]
       IN  Becomes(t, [x EXCEPT !.run = clear_orm_bucket_results(@)])
    /\ change' = [change EXCEPT ![t] = [pc |-> "before", at |-> Nothing]]
    /\ UNCHANGED <<call, row, calls>>

\* The decorated function writes the row (its lock keeps other writers out),
\* and the snapshots are cleared once more.
WriteRow(t) ==
    /\ Free(t) /\ change[t].pc = "before"
    /\ \A u \in Threads : change[u].pc \notin {"after", "invalidated"}
    /\ row' = [row EXCEPT !.written = @ + 1]
    /\ change' = [change EXCEPT ![t] = [pc |-> "after", at |-> row.written + 1]]
    /\ run' = [run EXCEPT ![t] = clear_orm_bucket_results(@)]
    /\ UNCHANGED <<call, shared, calls>>

\* post_data_change: generic_cache_invalidation deletes the dependent entries.
InvalidateEntries(t) ==
    /\ Free(t) /\ change[t].pc = "after"
    /\ shared' = [shared EXCEPT !.entry = [k \in Results |-> [at |-> Nothing, quiet |-> TRUE]]]
    /\ change' = [change EXCEPT ![t].pc = "invalidated"]
    /\ UNCHANGED <<run, call, row, calls>>

CommitChange(t) ==
    /\ Free(t) /\ change[t].pc = "invalidated"
    /\ row' = [row EXCEPT !.committed = change[t].at]
    /\ run' = [run EXCEPT ![t].wrote = change[t].at]
    /\ change' = [change EXCEPT ![t] = [pc |-> "ending", at |-> Nothing]]
    /\ UNCHANGED <<call, shared, calls>>

\* Any exception rolls the transaction back; the finally block still ends the change.
RollBackChange(t) ==
    /\ Free(t) /\ change[t].pc \in {"before", "after", "invalidated"}
    /\ change' = [change EXCEPT ![t] = [pc |-> "ending", at |-> Nothing]]
    /\ UNCHANGED <<run, call, shared, row, calls>>

\* end_dependency_data_change.
EndChange(t) ==
    /\ Free(t) /\ change[t].pc = "ending"
    /\ shared' = [shared EXCEPT !.count = @ - 1]
    /\ change' = [change EXCEPT ![t] = NoChange]
    /\ UNCHANGED <<run, call, row, calls>>

-----------------------------------------------------------------------------
CallStep(t) == TakeLease(t) \/ WaitingHit(t) \/ LeasedHit(t) \/ ReadGeneration(t)
               \/ Compute(t) \/ BufferResult(t)
ChangeStep(t) == WriteRow(t) \/ InvalidateEntries(t) \/ CommitChange(t) \/ EndChange(t)

RunNext ==
    \/ \E t \in Threads :
         \/ RunEnter(t) \/ (\E raised \in BOOLEAN : RunExit(t, raised)) \/ get_or_set(t)
         \/ \E k \in Results : CallMisses(t, k)
         \/ CallStep(t) \/ ComputeFails(t)
         \/ BeginChange(t) \/ ChangeStep(t) \/ RollBackChange(t)
    \/ \E k \in Results : RunLeaseExpires(k)

\* A thread keeps running once it is inside a call; the clock does not stop.
RunSpec ==
    /\ RunInit /\ [][RunNext]_runVars
    /\ \A t \in Threads : WF_runVars(CallStep(t))
    /\ \A k \in Results : WF_runVars(RunLeaseExpires(k))

-----------------------------------------------------------------------------
\* Types of the run's memory and of the backend.
RunTypeOK ==
    /\ \A t \in Threads :
         /\ run[t].depth \in 0..MaxDepth
         /\ run[t].pending \subseteq {k \in Results : run[t].hits[k] # Nothing}
         /\ Cardinality(run[t].pending) < BatchSize
         /\ call[t].pc \in {"none", "lease", "leased", "compute", "computed"}
    /\ shared.count = Cardinality({t \in Threads : change[t].pc # "none"})
    /\ \A k \in Results : shared.lease[k] \in Threads \cup {Nobody}

\* However late a run flushes its buffer, a result it publishes was computed
\* from the committed row, provided its computation began while no change was
\* open (publish_dependency_cache_entries against begin_dependency_data_change).
FlushedIsFresh ==
    \A k \in Results :
      shared.entry[k].at # Nothing /\ shared.entry[k].quiet /\ shared.count = 0
      => shared.entry[k].at = row.committed

\* A compute lease is held for a computation in progress or a buffered result:
\* no exit, discard or flush of the run leaves one behind for others to wait on.
LeasesAccountedFor ==
    \A k \in Results, t \in Threads :
      shared.lease[k] = t =>
        k \in run[t].pending \/ (call[t].key = k /\ call[t].pc # "lease")

\* A snapshot in the run is never older than a write the run itself has
\* committed: data_change clears the run before and after the mutation.
OwnWritesSeen ==
    \A t \in Threads : run[t].rows # Nothing /\ InRun(t) => run[t].rows >= run[t].wrote

\* What a run promises to itself and to the others, while threads change rows
\* and leases expire (cache/run_context.py).
RunSound == FlushedIsFresh /\ LeasesAccountedFor /\ OwnWritesSeen

\* Two runs that wait for leases which the other keeps until its end both get
\* on, because a lease expires (the wait loop of the wrapper has no other exit).
WaitersGetOn == \A t \in Threads : call[t].pc = "lease" ~> call[t].pc # "lease"
=============================================================================
