--------------------------- MODULE ServiceProofs ---------------------------
(***************************************************************************)
(* What a run's memory promises (RunContext.tla), for any threads, results *)
(* and bounds, what a stream of changes promises (LiveUpdates.tla), for    *)
(* any streams of the three kinds, channels and bounds, and what managers  *)
(* of a remote service promise.                                            *)
(*                                                                         *)
(* RunInvariant is inductive.  A result carries the generation in which it *)
(* was begun; while that is still the generation, and no change was open   *)
(* then, none has opened since (Steady), so the result is the committed    *)
(* row's wherever it waits: in the call, in the buffer, in the backend     *)
(* (Fresh).  That the counter of the backend is zero only where no change  *)
(* is open (Counted) is what publishing relies on.                         *)
(*                                                                         *)
(* LiveInvariant is inductive.  The news a stream has not shown yet is     *)
(* always somewhere on its way: in its channel, among the sends that are   *)
(* left, or in the open batch (Informed); a message only reaches it while  *)
(* it is in all of its groups (Member), which the stream's own memory of   *)
(* the groups it joined has to describe exactly, even where joining or     *)
(* leaving was interrupted.                                                *)
(*                                                                         *)
(* Remote managers (RemoteRequests.tla): RequestsSound, for any callers,   *)
(* rows, lookups, services and retry policies.  ReqInvariant is inductive. *)
(* A key is one call's alone and the service remembers it exactly when it  *)
(* acted (CallFine), so an attempt that is sent again finds its own        *)
(* answer; what is repeated without a key changes nothing, or deletes a    *)
(* row that never comes back.                                              *)
(***************************************************************************)
EXTENDS RunContext, LiveUpdates, RemoteRequests, FiniteSetTheorems, TLAPS

-----------------------------------------------------------------------------
(* The memory of a run: the invariant *)


Calling == {"none", "lease", "leased", "compute", "computed"}
Changing == {"none", "before", "after", "invalidated", "ending"}
Writing == {"after", "invalidated"}
Memory == [depth : Nat, rows : Nat, hits : [Results -> Nat], pending : SUBSET Results,
           entry : [Results -> [gen : Nat, lease : BOOLEAN, quiet : BOOLEAN]], wrote : Nat]
Call == [pc : Calling, key : Results \cup {"none"}, gen : Nat, at : Nat, quiet : BOOLEAN]
Backend == [entry : [Results -> [at : Nat, quiet : BOOLEAN]],
            lease : [Results -> Threads \cup {Nobody}], gen : Nat, count : Nat]

RunTypes ==
    /\ run \in [Threads -> Memory]
    /\ call \in [Threads -> Call]
    /\ \A t \in Threads : call[t].pc # "none" => call[t].key \in Results
    /\ change \in [Threads -> [pc : Changing, at : Nat]]
    /\ shared \in Backend
    /\ row \in [committed : Nat, written : Nat]

OpenChanges == {t \in Threads : change[t].pc # "none"}
Counted == shared.count = Cardinality(OpenChanges)
\* No change is open in c.
Quiet(c) == \A u \in Threads : c[u].pc = "none"

\* What memory r still has to publish: what it began while no change was open
\* is the row, if its generation g has not passed.
PendingFresh(r, g, c, v) ==
    \A k \in r.pending :
      /\ r.entry[k].gen <= g
      /\ r.entry[k].quiet = TRUE /\ r.entry[k].gen = g => Quiet(c) /\ r.hits[k] = v

\* The same of what is being computed in the call x.
CallFresh(x, g, c, v) ==
    x.pc \in {"compute", "computed"} =>
      /\ x.gen <= g
      /\ x.quiet = TRUE /\ x.gen = g => Quiet(c) /\ (x.pc = "computed" => x.at = v)

EntriesFresh ==
    /\ \A k \in Results : shared.entry[k].quiet = TRUE => shared.entry[k].at \in {Nothing, row.committed}
    /\ (\E u \in Threads : change[u].pc = "invalidated") =>
         \A k \in Results : shared.entry[k].at = Nothing

Fresh ==
    /\ \A t \in Threads :
         /\ PendingFresh(run[t], shared.gen, change, row.committed)
         /\ CallFresh(call[t], shared.gen, change, row.committed)
    /\ EntriesFresh

Leased ==
    \A k \in Results, t \in Threads :
      shared.lease[k] = t =>
        k \in run[t].pending \/ (call[t].key = k /\ call[t].pc \in {"leased", "compute", "computed"})

Written ==
    /\ row.committed <= row.written
    /\ \A t, u \in Threads : change[t].pc \in Writing /\ change[u].pc \in Writing => t = u
    /\ \A t \in Threads :
         /\ run[t].wrote <= row.committed
         /\ run[t].rows # Nothing => run[t].rows >= run[t].wrote
         /\ change[t].pc \in Writing =>
              change[t].at = row.written /\ run[t].rows \in {Nothing, change[t].at}

RunInvariant == RunTypes /\ Counted /\ Fresh /\ Leased /\ Written

-----------------------------------------------------------------------------
(* The operators *)

LEMMA Release ==
    ASSUME NEW s \in Backend, NEW t \in Threads, NEW keys
    PROVE  LET x == release_compute_lease(s, t, keys)
           IN  /\ x \in Backend
               /\ x.entry = s.entry /\ x.gen = s.gen /\ x.count = s.count
               /\ \A k \in Results : x.lease[k] = IF k \in keys /\ s.lease[k] = t THEN Nobody ELSE s.lease[k]
BY DEF release_compute_lease, Backend

LEMMA Publish ==
    ASSUME NEW s \in Backend, NEW r \in Memory
    PROVE  LET x == publish_dependency_cache_entries(s, r)
           IN  /\ x \in Backend
               /\ x.lease = s.lease /\ x.gen = s.gen /\ x.count = s.count
               /\ \A k \in Results :
                    \/ x.entry[k] = s.entry[k]
                    \/ /\ s.count = 0 /\ k \in r.pending /\ r.entry[k].gen = s.gen
                       /\ x.entry[k] = [at |-> r.hits[k], quiet |-> r.entry[k].quiet]
<1> DEFINE x == publish_dependency_cache_entries(s, r)
           e == [k \in Results |->
                   IF k \in r.pending /\ r.entry[k].gen = s.gen
                   THEN [at |-> r.hits[k], quiet |-> r.entry[k].quiet] ELSE s.entry[k]]
<1>1. CASE s.count > 0
  BY <1>1 DEF publish_dependency_cache_entries
<1>2. CASE ~(s.count > 0)
  <2>1. x = [s EXCEPT !.entry = e]
    BY <1>2 DEF publish_dependency_cache_entries
  <2>2. s.count = 0
    BY <1>2 DEF Backend
  <2>3. e \in [Results -> [at : Nat, quiet : BOOLEAN]]
    BY DEF Backend, Memory
  <2>4. x \in Backend /\ x.lease = s.lease /\ x.gen = s.gen /\ x.count = s.count /\ x.entry = e
    BY <2>1, <2>3 DEF Backend
  <2> QED BY <2>2, <2>4
<1> QED BY <1>1, <1>2

\* What flushing and discarding have in common: nothing is pending any more,
\* its leases are free, and what was published was as new as the generation.
Settles(x, t, r, s) ==
    /\ x.run \in Memory /\ x.shared \in Backend
    /\ x.run.pending = {} /\ x.run.rows = r.rows /\ x.run.wrote = r.wrote
    /\ x.shared.gen = s.gen /\ x.shared.count = s.count
    /\ \A k \in Results :
         /\ x.shared.lease[k] = IF k \in r.pending /\ s.lease[k] = t THEN Nobody ELSE s.lease[k]
         /\ \/ x.shared.entry[k] = s.entry[k]
            \/ /\ s.count = 0 /\ k \in r.pending /\ r.entry[k].gen = s.gen
               /\ x.shared.entry[k] = [at |-> r.hits[k], quiet |-> r.entry[k].quiet]

LEMMA FlushedTyped ==
    ASSUME NEW r \in Memory
    PROVE  /\ Flushed(r) \in Memory
           /\ Flushed(r).pending = {} /\ Flushed(r).rows = r.rows /\ Flushed(r).wrote = r.wrote
BY DEF Flushed, NoPending, Memory

LEMMA Flush ==
    ASSUME NEW s \in Backend, NEW r \in Memory, NEW t \in Threads
    PROVE  Settles(flush_dependency_cache_publications(t, r, s), t, r, s)
<1> DEFINE p == publish_dependency_cache_entries(s, r)
<1>1. p \in Backend
  BY Publish
<1> QED BY <1>1, Publish, Release, FlushedTyped DEF Settles, flush_dependency_cache_publications

LEMMA Discard ==
    ASSUME NEW s \in Backend, NEW r \in Memory, NEW t \in Threads
    PROVE  /\ Settles(discard_dependency_cache_publications(t, r, s), t, r, s)
           /\ discard_dependency_cache_publications(t, r, s).shared.entry = s.entry
BY Release, FlushedTyped DEF Settles, discard_dependency_cache_publications

LEMMA DiscardState ==
    ASSUME NEW s \in Backend, NEW r \in Memory, NEW t \in Threads
    PROVE  /\ Settles(discard_dependency_cache_state(t, r, s), t, r, s)
           /\ discard_dependency_cache_state(t, r, s).shared.entry = s.entry
<1> DEFINE d == discard_dependency_cache_publications(t, r, s)
           x == discard_dependency_cache_state(t, r, s)
<1>1. Settles(d, t, r, s) /\ d.shared.entry = s.entry
  BY Discard
<1>2. x.shared = d.shared /\ x.run = [d.run EXCEPT !.hits = Empty]
  BY DEF discard_dependency_cache_state
<1>3. d.run \in Memory /\ Empty \in [Results -> Nat]
  BY <1>1 DEF Settles, Empty, Nothing
<1>4. x.run \in Memory /\ x.run.pending = d.run.pending /\ x.run.rows = d.run.rows /\ x.run.wrote = d.run.wrote
  BY <1>2, <1>3 DEF Memory
<1> QED BY <1>1, <1>2, <1>4 DEF Settles

\* The memory with result c among the pending ones.
Holding(r, c) ==
    [r EXCEPT !.hits[c.key] = c.at, !.pending = @ \cup {c.key},
              !.entry[c.key] = [gen |-> c.gen, lease |-> TRUE, quiet |-> c.quiet]]

LEMMA Hold ==
    ASSUME NEW r \in Memory, NEW c \in Call, c.key \in Results
    PROVE  LET h == Holding(r, c)
           IN  /\ h \in Memory
               /\ h.pending = r.pending \cup {c.key} /\ h.rows = r.rows /\ h.wrote = r.wrote
               /\ h.hits[c.key] = c.at
               /\ h.entry[c.key].gen = c.gen /\ h.entry[c.key].quiet = c.quiet
               /\ \A k \in Results : k # c.key => h.hits[k] = r.hits[k] /\ h.entry[k] = r.entry[k]
BY DEF Holding, Memory, Call

LEMMA Buffer ==
    ASSUME NEW s \in Backend, NEW r \in Memory, NEW t \in Threads, NEW c \in Call, c.key \in Results
    PROVE  LET x == buffer_dependency_cache_publication(t, r, s, c)
           IN  \/ x.run = Holding(r, c) /\ x.shared = s
               \/ Settles(x, t, Holding(r, c), s)
BY Hold, Flush DEF buffer_dependency_cache_publication, Holding

-----------------------------------------------------------------------------
(* The invariant at the start *)

LEMMA RunTypesStart == RunInit => RunTypes
<1> SUFFICES ASSUME RunInit PROVE RunTypes
  OBVIOUS
<1>1. NewRun \in Memory
  BY DEF NewRun, Memory, Empty, NoPending, Nothing
<1>2. NoCall \in Call /\ NoCall.pc = "none"
  BY DEF NoCall, Call, Calling, Nothing
<1>3. NoChange \in [pc : Changing, at : Nat]
  BY DEF NoChange, Changing, Nothing
<1>4. shared \in Backend
  BY DEF RunInit, Backend, Nothing
<1> QED BY <1>1, <1>2, <1>3, <1>4 DEF RunInit, RunTypes

LEMMA RunStart == RunInit => RunInvariant
<1> SUFFICES ASSUME RunInit PROVE RunInvariant
  OBVIOUS
<1>1. RunTypes
  BY RunTypesStart
<1>2. \A t \in Threads : run[t] = NewRun /\ call[t] = NoCall /\ change[t] = NoChange
  BY DEF RunInit
<1>3. OpenChanges = {}
  BY <1>2 DEF OpenChanges, NoChange
<1>4. Counted
  BY <1>3, FS_EmptySet DEF Counted, RunInit
<1>5. Fresh
  BY <1>2 DEF Fresh, PendingFresh, CallFresh, EntriesFresh, NewRun, NoCall, NoChange, RunInit
<1>6. Leased
  BY RunAssumption DEF Leased, RunInit
<1>7. Written
  BY <1>2 DEF Written, NewRun, NoChange, RunInit, Nothing, Writing
<1> QED BY <1>1, <1>4, <1>5, <1>6, <1>7 DEF RunInvariant

-----------------------------------------------------------------------------
(* Types *)

LEMMA DepthSet ==
    ASSUME NEW r \in Memory, NEW n \in Nat
    PROVE  [r EXCEPT !.depth = n] \in Memory
BY DEF Memory

LEMMA CountsSet ==
    ASSUME NEW s \in Backend, NEW g \in Nat, NEW n \in Nat,
           NEW x, x = [s EXCEPT !.gen = g, !.count = n]
    PROVE  x \in Backend
BY DEF Backend

LEMMA RunTypesStep == RunTypes /\ Counted /\ [RunNext]_runVars => RunTypes'
<1> SUFFICES ASSUME RunTypes, Counted, [RunNext]_runVars PROVE RunTypes'
  OBVIOUS
<1> USE DEF RunTypes
<1>r. \A t \in Threads : run[t] \in Memory /\ call[t] \in Call
  OBVIOUS
<1>0. \A t \in Threads : Visible(t) \in Nat
  BY DEF Visible
<1>n. NewRun \in Memory /\ NoCall \in Call /\ NoCall.pc = "none" /\ NoChange \in [pc : Changing, at : Nat]
  BY DEF NewRun, Memory, Empty, NoPending, Nothing, NoCall, Call, Calling, NoChange, Changing
<1>1. ASSUME NEW t \in Threads, RunEnter(t) PROVE RunTypes'
  <2>1. [run[t] EXCEPT !.depth = @ + 1] \in Memory
    <3>1. run[t].depth + 1 \in Nat
      BY <1>r DEF Memory
    <3> QED BY <1>r, <3>1, DepthSet
  <2>2. run' = [run EXCEPT ![t] = [run[t] EXCEPT !.depth = @ + 1]] /\ UNCHANGED <<call, change, shared, row>>
    BY <1>1 DEF RunEnter
  <2> QED BY <2>1, <2>2
<1>2. ASSUME NEW t \in Threads, NEW raised \in BOOLEAN, RunExit(t, raised) PROVE RunTypes'
  <2>1. CASE run[t].depth > 1
    <3>1. [run[t] EXCEPT !.depth = @ - 1] \in Memory
      <4>1. run[t].depth - 1 \in Nat
        BY <1>r, <2>1 DEF Memory
      <4> QED BY <1>r, <4>1, DepthSet
    <3>2. run' = [run EXCEPT ![t] = [run[t] EXCEPT !.depth = @ - 1]] /\ UNCHANGED <<call, change, shared, row>>
      BY <1>2, <2>1 DEF RunExit
    <3> QED BY <3>1, <3>2
  <2>2. CASE ~(run[t].depth > 1)
    <3> DEFINE x == IF raised THEN discard_dependency_cache_publications(t, run[t], shared)
                     ELSE flush_dependency_cache_publications(t, run[t], shared)
    <3>1. x.shared \in Backend
      BY Flush, Discard DEF Settles
    <3>2. run' = [run EXCEPT ![t] = NewRun] /\ shared' = x.shared
      BY <1>2, <2>2 DEF RunExit, Becomes, flush_dependency_cache_publications,
         discard_dependency_cache_publications
    <3>3. UNCHANGED <<call, change, row>>
      BY <1>2 DEF RunExit
    <3> QED BY <3>1, <3>2, <3>3, <1>n
  <2> QED BY <2>1, <2>2
<1>3. ASSUME NEW t \in Threads, get_or_set(t) PROVE RunTypes'
  BY <1>3, <1>0 DEF get_or_set, Memory
<1>4. ASSUME NEW t \in Threads, NEW k \in Results, CallMisses(t, k) PROVE RunTypes'
  BY <1>4, <1>n DEF CallMisses, NoCall, Call, Calling
<1>5. ASSUME NEW t \in Threads, TakeLease(t) PROVE RunTypes'
  <2>1. [call[t] EXCEPT !.pc = "leased"] \in Call
    BY <1>r DEF Call, Calling
  <2>2. [shared EXCEPT !.lease[call[t].key] = t] \in Backend
    BY <1>5 DEF Backend
  <2>3. call' = [call EXCEPT ![t] = [call[t] EXCEPT !.pc = "leased"]] /\ UNCHANGED <<run, change, row>>
    BY <1>5 DEF TakeLease
  <2>4. call[t].key \in Results
    BY <1>5 DEF TakeLease
  <2>5. shared' = [shared EXCEPT !.lease[call[t].key] = t]
    BY <1>5 DEF TakeLease
  <2>6. [call[t] EXCEPT !.pc = "leased"].key \in Results
    BY <1>r, <2>4 DEF Call
  <2> QED BY <2>1, <2>2, <2>3, <2>5, <2>6
<1>6. ASSUME NEW t \in Threads, WaitingHit(t) PROVE RunTypes'
  BY <1>6, <1>n DEF WaitingHit
<1>7. ASSUME NEW t \in Threads, LeasedHit(t) PROVE RunTypes'
  BY <1>7, <1>n, Release DEF LeasedHit
<1>8. ASSUME NEW t \in Threads, ReadGeneration(t) PROVE RunTypes'
  <2> DEFINE c == [call[t] EXCEPT !.pc = "compute", !.gen = shared.gen, !.quiet = shared.count = 0]
  <2>1. shared.gen \in Nat /\ (shared.count = 0) \in BOOLEAN
    BY DEF Backend
  <2>2. c \in Call /\ c.key = call[t].key
    BY <1>r, <2>1 DEF Call, Calling
  <2>3. call' = [call EXCEPT ![t] = c] /\ UNCHANGED <<run, change, shared, row>>
    BY <1>8 DEF ReadGeneration
  <2>4. call[t].key \in Results
    BY <1>8 DEF ReadGeneration
  <2> QED BY <2>2, <2>3, <2>4
<1>9. ASSUME NEW t \in Threads, Compute(t) PROVE RunTypes'
  <2> DEFINE c == [call[t] EXCEPT !.pc = "computed", !.at = Visible(t)]
  <2>2. c \in Call /\ c.key = call[t].key
    BY <1>r, <1>0 DEF Call, Calling
  <2>3. call' = [call EXCEPT ![t] = c] /\ UNCHANGED <<run, change, shared, row>>
    BY <1>9 DEF Compute
  <2>4. call[t].key \in Results
    BY <1>9 DEF Compute
  <2> QED BY <2>2, <2>3, <2>4
<1>10. ASSUME NEW t \in Threads, BufferResult(t) PROVE RunTypes'
  <2> DEFINE x == buffer_dependency_cache_publication(t, run[t], shared, call[t])
  <2>1. call[t].key \in Results
    BY <1>10 DEF BufferResult
  <2>2. x.run \in Memory /\ x.shared \in Backend
    BY <2>1, Buffer, Hold DEF Settles
  <2> QED BY <1>10, <2>2, <1>n DEF BufferResult, Becomes
<1>11. ASSUME NEW t \in Threads, ComputeFails(t) PROVE RunTypes'
  BY <1>11, <1>n, Release DEF ComputeFails
<1>12. ASSUME NEW t \in Threads, BeginChange(t) PROVE RunTypes'
  <2> DEFINE raised == [shared EXCEPT !.gen = @ + 1, !.count = @ + 1]
             x == IF InRun(t) THEN discard_dependency_cache_state(t, run[t], raised)
                  ELSE [run |-> run[t], shared |-> raised]
  <2>0. shared \in Backend
    OBVIOUS
  <2>1. raised \in Backend
    <3>1. shared.gen + 1 \in Nat /\ shared.count + 1 \in Nat
      BY <2>0 DEF Backend
    <3> QED BY <2>0, <3>1, CountsSet
  <2>2. x.run \in Memory /\ x.shared \in Backend
    BY <2>1, DiscardState DEF Settles
  <2>3. run' = [run EXCEPT ![t] = clear_orm_bucket_results(x.run)] /\ shared' = x.shared
    BY <1>12 DEF BeginChange, Becomes, discard_dependency_cache_state, discard_dependency_cache_publications
  <2>4. clear_orm_bucket_results(x.run) \in Memory
    BY <2>2 DEF clear_orm_bucket_results, Memory, Nothing
  <2>5. change' \in [Threads -> [pc : Changing, at : Nat]] /\ UNCHANGED <<call, row>>
    BY <1>12 DEF BeginChange, Changing, Nothing
  <2> QED BY <2>2, <2>3, <2>4, <2>5
<1>13. ASSUME NEW t \in Threads, WriteRow(t) PROVE RunTypes'
  <2>1. clear_orm_bucket_results(run[t]) \in Memory
    BY DEF clear_orm_bucket_results, Memory, Nothing
  <2> QED BY <1>13, <2>1 DEF WriteRow, Changing
<1>14. ASSUME NEW t \in Threads, InvalidateEntries(t) PROVE RunTypes'
  BY <1>14 DEF InvalidateEntries, Changing, Backend, Nothing
<1>15. ASSUME NEW t \in Threads, CommitChange(t) PROVE RunTypes'
  BY <1>15 DEF CommitChange, Changing, Memory, Nothing
<1>16. ASSUME NEW t \in Threads, RollBackChange(t) PROVE RunTypes'
  BY <1>16 DEF RollBackChange, Changing, Nothing
<1>17. ASSUME NEW t \in Threads, EndChange(t) PROVE RunTypes'
  <2>1. IsFiniteSet(OpenChanges)
    BY RunAssumption, FS_Subset DEF OpenChanges
  <2>2. OpenChanges # {}
    BY <1>17 DEF OpenChanges, EndChange
  <2>3. Cardinality(OpenChanges) # 0 /\ Cardinality(OpenChanges) \in Nat
    BY <2>1, <2>2, FS_EmptySet, FS_CardinalityType
  <2>4. shared.count - 1 \in Nat
    BY <2>3 DEF Counted
  <2> QED BY <1>17, <2>4, <1>n DEF EndChange, Backend
<1>18. ASSUME NEW k \in Results, RunLeaseExpires(k) PROVE RunTypes'
  BY <1>18 DEF RunLeaseExpires, Backend
<1>19. ASSUME UNCHANGED runVars PROVE RunTypes'
  BY <1>19 DEF runVars
<1> QED BY <1>1, <1>2, <1>3, <1>4, <1>5, <1>6, <1>7, <1>8, <1>9, <1>10, <1>11, <1>12, <1>13, <1>14,
           <1>15, <1>16, <1>17, <1>18, <1>19 DEF RunNext, CallStep, ChangeStep

-----------------------------------------------------------------------------
(* What the steps do that go through the operators *)

LEMMA ExitEffect ==
    ASSUME RunTypes, NEW t \in Threads, NEW raised \in BOOLEAN, RunExit(t, raised)
    PROVE  /\ UNCHANGED <<call, change, row>> /\ change[t].pc = "none"
           /\ \A u \in Threads : u # t => run'[u] = run[u]
           /\ shared'.gen = shared.gen /\ shared'.count = shared.count
           /\ \/ /\ shared' = shared
                 /\ run'[t].pending = run[t].pending /\ run'[t].rows = run[t].rows
                 /\ run'[t].wrote = run[t].wrote /\ run'[t].hits = run[t].hits
                 /\ run'[t].entry = run[t].entry
              \/ /\ run'[t] = NewRun
                 /\ \E x : Settles(x, t, run[t], shared) /\ shared' = x.shared
<1>0. run[t] \in Memory /\ shared \in Backend /\ run \in [Threads -> Memory]
  BY DEF RunTypes
<1>1. UNCHANGED <<call, change, row>> /\ change[t].pc = "none"
  BY DEF RunExit
<1>2. CASE run[t].depth > 1
  <2>1. run' = [run EXCEPT ![t] = [run[t] EXCEPT !.depth = @ - 1]] /\ shared' = shared
    BY <1>2 DEF RunExit
  <2>2. run'[t] = [run[t] EXCEPT !.depth = @ - 1] /\ \A u \in Threads : u # t => run'[u] = run[u]
    BY <1>0, <2>1
  <2>3. /\ run'[t].pending = run[t].pending /\ run'[t].rows = run[t].rows
        /\ run'[t].wrote = run[t].wrote /\ run'[t].hits = run[t].hits /\ run'[t].entry = run[t].entry
    BY <1>0, <2>2 DEF Memory
  <2> QED BY <1>1, <2>1, <2>2, <2>3
<1>3. CASE ~(run[t].depth > 1)
  <2> DEFINE x == IF raised THEN discard_dependency_cache_publications(t, run[t], shared)
                  ELSE flush_dependency_cache_publications(t, run[t], shared)
  <2>1. Settles(x, t, run[t], shared)
    BY <1>0, Flush, Discard
  <2>2. run' = [run EXCEPT ![t] = NewRun] /\ shared' = x.shared
    BY <1>3 DEF RunExit, Becomes, flush_dependency_cache_publications,
       discard_dependency_cache_publications
  <2>3. run'[t] = NewRun /\ \A u \in Threads : u # t => run'[u] = run[u]
    BY <1>0, <2>2
  <2>4. shared'.gen = shared.gen /\ shared'.count = shared.count
    BY <2>1, <2>2 DEF Settles
  <2>5. \E y : Settles(y, t, run[t], shared) /\ shared' = y.shared
    BY <2>1, <2>2
  <2> QED BY <1>1, <2>3, <2>4, <2>5
<1> QED BY <1>2, <1>3

LEMMA BufferEffect ==
    ASSUME RunTypes, NEW t \in Threads, BufferResult(t)
    PROVE  /\ UNCHANGED <<change, row>>
           /\ call[t].pc = "computed" /\ call[t].key \in Results
           /\ call'[t] = NoCall /\ \A u \in Threads : u # t => run'[u] = run[u] /\ call'[u] = call[u]
           /\ shared'.gen = shared.gen /\ shared'.count = shared.count
           /\ run'[t].rows = run[t].rows /\ run'[t].wrote = run[t].wrote
           /\ \/ run'[t] = Holding(run[t], call[t]) /\ shared' = shared
              \/ \E x : /\ Settles(x, t, Holding(run[t], call[t]), shared)
                        /\ run'[t] = x.run /\ shared' = x.shared
<1> DEFINE x == buffer_dependency_cache_publication(t, run[t], shared, call[t])
           h == Holding(run[t], call[t])
<1>0. /\ run[t] \in Memory /\ shared \in Backend /\ call[t] \in Call
      /\ run \in [Threads -> Memory] /\ call \in [Threads -> Call]
  BY DEF RunTypes
<1>1. UNCHANGED <<change, row>> /\ call[t].pc = "computed" /\ call' = [call EXCEPT ![t] = NoCall]
  BY DEF BufferResult
<1>2. call[t].key \in Results
  BY <1>1 DEF RunTypes
<1>3. run' = [run EXCEPT ![t] = x.run] /\ shared' = x.shared
  BY DEF BufferResult, Becomes
<1>4. \/ x.run = h /\ x.shared = shared
      \/ Settles(x, t, h, shared)
  BY <1>0, <1>2, Buffer
<1>5. h.rows = run[t].rows /\ h.wrote = run[t].wrote
  BY <1>0, <1>2, Hold
<1>6. run'[t] = x.run /\ \A u \in Threads : u # t => run'[u] = run[u]
  BY <1>0, <1>3
<1>7. call'[t] = NoCall /\ \A u \in Threads : u # t => call'[u] = call[u]
  BY <1>0, <1>1
<1>8. shared'.gen = shared.gen /\ shared'.count = shared.count /\ x.run.rows = h.rows /\ x.run.wrote = h.wrote
  BY <1>3, <1>4 DEF Settles
<1>9. \/ run'[t] = h /\ shared' = shared
      \/ \E y : Settles(y, t, h, shared) /\ run'[t] = y.run /\ shared' = y.shared
  BY <1>3, <1>4, <1>6
<1> QED BY <1>1, <1>2, <1>5, <1>6, <1>7, <1>8, <1>9

LEMMA BeginEffect ==
    ASSUME RunTypes, NEW t \in Threads, BeginChange(t)
    PROVE  /\ UNCHANGED <<call, row>>
           /\ call[t].pc = "none" /\ change[t].pc = "none"
           /\ change' = [change EXCEPT ![t] = [pc |-> "before", at |-> Nothing]]
           /\ \A u \in Threads : u # t => run'[u] = run[u]
           /\ shared'.gen = shared.gen + 1 /\ shared'.count = shared.count + 1
           /\ shared'.entry = shared.entry
           /\ run'[t].rows = Nothing /\ run'[t].wrote = run[t].wrote
           /\ \/ /\ run'[t].pending = run[t].pending /\ run'[t].entry = run[t].entry
                 /\ shared'.lease = shared.lease
              \/ /\ run'[t].pending = {}
                 /\ \A k \in Results : shared'.lease[k] =
                      IF k \in run[t].pending /\ shared.lease[k] = t THEN Nobody ELSE shared.lease[k]
<1> DEFINE raised == [shared EXCEPT !.gen = @ + 1, !.count = @ + 1]
           x == IF InRun(t) THEN discard_dependency_cache_state(t, run[t], raised)
                ELSE [run |-> run[t], shared |-> raised]
           y == clear_orm_bucket_results(x.run)
<1>0. run[t] \in Memory /\ shared \in Backend /\ run \in [Threads -> Memory]
  BY DEF RunTypes
<1>1. /\ UNCHANGED <<call, row>> /\ call[t].pc = "none" /\ change[t].pc = "none"
      /\ change' = [change EXCEPT ![t] = [pc |-> "before", at |-> Nothing]]
  BY DEF BeginChange, Free
<1>2. run' = [run EXCEPT ![t] = y] /\ shared' = x.shared
  BY DEF BeginChange, Becomes, discard_dependency_cache_state, discard_dependency_cache_publications
<1>3. /\ raised \in Backend /\ raised.gen = shared.gen + 1 /\ raised.count = shared.count + 1
      /\ raised.lease = shared.lease /\ raised.entry = shared.entry
  <2>1. shared.gen + 1 \in Nat /\ shared.count + 1 \in Nat
    BY <1>0 DEF Backend
  <2>2. raised = [shared EXCEPT !.gen = shared.gen + 1, !.count = shared.count + 1]
    OBVIOUS
  <2>3. shared \in Backend
    BY <1>0
  <2> HIDE DEF raised
  <2>4. raised \in Backend
    BY <2>1, <2>2, <2>3, CountsSet
  <2>5. raised.gen = shared.gen + 1 /\ raised.count = shared.count + 1
    BY <2>2, <2>3 DEF Backend
  <2>6. raised.lease = shared.lease /\ raised.entry = shared.entry
    BY <2>2, <2>3 DEF Backend
  <2> QED BY <2>4, <2>5, <2>6
<1>4. run'[t] = y /\ \A u \in Threads : u # t => run'[u] = run[u]
  BY <1>0, <1>2
<1>5. \/ x.run = run[t] /\ x.shared = raised
      \/ Settles(x, t, run[t], raised) /\ x.shared.entry = raised.entry
  BY <1>0, <1>3, DiscardState
<1>6. x.run \in Memory /\ x.run.wrote = run[t].wrote
  BY <1>0, <1>5 DEF Settles
<1>7. y.rows = Nothing /\ y.wrote = x.run.wrote /\ y.pending = x.run.pending /\ y.entry = x.run.entry
  BY <1>6 DEF clear_orm_bucket_results, Memory
<1>8. shared'.gen = raised.gen /\ shared'.count = raised.count /\ shared'.entry = raised.entry
  BY <1>2, <1>5 DEF Settles
<1>9. \/ /\ y.pending = run[t].pending /\ y.entry = run[t].entry
         /\ shared'.lease = shared.lease
      \/ /\ y.pending = {}
         /\ \A k \in Results : shared'.lease[k] =
              IF k \in run[t].pending /\ shared.lease[k] = t THEN Nobody ELSE shared.lease[k]
  BY <1>2, <1>3, <1>5, <1>7 DEF Settles
<1> QED BY <1>1, <1>3, <1>4, <1>6, <1>7, <1>8, <1>9

-----------------------------------------------------------------------------
(* The changes that are open *)

\* Release and the other operators on the leases leave the counters.
LEMMA ReleaseCounts ==
    ASSUME RunTypes, NEW t \in Threads, NEW keys, shared' = release_compute_lease(shared, t, keys)
    PROVE  shared'.count = shared.count /\ shared'.gen = shared.gen /\ shared'.entry = shared.entry
BY Release DEF RunTypes

LEMMA CountedStep ==
    ASSUME RunTypes, Counted, [RunNext]_runVars
    PROVE  Counted'
<1>f. IsFiniteSet(OpenChanges) /\ Cardinality(OpenChanges) \in Nat
  BY RunAssumption, FS_Subset, FS_CardinalityType DEF OpenChanges
<1>t. change \in [Threads -> [pc : Changing, at : Nat]] /\ shared \in Backend
  BY DEF RunTypes
<1>u. ASSUME shared'.count = shared.count, OpenChanges' = OpenChanges PROVE Counted'
  BY <1>u DEF Counted
<1>c. ASSUME shared'.count = shared.count, UNCHANGED change PROVE Counted'
  BY <1>c, <1>u DEF OpenChanges
<1>1. ASSUME NEW t \in Threads, RunEnter(t) PROVE Counted'
  BY <1>1, <1>c DEF RunEnter
<1>2. ASSUME NEW t \in Threads, NEW raised \in BOOLEAN, RunExit(t, raised) PROVE Counted'
  BY <1>2, <1>c, ExitEffect
<1>3. ASSUME NEW t \in Threads, get_or_set(t) PROVE Counted'
  BY <1>3, <1>c DEF get_or_set
<1>4. ASSUME NEW t \in Threads, NEW k \in Results, CallMisses(t, k) PROVE Counted'
  BY <1>4, <1>c DEF CallMisses
<1>5. ASSUME NEW t \in Threads, TakeLease(t) PROVE Counted'
  <2>1. shared'.count = shared.count
    BY <1>5, <1>t DEF TakeLease, Backend
  <2> QED BY <1>5, <1>c, <2>1 DEF TakeLease
<1>6. ASSUME NEW t \in Threads, WaitingHit(t) PROVE Counted'
  BY <1>6, <1>c DEF WaitingHit
<1>7. ASSUME NEW t \in Threads, LeasedHit(t) PROVE Counted'
  BY <1>7, <1>c, ReleaseCounts DEF LeasedHit
<1>8. ASSUME NEW t \in Threads, ReadGeneration(t) PROVE Counted'
  BY <1>8, <1>c DEF ReadGeneration
<1>9. ASSUME NEW t \in Threads, Compute(t) PROVE Counted'
  BY <1>9, <1>c DEF Compute
<1>10. ASSUME NEW t \in Threads, BufferResult(t) PROVE Counted'
  BY <1>10, <1>c, BufferEffect
<1>11. ASSUME NEW t \in Threads, ComputeFails(t) PROVE Counted'
  BY <1>11, <1>c, ReleaseCounts DEF ComputeFails
<1>12. ASSUME NEW t \in Threads, BeginChange(t) PROVE Counted'
  <2>1. OpenChanges' = OpenChanges \cup {t} /\ t \notin OpenChanges
    BY <1>12, <1>t, BeginEffect DEF OpenChanges
  <2>2. shared'.count = shared.count + 1
    BY <1>12, BeginEffect
  <2>3. Cardinality(OpenChanges \cup {t}) = Cardinality(OpenChanges) + 1
    BY <1>f, <2>1, FS_AddElement
  <2> QED BY <2>1, <2>2, <2>3 DEF Counted
<1>13. ASSUME NEW t \in Threads, WriteRow(t) PROVE Counted'
  <2>1. OpenChanges' = OpenChanges
    BY <1>13, <1>t DEF OpenChanges, WriteRow
  <2> QED BY <1>13, <1>u, <2>1 DEF WriteRow
<1>14. ASSUME NEW t \in Threads, InvalidateEntries(t) PROVE Counted'
  <2>1. OpenChanges' = OpenChanges
    BY <1>14, <1>t DEF OpenChanges, InvalidateEntries
  <2>2. shared'.count = shared.count
    BY <1>14, <1>t DEF InvalidateEntries, Backend
  <2> QED BY <1>u, <2>1, <2>2
<1>15. ASSUME NEW t \in Threads, CommitChange(t) PROVE Counted'
  <2>1. OpenChanges' = OpenChanges
    BY <1>15, <1>t DEF OpenChanges, CommitChange
  <2> QED BY <1>15, <1>u, <2>1 DEF CommitChange
<1>16. ASSUME NEW t \in Threads, RollBackChange(t) PROVE Counted'
  <2>1. OpenChanges' = OpenChanges
    BY <1>16, <1>t DEF OpenChanges, RollBackChange
  <2> QED BY <1>16, <1>u, <2>1 DEF RollBackChange
<1>17. ASSUME NEW t \in Threads, EndChange(t) PROVE Counted'
  <2>1. OpenChanges' = OpenChanges \ {t} /\ t \in OpenChanges
    BY <1>17, <1>t DEF OpenChanges, EndChange, NoChange
  <2>2. shared'.count = shared.count - 1
    BY <1>17, <1>t DEF EndChange, Backend
  <2>3. Cardinality(OpenChanges \ {t}) = Cardinality(OpenChanges) - 1
    BY <1>f, <2>1, FS_RemoveElement
  <2> QED BY <2>1, <2>2, <2>3 DEF Counted
<1>18. ASSUME NEW k \in Results, RunLeaseExpires(k) PROVE Counted'
  <2>1. shared'.count = shared.count
    BY <1>18, <1>t DEF RunLeaseExpires, Backend
  <2> QED BY <1>18, <1>c, <2>1 DEF RunLeaseExpires
<1>19. ASSUME UNCHANGED runVars PROVE Counted'
  BY <1>19, <1>c DEF runVars
<1> QED BY <1>1, <1>2, <1>3, <1>4, <1>5, <1>6, <1>7, <1>8, <1>9, <1>10, <1>11, <1>12, <1>13, <1>14,
           <1>15, <1>16, <1>17, <1>18, <1>19 DEF RunNext, CallStep, ChangeStep

\* No change is open where the counter of the backend is back at zero.
LEMMA QuietAtZero ==
    ASSUME Counted, shared.count = 0
    PROVE  Quiet(change)
<1>1. IsFiniteSet(OpenChanges)
  BY RunAssumption, FS_Subset DEF OpenChanges
<1>2. OpenChanges = {}
  BY <1>1, FS_EmptySet DEF Counted
<1> QED BY <1>2 DEF OpenChanges, Quiet

-----------------------------------------------------------------------------
(* The leases *)

LEMMA LeasedStep ==
    ASSUME RunTypes, Leased, [RunNext]_runVars
    PROVE  Leased'
<1>t. /\ run \in [Threads -> Memory] /\ call \in [Threads -> Call] /\ shared \in Backend
      /\ shared.lease \in [Results -> Threads \cup {Nobody}]
  BY DEF RunTypes, Backend
<1>n. \A u \in Threads : u # Nobody
  BY RunAssumption
<1>k. \A u \in Threads : call[u].pc \in {"leased", "compute", "computed"} => call[u].key \in Results
  BY DEF RunTypes
\* Nothing but the leases and calls of one thread t is looked at.
<1>u. ASSUME NEW t \in Threads,
             \A u \in Threads : u # t => run'[u].pending = run[u].pending /\ call'[u] = call[u],
             \A k \in Results : shared'.lease[k] = shared.lease[k] \/ shared'.lease[k] \in {Nobody, t},
             \A k \in Results : shared'.lease[k] = t =>
               k \in run'[t].pending \/ (call'[t].key = k /\ call'[t].pc \in {"leased", "compute", "computed"})
      PROVE  Leased'
  BY <1>u, <1>n DEF Leased
<1>c. ASSUME \A u \in Threads : run'[u].pending = run[u].pending, UNCHANGED call,
             \A k \in Results : shared'.lease[k] \in {Nobody, shared.lease[k]}
      PROVE  Leased'
  BY <1>c, <1>n DEF Leased
<1>1. ASSUME NEW t \in Threads, RunEnter(t) PROVE Leased'
  <2>1. \A u \in Threads : run'[u].pending = run[u].pending
    BY <1>1, <1>t DEF RunEnter, Memory
  <2> QED BY <1>1, <1>c, <2>1 DEF RunEnter
<1>2. ASSUME NEW t \in Threads, NEW raised \in BOOLEAN, RunExit(t, raised) PROVE Leased'
  <2>1. UNCHANGED call /\ \A u \in Threads : u # t => run'[u] = run[u]
    BY <1>2, ExitEffect
  <2>2. CASE shared' = shared /\ run'[t].pending = run[t].pending
    BY <2>1, <2>2 DEF Leased
  <2>3. CASE \E x : Settles(x, t, run[t], shared) /\ shared' = x.shared
    <3>1. \A k \in Results : shared'.lease[k] =
            IF k \in run[t].pending /\ shared.lease[k] = t THEN Nobody ELSE shared.lease[k]
      BY <2>3 DEF Settles
    <3> QED BY <1>n, <1>u, <2>1, <3>1 DEF Leased
  <2> QED BY <1>2, <2>2, <2>3, ExitEffect
<1>3. ASSUME NEW t \in Threads, get_or_set(t) PROVE Leased'
  <2>1. \A u \in Threads : run'[u].pending = run[u].pending
    BY <1>3, <1>t DEF get_or_set, Memory
  <2> QED BY <1>3, <1>c, <2>1 DEF get_or_set
<1>4. ASSUME NEW t \in Threads, NEW k \in Results, CallMisses(t, k) PROVE Leased'
  <2>1. UNCHANGED <<run, shared>> /\ call[t].pc = "none" /\ \A u \in Threads : u # t => call'[u] = call[u]
    BY <1>4, <1>t DEF CallMisses, Free
  <2> QED BY <1>u, <2>1 DEF Leased
<1>5. ASSUME NEW t \in Threads, TakeLease(t) PROVE Leased'
  <2>1. /\ UNCHANGED run /\ call[t].pc = "lease" /\ \A u \in Threads : u # t => call'[u] = call[u]
        /\ call'[t].pc = "leased" /\ call'[t].key = call[t].key
    BY <1>5, <1>t DEF TakeLease, Call
  <2>2. \A k \in Results : shared'.lease[k] = IF k = call[t].key THEN t ELSE shared.lease[k]
    BY <1>5, <1>t DEF TakeLease, Backend
  <2> QED BY <1>u, <2>1, <2>2 DEF Leased
<1>6. ASSUME NEW t \in Threads, WaitingHit(t) PROVE Leased'
  <2>1. UNCHANGED <<run, shared>> /\ call[t].pc = "lease" /\ \A u \in Threads : u # t => call'[u] = call[u]
    BY <1>6, <1>t DEF WaitingHit
  <2> QED BY <1>u, <2>1 DEF Leased
<1>r. ASSUME NEW t \in Threads, UNCHANGED run, \A u \in Threads : u # t => call'[u] = call[u],
             shared' = release_compute_lease(shared, t, {call[t].key})
      PROVE  Leased'
  <2>1. \A k \in Results : shared'.lease[k] =
          IF k \in {call[t].key} /\ shared.lease[k] = t THEN Nobody ELSE shared.lease[k]
    BY <1>r, <1>t, Release
  <2>2. ASSUME NEW k \in Results, shared'.lease[k] = t PROVE k \in run'[t].pending
    <3>1. shared.lease[k] = t /\ k # call[t].key
      BY <1>n, <2>1, <2>2
    <3> QED BY <1>r, <3>1 DEF Leased
  <2>3. \A k \in Results : shared'.lease[k] = shared.lease[k] \/ shared'.lease[k] \in {Nobody, t}
    BY <2>1
  <2>4. \A u \in Threads : u # t => run'[u].pending = run[u].pending
    BY <1>r
  <2> QED BY <1>r, <1>u, <2>2, <2>3, <2>4
<1>7. ASSUME NEW t \in Threads, LeasedHit(t) PROVE Leased'
  BY <1>7, <1>t, <1>r DEF LeasedHit
<1>8. ASSUME NEW t \in Threads, ReadGeneration(t) PROVE Leased'
  <2>1. /\ UNCHANGED <<run, shared>> /\ \A u \in Threads : u # t => call'[u] = call[u]
        /\ call'[t].pc = "compute" /\ call'[t].key = call[t].key
    BY <1>8, <1>t DEF ReadGeneration, Call
  <2> QED BY <1>u, <2>1 DEF Leased
<1>9. ASSUME NEW t \in Threads, Compute(t) PROVE Leased'
  <2>1. /\ UNCHANGED <<run, shared>> /\ \A u \in Threads : u # t => call'[u] = call[u]
        /\ call'[t].pc = "computed" /\ call'[t].key = call[t].key
    BY <1>9, <1>t DEF Compute, Call
  <2> QED BY <1>u, <2>1 DEF Leased
<1>10. ASSUME NEW t \in Threads, BufferResult(t) PROVE Leased'
  <2> DEFINE h == Holding(run[t], call[t])
  <2>1. /\ \A u \in Threads : u # t => run'[u] = run[u] /\ call'[u] = call[u]
        /\ call[t].key \in Results
    BY <1>10, BufferEffect
  <2>2. h.pending = run[t].pending \cup {call[t].key}
    BY <1>t, <2>1, Hold
  <2>3. \A k \in Results : shared.lease[k] = t => k \in h.pending
    BY <2>2 DEF Leased
  <2>4. CASE run'[t] = h /\ shared' = shared
    BY <1>u, <2>1, <2>3, <2>4
  <2>5. CASE \E x : Settles(x, t, h, shared) /\ run'[t] = x.run /\ shared' = x.shared
    <3>1. \A k \in Results : shared'.lease[k] =
            IF k \in h.pending /\ shared.lease[k] = t THEN Nobody ELSE shared.lease[k]
      BY <2>5 DEF Settles
    <3> QED BY <1>n, <1>u, <2>1, <2>3, <3>1
  <2> QED BY <1>10, <2>4, <2>5, BufferEffect
<1>11. ASSUME NEW t \in Threads, ComputeFails(t) PROVE Leased'
  BY <1>11, <1>t, <1>r DEF ComputeFails
<1>12. ASSUME NEW t \in Threads, BeginChange(t) PROVE Leased'
  <2>1. UNCHANGED call /\ \A u \in Threads : u # t => run'[u] = run[u]
    BY <1>12, BeginEffect
  <2>2. CASE run'[t].pending = run[t].pending /\ shared'.lease = shared.lease
    BY <1>c, <2>1, <2>2
  <2>3. CASE \A k \in Results : shared'.lease[k] =
               IF k \in run[t].pending /\ shared.lease[k] = t THEN Nobody ELSE shared.lease[k]
    BY <1>n, <1>u, <2>1, <2>3 DEF Leased
  <2> QED BY <1>12, <2>2, <2>3, BeginEffect
<1>13. ASSUME NEW t \in Threads, WriteRow(t) PROVE Leased'
  <2>1. \A u \in Threads : run'[u].pending = run[u].pending
    BY <1>13, <1>t DEF WriteRow, clear_orm_bucket_results, Memory
  <2> QED BY <1>13, <1>c, <2>1 DEF WriteRow
<1>14. ASSUME NEW t \in Threads, InvalidateEntries(t) PROVE Leased'
  <2>1. shared'.lease = shared.lease
    BY <1>14, <1>t DEF InvalidateEntries, Backend
  <2> QED BY <1>14, <1>c, <2>1 DEF InvalidateEntries
<1>15. ASSUME NEW t \in Threads, CommitChange(t) PROVE Leased'
  <2>1. \A u \in Threads : run'[u].pending = run[u].pending
    BY <1>15, <1>t DEF CommitChange, Memory
  <2> QED BY <1>15, <1>c, <2>1 DEF CommitChange
<1>16. ASSUME NEW t \in Threads, RollBackChange(t) PROVE Leased'
  BY <1>16, <1>c DEF RollBackChange
<1>17. ASSUME NEW t \in Threads, EndChange(t) PROVE Leased'
  <2>1. shared'.lease = shared.lease
    BY <1>17, <1>t DEF EndChange, Backend
  <2> QED BY <1>17, <1>c, <2>1 DEF EndChange
<1>18. ASSUME NEW k \in Results, RunLeaseExpires(k) PROVE Leased'
  <2>1. \A i \in Results : shared'.lease[i] \in {Nobody, shared.lease[i]}
    BY <1>18, <1>t DEF RunLeaseExpires, Backend
  <2> QED BY <1>18, <1>c, <2>1 DEF RunLeaseExpires
<1>19. ASSUME UNCHANGED runVars PROVE Leased'
  BY <1>19, <1>c DEF runVars
<1> QED BY <1>1, <1>2, <1>3, <1>4, <1>5, <1>6, <1>7, <1>8, <1>9, <1>10, <1>11, <1>12, <1>13, <1>14,
           <1>15, <1>16, <1>17, <1>18, <1>19 DEF RunNext, CallStep, ChangeStep

-----------------------------------------------------------------------------
(* What a run has read and written *)

LEMMA WrittenStep ==
    ASSUME RunTypes, Written, [RunNext]_runVars
    PROVE  Written'
<1>t. /\ run \in [Threads -> Memory] /\ change \in [Threads -> [pc : Changing, at : Nat]]
      /\ row \in [committed : Nat, written : Nat] /\ shared \in Backend
      /\ row.committed \in Nat /\ row.written \in Nat
  BY DEF RunTypes
<1>m. \A u \in Threads : run[u].rows \in Nat /\ run[u].wrote \in Nat /\ change[u].at \in Nat
  BY <1>t DEF Memory
\* Nothing of the rows changes, and a snapshot at most disappears.
<1>u. ASSUME UNCHANGED <<change, row>>,
             \A u \in Threads : run'[u].rows \in {Nothing, run[u].rows} /\ run'[u].wrote = run[u].wrote
      PROVE  Written'
  BY <1>u DEF Written
<1>c. ASSUME UNCHANGED <<change, row, run>> PROVE Written'
  BY <1>c, <1>u
<1>1. ASSUME NEW t \in Threads, RunEnter(t) PROVE Written'
  <2>1. \A u \in Threads : run'[u].rows = run[u].rows /\ run'[u].wrote = run[u].wrote
    BY <1>1, <1>t DEF RunEnter, Memory
  <2> QED BY <1>1, <1>u, <2>1 DEF RunEnter
<1>2. ASSUME NEW t \in Threads, NEW raised \in BOOLEAN, RunExit(t, raised) PROVE Written'
  <2>1. /\ UNCHANGED <<call, change, row>> /\ change[t].pc = "none"
        /\ \A u \in Threads : u # t => run'[u] = run[u]
    BY <1>2, ExitEffect
  <2>2. CASE run'[t].rows = run[t].rows /\ run'[t].wrote = run[t].wrote
    <3>1. \A u \in Threads : run'[u].rows \in {Nothing, run[u].rows} /\ run'[u].wrote = run[u].wrote
      BY <2>1, <2>2
    <3> QED BY <1>u, <2>1, <3>1
  <2>3. CASE run'[t] = NewRun
    <3>1. run'[t].rows = Nothing /\ run'[t].wrote = 0
      BY <2>3 DEF NewRun, Nothing
    <3> QED BY <1>m, <1>t, <2>1, <3>1 DEF Written, Writing
  <2> QED BY <1>2, <2>2, <2>3, ExitEffect
<1>3. ASSUME NEW t \in Threads, get_or_set(t) PROVE Written'
  <2>1. /\ \A u \in Threads : u # t => run'[u] = run[u]
        /\ run'[t].rows = Visible(t) /\ run'[t].wrote = run[t].wrote
        /\ UNCHANGED <<change, row>>
    BY <1>3, <1>t DEF get_or_set, Memory
  <2>2. CASE change[t].pc \in Writing
    <3>1. run'[t].rows = change[t].at
      BY <2>1, <2>2 DEF Visible, Writing
    <3>2. change[t].at = row.written
      BY <2>2 DEF Written
    <3> QED BY <1>m, <1>t, <2>1, <3>1, <3>2 DEF Written
  <2>3. CASE change[t].pc \notin Writing
    <3>1. run'[t].rows = row.committed
      BY <2>1, <2>3 DEF Visible, Writing
    <3> QED BY <1>m, <1>t, <2>1, <2>3, <3>1 DEF Written
  <2> QED BY <2>2, <2>3
<1>4. ASSUME NEW t \in Threads, NEW k \in Results, CallMisses(t, k) PROVE Written'
  BY <1>4, <1>c DEF CallMisses
<1>5. ASSUME NEW t \in Threads, CallStep(t) \/ ComputeFails(t), ~BufferResult(t) PROVE Written'
  BY <1>5, <1>c DEF CallStep, TakeLease, WaitingHit, LeasedHit, ReadGeneration, Compute, ComputeFails
<1>10. ASSUME NEW t \in Threads, BufferResult(t) PROVE Written'
  <2>1. /\ UNCHANGED <<change, row>> /\ \A u \in Threads : u # t => run'[u] = run[u]
        /\ run'[t].rows = run[t].rows /\ run'[t].wrote = run[t].wrote
    BY <1>10, BufferEffect
  <2> QED BY <1>u, <2>1
<1>12. ASSUME NEW t \in Threads, BeginChange(t) PROVE Written'
  <2>1. /\ UNCHANGED row /\ change' = [change EXCEPT ![t] = [pc |-> "before", at |-> Nothing]]
        /\ \A u \in Threads : u # t => run'[u] = run[u]
        /\ run'[t].rows = Nothing /\ run'[t].wrote = run[t].wrote
    BY <1>12, BeginEffect
  <2>2. change'[t].pc = "before" /\ \A u \in Threads : u # t => change'[u] = change[u]
    BY <1>t, <2>1
  <2> QED BY <2>1, <2>2 DEF Written, Writing
<1>13. ASSUME NEW t \in Threads, WriteRow(t) PROVE Written'
  <2>1. /\ row'.committed = row.committed /\ row'.written = row.written + 1
        /\ change'[t].at = row.written + 1
        /\ \A u \in Threads : u # t => run'[u] = run[u] /\ change'[u] = change[u]
        /\ \A u \in Threads : change[u].pc \notin Writing
    BY <1>13, <1>t DEF WriteRow, Writing
  <2>2. run'[t].rows = Nothing /\ run'[t].wrote = run[t].wrote
    BY <1>13, <1>t DEF WriteRow, clear_orm_bucket_results, Memory
  <2> QED BY <1>m, <1>t, <2>1, <2>2 DEF Written
<1>14. ASSUME NEW t \in Threads, InvalidateEntries(t) PROVE Written'
  <2>1. /\ UNCHANGED <<run, row>> /\ change[t].pc = "after"
        /\ change'[t].at = change[t].at
        /\ \A u \in Threads : u # t => change'[u] = change[u]
    BY <1>14, <1>t DEF InvalidateEntries
  <2> QED BY <2>1 DEF Written, Writing
<1>15. ASSUME NEW t \in Threads, CommitChange(t) PROVE Written'
  <2>1. /\ row'.committed = change[t].at /\ row'.written = row.written
        /\ change[t].pc = "invalidated" /\ change'[t].pc = "ending"
        /\ \A u \in Threads : u # t => run'[u] = run[u] /\ change'[u] = change[u]
    BY <1>15, <1>t DEF CommitChange
  <2>2. run'[t].rows = run[t].rows /\ run'[t].wrote = change[t].at
    BY <1>15, <1>t DEF CommitChange, Memory
  <2>3. change[t].at = row.written /\ run[t].rows \in {Nothing, change[t].at}
    BY <2>1 DEF Written, Writing
  <2>4. row.committed <= row.written
    BY DEF Written
  <2>5. \A u \in Threads : run'[u].wrote <= row'.committed
    BY <1>m, <1>t, <2>1, <2>2, <2>3, <2>4 DEF Written
  <2>6. \A u \in Threads : run'[u].rows # Nothing => run'[u].rows >= run'[u].wrote
    BY <1>m, <1>t, <2>1, <2>2, <2>3 DEF Written
  <2>7. /\ \A u, w \in Threads : change'[u].pc \in Writing /\ change'[w].pc \in Writing => u = w
        /\ \A u \in Threads : change'[u].pc \in Writing =>
             change'[u].at = row'.written /\ run'[u].rows \in {Nothing, change'[u].at}
    BY <2>1 DEF Written, Writing
  <2>8. row'.committed <= row'.written
    BY <1>t, <2>1, <2>3
  <2> QED BY <2>5, <2>6, <2>7, <2>8 DEF Written
<1>16. ASSUME NEW t \in Threads, RollBackChange(t) \/ EndChange(t) PROVE Written'
  <2>1. /\ UNCHANGED <<run, row>> /\ change'[t].pc \notin Writing
        /\ \A u \in Threads : u # t => change'[u] = change[u]
    BY <1>16, <1>t DEF RollBackChange, EndChange, NoChange, Writing
  <2> QED BY <2>1 DEF Written
<1>18. ASSUME NEW k \in Results, RunLeaseExpires(k) PROVE Written'
  BY <1>18, <1>c DEF RunLeaseExpires
<1>19. ASSUME UNCHANGED runVars PROVE Written'
  BY <1>19, <1>c DEF runVars
<1> QED BY <1>1, <1>2, <1>3, <1>4, <1>5, <1>10, <1>12, <1>13, <1>14, <1>15, <1>16, <1>18, <1>19
        DEF RunNext, CallStep, ChangeStep

-----------------------------------------------------------------------------
(* What was computed before *)

\* A generation in which no change is open has neither opened nor committed one.
Steady ==
    /\ shared'.gen \in Nat /\ shared'.gen >= shared.gen
    /\ shared'.gen = shared.gen /\ Quiet(change) => Quiet(change') /\ row'.committed = row.committed

LEMMA SteadyStep ==
    ASSUME RunTypes, [RunNext]_runVars
    PROVE  Steady
<1>t. change \in [Threads -> [pc : Changing, at : Nat]] /\ shared \in Backend /\ shared.gen \in Nat
  BY DEF RunTypes, Backend
<1>u. ASSUME UNCHANGED <<change, row>>, shared'.gen = shared.gen PROVE Steady
  BY <1>t, <1>u DEF Steady, Quiet
<1>1. ASSUME NEW t \in Threads, RunEnter(t) \/ get_or_set(t) PROVE Steady
  BY <1>1, <1>u DEF RunEnter, get_or_set
<1>2. ASSUME NEW t \in Threads, NEW raised \in BOOLEAN, RunExit(t, raised) PROVE Steady
  BY <1>2, <1>u, ExitEffect
<1>3. ASSUME NEW t \in Threads, NEW k \in Results, CallMisses(t, k) PROVE Steady
  BY <1>3, <1>u DEF CallMisses
<1>4. ASSUME NEW t \in Threads, TakeLease(t) PROVE Steady
  <2>1. shared'.gen = shared.gen
    BY <1>4, <1>t DEF TakeLease, Backend
  <2> QED BY <1>4, <1>u, <2>1 DEF TakeLease
<1>5. ASSUME NEW t \in Threads, WaitingHit(t) \/ ReadGeneration(t) \/ Compute(t) PROVE Steady
  BY <1>5, <1>u DEF WaitingHit, ReadGeneration, Compute
<1>6. ASSUME NEW t \in Threads, LeasedHit(t) \/ ComputeFails(t) PROVE Steady
  BY <1>6, <1>u, ReleaseCounts DEF LeasedHit, ComputeFails
<1>7. ASSUME NEW t \in Threads, BufferResult(t) PROVE Steady
  BY <1>7, <1>u, BufferEffect
<1>8. ASSUME NEW t \in Threads, BeginChange(t) PROVE Steady
  <2>1. shared'.gen = shared.gen + 1
    BY <1>8, BeginEffect
  <2> QED BY <1>t, <2>1 DEF Steady
<1>9. ASSUME NEW t \in Threads, ChangeStep(t) \/ RollBackChange(t) PROVE Steady
  <2>1. ~Quiet(change)
    BY <1>9 DEF Quiet, ChangeStep, WriteRow, InvalidateEntries, CommitChange, EndChange, RollBackChange
  <2>2. shared'.gen = shared.gen
    BY <1>9, <1>t DEF ChangeStep, WriteRow, InvalidateEntries, CommitChange, EndChange, RollBackChange, Backend
  <2> QED BY <1>t, <2>1, <2>2 DEF Steady
<1>10. ASSUME NEW k \in Results, RunLeaseExpires(k) PROVE Steady
  <2>1. shared'.gen = shared.gen
    BY <1>10, <1>t DEF RunLeaseExpires, Backend
  <2> QED BY <1>10, <1>u, <2>1 DEF RunLeaseExpires
<1>11. ASSUME UNCHANGED runVars PROVE Steady
  BY <1>11, <1>u DEF runVars
<1> QED BY <1>1, <1>2, <1>3, <1>4, <1>5, <1>6, <1>7, <1>8, <1>9, <1>10, <1>11 DEF RunNext, CallStep

LEMMA KeepsPending ==
    ASSUME RunTypes, Steady, NEW r \in Memory, NEW x,
           PendingFresh(r, shared.gen, change, row.committed),
           x.pending = {} \/ (x.pending = r.pending /\ x.entry = r.entry /\ x.hits = r.hits)
    PROVE  PendingFresh(x, shared'.gen, change', row'.committed)
<1>1. shared.gen \in Nat /\ \A k \in r.pending : r.entry[k].gen \in Nat
  BY DEF RunTypes, Backend, Memory
<1>2. CASE x.pending = {}
  BY <1>2 DEF PendingFresh
<1>3. CASE x.pending = r.pending /\ x.entry = r.entry /\ x.hits = r.hits
  <2> SUFFICES ASSUME NEW k \in r.pending
               PROVE  /\ r.entry[k].gen <= shared'.gen
                      /\ r.entry[k].quiet = TRUE /\ r.entry[k].gen = shared'.gen =>
                           Quiet(change') /\ r.hits[k] = row'.committed
    BY <1>3 DEF PendingFresh
  <2>1. /\ r.entry[k].gen <= shared.gen
        /\ r.entry[k].quiet = TRUE /\ r.entry[k].gen = shared.gen =>
             Quiet(change) /\ r.hits[k] = row.committed
    BY DEF PendingFresh
  <2>2. shared'.gen \in Nat /\ shared'.gen >= shared.gen
    BY DEF Steady
  <2>3. r.entry[k].gen = shared'.gen => shared'.gen = shared.gen
    BY <1>1, <2>1, <2>2
  <2> QED BY <1>1, <2>1, <2>2, <2>3 DEF Steady
<1> QED BY <1>2, <1>3

LEMMA KeepsCall ==
    ASSUME RunTypes, Steady, NEW x \in Call,
           CallFresh(x, shared.gen, change, row.committed)
    PROVE  CallFresh(x, shared'.gen, change', row'.committed)
<1>1. shared.gen \in Nat /\ x.gen \in Nat
  BY DEF RunTypes, Backend, Call
<1>2. shared'.gen \in Nat /\ shared'.gen >= shared.gen
  BY DEF Steady
<1>3. x.pc \in {"compute", "computed"} /\ x.gen = shared'.gen => shared'.gen = shared.gen
  BY <1>1, <1>2 DEF CallFresh
<1> QED BY <1>1, <1>2, <1>3 DEF CallFresh, Steady

LEMMA SettlesFresh ==
    ASSUME RunTypes, Counted, EntriesFresh, UNCHANGED <<change, row>>,
           NEW r \in Memory, PendingFresh(r, shared.gen, change, row.committed),
           NEW t \in Threads, NEW x, Settles(x, t, r, shared), shared' = x.shared
    PROVE  EntriesFresh'
<1>1. \A k \in Results :
        \/ shared'.entry[k] = shared.entry[k]
        \/ /\ shared.count = 0 /\ k \in r.pending /\ r.entry[k].gen = shared.gen
           /\ shared'.entry[k].at = r.hits[k] /\ shared'.entry[k].quiet = r.entry[k].quiet
  <2> SUFFICES ASSUME NEW k \in Results, shared'.entry[k] # shared.entry[k]
               PROVE  /\ shared.count = 0 /\ k \in r.pending /\ r.entry[k].gen = shared.gen
                      /\ shared'.entry[k].at = r.hits[k] /\ shared'.entry[k].quiet = r.entry[k].quiet
    OBVIOUS
  <2>1. /\ shared.count = 0 /\ k \in r.pending /\ r.entry[k].gen = shared.gen
        /\ x.shared.entry[k] = [at |-> r.hits[k], quiet |-> r.entry[k].quiet]
    BY DEF Settles
  <2>2. shared'.entry[k] = [at |-> r.hits[k], quiet |-> r.entry[k].quiet]
    BY <2>1
  <2> QED BY <2>1, <2>2
<1>2. \A k \in Results : shared'.entry[k].quiet = TRUE => shared'.entry[k].at \in {Nothing, row.committed}
  BY <1>1 DEF EntriesFresh, PendingFresh
<1>3. ASSUME NEW u \in Threads, change[u].pc = "invalidated", NEW k \in Results
      PROVE  shared'.entry[k].at = Nothing
  <2>1. shared.count # 0
    BY <1>3, QuietAtZero DEF Quiet
  <2> QED BY <1>1, <1>3, <2>1 DEF EntriesFresh
<1> QED BY <1>2, <1>3 DEF EntriesFresh

\* A result is as fresh in the buffer as it was in the call.
LEMMA HoldsFresh ==
    ASSUME RunTypes, Fresh, NEW t \in Threads, call[t].pc = "computed", call[t].key \in Results
    PROVE  /\ Holding(run[t], call[t]) \in Memory
           /\ PendingFresh(Holding(run[t], call[t]), shared.gen, change, row.committed)
<1> DEFINE h == Holding(run[t], call[t])
<1>1. run[t] \in Memory /\ call[t] \in Call
  BY DEF RunTypes
<1>2. /\ PendingFresh(run[t], shared.gen, change, row.committed)
      /\ CallFresh(call[t], shared.gen, change, row.committed)
  BY DEF Fresh
<1>3. run[t].pending \subseteq Results
  BY <1>1 DEF Memory
<1>4. /\ h \in Memory /\ h.pending = run[t].pending \cup {call[t].key}
      /\ h.hits[call[t].key] = call[t].at
      /\ h.entry[call[t].key].gen = call[t].gen /\ h.entry[call[t].key].quiet = call[t].quiet
      /\ \A k \in Results : k # call[t].key =>
           h.hits[k] = run[t].hits[k] /\ h.entry[k] = run[t].entry[k]
  BY <1>1, Hold
<1> QED BY <1>2, <1>3, <1>4 DEF PendingFresh, CallFresh

LEMMA EntriesStep ==
    ASSUME RunTypes, Counted, Fresh, [RunNext]_runVars
    PROVE  EntriesFresh'
<1>t. /\ run \in [Threads -> Memory] /\ call \in [Threads -> Call]
      /\ change \in [Threads -> [pc : Changing, at : Nat]] /\ shared \in Backend
  BY DEF RunTypes
<1>f. EntriesFresh
  BY DEF Fresh
\* The committed row and the entries stay, and no change gets to "invalidated".
<1>u. ASSUME row'.committed = row.committed, shared'.entry = shared.entry,
             \A u \in Threads : change'[u].pc = "invalidated" => change[u].pc = "invalidated"
      PROVE  EntriesFresh'
  BY <1>f, <1>u DEF EntriesFresh
<1>c. ASSUME UNCHANGED <<change, row>>, shared'.entry = shared.entry PROVE EntriesFresh'
  BY <1>c, <1>u
<1>1. ASSUME NEW t \in Threads, RunEnter(t) \/ get_or_set(t) PROVE EntriesFresh'
  BY <1>1, <1>c DEF RunEnter, get_or_set
<1>2. ASSUME NEW t \in Threads, NEW raised \in BOOLEAN, RunExit(t, raised) PROVE EntriesFresh'
  <2>1. CASE shared' = shared
    BY <1>2, <1>c, <2>1, ExitEffect
  <2>2. CASE \E x : Settles(x, t, run[t], shared) /\ shared' = x.shared
    <3>1. PICK x : Settles(x, t, run[t], shared) /\ shared' = x.shared
      BY <2>2
    <3>2. run[t] \in Memory /\ PendingFresh(run[t], shared.gen, change, row.committed)
      BY <1>t DEF Fresh
    <3>3. UNCHANGED <<change, row>>
      BY <1>2, ExitEffect
    <3> QED BY <1>f, <3>1, <3>2, <3>3, SettlesFresh
  <2> QED BY <1>2, <2>1, <2>2, ExitEffect
<1>3. ASSUME NEW t \in Threads, NEW k \in Results, CallMisses(t, k) PROVE EntriesFresh'
  BY <1>3, <1>c DEF CallMisses
<1>4. ASSUME NEW t \in Threads, TakeLease(t) PROVE EntriesFresh'
  <2>1. shared'.entry = shared.entry
    BY <1>4, <1>t DEF TakeLease, Backend
  <2> QED BY <1>4, <1>c, <2>1 DEF TakeLease
<1>5. ASSUME NEW t \in Threads, WaitingHit(t) \/ ReadGeneration(t) \/ Compute(t) PROVE EntriesFresh'
  BY <1>5, <1>c DEF WaitingHit, ReadGeneration, Compute
<1>6. ASSUME NEW t \in Threads, LeasedHit(t) \/ ComputeFails(t) PROVE EntriesFresh'
  BY <1>6, <1>c, ReleaseCounts DEF LeasedHit, ComputeFails
<1>7. ASSUME NEW t \in Threads, BufferResult(t) PROVE EntriesFresh'
  <2> DEFINE h == Holding(run[t], call[t])
  <2>1. call[t].pc = "computed" /\ call[t].key \in Results /\ UNCHANGED <<change, row>>
    BY <1>7, BufferEffect
  <2>2. h \in Memory /\ PendingFresh(h, shared.gen, change, row.committed)
    BY <2>1, HoldsFresh
  <2>3. CASE shared' = shared
    BY <1>c, <2>1, <2>3
  <2>4. CASE \E x : Settles(x, t, h, shared) /\ shared' = x.shared
    <3>1. PICK x : Settles(x, t, h, shared) /\ shared' = x.shared
      BY <2>4
    <3> QED BY <1>f, <2>1, <2>2, <3>1, SettlesFresh
  <2> QED BY <1>7, <2>3, <2>4, BufferEffect
<1>8. ASSUME NEW t \in Threads, BeginChange(t) PROVE EntriesFresh'
  <2>1. /\ UNCHANGED row /\ shared'.entry = shared.entry
        /\ change' = [change EXCEPT ![t] = [pc |-> "before", at |-> Nothing]]
    BY <1>8, BeginEffect
  <2> QED BY <1>t, <1>u, <2>1
<1>9. ASSUME NEW t \in Threads, WriteRow(t) PROVE EntriesFresh'
  <2>1. /\ row'.committed = row.committed /\ UNCHANGED shared
        /\ \A u \in Threads : change'[u].pc = "invalidated" => change[u].pc = "invalidated"
    BY <1>9, <1>t DEF WriteRow, RunTypes
  <2> QED BY <1>u, <2>1
<1>10. ASSUME NEW t \in Threads, InvalidateEntries(t) PROVE EntriesFresh'
  <2>1. UNCHANGED row /\ \A k \in Results : shared'.entry[k].at = Nothing
    BY <1>10, <1>t DEF InvalidateEntries, Backend
  <2> QED BY <2>1 DEF EntriesFresh
<1>11. ASSUME NEW t \in Threads, CommitChange(t) PROVE EntriesFresh'
  <2>1. UNCHANGED shared /\ change[t].pc = "invalidated"
    BY <1>11 DEF CommitChange
  <2>2. \A k \in Results : shared'.entry[k].at = Nothing
    BY <1>f, <2>1 DEF EntriesFresh
  <2> QED BY <2>2 DEF EntriesFresh
<1>12. ASSUME NEW t \in Threads, RollBackChange(t) \/ EndChange(t) PROVE EntriesFresh'
  <2>1. UNCHANGED row /\ \A u \in Threads : change'[u].pc = "invalidated" => change[u].pc = "invalidated"
    BY <1>12, <1>t DEF RollBackChange, EndChange, NoChange
  <2>2. shared'.entry = shared.entry
    BY <1>12, <1>t DEF RollBackChange, EndChange, Backend
  <2> QED BY <1>u, <2>1, <2>2
<1>13. ASSUME NEW k \in Results, RunLeaseExpires(k) PROVE EntriesFresh'
  <2>1. shared'.entry = shared.entry
    BY <1>13, <1>t DEF RunLeaseExpires, Backend
  <2> QED BY <1>13, <1>c, <2>1 DEF RunLeaseExpires
<1>14. ASSUME UNCHANGED runVars PROVE EntriesFresh'
  BY <1>14, <1>c DEF runVars
<1> QED BY <1>1, <1>2, <1>3, <1>4, <1>5, <1>6, <1>7, <1>8, <1>9, <1>10, <1>11, <1>12, <1>13, <1>14
        DEF RunNext, CallStep, ChangeStep

LEMMA FreshStep ==
    ASSUME RunTypes, Counted, Fresh, [RunNext]_runVars
    PROVE  Fresh'
<1>t. /\ run \in [Threads -> Memory] /\ call \in [Threads -> Call]
      /\ change \in [Threads -> [pc : Changing, at : Nat]]
      /\ shared \in Backend /\ shared.gen \in Nat
  BY DEF RunTypes, Backend
<1>s. Steady
  BY SteadyStep
<1>e. EntriesFresh'
  BY EntriesStep
\* A thread whose memory keeps or empties its buffer.
<1>p. ASSUME NEW u \in Threads,
             \/ run'[u].pending = {}
             \/ run'[u].pending = run[u].pending /\ run'[u].entry = run[u].entry /\ run'[u].hits = run[u].hits
      PROVE  PendingFresh(run'[u], shared'.gen, change', row'.committed)
  <2>1. run[u] \in Memory /\ PendingFresh(run[u], shared.gen, change, row.committed)
    BY <1>t DEF Fresh
  <2> QED BY <1>p, <1>s, <2>1, KeepsPending
\* A thread whose call stays or computes nothing.
<1>c. ASSUME NEW u \in Threads, call'[u] = call[u] \/ call'[u].pc \in {"none", "lease", "leased"}
      PROVE  CallFresh(call'[u], shared'.gen, change', row'.committed)
  <2>1. call[u] \in Call /\ CallFresh(call[u], shared.gen, change, row.committed)
    BY <1>t DEF Fresh
  <2>2. CASE call'[u] = call[u]
    BY <1>s, <2>1, <2>2, KeepsCall
  <2>3. CASE call'[u].pc \in {"none", "lease", "leased"}
    BY <2>3 DEF CallFresh
  <2> QED BY <1>c, <2>2, <2>3
<1>q. ASSUME \A u \in Threads :
               \/ run'[u].pending = {}
               \/ run'[u].pending = run[u].pending /\ run'[u].entry = run[u].entry /\ run'[u].hits = run[u].hits,
             \A u \in Threads : call'[u] = call[u] \/ call'[u].pc \in {"none", "lease", "leased"}
      PROVE  Fresh'
  <2>1. ASSUME NEW u \in Threads
        PROVE  /\ PendingFresh(run'[u], shared'.gen, change', row'.committed)
               /\ CallFresh(call'[u], shared'.gen, change', row'.committed)
    BY <1>p, <1>q, <1>c
  <2> QED BY <1>e, <2>1 DEF Fresh
<1>n. NoCall.pc = "none"
  BY DEF NoCall
<1>1. ASSUME NEW t \in Threads, RunEnter(t) PROVE Fresh'
  <2>1. \A u \in Threads :
          run'[u].pending = run[u].pending /\ run'[u].entry = run[u].entry /\ run'[u].hits = run[u].hits
    BY <1>1, <1>t DEF RunEnter, Memory
  <2> QED BY <1>1, <1>q, <2>1 DEF RunEnter
<1>2. ASSUME NEW t \in Threads, NEW raised \in BOOLEAN, RunExit(t, raised) PROVE Fresh'
  <2>1. /\ UNCHANGED call /\ \A u \in Threads : u # t => run'[u] = run[u]
        /\ \/ /\ run'[t].pending = run[t].pending
              /\ run'[t].hits = run[t].hits /\ run'[t].entry = run[t].entry
           \/ run'[t] = NewRun
    BY <1>2, ExitEffect
  <2>2. NewRun.pending = {}
    BY DEF NewRun
  <2> QED BY <1>q, <2>1, <2>2
<1>3. ASSUME NEW t \in Threads, get_or_set(t) PROVE Fresh'
  <2>1. \A u \in Threads :
          run'[u].pending = run[u].pending /\ run'[u].entry = run[u].entry /\ run'[u].hits = run[u].hits
    BY <1>3, <1>t DEF get_or_set, Memory
  <2> QED BY <1>3, <1>q, <2>1 DEF get_or_set
<1>4. ASSUME NEW t \in Threads, NEW k \in Results, CallMisses(t, k) PROVE Fresh'
  <2>1. UNCHANGED run /\ call'[t].pc = "lease" /\ \A u \in Threads : u # t => call'[u] = call[u]
    BY <1>4, <1>t DEF CallMisses, NoCall
  <2> QED BY <1>q, <2>1
<1>5. ASSUME NEW t \in Threads, TakeLease(t) PROVE Fresh'
  <2>1. UNCHANGED run /\ call'[t].pc = "leased" /\ \A u \in Threads : u # t => call'[u] = call[u]
    BY <1>5, <1>t DEF TakeLease, Call
  <2> QED BY <1>q, <2>1
<1>6. ASSUME NEW t \in Threads, WaitingHit(t) \/ LeasedHit(t) \/ ComputeFails(t) PROVE Fresh'
  <2>1. UNCHANGED run /\ call'[t] = NoCall /\ \A u \in Threads : u # t => call'[u] = call[u]
    BY <1>6, <1>t DEF WaitingHit, LeasedHit, ComputeFails
  <2> QED BY <1>n, <1>q, <2>1
<1>8. ASSUME NEW t \in Threads, ReadGeneration(t) PROVE Fresh'
  <2>1. /\ UNCHANGED <<run, change, shared, row>> /\ \A u \in Threads : u # t => call'[u] = call[u]
        /\ call'[t].pc = "compute" /\ call'[t].gen = shared.gen /\ call'[t].quiet = (shared.count = 0)
    BY <1>8, <1>t DEF ReadGeneration, Call
  <2>2. shared.count = 0 => Quiet(change)
    BY QuietAtZero
  <2>3. CallFresh(call'[t], shared'.gen, change', row'.committed)
    <3>1. call'[t].gen <= shared'.gen
      BY <1>t, <2>1
    <3>2. call'[t].quiet = TRUE => Quiet(change')
      BY <2>1, <2>2
    <3> QED BY <2>1, <3>1, <3>2 DEF CallFresh
  <2>4. ASSUME NEW u \in Threads
        PROVE  /\ PendingFresh(run'[u], shared'.gen, change', row'.committed)
               /\ CallFresh(call'[u], shared'.gen, change', row'.committed)
    BY <1>p, <1>c, <2>1, <2>3
  <2> QED BY <1>e, <2>4 DEF Fresh
<1>9. ASSUME NEW t \in Threads, Compute(t) PROVE Fresh'
  <2>1. /\ UNCHANGED <<run, change, shared, row>> /\ \A u \in Threads : u # t => call'[u] = call[u]
        /\ call[t].pc = "compute" /\ call'[t].pc = "computed" /\ call'[t].at = Visible(t)
        /\ call'[t].gen = call[t].gen /\ call'[t].quiet = call[t].quiet
    BY <1>9, <1>t DEF Compute, Call
  <2>2. Quiet(change) => Visible(t) = row.committed
    BY DEF Quiet, Visible
  <2>3. CallFresh(call[t], shared.gen, change, row.committed)
    BY DEF Fresh
  <2>4. CallFresh(call'[t], shared'.gen, change', row'.committed)
    BY <2>1, <2>2, <2>3 DEF CallFresh
  <2>5. ASSUME NEW u \in Threads
        PROVE  /\ PendingFresh(run'[u], shared'.gen, change', row'.committed)
               /\ CallFresh(call'[u], shared'.gen, change', row'.committed)
    BY <1>p, <1>c, <2>1, <2>4
  <2> QED BY <1>e, <2>5 DEF Fresh
<1>10. ASSUME NEW t \in Threads, BufferResult(t) PROVE Fresh'
  <2> DEFINE h == Holding(run[t], call[t])
  <2>1. /\ call[t].pc = "computed" /\ call[t].key \in Results
        /\ call'[t] = NoCall /\ \A u \in Threads : u # t => run'[u] = run[u] /\ call'[u] = call[u]
    BY <1>10, BufferEffect
  <2>2. h \in Memory /\ PendingFresh(h, shared.gen, change, row.committed)
    BY <2>1, HoldsFresh
  <2>3. run'[t] = h \/ run'[t].pending = {}
    BY <1>10, BufferEffect DEF Settles
  <2>4. PendingFresh(run'[t], shared'.gen, change', row'.committed)
    BY <1>s, <2>2, <2>3, KeepsPending
  <2>5. ASSUME NEW u \in Threads
        PROVE  /\ PendingFresh(run'[u], shared'.gen, change', row'.committed)
               /\ CallFresh(call'[u], shared'.gen, change', row'.committed)
    BY <1>n, <1>p, <1>c, <2>1, <2>4
  <2> QED BY <1>e, <2>5 DEF Fresh
<1>12. ASSUME NEW t \in Threads, BeginChange(t) PROVE Fresh'
  <2>1. /\ UNCHANGED <<call, row>> /\ \A u \in Threads : u # t => run'[u] = run[u]
        /\ shared'.gen = shared.gen + 1
        /\ \/ run'[t].pending = run[t].pending /\ run'[t].entry = run[t].entry
           \/ run'[t].pending = {}
    BY <1>12, BeginEffect
  <2>2. PendingFresh(run'[t], shared'.gen, change', row'.committed)
    <3>1. CASE run'[t].pending = {}
      BY <1>p, <3>1
    <3>2. CASE run'[t].pending = run[t].pending /\ run'[t].entry = run[t].entry
      <4>1. run[t] \in Memory /\ PendingFresh(run[t], shared.gen, change, row.committed)
        BY <1>t DEF Fresh
      <4>2. \A k \in run[t].pending : run[t].entry[k].gen \in Nat /\ run[t].entry[k].gen <= shared.gen
        BY <4>1 DEF Memory, PendingFresh
      <4>3. \A k \in run[t].pending :
              run[t].entry[k].gen <= shared'.gen /\ run[t].entry[k].gen # shared'.gen
        BY <1>t, <2>1, <4>2
      <4> QED BY <3>2, <4>3 DEF PendingFresh
    <3> QED BY <2>1, <3>1, <3>2
  <2>3. ASSUME NEW u \in Threads
        PROVE  /\ PendingFresh(run'[u], shared'.gen, change', row'.committed)
               /\ CallFresh(call'[u], shared'.gen, change', row'.committed)
    BY <1>p, <1>c, <2>1, <2>2
  <2> QED BY <1>e, <2>3 DEF Fresh
<1>13. ASSUME NEW t \in Threads, WriteRow(t) \/ CommitChange(t) PROVE Fresh'
  <2>1. \A u \in Threads :
          run'[u].pending = run[u].pending /\ run'[u].entry = run[u].entry /\ run'[u].hits = run[u].hits
    <3>1. CASE WriteRow(t)
      BY <1>t, <3>1 DEF WriteRow, clear_orm_bucket_results, Memory
    <3>2. CASE CommitChange(t)
      BY <1>t, <3>2 DEF CommitChange, Memory
    <3> QED BY <1>13, <3>1, <3>2
  <2> QED BY <1>13, <1>q, <2>1 DEF WriteRow, CommitChange
<1>14. ASSUME NEW t \in Threads, InvalidateEntries(t) \/ RollBackChange(t) \/ EndChange(t) PROVE Fresh'
  BY <1>14, <1>q DEF InvalidateEntries, RollBackChange, EndChange
<1>18. ASSUME NEW k \in Results, RunLeaseExpires(k) PROVE Fresh'
  BY <1>18, <1>q DEF RunLeaseExpires
<1>19. ASSUME UNCHANGED runVars PROVE Fresh'
  BY <1>19, <1>q DEF runVars
<1> QED BY <1>1, <1>2, <1>3, <1>4, <1>5, <1>6, <1>8, <1>9, <1>10, <1>12, <1>13, <1>14, <1>18, <1>19
        DEF RunNext, CallStep, ChangeStep

-----------------------------------------------------------------------------
(* The theorems *)

\* Every access, call, change and expiry keeps the invariant of the run contexts
\* and the backend they flush to (cache/run_context.py).
THEOREM RunInvariantHolds == RunSpec => []RunInvariant
<1>1. RunInit => RunInvariant
  BY RunStart
<1>2. RunInvariant /\ [RunNext]_runVars => RunInvariant'
  BY RunTypesStep, CountedStep, LeasedStep, WrittenStep, FreshStep DEF RunInvariant
<1> QED BY <1>1, <1>2, PTL DEF RunSpec

\* For any threads, results, batch size and bounds: what a run flushes, however
\* late, is the committed row's if it was begun in quiet; no lease is left behind;
\* and a run sees its own writes (publish_dependency_cache_entries,
\* discard_dependency_cache_publications, data_change).
THEOREM RunSoundCorrect == RunSpec => []RunSound
<1>1. RunInvariant => FlushedIsFresh
  <2> SUFFICES ASSUME RunInvariant, NEW k \in Results,
                      shared.entry[k].at # Nothing, shared.entry[k].quiet
               PROVE  shared.entry[k].at = row.committed
    BY DEF FlushedIsFresh
  <2>1. shared.entry[k].quiet = TRUE
    BY DEF RunInvariant, RunTypes, Backend
  <2> QED BY <2>1 DEF RunInvariant, Fresh, EntriesFresh
<1>2. RunInvariant => LeasesAccountedFor
  BY DEF RunInvariant, Leased, LeasesAccountedFor
<1>3. RunInvariant => OwnWritesSeen
  BY DEF RunInvariant, Written, OwnWritesSeen
<1> QED BY <1>1, <1>2, <1>3, RunInvariantHolds, PTL DEF RunSound

-----------------------------------------------------------------------------
(* Streams of changes: the invariant *)


Stages == {"new", "read", "join", "wait", "leave", "off"}
Stream == [pc : Stages, joined : SUBSET Groups, channel : Nat, seen : [Items -> Nat],
           early : BOOLEAN, lost : BOOLEAN, left : SUBSET Groups]

LiveTypes ==
    /\ version \in [Items -> Nat]
    /\ members \in [Groups -> SUBSET Streams]
    /\ stream \in [Streams -> Stream]
    /\ publisher \in [bulk : BOOLEAN, targets : SUBSET Groups, sends : SUBSET Groups]

\* Stream s is x: the groups it is in are those it joined or could not leave.
Member(x, s, M) ==
    /\ x.joined \subseteq GroupsOf(s)
    /\ x.pc \in {"new", "read", "off"} => x.joined = {}
    /\ x.pc = "new" => x.left = {}
    /\ x.pc = "join" => x.joined # GroupsOf(s)
    /\ x.pc = "wait" => x.joined = GroupsOf(s)
    /\ \A g \in x.joined : s \in M[g]
    /\ \A g \in Groups : s \in M[g] => g \in x.joined \cup x.left

\* A publication that reaches s is still to be sent.
Announced(p, s) ==
    \/ \E g \in GroupsOf(s) : g \in p.sends
    \/ p.bulk = TRUE /\ \E g \in GroupsOf(s) : g \in p.targets

Informed(x, s, v, p) ==
    (x.pc \in {"read", "join", "wait"} /\ x.early = FALSE /\ x.lost = FALSE) =>
        \/ \A i \in Concerns(s) : x.seen[i] = v[i]
        \/ x.pc = "wait" /\ (x.channel > 0 \/ Announced(p, s))

LiveInvariant ==
    /\ LiveTypes
    /\ \A s \in Streams : Member(stream[s], s, members) /\ Informed(stream[s], s, version, publisher)
    /\ OneStreamPerOperation

-----------------------------------------------------------------------------
(* Groups *)

LEMMA GroupsOfKinds ==
    ASSUME NEW s
    PROVE  /\ s \in ItemStreams =>
                GroupsOf(s) = {<<"item", 1>>, <<"refresh", 1>>} \cup {<<"item", 2>>, <<"refresh", 2>>}
           /\ s \notin ItemStreams /\ s \in ClassStreams => GroupsOf(s) = {<<"class", 1>>, <<"refresh", 1>>}
           /\ s \notin ItemStreams /\ s \notin ClassStreams => GroupsOf(s) = {<<"remote", 1>>}
<1>1. CASE s \in ItemStreams
  <2>1. s \notin ClassStreams
    BY <1>1, LiveAssumption
  <2> QED BY <1>1, <2>1 DEF GroupsOf
<1>2. CASE s \notin ItemStreams /\ s \in ClassStreams
  BY <1>2 DEF GroupsOf
<1>3. CASE s \notin ItemStreams /\ s \notin ClassStreams
  BY <1>3 DEF GroupsOf
<1> QED BY <1>1, <1>2, <1>3

LEMMA GroupsKnown ==
    ASSUME NEW s
    PROVE  GroupsOf(s) \subseteq Groups /\ GroupsOf(s) # {} /\ Concerns(s) \subseteq Items
<1>1. \A k \in {"item", "class", "refresh", "remote"}, i \in {1, 2} : <<k, i>> \in Groups
  BY DEF Groups, Items
<1>2. Concerns(s) \subseteq Items
  BY DEF Concerns, Items
<1>3. CASE s \in ItemStreams
  BY <1>1, <1>2, <1>3, GroupsOfKinds
<1>4. CASE s \notin ItemStreams /\ s \in ClassStreams
  BY <1>1, <1>2, <1>4, GroupsOfKinds
<1>5. CASE s \notin ItemStreams /\ s \notin ClassStreams
  BY <1>1, <1>2, <1>5, GroupsOfKinds
<1> QED BY <1>3, <1>4, <1>5

LEMMA NextIsOne == \A G : G # {} => NextGroup(G) \in G
BY DEF NextGroup

\* Whatever a stream depends on, a change of it is sent to one of its groups,
\* singly or with a bulk refresh.
LEMMA ChangesReach ==
    ASSUME NEW s \in Streams, NEW i \in Concerns(s)
    PROVE  /\ \E g \in GroupsOf(s) : g \in {<<"item", i>>, <<"class", i>>, <<"remote", i>>}
           /\ \E g \in GroupsOf(s) : g \in {<<"refresh", i>>, <<"remote", i>>}
<1>1. CASE s \in ItemStreams
  <2>1. i \in {1, 2} /\ <<"item", i>> \in GroupsOf(s) /\ <<"refresh", i>> \in GroupsOf(s)
    BY <1>1, GroupsOfKinds DEF Concerns, Items
  <2> QED BY <2>1
<1>2. CASE s \notin ItemStreams /\ s \in ClassStreams
  <2>1. i = 1 /\ <<"class", i>> \in GroupsOf(s) /\ <<"refresh", i>> \in GroupsOf(s)
    BY <1>2, GroupsOfKinds DEF Concerns
  <2> QED BY <2>1
<1>3. CASE s \notin ItemStreams /\ s \notin ClassStreams
  <2>1. i = 1 /\ <<"remote", i>> \in GroupsOf(s)
    BY <1>3, GroupsOfKinds DEF Concerns
  <2> QED BY <2>1
<1> QED BY <1>1, <1>2, <1>3

-----------------------------------------------------------------------------
(* A step of one stream *)

\* s becomes x and may enter or leave groups itself; nothing is published.
LEMMA StreamMoves ==
    ASSUME LiveInvariant, NEW s \in Streams, NEW x \in Stream, NEW M,
           stream' = [stream EXCEPT ![s] = x], members' = M, M \in [Groups -> SUBSET Streams],
           \A g \in Groups, t \in Streams : t # s => (t \in M[g] <=> t \in members[g]),
           UNCHANGED <<version, publisher>>,
           Member(x, s, M), Informed(x, s, version, publisher),
           s \in Subscriptions /\ x.pc \in {"join", "wait", "leave"} => active' = s,
           \A t \in Subscriptions : t # s /\ stream[t].pc \in {"join", "wait", "leave"} => active' = t
    PROVE  LiveInvariant'
<1>1. /\ stream \in [Streams -> Stream] /\ stream' \in [Streams -> Stream] /\ stream'[s] = x
      /\ \A t \in Streams : t # s => stream'[t] = stream[t]
  BY DEF LiveInvariant, LiveTypes
<1>2. LiveTypes'
  BY <1>1 DEF LiveInvariant, LiveTypes
<1>3. \A t \in Streams : t # s => Member(stream[t], t, M) /\ Informed(stream[t], t, version, publisher)
  <2> TAKE t \in Streams
  <2> HAVE t # s
  <2>1. Member(stream[t], t, members) /\ Informed(stream[t], t, version, publisher)
    BY DEF LiveInvariant
  <2>2. stream[t].joined \subseteq Groups
    BY <1>1 DEF Stream
  <2> QED BY <2>1, <2>2 DEF Member
<1>4. \A t \in Streams : Member(stream'[t], t, members') /\ Informed(stream'[t], t, version', publisher')
  BY <1>1, <1>3
<1>5. OneStreamPerOperation'
  BY <1>1 DEF OneStreamPerOperation, Subscriptions, Streams
<1> QED BY <1>2, <1>4, <1>5 DEF LiveInvariant

\* What the invariant says of a stream.
LEMMA StreamFacts ==
    ASSUME LiveInvariant, NEW s \in Streams
    PROVE  /\ stream[s] \in Stream /\ Member(stream[s], s, members)
           /\ Informed(stream[s], s, version, publisher)
           /\ members \in [Groups -> SUBSET Streams] /\ version \in [Items -> Nat]
           /\ stream \in [Streams -> Stream]
           /\ \A t \in Subscriptions : stream[t].pc \in {"join", "wait", "leave"} => active = t
BY DEF LiveInvariant, LiveTypes, OneStreamPerOperation

LEMMA NewIsFresh == NewStream \in Stream
<1>1. [i \in Items |-> 0] \in [Items -> Nat]
  OBVIOUS
<1> QED BY <1>1 DEF NewStream, Stream, Stages

\* s becomes x and stays in the groups it is in.
LEMMA StreamTurns ==
    ASSUME LiveInvariant, NEW s \in Streams, NEW x \in Stream,
           stream' = [stream EXCEPT ![s] = x], UNCHANGED <<members, version, publisher>>,
           Member(x, s, members), Informed(x, s, version, publisher),
           s \in Subscriptions /\ x.pc \in {"join", "wait", "leave"} => active' = s,
           \A t \in Subscriptions : t # s /\ stream[t].pc \in {"join", "wait", "leave"} => active' = t
    PROVE  LiveInvariant'
<1>1. members' = members /\ members \in [Groups -> SUBSET Streams]
  BY StreamFacts
<1> QED BY <1>1, StreamMoves

LEMMA SubscribeKeeps ==
    ASSUME LiveInvariant, NEW s \in Subscriptions, _handle_subscribe(s) PROVE LiveInvariant'
<1>1. stream[s].pc = "new" /\ s \in Streams /\ UNCHANGED <<version, members, active, publisher>>
  BY DEF _handle_subscribe, At_, Streams
<1>2. CASE UNCHANGED stream
  BY <1>1, <1>2, StreamFacts DEF LiveInvariant, LiveTypes, OneStreamPerOperation
<1>3. CASE ~UNCHANGED stream
  <2>1. PICK x : x = [NewStream EXCEPT !.pc = "read", !.seen = version]
    OBVIOUS
  <2>2. stream' = [stream EXCEPT ![s] = x]
    BY <1>3, <2>1 DEF _handle_subscribe, Sets
  <2>3. /\ x \in Stream /\ x.pc = "read" /\ x.seen = version /\ x.joined = {} /\ x.left = {}
    BY <1>1, <2>1, StreamFacts, NewIsFresh DEF Stream, Stages, NewStream
  <2>4. Member(x, s, members)
    BY <1>1, <2>3, StreamFacts DEF Member
  <2>5. Informed(x, s, version, publisher)
    BY <2>3 DEF Informed
  <2> QED BY <1>1, <2>2, <2>3, <2>4, <2>5, StreamFacts, StreamTurns
<1> QED BY <1>2, <1>3

LEMMA StartKeeps == ASSUME LiveInvariant, NEW s \in Subscriptions, StartStream(s) PROVE LiveInvariant'
<1>1. /\ stream[s].pc = "read" /\ active = NoStream /\ active' = s /\ s \in Streams
      /\ UNCHANGED <<version, members, publisher>>
  BY DEF StartStream, At_, Streams
<1>2. PICK x : x = [stream[s] EXCEPT !.pc = "join"]
  OBVIOUS
<1>3. stream' = [stream EXCEPT ![s] = x] /\ stream[s] \in Stream
  BY <1>1, <1>2, StreamFacts DEF StartStream, Sets
<1>4. /\ x \in Stream /\ x.pc = "join" /\ x.joined = stream[s].joined /\ x.left = stream[s].left
      /\ x.early = stream[s].early /\ x.lost = stream[s].lost /\ x.seen = stream[s].seen
  BY <1>2, <1>3 DEF Stream, Stages
<1>5. Member(x, s, members)
  BY <1>1, <1>4, StreamFacts, GroupsKnown DEF Member
<1>6. Informed(x, s, version, publisher)
  BY <1>1, <1>4, StreamFacts DEF Informed
<1>7. \A t \in Subscriptions : stream[t].pc \notin {"join", "wait", "leave"}
  BY <1>1, StreamFacts, LiveAssumption DEF Streams
<1> QED BY <1>1, <1>3, <1>4, <1>5, <1>6, <1>7, StreamTurns

\* A cancelled stream leaves its groups; the one it was just joining stays behind.
LEMMA StopKeeps ==
    ASSUME LiveInvariant, NEW s \in Streams, Stop(s), UNCHANGED <<version, active, publisher>>
    PROVE  LiveInvariant'
<1>1. PICK g \in {{}} \cup (IF At_(s, "join") THEN {{NextGroup(GroupsOf(s) \ stream[s].joined)}} ELSE {}) :
        /\ Sets(s, [stream[s] EXCEPT !.pc = "leave", !.channel = 0, !.left = @ \cup g])
        /\ members' = [x \in Groups |-> IF x \in g THEN members[x] \cup {s} ELSE members[x]]
  BY DEF Stop
<1>2. /\ stream[s] \in Stream /\ Member(stream[s], s, members) /\ members \in [Groups -> SUBSET Streams]
      /\ stream[s].pc \in {"join", "wait"}
  BY StreamFacts DEF Stop
<1>3. g \subseteq Groups
  <2>1. CASE g = {}
    BY <2>1
  <2>2. CASE g # {}
    <3>1. stream[s].pc = "join" /\ g = {NextGroup(GroupsOf(s) \ stream[s].joined)}
      BY <1>1, <2>2 DEF At_
    <3>2. GroupsOf(s) \ stream[s].joined # {}
      BY <1>2, <3>1 DEF Member
    <3>3. NextGroup(GroupsOf(s) \ stream[s].joined) \in GroupsOf(s)
      BY <3>2, NextIsOne
    <3> QED BY <3>1, <3>3, GroupsKnown
  <2> QED BY <2>1, <2>2
<1>4. PICK x : x = [stream[s] EXCEPT !.pc = "leave", !.channel = 0, !.left = @ \cup g]
  OBVIOUS
<1>5. PICK M : M = [h \in Groups |-> IF h \in g THEN members[h] \cup {s} ELSE members[h]]
  OBVIOUS
<1>6. /\ x \in Stream /\ x.pc = "leave" /\ x.joined = stream[s].joined /\ x.left = stream[s].left \cup g
  BY <1>2, <1>3, <1>4 DEF Stream, Stages
<1>7. /\ M \in [Groups -> SUBSET Streams]
      /\ \A h \in Groups : M[h] = IF h \in g THEN members[h] \cup {s} ELSE members[h]
  BY <1>2, <1>5
<1>8. Member(x, s, M)
  <2>1. \A h \in x.joined : s \in M[h]
    BY <1>2, <1>6, <1>7 DEF Member, Stream
  <2>2. \A h \in Groups : s \in M[h] => h \in x.joined \cup x.left
    BY <1>2, <1>6, <1>7 DEF Member
  <2> QED BY <1>2, <1>6, <2>1, <2>2 DEF Member
<1>9. Informed(x, s, version, publisher)
  BY <1>6 DEF Informed
<1>10. \A h \in Groups, t \in Streams : t # s => (t \in M[h] <=> t \in members[h])
  BY <1>7
<1>11. stream' = [stream EXCEPT ![s] = x] /\ members' = M
  BY <1>1, <1>4, <1>5 DEF Sets
<1>12. /\ s \in Subscriptions => active' = s
       /\ \A t \in Subscriptions : stream[t].pc \in {"join", "wait", "leave"} => active' = t
  BY <1>2, StreamFacts
<1> QED BY <1>6, <1>7, <1>8, <1>9, <1>10, <1>11, <1>12, StreamMoves

LEMMA JoinKeeps == ASSUME LiveInvariant, NEW s \in Streams, _join_subscription_groups(s) PROVE LiveInvariant'
<1> DEFINE g == NextGroup(GroupsOf(s) \ stream[s].joined)
<1>1. stream[s].pc = "join" /\ UNCHANGED <<version, active, publisher>>
  BY DEF _join_subscription_groups, At_
<1>2. /\ stream[s] \in Stream /\ Member(stream[s], s, members) /\ members \in [Groups -> SUBSET Streams]
      /\ Informed(stream[s], s, version, publisher)
  BY StreamFacts
<1>3. g \in GroupsOf(s) /\ g \in Groups
  <2>1. GroupsOf(s) \ stream[s].joined # {}
    BY <1>1, <1>2 DEF Member
  <2> QED BY <2>1, NextIsOne, GroupsKnown
<1>4. /\ s \in Subscriptions => active' = s
      /\ \A t \in Subscriptions : stream[t].pc \in {"join", "wait", "leave"} => active' = t
  BY <1>1, StreamFacts
<1>5. CASE UNCHANGED members /\ Sets(s, [stream[s] EXCEPT !.pc = "leave"])
  <2>1. PICK x : x = [stream[s] EXCEPT !.pc = "leave"]
    OBVIOUS
  <2>2. /\ x \in Stream /\ x.pc = "leave" /\ x.joined = stream[s].joined /\ x.left = stream[s].left
        /\ stream' = [stream EXCEPT ![s] = x]
    BY <1>2, <1>5, <2>1 DEF Stream, Stages, Sets
  <2>3. Member(x, s, members) /\ Informed(x, s, version, publisher)
    BY <1>2, <2>2 DEF Member, Informed
  <2> QED BY <1>1, <1>4, <1>5, <2>2, <2>3, StreamTurns
<1>6. CASE /\ members' = [members EXCEPT ![g] = @ \cup {s}]
           /\ LET joined == stream[s].joined \cup {g}
              IN  Sets(s, [stream[s] EXCEPT !.joined = joined, !.pc = IF joined = GroupsOf(s) THEN "wait" ELSE "join"])
  <2>1. PICK J : J = stream[s].joined \cup {g}
    OBVIOUS
  <2>2. PICK x : x = [stream[s] EXCEPT !.joined = J, !.pc = IF J = GroupsOf(s) THEN "wait" ELSE "join"]
    OBVIOUS
  <2>3. stream' = [stream EXCEPT ![s] = x]
    BY <1>6, <2>1, <2>2 DEF Sets
  <2> HIDE DEF g
  <2>4. J \subseteq GroupsOf(s) /\ J \subseteq Groups
    BY <1>2, <1>3, <2>1, GroupsKnown DEF Member
  <2>5. /\ x \in Stream /\ x.joined = J /\ x.left = stream[s].left /\ x.pc = (IF J = GroupsOf(s) THEN "wait" ELSE "join")
        /\ x.seen = stream[s].seen /\ x.early = stream[s].early /\ x.lost = stream[s].lost
    BY <1>2, <2>2, <2>4 DEF Stream, Stages
  <2>6. PICK M : M = [members EXCEPT ![g] = @ \cup {s}]
    OBVIOUS
  <2>7. M \in [Groups -> SUBSET Streams] /\ \A h \in Groups : M[h] = IF h = g THEN members[h] \cup {s} ELSE members[h]
    BY <1>2, <1>3, <2>6
  <2>8. Member(x, s, M)
    <3>1. \A h \in J : s \in M[h]
      BY <1>2, <2>1, <2>4, <2>7 DEF Member
    <3>2. \A h \in Groups : s \in M[h] => h \in J \cup x.left
      BY <1>2, <2>1, <2>5, <2>7 DEF Member
    <3> QED BY <2>4, <2>5, <3>1, <3>2 DEF Member
  <2>9. Informed(x, s, version, publisher)
    BY <1>1, <1>2, <2>5 DEF Informed
  <2>10. \A h \in Groups, t \in Streams : t # s => (t \in M[h] <=> t \in members[h])
    BY <2>7
  <2>11. members' = M
    BY <1>6, <2>6
  <2> QED BY <1>1, <1>4, <2>3, <2>5, <2>7, <2>8, <2>9, <2>10, <2>11, StreamMoves
<1> QED BY <1>5, <1>6 DEF _join_subscription_groups

LEMMA EventKeeps == ASSUME LiveInvariant, NEW s \in Streams, event_stream(s) PROVE LiveInvariant'
<1>1. stream[s].pc = "wait" /\ stream[s].channel > 0 /\ UNCHANGED <<version, members, active, publisher>>
  BY DEF event_stream, At_
<1>2. PICK x : x = [stream[s] EXCEPT !.channel = @ - 1, !.seen = version]
  OBVIOUS
<1>3. /\ stream[s] \in Stream /\ Member(stream[s], s, members) /\ version \in [Items -> Nat]
      /\ stream' = [stream EXCEPT ![s] = x]
  BY <1>2, StreamFacts DEF event_stream, Sets
<1>4. stream[s].channel - 1 \in Nat
  BY <1>1, <1>3 DEF Stream
<1>5. x \in Stream /\ x.pc = "wait" /\ x.seen = version /\ x.joined = stream[s].joined /\ x.left = stream[s].left
  BY <1>1, <1>2, <1>3, <1>4 DEF Stream
<1>6. Member(x, s, members) /\ Informed(x, s, version, publisher)
  BY <1>1, <1>3, <1>5 DEF Member, Informed
<1> QED BY <1>1, <1>3, <1>5, <1>6, StreamFacts, StreamTurns

LEMMA StreamFailsKeeps == ASSUME LiveInvariant, NEW s \in ClassStreams, StreamFails(s) PROVE LiveInvariant'
<1>1. stream[s].pc = "wait" /\ s \in Streams /\ UNCHANGED <<version, members, active, publisher>>
  BY DEF StreamFails, At_, Streams, Subscriptions
<1>2. PICK x : x = [stream[s] EXCEPT !.pc = "leave", !.channel = 0]
  OBVIOUS
<1>3. stream[s] \in Stream /\ Member(stream[s], s, members) /\ stream' = [stream EXCEPT ![s] = x]
  BY <1>1, <1>2, StreamFacts DEF StreamFails, Sets
<1>4. x \in Stream /\ x.pc = "leave" /\ x.joined = stream[s].joined /\ x.left = stream[s].left
  BY <1>2, <1>3 DEF Stream, Stages
<1>5. Member(x, s, members) /\ Informed(x, s, version, publisher)
  BY <1>1, <1>3, <1>4 DEF Member, Informed
<1> QED BY <1>1, <1>3, <1>4, <1>5, StreamFacts, StreamTurns

LEMMA CleanupKeeps ==
    ASSUME LiveInvariant, NEW s \in Streams, _cleanup_subscription_resources(s) PROVE LiveInvariant'
<1> DEFINE g == NextGroup(stream[s].joined)
<1>1. stream[s].pc = "leave" /\ UNCHANGED <<version, publisher>>
  BY DEF _cleanup_subscription_resources, At_
<1>2. /\ stream[s] \in Stream /\ Member(stream[s], s, members) /\ members \in [Groups -> SUBSET Streams]
      /\ \A t \in Subscriptions : stream[t].pc \in {"join", "wait", "leave"} => active = t
  BY StreamFacts
<1>3. CASE stream[s].joined = {}
  <2>1. PICK x : x = [NewStream EXCEPT !.pc = "off", !.left = stream[s].left]
    OBVIOUS
  <2>2. /\ x \in Stream /\ x.pc = "off" /\ x.joined = {} /\ x.left = stream[s].left
    BY <1>2, <2>1, NewIsFresh DEF Stream, Stages, NewStream
  <2>3. /\ stream' = [stream EXCEPT ![s] = x] /\ UNCHANGED members
        /\ active' = (IF active = s THEN NoStream ELSE active)
    BY <1>3, <2>1 DEF _cleanup_subscription_resources, Sets
  <2>4. Member(x, s, members) /\ Informed(x, s, version, publisher)
    BY <1>2, <1>3, <2>2 DEF Member, Informed
  <2>5. \A t \in Subscriptions : t # s /\ stream[t].pc \in {"join", "wait", "leave"} => active' = t
    BY <1>2, <2>3
  <2> QED BY <1>1, <2>2, <2>3, <2>4, <2>5, StreamTurns
<1>4. CASE stream[s].joined # {}
  <2>1. g \in stream[s].joined /\ g \in Groups /\ stream[s].joined \subseteq GroupsOf(s)
    BY <1>2, <1>4, NextIsOne, GroupsKnown DEF Member
  <2>2. UNCHANGED active
    BY <1>4 DEF _cleanup_subscription_resources
  <2>3. /\ s \in Subscriptions => active' = s
        /\ \A t \in Subscriptions : t # s /\ stream[t].pc \in {"join", "wait", "leave"} => active' = t
    BY <1>1, <1>2, <2>2
  <2>4. CASE members' = [members EXCEPT ![g] = @ \ {s}] /\ Sets(s, [stream[s] EXCEPT !.joined = @ \ {g}])
    <3>1. PICK x : x = [stream[s] EXCEPT !.joined = @ \ {g}]
      OBVIOUS
    <3>2. PICK M : M = [members EXCEPT ![g] = @ \ {s}]
      OBVIOUS
    <3>3. stream' = [stream EXCEPT ![s] = x] /\ members' = M
      BY <2>4, <3>1, <3>2 DEF Sets
    <3> HIDE DEF g
    <3>4. x \in Stream /\ x.pc = "leave" /\ x.joined = stream[s].joined \ {g} /\ x.left = stream[s].left
      BY <1>1, <1>2, <3>1 DEF Stream
    <3>5. M \in [Groups -> SUBSET Streams] /\ \A h \in Groups : M[h] = IF h = g THEN members[h] \ {s} ELSE members[h]
      BY <1>2, <2>1, <3>2
    <3>6. Member(x, s, M)
      <4>1. \A h \in x.joined : s \in M[h]
        BY <1>2, <2>1, <3>4, <3>5, GroupsKnown DEF Member
      <4>2. \A h \in Groups : s \in M[h] => h \in x.joined \cup x.left
        BY <1>2, <3>4, <3>5 DEF Member
      <4> QED BY <2>1, <3>4, <4>1, <4>2 DEF Member
    <3>7. Informed(x, s, version, publisher)
      BY <3>4 DEF Informed
    <3>8. \A h \in Groups, t \in Streams : t # s => (t \in M[h] <=> t \in members[h])
      BY <3>5
    <3> QED BY <1>1, <2>3, <3>3, <3>4, <3>5, <3>6, <3>7, <3>8, StreamMoves
  <2>5. CASE UNCHANGED members /\ Sets(s, [stream[s] EXCEPT !.joined = @ \ {g}, !.left = @ \cup {g}])
    <3>1. PICK x : x = [stream[s] EXCEPT !.joined = @ \ {g}, !.left = @ \cup {g}]
      OBVIOUS
    <3>2. stream' = [stream EXCEPT ![s] = x]
      BY <2>5, <3>1 DEF Sets
    <3> HIDE DEF g
    <3>3. /\ x \in Stream /\ x.pc = "leave" /\ x.joined = stream[s].joined \ {g}
          /\ x.left = stream[s].left \cup {g}
      BY <1>1, <1>2, <2>1, <3>1 DEF Stream
    <3>4. Member(x, s, members)
      <4>1. \A h \in x.joined : s \in members[h]
        BY <1>2, <3>3 DEF Member
      <4>2. \A h \in Groups : s \in members[h] => h \in x.joined \cup x.left
        BY <1>2, <3>3 DEF Member
      <4> QED BY <2>1, <3>3, <4>1, <4>2 DEF Member
    <3>5. Informed(x, s, version, publisher)
      BY <3>3 DEF Informed
    <3> QED BY <1>1, <2>3, <2>5, <3>2, <3>3, <3>4, <3>5, StreamTurns
  <2> QED BY <1>4, <2>4, <2>5 DEF _cleanup_subscription_resources
<1> QED BY <1>3, <1>4

LEMMA ListenKeeps == ASSUME LiveInvariant, NEW s \in RemoteStreams, _listen_url(s) PROVE LiveInvariant'
<1>1. /\ stream[s].pc = "new" /\ s \in Streams /\ s \notin Subscriptions
      /\ UNCHANGED <<version, members, active, publisher>>
  BY LiveAssumption DEF _listen_url, At_, Streams
<1>2. PICK x : x = [NewStream EXCEPT !.pc = "join", !.seen = version]
  OBVIOUS
<1>3. stream' = [stream EXCEPT ![s] = x]
  BY <1>2 DEF _listen_url, Sets
<1>4. /\ x \in Stream /\ x.pc = "join" /\ x.seen = version /\ x.joined = {} /\ x.left = {}
  BY <1>1, <1>2, StreamFacts, NewIsFresh DEF Stream, Stages, NewStream
<1>5. Member(x, s, members)
  BY <1>1, <1>4, StreamFacts, GroupsKnown DEF Member
<1>6. Informed(x, s, version, publisher)
  BY <1>4 DEF Informed
<1> QED BY <1>1, <1>3, <1>4, <1>5, <1>6, StreamFacts, StreamTurns

-----------------------------------------------------------------------------
(* Changes and publications *)

\* Streams keep where they are and what they joined.
LEMMA NewsKeeps ==
    ASSUME LiveInvariant, LiveTypes', UNCHANGED <<members, active>>,
           \A s \in Streams : /\ stream'[s].pc = stream[s].pc /\ stream'[s].joined = stream[s].joined
                              /\ stream'[s].left = stream[s].left,
           \A s \in Streams : Informed(stream'[s], s, version', publisher')
    PROVE  LiveInvariant'
<1>1. \A s \in Streams : Member(stream'[s], s, members')
  BY DEF LiveInvariant, Member
<1>2. OneStreamPerOperation'
  BY DEF LiveInvariant, OneStreamPerOperation, Streams
<1> QED BY <1>1, <1>2 DEF LiveInvariant

LEMMA ChangeKeeps == ASSUME LiveInvariant, NEW i \in Items, _handle_data_change(i) PROVE LiveInvariant'
<1>1. /\ version \in [Items -> Nat] /\ stream \in [Streams -> Stream] /\ publisher.sends = {}
      /\ publisher \in [bulk : BOOLEAN, targets : SUBSET Groups, sends : SUBSET Groups]
      /\ members \in [Groups -> SUBSET Streams] /\ UNCHANGED <<members, active>>
  BY DEF LiveInvariant, LiveTypes, _handle_data_change
<1>2. version' \in [Items -> Nat] /\ \A k \in Items : k # i => version'[k] = version[k]
  BY <1>1 DEF _handle_data_change
<1>3. \A s \in Streams :
        stream'[s] = IF stream[s].pc \in {"read", "join"} /\ i \in Concerns(s)
                     THEN [stream[s] EXCEPT !.early = TRUE] ELSE stream[s]
  BY DEF _handle_data_change
<1>4. \A s \in Streams :
        /\ stream'[s] \in Stream /\ stream'[s].pc = stream[s].pc /\ stream'[s].joined = stream[s].joined
        /\ stream'[s].left = stream[s].left /\ stream'[s].seen = stream[s].seen
        /\ stream'[s].channel = stream[s].channel /\ stream'[s].lost = stream[s].lost
        /\ stream'[s].early = (IF stream[s].pc \in {"read", "join"} /\ i \in Concerns(s) THEN TRUE ELSE stream[s].early)
  <2> TAKE s \in Streams
  <2>1. stream[s] \in Stream
    BY <1>1
  <2> QED BY <1>3, <2>1 DEF Stream
<1>5. PICK p : p = publisher'
  OBVIOUS
<1>6. /\ p \in [bulk : BOOLEAN, targets : SUBSET Groups, sends : SUBSET Groups]
      /\ \/ /\ publisher.bulk = TRUE /\ p.bulk = TRUE /\ p.sends = {}
            /\ p.targets = publisher.targets \cup {<<"refresh", i>>, <<"remote", i>>}
         \/ /\ publisher.bulk = FALSE /\ p.bulk = FALSE /\ p.targets = publisher.targets
            /\ p.sends = {<<"item", i>>, <<"class", i>>, <<"remote", i>>}
  <2>1. \A k \in {"item", "class", "refresh", "remote"} : <<k, i>> \in Groups
    BY DEF Groups
  <2>2. CASE publisher.bulk = TRUE
    BY <1>1, <1>5, <2>1, <2>2 DEF _handle_data_change, _publish_data_change, _publish_remote_invalidation
  <2>3. CASE publisher.bulk = FALSE
    BY <1>1, <1>5, <2>1, <2>3 DEF _handle_data_change, _publish_data_change, _publish_remote_invalidation
  <2> QED BY <1>1, <2>2, <2>3
<1>7. \A s \in Streams : Informed(stream'[s], s, version', p)
  <2> TAKE s \in Streams
  <2>1. Informed(stream[s], s, version, publisher) /\ Concerns(s) \subseteq Items
    BY GroupsKnown DEF LiveInvariant
  <2>2. CASE i \in Concerns(s)
    <3>1. Announced(p, s)
      BY <1>6, <2>2, ChangesReach DEF Announced
    <3> QED BY <1>4, <2>2, <3>1 DEF Informed
  <2>3. CASE i \notin Concerns(s)
    <3>1. \A k \in Concerns(s) : version'[k] = version[k]
      BY <1>2, <2>1, <2>3
    <3>2. Announced(publisher, s) => Announced(p, s)
      BY <1>1, <1>6 DEF Announced
    <3> QED BY <1>4, <2>1, <2>3, <3>1, <3>2 DEF Informed
  <2> QED BY <2>2, <2>3
<1>8. stream' \in [Streams -> Stream]
  BY <1>4 DEF _handle_data_change
<1>9. LiveTypes'
  BY <1>1, <1>2, <1>5, <1>6, <1>8 DEF LiveTypes
<1> QED BY <1>1, <1>4, <1>5, <1>7, <1>9, NewsKeeps

LEMMA BulkKeeps == ASSUME LiveInvariant, bulk_data_change_notifications PROVE LiveInvariant'
<1>1. /\ publisher.sends = {} /\ UNCHANGED <<version, members, stream, active>>
      /\ publisher \in [bulk : BOOLEAN, targets : SUBSET Groups, sends : SUBSET Groups]
  BY DEF bulk_data_change_notifications, LiveInvariant, LiveTypes
<1>2. PICK p : p = publisher'
  OBVIOUS
<1>3. /\ p \in [bulk : BOOLEAN, targets : SUBSET Groups, sends : SUBSET Groups]
      /\ p.sends = publisher.targets
  BY <1>1, <1>2 DEF bulk_data_change_notifications
<1>4. \A s \in Streams : Announced(publisher, s) => Announced(p, s)
  BY <1>1, <1>3 DEF Announced
<1>5. \A s \in Streams : Informed(stream[s], s, version, p)
  BY <1>4 DEF LiveInvariant, Informed
<1>6. LiveTypes'
  BY <1>1, <1>2, <1>3 DEF LiveInvariant, LiveTypes
<1> QED BY <1>1, <1>2, <1>5, <1>6, NewsKeeps

LEMMA SendKeeps == ASSUME LiveInvariant, NEW g \in Groups, group_send(g) PROVE LiveInvariant'
<1>1. /\ UNCHANGED <<version, members, active>> /\ g \in publisher.sends
      /\ stream \in [Streams -> Stream]
      /\ publisher \in [bulk : BOOLEAN, targets : SUBSET Groups, sends : SUBSET Groups]
  BY NextIsOne DEF group_send, LiveInvariant, LiveTypes
<1>2. PICK p : p = publisher'
  OBVIOUS
<1>3. /\ p \in [bulk : BOOLEAN, targets : SUBSET Groups, sends : SUBSET Groups]
      /\ p.sends = publisher.sends \ {g} /\ p.bulk = publisher.bulk /\ p.targets = publisher.targets
  BY <1>1, <1>2 DEF group_send
<1>4. \A s \in Streams :
        /\ stream'[s] \in Stream /\ stream'[s].pc = stream[s].pc /\ stream'[s].joined = stream[s].joined
        /\ stream'[s].left = stream[s].left /\ stream'[s].seen = stream[s].seen
        /\ stream'[s].early = stream[s].early /\ (stream[s].lost = TRUE => stream'[s].lost = TRUE)
        /\ IF s \in members[g] THEN stream'[s].channel > 0 \/ stream'[s].lost = TRUE ELSE stream'[s] = stream[s]
  <2> TAKE s \in Streams
  <2>1. stream[s] \in Stream
    BY <1>1
  <2>2. CASE s \notin members[g]
    BY <2>1, <2>2 DEF group_send
  <2>3. CASE s \in members[g]
    <3>1. stream'[s] = [stream[s] EXCEPT !.channel = @ + 1] \/ stream'[s] = [stream[s] EXCEPT !.lost = TRUE]
      BY <2>3 DEF group_send
    <3>2. stream[s].channel \in Nat /\ stream[s].channel + 1 \in Nat /\ stream[s].channel + 1 > 0
      BY <2>1 DEF Stream
    <3>3. CASE stream'[s] = [stream[s] EXCEPT !.channel = @ + 1]
      <4>1. /\ stream'[s] \in Stream /\ stream'[s].channel = stream[s].channel + 1
            /\ stream'[s].pc = stream[s].pc /\ stream'[s].joined = stream[s].joined
            /\ stream'[s].left = stream[s].left /\ stream'[s].seen = stream[s].seen
            /\ stream'[s].early = stream[s].early /\ stream'[s].lost = stream[s].lost
        BY <2>1, <3>2, <3>3 DEF Stream
      <4> QED BY <2>3, <3>2, <4>1
    <3>4. CASE stream'[s] = [stream[s] EXCEPT !.lost = TRUE]
      BY <2>1, <2>3, <3>4 DEF Stream
    <3> QED BY <3>1, <3>3, <3>4
  <2> QED BY <2>2, <2>3
<1>5. stream' \in [Streams -> Stream]
  BY <1>4 DEF group_send
<1>6. \A s \in Streams : Informed(stream'[s], s, version, p)
  <2> TAKE s \in Streams
  <2>1. Informed(stream[s], s, version, publisher) /\ Member(stream[s], s, members)
    BY DEF LiveInvariant
  <2>2. CASE s \in members[g]
    <3>1. stream[s].pc \in {"read", "join"} => \/ stream[s].early = TRUE \/ stream[s].lost = TRUE
                                                \/ \A i \in Concerns(s) : stream[s].seen[i] = version[i]
      BY <1>1, <2>1 DEF Informed, Stream
    <3>2. stream[s].lost = TRUE => stream'[s].lost = TRUE
      BY <1>4
    <3> QED BY <1>4, <2>2, <3>1, <3>2 DEF Informed
  <2>3. CASE s \notin members[g]
    <3>1. stream'[s] = stream[s]
      BY <1>4, <2>3
    <3>2. stream[s].pc = "wait" => g \notin GroupsOf(s)
      BY <2>1, <2>3 DEF Member
    <3>3. stream[s].pc = "wait" /\ Announced(publisher, s) => Announced(p, s)
      BY <1>3, <3>2 DEF Announced
    <3> QED BY <2>1, <3>1, <3>3 DEF Informed
  <2> QED BY <2>2, <2>3
<1>7. LiveTypes'
  BY <1>1, <1>2, <1>3, <1>5 DEF LiveInvariant, LiveTypes
<1> QED BY <1>1, <1>2, <1>4, <1>6, <1>7, NewsKeeps

-----------------------------------------------------------------------------
(* The theorem *)

LEMMA LiveStep == LiveInvariant /\ [LiveNext]_liveVars => LiveInvariant'
<1> SUFFICES ASSUME LiveInvariant, [LiveNext]_liveVars PROVE LiveInvariant'
  OBVIOUS
<1>1. ASSUME NEW i \in Items, _handle_data_change(i) PROVE LiveInvariant'
  BY <1>1, ChangeKeeps
<1>2. CASE bulk_data_change_notifications
  BY <1>2, BulkKeeps
<1>3. ASSUME NEW g \in Groups, group_send(g) PROVE LiveInvariant'
  BY <1>3, SendKeeps
<1>4. ASSUME NEW s \in Subscriptions, _handle_subscribe(s) \/ StartStream(s) PROVE LiveInvariant'
  BY <1>4, SubscribeKeeps, StartKeeps
<1>5. ASSUME NEW s \in Subscriptions, _stop_subscription(s) PROVE LiveInvariant'
  BY <1>5, StopKeeps DEF _stop_subscription, Streams
<1>6. ASSUME NEW s \in Streams,
             _join_subscription_groups(s) \/ event_stream(s) \/ _cleanup_subscription_resources(s)
      PROVE  LiveInvariant'
  BY <1>6, JoinKeeps, EventKeeps, CleanupKeeps
<1>7. ASSUME NEW s \in ClassStreams, StreamFails(s) PROVE LiveInvariant'
  BY <1>7, StreamFailsKeeps
<1>8. ASSUME NEW s \in RemoteStreams, _listen_url(s) PROVE LiveInvariant'
  BY <1>8, ListenKeeps
<1>9. ASSUME NEW s \in RemoteStreams, ConnectionLost(s) PROVE LiveInvariant'
  BY <1>9, StopKeeps DEF ConnectionLost, Streams
<1>10. CASE UNCHANGED liveVars
  BY <1>10 DEF liveVars, LiveInvariant, LiveTypes, OneStreamPerOperation
<1> QED BY <1>1, <1>2, <1>3, <1>4, <1>5, <1>6, <1>7, <1>8, <1>9, <1>10 DEF LiveNext

LEMMA LiveStart == LiveInit => LiveInvariant
<1> SUFFICES ASSUME LiveInit PROVE LiveInvariant
  OBVIOUS
<1>1. LiveTypes
  BY NewIsFresh DEF LiveInit, LiveTypes
<1>2. \A s \in Streams : stream[s].pc = "new" /\ stream[s].joined = {} /\ stream[s].left = {}
  BY DEF LiveInit, NewStream
<1>3. \A s \in Streams : Member(stream[s], s, members) /\ Informed(stream[s], s, version, publisher)
  BY <1>2 DEF LiveInit, Member, Informed
<1>4. OneStreamPerOperation
  BY <1>2 DEF OneStreamPerOperation, Streams
<1> QED BY <1>1, <1>3, <1>4 DEF LiveInvariant

LEMMA LiveInvariantSound == LiveInvariant => LiveSound
<1> SUFFICES ASSUME LiveInvariant PROVE LiveSound
  OBVIOUS
<1>1. StreamsCatchUp
  <2> SUFFICES ASSUME publisher.sends = {}, ~publisher.bulk, NEW s \in Streams,
                      At_(s, "wait"), stream[s].channel = 0, ~stream[s].early, ~stream[s].lost,
                      NEW i \in Concerns(s)
               PROVE  stream[s].seen[i] = version[i]
    BY DEF StreamsCatchUp
  <2>1. ~Announced(publisher, s)
    BY DEF Announced
  <2>2. stream[s] \in Stream /\ Informed(stream[s], s, version, publisher)
    BY StreamFacts
  <2>3. stream[s].early = FALSE /\ stream[s].lost = FALSE /\ ~(stream[s].channel > 0) /\ stream[s].pc = "wait"
    BY <2>2 DEF Stream, At_
  <2> QED BY <2>1, <2>2, <2>3 DEF Informed
<1>2. NothingLeftBehind
  BY DEF LiveInvariant, Member, NothingLeftBehind, At_
<1> QED BY <1>1, <1>2 DEF LiveSound, LiveInvariant

\* A stream at rest has shown the last change of all it depends on, whether it
\* was sent singly or in a batch, unless a message was dropped or the change fell
\* between its first read and its joining; a stream that ended is in no group it
\* could leave; and an operation id has one stream at a time, for any streams of
\* the three kinds, channel capacity, faults and order of messages
\* (api/graphql_subscriptions.py, notification_batching.py, remote_invalidation.py).
THEOREM LiveSoundCorrect == LiveSpec => []LiveSound
BY LiveStart, LiveStep, LiveInvariantSound, PTL DEF LiveSpec

-----------------------------------------------------------------------------
(* Remote managers: the invariant *)

\* The service has acted on the key of c's call.
SeenKey(c) == \E s \in keysSeen : s.key = request[c].key
\* What holds of a call: its key is its own, effects tells whether the service has acted
\* on it, and only a call that may be repeated goes on after it acted.
CallFine(c) ==
    LET r == request[c] IN
    /\ Busy(c) => r.op # "none"
    /\ r.key <= requests
    /\ \A d \in Callers : r.key # 0 /\ request[d].key = r.key => d = c
    /\ Idempotent(r.op) => r.key = 0
    /\ ~Changes(r.op) => r.effects = 0
    /\ r.op \in {"detail", "update", "delete"} => r.row # 0
    /\ r.op = "create" => r.change \in FullRows
    /\ r.key # 0 /\ Changes(r.op) => (r.effects > 0 <=> SeenKey(c))
    /\ r.op = "delete" /\ r.effects > 0 => rowsAt[r.row].state = "gone"
    /\ Busy(c) /\ ~retry_policy.non_idempotent /\ ~Idempotent(r.op) => r.effects = 0
    /\ RepeatsSafely(c) => r.effects <= 1
    /\ Changes(r.op) /\ r.outcome = "ok" => r.effects >= 1
\* Keys are numbered by the calls that made them.
KeysGiven == \A s \in keysSeen : s.key <= requests
ItemsFinite == IsFiniteSet(rbucket.items)
CallsFine == ReqTypeOK /\ KeysGiven /\ \A c \in Callers : CallFine(c)
ReqInvariant == CallsFine /\ ItemsFinite /\ FetchedIsComplete

AnyAnswer == [key : Nat, row : RowNumbers, fields : Fields]

LEMMA ReqNoFields == NoFields \in Fields
BY DEF NoFields, Fields

LEMMA ReqFullRows == ASSUME NEW f \in FullRows PROVE f \in Fields
BY DEF FullRows, Fields

LEMMA ReqEntry ==
    ASSUME NEW e \in Entries
    PROVE  /\ e.state \in {"unused", "here", "gone"} /\ e.fields \in Fields
           /\ e.state = "here" => e.fields \in FullRows
BY ReqNoFields, ReqFullRows DEF Entries

\* What a row becomes is a row.
LEMMA ReqMerged ==
    ASSUME ReqAssumption, NEW old \in FullRows, NEW new \in Fields
    PROVE  [l \in Lookups |-> IF new[l] = 0 THEN old[l] ELSE new[l]] \in FullRows
BY DEF FullRows, Fields, ReqAssumption

LEMMA ReqCreated ==
    ASSUME ReqAssumption, NEW old \in Fields, NEW new \in FullRows
    PROVE  [l \in Lookups |-> IF new[l] = 0 THEN old[l] ELSE new[l]] \in FullRows
BY DEF FullRows, Fields, ReqAssumption

LEMMA ReqTarget ==
    ASSUME ReqAssumption, ReqTypeOK, NEW c \in Callers, CallFine(c), Sending(c), CanAct(c), ~Replayed(c), request[c].op # "none"
    PROVE  /\ Target(c) \in RowNumbers
           /\ Result(c) \in Entries
           /\ rowsAt[Target(c)].state # "gone"
           /\ request[c].op = "delete" => Target(c) = request[c].row /\ Result(c).state = "gone"
<1> DEFINE r == request[c]
<1>1. r \in RequestCall BY DEF ReqTypeOK
<1>2. r.op \in {"detail", "create", "update", "delete"} BY <1>1 DEF RequestCall, Sending
<1>3. \A n \in RowNumbers : rowsAt[n] \in Entries BY DEF ReqTypeOK
<1>4. CASE r.op = "create"
  <2>1. Unused # {} BY <1>4 DEF CanAct
  <2>2. Target(c) \in Unused BY <2>1, <1>4 DEF Target
  <2>3. Target(c) \in RowNumbers /\ rowsAt[Target(c)].state = "unused" BY <2>2 DEF Unused
  <2>4. r.change \in FullRows BY <1>4 DEF CallFine
  <2>5. rowsAt[Target(c)].fields \in Fields BY <2>3, <1>3, ReqEntry
  <2>6. [l \in Lookups |-> IF r.change[l] = 0 THEN rowsAt[Target(c)].fields[l] ELSE r.change[l]] \in FullRows
    BY <2>4, <2>5, ReqCreated
  <2>7. Result(c) = [state |-> "here", fields |-> [l \in Lookups |-> IF r.change[l] = 0 THEN rowsAt[Target(c)].fields[l] ELSE r.change[l]]]
    BY <1>4 DEF Result
  <2> QED BY <2>3, <2>6, <2>7, <1>4 DEF Entries
<1>5. CASE r.op # "create"
  <2>1. r.row \in Existing BY <1>5 DEF CanAct, Found
  <2>2. Target(c) = r.row BY <1>5 DEF Target
  <2>3. r.row \in RowNumbers /\ rowsAt[r.row].state = "here" BY <2>1 DEF Existing
  <2>4. rowsAt[r.row] \in Entries /\ rowsAt[r.row].fields \in FullRows BY <2>3, <1>3, ReqEntry
  <2>5. Result(c) \in Entries /\ (r.op = "delete" => Result(c).state = "gone")
    <3>1. CASE r.op = "update"
      <4>1. Result(c) = [state |-> "here", fields |-> [l \in Lookups |-> IF r.change[l] = 0 THEN rowsAt[r.row].fields[l] ELSE r.change[l]]]
        BY <3>1, <2>2 DEF Result
      <4>2. r.change \in Fields BY <1>1 DEF RequestCall
      <4> QED BY <3>1, <4>1, <4>2, <2>4, ReqMerged DEF Entries
    <3>2. CASE r.op = "delete" BY <3>2 DEF Result, Entries
    <3>3. CASE r.op = "detail"
      <4>1. Result(c) = rowsAt[r.row] BY <3>3, <2>2 DEF Result
      <4> QED BY <4>1, <2>4, <3>3
    <3> QED BY <3>1, <3>2, <3>3, <1>2, <1>5
  <2> QED BY <2>2, <2>3, <2>5
<1> QED BY <1>4, <1>5

LEMMA ReqAnswer ==
    ASSUME ReqAssumption, ReqTypeOK, NEW c \in Callers, CallFine(c), Sending(c), CanAct(c), request[c].op # "none"
    PROVE  Answer(c) \in AnyAnswer
<1>1. CASE Replayed(c)
  <2>1. Answer(c) \in Answers(c) BY <1>1 DEF Answer, Replayed
  <2>2. Answer(c) \in keysSeen BY <2>1 DEF Answers
  <2> QED BY <2>2 DEF ReqTypeOK, AnyAnswer, KeyedAnswer
<1>2. CASE ~Replayed(c)
  <2>1. Target(c) \in RowNumbers /\ Result(c).fields \in Fields BY <1>2, ReqTarget, ReqEntry
  <2>2. request[c].key \in Nat BY DEF ReqTypeOK, RequestCall
  <2> QED BY <1>2, <2>1, <2>2 DEF Answer, AnyAnswer
<1> QED BY <1>1, <1>2

\* A row that is gone stays gone, and what the service has acted on it remembers.
LEMMA ReqActs ==
    ASSUME ReqAssumption, ReqTypeOK, NEW c \in Callers, CallFine(c), Sending(c), CanAct(c), request[c].op # "none", Acts(c)
    PROVE  /\ rowsAt' \in [RowNumbers -> Entries]
           /\ keysSeen' \subseteq KeyedAnswer
           /\ keysSeen \subseteq keysSeen'
           /\ \A s \in keysSeen' : s \in keysSeen \/ s.key = request[c].key
           /\ request[c].key # 0 => Replayed(c) \/ \E s \in keysSeen' : s.key = request[c].key
           /\ \A n \in RowNumbers : rowsAt[n].state = "gone" => rowsAt'[n].state = "gone"
           /\ ~Replayed(c) /\ request[c].op = "delete" => rowsAt'[request[c].row].state = "gone"
<1>1. CASE Replayed(c)
  <2>1. rowsAt' = rowsAt /\ keysSeen' = keysSeen BY <1>1 DEF Acts
  <2> QED BY <1>1, <2>1 DEF ReqTypeOK
<1>2. CASE ~Replayed(c)
  <2>1. rowsAt' = [rowsAt EXCEPT ![Target(c)] = Result(c)] BY <1>2 DEF Acts
  <2>2. keysSeen' = IF request[c].key = 0 THEN keysSeen ELSE keysSeen \cup {Answer(c)} BY <1>2 DEF Acts
  <2>3. /\ Target(c) \in RowNumbers /\ Result(c) \in Entries /\ rowsAt[Target(c)].state # "gone"
        /\ request[c].op = "delete" => Target(c) = request[c].row /\ Result(c).state = "gone"
    BY <1>2, ReqTarget
  <2>4. rowsAt \in [RowNumbers -> Entries] BY DEF ReqTypeOK
  <2>5. rowsAt' \in [RowNumbers -> Entries] BY <2>1, <2>3, <2>4
  <2>6. \A n \in RowNumbers : rowsAt'[n] = IF n = Target(c) THEN Result(c) ELSE rowsAt[n] BY <2>1, <2>4
  <2>7. Answer(c) \in AnyAnswer /\ Answer(c).key = request[c].key BY <1>2, ReqAnswer DEF Answer
  <2>8. Answer(c).key # 0 => Answer(c) \in KeyedAnswer BY <2>7 DEF AnyAnswer, KeyedAnswer
  <2>9. keysSeen \subseteq KeyedAnswer BY DEF ReqTypeOK
  <2> QED BY <2>2, <2>3, <2>5, <2>6, <2>7, <2>8, <2>9
<1> QED BY <1>1, <1>2

LEMMA ReqEffects ==
    ASSUME ReqAssumption, ReqTypeOK, NEW c \in Callers, CallFine(c), Sending(c), CanAct(c), request[c].op # "none"
    PROVE  /\ Effects(c) \in Nat
           /\ RepeatsSafely(c) => Effects(c) <= 1
           /\ Changes(request[c].op) => Effects(c) >= 1
           /\ ~Changes(request[c].op) => Effects(c) = 0
           /\ request[c].op = "delete" => ~Replayed(c)
<1> DEFINE r == request[c]
<1>1. r \in RequestCall BY DEF ReqTypeOK
<1>2. r.effects \in Nat BY <1>1 DEF RequestCall
<1>3. Replayed(c) => r.key # 0 /\ SeenKey(c) BY DEF Replayed, Answers, SeenKey
<1>4. CASE ~Changes(r.op)
  <2>1. r.effects = 0 /\ Effects(c) = r.effects BY <1>4 DEF CallFine, Effects
  <2> QED BY <2>1, <1>4 DEF Changes
<1>5. CASE Changes(r.op) /\ Replayed(c)
  <2>1. r.effects > 0 /\ Effects(c) = r.effects BY <1>5, <1>3 DEF CallFine, Effects
  <2>2. RepeatsSafely(c) => r.effects <= 1 BY DEF CallFine
  <2>3. r.op # "delete" BY <1>5, <1>3 DEF CallFine, Idempotent, Method
  <2> QED BY <2>1, <2>2, <2>3, <1>2, <1>5
<1>6. CASE Changes(r.op) /\ ~Replayed(c)
  <2>1. Effects(c) = r.effects + 1 BY <1>6 DEF Effects
  <2>2. RepeatsSafely(c) => r.effects = 0
    <3>1. CASE ~retry_policy.non_idempotent /\ ~Idempotent(r.op) BY <3>1 DEF CallFine, Sending
    <3>2. CASE Idempotent(r.op)
      <4>1. r.op = "delete" BY <3>2, <1>6 DEF Idempotent, Method, Changes
      <4>2. r.row \in Existing BY <4>1, <1>6 DEF CanAct, Found
      <4>3. rowsAt[r.row].state # "gone" BY <4>2 DEF Existing
      <4>4. ~ (r.effects > 0) BY <4>1, <4>3 DEF CallFine
      <4> QED BY <4>4, <1>2
    <3>3. CASE service.honours /\ r.key # 0
      <4>1. ~SeenKey(c) BY <3>3, <1>6 DEF Replayed, Answers, SeenKey
      <4>2. ~ (r.effects > 0) BY <4>1, <3>3, <1>6 DEF CallFine
      <4> QED BY <4>2, <1>2
    <3> QED BY <3>1, <3>2, <3>3 DEF RepeatsSafely
  <2> QED BY <2>1, <2>2, <1>2, <1>6
<1> QED BY <1>4, <1>5, <1>6

\* What a step of one caller leaves of the others.
LEMMA ReqOthers ==
    ASSUME ReqTypeOK, KeysGiven, NEW c \in Callers, NEW d \in Callers, d # c, CallFine(d),
           UNCHANGED <<retry_policy, service>>, request'[d] = request[d],
           \A e \in Callers : e # c => request'[e] = request[e],
           requests' \in {requests, requests + 1},
           request'[c].key \in {0, request[c].key, requests + 1},
           keysSeen \subseteq keysSeen',
           \A s \in keysSeen' : s \in keysSeen \/ s.key = request[c].key,
           \A n \in RowNumbers : rowsAt[n].state = "gone" => rowsAt'[n].state = "gone"
    PROVE  CallFine(d)'
<1> DEFINE r == request[d]
<1>1. r \in RequestCall BY DEF ReqTypeOK
<1>2. r.key \in Nat /\ r.effects \in Nat /\ r.row \in RowNumbers \cup {0} BY <1>1 DEF RequestCall
<1>3. requests \in Nat BY DEF ReqTypeOK
<1>4. r.key <= requests BY DEF CallFine
<1>5. \A e \in Callers : r.key # 0 /\ request[e].key = r.key => e = d BY DEF CallFine
<1>6. \A e \in Callers : r.key # 0 /\ request'[e].key = r.key => e = d
  <2>1. r.key # 0 => request'[c].key # r.key BY <1>2, <1>3, <1>4, <1>5
  <2> QED BY <2>1, <1>5
<1>7. r.key <= requests' BY <1>2, <1>3, <1>4
<1>8. r.key # 0 => (SeenKey(d)' <=> SeenKey(d))
  <2>1. r.key # 0 => request[c].key # r.key BY <1>5
  <2> QED BY <2>1 DEF SeenKey
<1>9. /\ Idempotent(r.op)' <=> Idempotent(r.op)
      /\ Busy(d)' <=> Busy(d)
      /\ RepeatsSafely(d)' <=> RepeatsSafely(d)
  BY DEF Idempotent, Method, Busy, RepeatsSafely
<1>10. r.op = "delete" /\ r.effects > 0 => rowsAt'[r.row].state = "gone"
  <2>1. r.op = "delete" /\ r.effects > 0 => r.row \in RowNumbers /\ rowsAt[r.row].state = "gone" BY <1>2 DEF CallFine
  <2> QED BY <2>1
<1> QED BY <1>6, <1>7, <1>8, <1>9, <1>10 DEF CallFine

\* The caller of a call that begins.
LEMMA ReqBegins ==
    ASSUME ReqAssumption, ReqTypeOK, KeysGiven, \A d \in Callers : CallFine(d),
           NEW c \in Callers, NEW op \in {"detail", "list", "create", "update", "delete"},
           NEW n \in RowNumbers \cup {0}, NEW new \in Fields,
           op \in {"detail", "update", "delete"} => n # 0, op = "create" => new \in FullRows,
           Begin(c, op, n, new)
    PROVE  ReqTypeOK' /\ KeysGiven' /\ \A d \in Callers : CallFine(d)'
<1> DEFINE k == _with_idempotency_key(op)
<1>1. requests \in Nat /\ requests' = requests + 1 BY DEF ReqTypeOK, Begin
<1>2. k \in {0, requests + 1} /\ (Idempotent(op) => k = 0) /\ k \in Nat BY <1>1 DEF _with_idempotency_key
<1>3. request' = [request EXCEPT ![c] = [op |-> op, row |-> n, change |-> new, key |-> k,
                                         attempt |-> 1, effects |-> 0, outcome |-> "pending"]]
  BY DEF Begin
<1>4. request \in [Callers -> RequestCall] BY DEF ReqTypeOK
<1>5. request'[c] = [op |-> op, row |-> n, change |-> new, key |-> k, attempt |-> 1, effects |-> 0, outcome |-> "pending"]
      /\ \A d \in Callers : d # c => request'[d] = request[d]
  BY <1>3, <1>4
<1>6. request'[c] \in RequestCall BY <1>5, <1>2 DEF RequestCall
<1>7. request' \in [Callers -> RequestCall] BY <1>3, <1>4, <1>5, <1>6
<1>8. UNCHANGED <<retry_policy, service, rowsAt, keysSeen, instance, rbucket, losses>> BY DEF Begin
<1>9. ReqTypeOK' BY <1>1, <1>7, <1>8 DEF ReqTypeOK
<1>10. KeysGiven'
  <2>1. \A s \in keysSeen : s.key \in Nat BY DEF ReqTypeOK, KeyedAnswer
  <2> QED BY <2>1, <1>1, <1>8 DEF KeysGiven
<1>11. CallFine(c)'
  <2>1. k <= requests' BY <1>1, <1>2
  <2>2. \A d \in Callers : d # c => request[d].key \in Nat /\ request[d].key <= requests BY <1>4 DEF CallFine, RequestCall
  <2>3. \A d \in Callers : k # 0 /\ request'[d].key = k => d = c BY <2>2, <1>1, <1>2, <1>5
  <2>4. k # 0 => ~SeenKey(c)'
    <3>1. \A s \in keysSeen : s.key \in Nat /\ s.key <= requests BY DEF ReqTypeOK, KeysGiven, KeyedAnswer
    <3> QED BY <3>1, <1>1, <1>2, <1>5, <1>8 DEF SeenKey
  <2>5. Idempotent(op)' <=> Idempotent(op) BY <1>8 DEF Idempotent, Method
  <2> QED BY <2>1, <2>3, <2>4, <2>5, <1>2, <1>5 DEF CallFine, Changes
<1>12. \A d \in Callers \ {c} : CallFine(d)'
  <2> SUFFICES ASSUME NEW d \in Callers, d # c PROVE CallFine(d)' OBVIOUS
  <2>1. request'[c].key \in {0, request[c].key, requests + 1} BY <1>2, <1>5
  <2> QED BY <2>1, <1>1, <1>5, <1>8, ReqOthers
<1> QED BY <1>9, <1>10, <1>11, <1>12

\* The call of c after an attempt.
Attempted(c, e, o) ==
    /\ request' \in [Callers -> RequestCall]
    /\ \A d \in Callers : d # c => request'[d] = request[d]
    /\ request'[c].op = request[c].op /\ request'[c].row = request[c].row
    /\ request'[c].change = request[c].change /\ request'[c].key = request[c].key
    /\ request'[c].effects = e /\ request'[c].outcome = o

\* An attempt that is answered, or fails: the call keeps its key, effects is how often it
\* has changed the service, and it goes on only where its method may be repeated.
LEMMA ReqAttempt ==
    ASSUME ReqAssumption, ReqTypeOK, KeysGiven, \A d \in Callers : CallFine(d),
           NEW c \in Callers, Busy(c), request[c].op # "none",
           NEW e \in Nat, NEW o \in {"pending", "ok", "not found"} \cup Failures,
           Attempted(c, e, o),
           UNCHANGED <<retry_policy, service, requests>>, losses' \in Nat,
           rowsAt' \in [RowNumbers -> Entries],
           keysSeen' \subseteq KeyedAnswer,
           instance' \in [Callers -> RequestManager], rbucket' \in PlannedBucket,
           keysSeen \subseteq keysSeen', \A s \in keysSeen' : s \in keysSeen \/ s.key = request[c].key,
           \A n \in RowNumbers : rowsAt[n].state = "gone" => rowsAt'[n].state = "gone",
           RepeatsSafely(c) => e <= 1,
           ~Changes(request[c].op) => e = 0,
           request[c].key # 0 /\ Changes(request[c].op) => (e > 0 <=> \E s \in keysSeen' : s.key = request[c].key),
           request[c].op = "delete" /\ e > 0 => rowsAt'[request[c].row].state = "gone",
           o = "pending" => allows_method(request[c].op),
           Changes(request[c].op) /\ o = "ok" => e >= 1
    PROVE  ReqTypeOK' /\ KeysGiven' /\ \A d \in Callers : CallFine(d)'
<1> DEFINE r == request[c]
<1>1. request \in [Callers -> RequestCall] BY DEF ReqTypeOK
<1>2. r \in RequestCall BY <1>1
<1>4. \A d \in Callers : d # c => request'[d] = request[d] BY DEF Attempted
<1>5. request' \in [Callers -> RequestCall] BY DEF Attempted
<1>6. ReqTypeOK' BY <1>5 DEF ReqTypeOK
<1>7. r.key \in Nat /\ r.key <= requests /\ requests \in Nat BY <1>2 DEF RequestCall, CallFine, ReqTypeOK
<1>8. KeysGiven' BY <1>7 DEF KeysGiven
<1>9. CallFine(c)'
  <2>1. request'[c].op = r.op /\ request'[c].row = r.row /\ request'[c].change = r.change /\ request'[c].key = r.key
        /\ request'[c].effects = e /\ request'[c].outcome = o
    BY DEF Attempted
  <2>2. \A d \in Callers : request'[d].key = request[d].key
    <3>1. request'[c].key = r.key BY <2>1
    <3> QED BY <3>1, <1>4
  <2>3. \A d \in Callers : r.key # 0 /\ request'[d].key = r.key => d = c BY <2>2 DEF CallFine
  <2>4. SeenKey(c)' <=> \E s \in keysSeen' : s.key = r.key BY <1>4, <2>1 DEF SeenKey
  <2>5. /\ Idempotent(r.op)' <=> Idempotent(r.op)
        /\ RepeatsSafely(c)' <=> RepeatsSafely(c)
    BY <1>4, <2>1 DEF Idempotent, Method, RepeatsSafely
  <2>6. o = "pending" /\ ~retry_policy.non_idempotent => Idempotent(r.op) BY DEF allows_method
  <2>7. /\ Idempotent(r.op) => r.key = 0
        /\ r.op \in {"detail", "update", "delete"} => r.row # 0
        /\ r.op = "create" => r.change \in FullRows
    BY DEF CallFine
  <2>8. Busy(c)' <=> o = "pending" BY <1>4, <2>1 DEF Busy
  <2>10. r.op = "delete" /\ e > 0 => rowsAt'[r.row].state = "gone" OBVIOUS
  <2>11. Busy(c)' /\ ~retry_policy'.non_idempotent /\ ~Idempotent(r.op)' => e = 0 BY <2>5, <2>6, <2>8
  <2>12. RepeatsSafely(c)' => e <= 1 BY <2>5
  <2>13. r.key <= requests' BY <1>7
  <2>14. Idempotent(r.op)' => r.key = 0 BY <2>5, <2>7
  <2>15. r.key # 0 /\ Changes(r.op) => (e > 0 <=> SeenKey(c)') BY <2>4
  <2> QED BY <2>3, <2>1, <2>7, <2>10, <2>11, <2>12, <2>13, <2>14, <2>15 DEF CallFine, Changes
<1>10. \A d \in Callers \ {c} : CallFine(d)'
  <2> SUFFICES ASSUME NEW d \in Callers, d # c PROVE CallFine(d)' OBVIOUS
  <2>1. request'[c].key = r.key BY DEF Attempted
  <2>2. request'[c].key \in {0, request[c].key, requests + 1} BY <1>4, <2>1
  <2> QED BY <2>2, <1>4, <1>7, ReqOthers
<1> QED BY <1>6, <1>8, <1>9, <1>10

\* The two forms in which an attempt leaves its call.
LEMMA ReqEnded ==
    ASSUME ReqTypeOK, NEW c \in Callers, NEW e \in Nat, NEW o \in {"ok", "not found"} \cup Failures,
           request' = [request EXCEPT ![c].outcome = o, ![c].effects = e]
    PROVE  Attempted(c, e, o)
<1>1. request \in [Callers -> RequestCall] BY DEF ReqTypeOK
<1>2. request[c] \in RequestCall BY <1>1
<1> DEFINE x == [request[c] EXCEPT !.outcome = o]
<1>3. request'[c] = [x EXCEPT !.effects = e] BY <1>1
<1>4. \A d \in Callers : d # c => request'[d] = request[d] BY <1>1
<1>7. x \in RequestCall BY <1>2 DEF RequestCall
<1>8. /\ x.op = request[c].op /\ x.row = request[c].row /\ x.change = request[c].change
      /\ x.key = request[c].key /\ x.outcome = o
  BY <1>2 DEF RequestCall
<1> HIDE DEF x
<1>5. /\ request'[c].op = request[c].op /\ request'[c].row = request[c].row
      /\ request'[c].change = request[c].change /\ request'[c].key = request[c].key
      /\ request'[c].effects = e /\ request'[c].outcome = o
      /\ request'[c] \in RequestCall
  <2> DEFINE z == [x EXCEPT !.effects = e]
  <2>1. z \in RequestCall BY <1>7 DEF RequestCall
  <2>2. z.op = x.op /\ z.row = x.row /\ z.change = x.change /\ z.key = x.key /\ z.effects = e /\ z.outcome = x.outcome
    BY <1>7 DEF RequestCall
  <2>3. request'[c] = z BY <1>3
  <2> HIDE DEF z
  <2> QED BY <2>1, <2>2, <2>3, <1>8
<1>6. request' \in [Callers -> RequestCall] BY <1>1, <1>4, <1>5
<1> QED BY <1>4, <1>5, <1>6 DEF Attempted

LEMMA ReqRetried ==
    ASSUME ReqTypeOK, NEW c \in Callers, NEW e \in Nat,
           request' = [request EXCEPT ![c].attempt = @ + 1, ![c].key = NextKey(c), ![c].effects = e]
    PROVE  Attempted(c, e, request[c].outcome)
<1>1. request \in [Callers -> RequestCall] BY DEF ReqTypeOK
<1>2. request[c] \in RequestCall BY <1>1
<1> DEFINE n == request[c].attempt + 1
<1>13. request[c].attempt \in Nat BY <1>2 DEF RequestCall
<1>12. n \in Nat BY <1>13
<1> DEFINE y == [request[c] EXCEPT !.attempt = n]
<1> DEFINE x == [y EXCEPT !.key = request[c].key]
<1>3. request'[c] = [x EXCEPT !.effects = e] BY <1>1 DEF NextKey
<1>4. \A d \in Callers : d # c => request'[d] = request[d] BY <1>1
<1> HIDE DEF n
<1>9. y \in RequestCall BY <1>2, <1>12 DEF RequestCall
<1>10. /\ y.op = request[c].op /\ y.row = request[c].row /\ y.change = request[c].change /\ y.outcome = request[c].outcome
  BY <1>2 DEF RequestCall
<1> HIDE DEF y
<1>11. request[c].key \in Nat BY <1>2 DEF RequestCall
<1>7. x \in RequestCall BY <1>9, <1>11 DEF RequestCall
<1>8. /\ x.op = y.op /\ x.row = y.row /\ x.change = y.change
      /\ x.key = request[c].key /\ x.outcome = y.outcome
  BY <1>9, <1>11 DEF RequestCall
<1> HIDE DEF x
<1>5. /\ request'[c].op = request[c].op /\ request'[c].row = request[c].row
      /\ request'[c].change = request[c].change /\ request'[c].key = request[c].key
      /\ request'[c].effects = e /\ request'[c].outcome = request[c].outcome
      /\ request'[c] \in RequestCall
  <2> DEFINE z == [x EXCEPT !.effects = e]
  <2>1. z \in RequestCall BY <1>7 DEF RequestCall
  <2>2. z.op = x.op /\ z.row = x.row /\ z.change = x.change /\ z.key = x.key /\ z.effects = e /\ z.outcome = x.outcome
    BY <1>7 DEF RequestCall
  <2>3. request'[c] = z BY <1>3
  <2> HIDE DEF z
  <2> QED BY <2>1, <2>2, <2>3, <1>8, <1>10
<1>6. request' \in [Callers -> RequestCall] BY <1>1, <1>4, <1>5
<1> QED BY <1>4, <1>5, <1>6 DEF Attempted

LEMMA ReqMore == \A m \in Nat : m + 1 \in Nat
OBVIOUS

LEMMA ReqPositive == \A m \in Nat : m >= 1 => m > 0
OBVIOUS

\* The service acted, and the call ends or goes on.
LEMMA ReqActed ==
    ASSUME ReqAssumption, CallsFine, NEW c \in Callers, Sending(c), CanAct(c), Acts(c),
           NEW o \in {"pending", "ok", "not found"} \cup Failures,
           Attempted(c, Effects(c), o),
           UNCHANGED <<retry_policy, service, requests, rbucket>>, losses' \in Nat,
           instance' \in [Callers -> RequestManager],
           o = "pending" => allows_method(request[c].op)
    PROVE  CallsFine'
<1> DEFINE r == request[c]
<1>1. Busy(c) /\ r.op # "none" /\ CallFine(c) /\ ReqTypeOK BY DEF Sending, CallsFine, CallFine
<1>2. /\ Effects(c) \in Nat
      /\ RepeatsSafely(c) => Effects(c) <= 1
      /\ Changes(r.op) => Effects(c) >= 1
      /\ ~Changes(r.op) => Effects(c) = 0
      /\ r.op = "delete" => ~Replayed(c)
  BY <1>1, ReqEffects
<1>3. /\ rowsAt' \in [RowNumbers -> Entries]
      /\ keysSeen' \subseteq KeyedAnswer
      /\ keysSeen \subseteq keysSeen'
      /\ \A s \in keysSeen' : s \in keysSeen \/ s.key = r.key
      /\ r.key # 0 => Replayed(c) \/ \E s \in keysSeen' : s.key = r.key
      /\ \A n \in RowNumbers : rowsAt[n].state = "gone" => rowsAt'[n].state = "gone"
      /\ ~Replayed(c) /\ r.op = "delete" => rowsAt'[r.row].state = "gone"
  BY <1>1, ReqActs
<1>4. r.key # 0 => \E s \in keysSeen' : s.key = r.key
  <2>1. Replayed(c) => \E s \in keysSeen : s.key = r.key BY DEF Replayed, Answers
  <2>2. r.key # 0 => Replayed(c) \/ \E s \in keysSeen' : s.key = r.key BY <1>3
  <2>3. keysSeen \subseteq keysSeen' BY <1>3
  <2>4. Replayed(c) => \E s \in keysSeen' : s.key = r.key BY <2>1, <2>3
  <2> QED BY <2>2, <2>4
<1>5. r.key # 0 /\ Changes(r.op) => (Effects(c) > 0 <=> \E s \in keysSeen' : s.key = r.key)
  <2> HIDE DEF r
  <2>0. Effects(c) \in Nat /\ (Changes(r.op) => Effects(c) >= 1) BY <1>2
  <2>2. Changes(r.op) => Effects(c) > 0 BY <2>0, ReqPositive, Zenon
  <2> QED BY <2>2, <1>4
<1>6. r.op = "delete" /\ Effects(c) > 0 => rowsAt'[r.row].state = "gone" BY <1>2, <1>3
<1>7. rbucket' \in PlannedBucket BY <1>1 DEF ReqTypeOK
<1>8. KeysGiven /\ \A d \in Callers : CallFine(d) BY DEF CallsFine
<1> HIDE DEF r
<1>9. Changes(r.op) /\ o = "ok" => Effects(c) >= 1 BY <1>2
<1> QED BY <1>1, <1>2, <1>3, <1>5, <1>6, <1>7, <1>8, <1>9, ReqAttempt DEF CallsFine, r

\* The service did not act.
LEMMA ReqIdle ==
    ASSUME ReqAssumption, CallsFine, NEW c \in Callers, Busy(c),
           NEW o \in {"pending", "not found"} \cup Failures,
           Attempted(c, request[c].effects, o),
           UNCHANGED <<retry_policy, service, rowsAt, keysSeen, instance, requests, rbucket>>, losses' \in Nat,
           o = "pending" => allows_method(request[c].op)
    PROVE  CallsFine'
<1> DEFINE r == request[c]
<1>1. r.op # "none" /\ CallFine(c) /\ ReqTypeOK /\ KeysGiven /\ \A d \in Callers : CallFine(d) BY DEF CallsFine, CallFine
<1>2. r.effects \in Nat BY <1>1 DEF ReqTypeOK, RequestCall
<1>3. /\ rowsAt' \in [RowNumbers -> Entries] /\ keysSeen' \subseteq KeyedAnswer
      /\ instance' \in [Callers -> RequestManager] /\ rbucket' \in PlannedBucket
  BY <1>1 DEF ReqTypeOK
<1>4. r.key # 0 /\ Changes(r.op) => (r.effects > 0 <=> \E s \in keysSeen' : s.key = r.key) BY <1>1 DEF CallFine, SeenKey
<1>5. r.op = "delete" /\ r.effects > 0 => rowsAt'[r.row].state = "gone" BY <1>1 DEF CallFine
<1>6. (RepeatsSafely(c) => r.effects <= 1) /\ (~Changes(r.op) => r.effects = 0) BY <1>1 DEF CallFine
<1>7. o # "ok" BY DEF Failures, Retryable
<1> HIDE DEF r
<1> QED BY <1>1, <1>2, <1>3, <1>4, <1>5, <1>6, <1>7, ReqAttempt DEF CallsFine, r

LEMMA ReqExecute ==
    ASSUME ReqAssumption, CallsFine, NEW c \in Callers, execute(c)
    PROVE  CallsFine'
<1>1. Sending(c) /\ CanAct(c) /\ Acts(c) BY DEF execute
<1>2. ReqTypeOK /\ CallFine(c) /\ request[c].op # "none" BY <1>1 DEF CallsFine, CallFine, Sending
<1>3. Effects(c) \in Nat BY <1>1, <1>2, ReqEffects
<1>4. Attempted(c, Effects(c), "ok")
  <2>1. request' = [request EXCEPT ![c].outcome = "ok", ![c].effects = Effects(c)] BY DEF execute
  <2> QED BY <2>1, <1>2, <1>3, ReqEnded
<1>5. instance' \in [Callers -> RequestManager]
  <2>1. Answer(c) \in AnyAnswer BY <1>1, <1>2, ReqAnswer
  <2>2. Kept(c) \in RequestManager
    <3>1. request[c] \in RequestCall BY <1>2 DEF ReqTypeOK
    <3>2. CASE request[c].op = "create" BY <3>2, <2>1, ReqNoFields DEF Kept, AnyAnswer, RequestManager
    <3>3. CASE request[c].op \in {"detail", "update"}
      <4>1. request[c].row \in RowNumbers BY <3>1, <3>3, <1>2 DEF RequestCall, CallFine
      <4> QED BY <3>3, <4>1, <2>1 DEF Kept, AnyAnswer, RequestManager
    <3>4. CASE request[c].op \notin {"create", "detail", "update"} BY <3>4 DEF Kept, RequestManager
    <3> QED BY <3>2, <3>3, <3>4
  <2>3. instance' = [instance EXCEPT ![c] = Kept(c)] BY DEF execute
  <2> QED BY <1>2, <2>2, <2>3 DEF ReqTypeOK
<1>6. UNCHANGED <<retry_policy, service, rbucket, requests, losses>> BY DEF execute
<1>7. losses' \in Nat BY <1>2, <1>6 DEF ReqTypeOK
<1> QED BY <1>1, <1>4, <1>5, <1>6, <1>7, ReqActed

LEMMA ReqNotFound ==
    ASSUME ReqAssumption, CallsFine, NEW c \in Callers, NotFound(c)
    PROVE  CallsFine'
<1>1. Busy(c) /\ ReqTypeOK BY DEF NotFound, Sending, CallsFine
<1>2. request \in [Callers -> RequestCall] /\ request[c] \in RequestCall BY <1>1 DEF ReqTypeOK
<1> DEFINE z == [request[c] EXCEPT !.outcome = "not found"]
<1>3. /\ z \in RequestCall /\ z.op = request[c].op /\ z.row = request[c].row /\ z.change = request[c].change
      /\ z.key = request[c].key /\ z.effects = request[c].effects /\ z.outcome = "not found"
  BY <1>2 DEF RequestCall
<1>4. request' = [request EXCEPT ![c] = z] BY DEF NotFound
<1> HIDE DEF z
<1>5. request'[c] = z /\ (\A d \in Callers : d # c => request'[d] = request[d]) /\ request' \in [Callers -> RequestCall]
  BY <1>2, <1>3, <1>4
<1>6. Attempted(c, request[c].effects, "not found") BY <1>3, <1>5 DEF Attempted
<1>7. UNCHANGED <<retry_policy, service, rowsAt, keysSeen, instance, rbucket, requests, losses>> BY DEF NotFound
<1>8. losses' \in Nat BY <1>1, <1>7 DEF ReqTypeOK
<1> QED BY <1>1, <1>6, <1>7, <1>8, ReqIdle

\* How a failed attempt leaves its call.
LEMMA ReqFails ==
    ASSUME ReqTypeOK, NEW c \in Callers, Busy(c), NEW e \in Nat, NEW failure \in Failures, AttemptFails(c, e, failure)
    PROVE  \E o \in {"pending", "not found"} \cup Failures :
             Attempted(c, e, o) /\ (o = "pending" => allows_method(request[c].op))
<1>1. CASE _should_retry(c, failure)
  <2>1. request' = [request EXCEPT ![c].attempt = @ + 1, ![c].key = NextKey(c), ![c].effects = e] BY <1>1 DEF AttemptFails
  <2>2. Attempted(c, e, request[c].outcome) BY <2>1, ReqRetried
  <2>3. request[c].outcome = "pending" BY DEF Busy
  <2>4. allows_method(request[c].op) BY <1>1 DEF _should_retry
  <2> QED BY <2>2, <2>3, <2>4
<1>2. CASE ~_should_retry(c, failure)
  <2>1. request' = [request EXCEPT ![c].outcome = failure, ![c].effects = e] BY <1>2 DEF AttemptFails
  <2>2. Attempted(c, e, failure) BY <2>1, ReqEnded
  <2>3. failure # "pending" BY DEF Failures, Retryable
  <2> QED BY <2>2, <2>3
<1> QED BY <1>1, <1>2

LEMMA ReqAnswerLost ==
    ASSUME ReqAssumption, CallsFine, NEW c \in Callers, NEW failure \in Failures, AnswerLost(c, failure)
    PROVE  CallsFine'
<1>1. Sending(c) /\ CanAct(c) /\ Acts(c) /\ Busy(c) BY DEF AnswerLost, Sending
<1>2. ReqTypeOK /\ CallFine(c) /\ request[c].op # "none" BY <1>1 DEF CallsFine, CallFine
<1>3. Effects(c) \in Nat BY <1>1, <1>2, ReqEffects
<1>4. AttemptFails(c, Effects(c), failure) BY DEF AnswerLost
<1>5. PICK o \in {"pending", "not found"} \cup Failures :
        Attempted(c, Effects(c), o) /\ (o = "pending" => allows_method(request[c].op))
  BY <1>1, <1>2, <1>3, <1>4, ReqFails
<1>6. UNCHANGED <<retry_policy, service, instance, rbucket, requests>> /\ losses' = losses + 1 BY DEF AnswerLost
<1>8. losses \in Nat /\ instance \in [Callers -> RequestManager] BY <1>2 DEF ReqTypeOK
<1>9. losses' \in Nat BY <1>8, <1>6, ReqMore, Zenon
<1>7. losses' \in Nat /\ instance' \in [Callers -> RequestManager] BY <1>8, <1>6, <1>9
<1> QED BY <1>1, <1>5, <1>6, <1>7, ReqActed

LEMMA ReqAttemptLost ==
    ASSUME ReqAssumption, CallsFine, NEW c \in Callers, NEW failure \in Failures, AttemptLost(c, failure)
    PROVE  CallsFine'
<1>1. Busy(c) /\ ReqTypeOK BY DEF AttemptLost, CallsFine
<1>2. request[c].effects \in Nat BY <1>1 DEF ReqTypeOK, RequestCall
<1>3. AttemptFails(c, request[c].effects, failure) BY DEF AttemptLost
<1>4. PICK o \in {"pending", "not found"} \cup Failures :
        Attempted(c, request[c].effects, o) /\ (o = "pending" => allows_method(request[c].op))
  BY <1>1, <1>2, <1>3, ReqFails
<1>5. UNCHANGED <<retry_policy, service, rowsAt, keysSeen, instance, rbucket, requests>> /\ losses' = losses + 1 BY DEF AttemptLost
<1>7. losses \in Nat BY <1>1 DEF ReqTypeOK
<1>6. losses' \in Nat BY <1>5, <1>7, ReqMore, Zenon
<1> QED BY <1>1, <1>4, <1>5, <1>6, ReqIdle

-----------------------------------------------------------------------------
(* Buckets *)

LEMMA ReqSnapshotType ==
    ASSUME ReqTypeOK, NEW S \in SUBSET RowNumbers
    PROVE  Snapshot(S) \in SUBSET (RowNumbers \X Fields)
<1>1. \A n \in RowNumbers : rowsAt[n].fields \in Fields BY ReqEntry DEF ReqTypeOK
<1> QED BY <1>1 DEF Snapshot

\* A snapshot has an item for every row.
LEMMA ReqSnapshotCount ==
    ASSUME ReqAssumption, NEW S \in SUBSET RowNumbers
    PROVE  IsFiniteSet(Snapshot(S)) /\ Cardinality(Snapshot(S)) = Cardinality(S)
<1>1. IsFiniteSet(S) BY FS_Subset DEF ReqAssumption
<1> DEFINE f == [n \in S |-> <<n, rowsAt[n].fields>>]
<1>2. f \in [S -> Snapshot(S)] BY DEF Snapshot
<1>3. \A a, b \in S : f[a] = f[b] => a = b OBVIOUS
<1>4. \A t \in Snapshot(S) : \E s \in S : f[s] = t BY DEF Snapshot
<1>5. f \in Bijection(S, Snapshot(S)) BY <1>2, <1>3, <1>4 DEF Bijection, Injection, Surjection, IsInjective
<1>6. ExistsBijection(S, Snapshot(S)) BY <1>5 DEF ExistsBijection
<1> QED BY <1>1, <1>6, FS_Bijection

\* The service and the local predicates together apply every lookup.
LEMMA ReqMatchesSplit ==
    ASSUME ReqAssumption, NEW f \in FullRows, service \in Service,
           NEW filters \in Fields, NEW excludes \in Fields
    PROVE  Matches(f, filters, excludes) <=>
             /\ Matches(f, Only(filters, service.filters), Only(excludes, service.excludes))
             /\ Matches(f, Only(filters, Lookups \ service.filters), Only(excludes, Lookups \ service.excludes))
<1>1. \A l \in Lookups : f[l] # 0 BY DEF FullRows, ReqAssumption
<1> QED BY <1>1 DEF Matches, Only

LEMMA ReqNoLocal ==
    ASSUME ReqAssumption, NEW f \in FullRows
    PROVE  Matches(f, NoFields, NoFields)
<1>1. \A l \in Lookups : f[l] # 0 BY DEF FullRows, ReqAssumption
<1> QED BY <1>1 DEF Matches, NoFields

\* What a list that was answered leaves.
LEMMA ReqListed ==
    ASSUME ReqAssumption, ReqTypeOK, ItemsFinite, FetchedIsComplete, NEW c \in Callers, Listed(c)
    PROVE  rbucket' \in PlannedBucket /\ ItemsFinite' /\ FetchedIsComplete'
<1> DEFINE b == rbucket
<1> DEFINE R == RemoteMatches(b)
<1> DEFINE all_rows == {n \in Existing : Matches(rowsAt[n].fields, b.filters, b.excludes)}
<1>1. PICK answered \in SUBSET R :
        /\ ~service.pages => answered = R
        /\ _ensure_raw_items(answered, Cardinality(R))
  BY DEF Listed
<1> DEFINE local == {n \in answered : _matches_local_predicates(n, b)}
<1>2. R \subseteq RowNumbers /\ IsFiniteSet(R) /\ answered \subseteq RowNumbers /\ all_rows \subseteq RowNumbers /\ local \subseteq RowNumbers
  <2>1. Existing \subseteq RowNumbers BY DEF Existing
  <2>2. R \subseteq RowNumbers BY <2>1 DEF RemoteMatches
  <2>3. IsFiniteSet(R) BY <2>2, FS_Subset DEF ReqAssumption
  <2> QED BY <2>1, <2>2, <2>3
<1>3. b \in PlannedBucket /\ service \in Service BY DEF ReqTypeOK
<1>4. b.filters \in Fields /\ b.excludes \in Fields BY <1>3 DEF PlannedBucket
<1>5. \A n \in Existing : rowsAt[n].fields \in FullRows BY ReqEntry DEF ReqTypeOK, Existing
<1>6. \A n \in Existing : n \in all_rows <=> n \in R /\ _matches_local_predicates(n, b)
  <2> SUFFICES ASSUME NEW n \in Existing PROVE n \in all_rows <=> n \in R /\ _matches_local_predicates(n, b) OBVIOUS
  <2>1. Matches(rowsAt[n].fields, b.filters, b.excludes) <=>
          /\ Matches(rowsAt[n].fields, Only(b.filters, service.filters), Only(b.excludes, service.excludes))
          /\ Matches(rowsAt[n].fields, Only(b.filters, Lookups \ service.filters), Only(b.excludes, Lookups \ service.excludes))
    BY <1>3, <1>4, <1>5, ReqMatchesSplit
  <2> QED BY <2>1 DEF RemoteMatches, _matches_local_predicates, LocalFilters, LocalExcludes
<1>7. local \subseteq all_rows BY <1>6 DEF RemoteMatches
<1>8. answered = R => local = all_rows BY <1>6, <1>7 DEF RemoteMatches
<1>9. ~local_predicates(b) => all_rows = R
  <2> SUFFICES ASSUME ~local_predicates(b) PROVE \A n \in R : _matches_local_predicates(n, b) BY <1>6 DEF RemoteMatches
  <2>1. LocalFilters(b) = NoFields /\ LocalExcludes(b) = NoFields BY DEF local_predicates
  <2>2. \A n \in R : rowsAt[n].fields \in FullRows BY <1>5 DEF RemoteMatches
  <2> QED BY <2>1, <2>2, ReqNoLocal DEF _matches_local_predicates
<1>10. UNCHANGED service BY DEF Listed
<1>11. CASE PartialPage(b, answered, Cardinality(R))
  <2>1. rbucket' = rbucket BY <1>1, <1>11 DEF _ensure_raw_items
  <2> QED BY <2>1, <1>3, <1>10 DEF FetchedIsComplete, ItemsFinite, local_predicates, LocalFilters, LocalExcludes
<1>12. CASE ~PartialPage(b, answered, Cardinality(R))
  <2> DEFINE k == IF local_predicates(b) \/ ~service.totals THEN Cardinality(Snapshot(local)) ELSE Cardinality(R)
  <2>1. rbucket' = [b EXCEPT !.source = "snapshot", !.items = Snapshot(local), !.count = k, !.matching = Snapshot(all_rows)]
    BY <1>1, <1>12 DEF _ensure_raw_items
  <2>2. Snapshot(local) \in SUBSET (RowNumbers \X Fields) /\ Snapshot(all_rows) \in SUBSET (RowNumbers \X Fields)
    BY <1>2, ReqSnapshotType
  <2>3. IsFiniteSet(Snapshot(local)) /\ Cardinality(Snapshot(all_rows)) = Cardinality(all_rows) BY <1>2, ReqSnapshotCount
  <2>4. k \in Nat BY <2>3, <1>2, FS_CardinalityType
  <2>5. Snapshot(local) \subseteq Snapshot(all_rows) BY <1>7 DEF Snapshot
  <2>6. local_predicates(b) /\ (service.totals \/ ~service.pages) => answered = R
    <3>1. local_predicates(b) /\ service.totals => Cardinality(R) = Cardinality(answered) BY <1>12 DEF PartialPage
    <3>2. Cardinality(R) = Cardinality(answered) => R = answered BY <1>2, FS_Subset
    <3> QED BY <3>1, <3>2, <1>1
  <2>7. local_predicates(b) /\ (service.totals \/ ~service.pages) => Snapshot(local) = Snapshot(all_rows) BY <2>6, <1>8
  <2>8. service.totals \/ ~service.pages => k = Cardinality(Snapshot(all_rows))
    <3>1. CASE local_predicates(b) BY <3>1, <2>7
    <3>2. CASE ~local_predicates(b) /\ service.totals BY <3>2, <1>9, <2>3
    <3>3. CASE ~local_predicates(b) /\ ~service.totals
      <4>1. ~service.pages => local = all_rows BY <1>1, <1>8
      <4> QED BY <3>3, <4>1
    <3> QED BY <3>1, <3>2, <3>3
  <2> HIDE DEF k, local, all_rows
  <2>9. /\ rbucket' \in PlannedBucket
        /\ rbucket'.source = "snapshot" /\ rbucket'.items = Snapshot(local) /\ rbucket'.count = k
        /\ rbucket'.matching = Snapshot(all_rows)
        /\ rbucket'.filters = b.filters /\ rbucket'.excludes = b.excludes
    BY <2>1, <2>2, <2>4, <1>3 DEF PlannedBucket
  <2>10. local_predicates(rbucket)' <=> local_predicates(b)
    BY <2>9, <1>10 DEF local_predicates, LocalFilters, LocalExcludes
  <2> QED BY <2>3, <2>5, <2>7, <2>8, <2>9, <2>10, <1>10 DEF FetchedIsComplete, ItemsFinite
<1> QED BY <1>11, <1>12

\* CallsFine do not depend on the bucket, nor on the managers that callers make.
LEMMA ReqCallsKept ==
    ASSUME CallsFine, UNCHANGED <<retry_policy, service, rowsAt, keysSeen, request, requests, losses>>,
           instance' \in [Callers -> RequestManager], rbucket' \in PlannedBucket
    PROVE  CallsFine'
<1>1. ReqTypeOK' BY DEF CallsFine, ReqTypeOK
<1>2. KeysGiven' BY DEF CallsFine, KeysGiven
<1>3. \A d \in Callers : CallFine(d)' BY DEF CallsFine, CallFine, SeenKey, Busy, RepeatsSafely, Idempotent, Method
<1> QED BY <1>1, <1>2, <1>3 DEF CallsFine

\* The listed rows of a call.
LEMMA ReqListedCalls ==
    ASSUME ReqAssumption, ReqInvariant, NEW c \in Callers, Listed(c)
    PROVE  ReqInvariant'
<1>1. ReqTypeOK /\ Busy(c) /\ request[c].op = "list" /\ CallFine(c) BY DEF ReqInvariant, CallsFine, Listed
<1>2. rbucket' \in PlannedBucket /\ ItemsFinite' /\ FetchedIsComplete' BY <1>1, ReqListed DEF ReqInvariant
<1>3. UNCHANGED <<retry_policy, service, rowsAt, keysSeen, instance, requests, losses>> BY DEF Listed
<1>4. request \in [Callers -> RequestCall] /\ request[c] \in RequestCall BY <1>1 DEF ReqTypeOK
<1> DEFINE z == [request[c] EXCEPT !.outcome = "ok"]
<1>5. /\ z \in RequestCall /\ z.op = request[c].op /\ z.row = request[c].row /\ z.change = request[c].change
      /\ z.key = request[c].key /\ z.effects = request[c].effects /\ z.outcome = "ok"
  BY <1>4 DEF RequestCall
<1>6. request' = [request EXCEPT ![c] = z] BY DEF Listed
<1> HIDE DEF z
<1>7. request'[c] = z /\ (\A d \in Callers : d # c => request'[d] = request[d]) /\ request' \in [Callers -> RequestCall]
  BY <1>4, <1>5, <1>6
<1>8. Attempted(c, request[c].effects, "ok") BY <1>5, <1>7 DEF Attempted
<1>9. /\ request[c].effects \in Nat /\ ~Changes(request[c].op) /\ request[c].op # "none" /\ request[c].op # "delete"
      /\ request[c].effects = 0
  BY <1>1, <1>4 DEF RequestCall, Changes, CallFine
<1>10. 0 <= 1 OBVIOUS
<1>11. /\ rowsAt' \in [RowNumbers -> Entries] /\ keysSeen' \subseteq KeyedAnswer
       /\ instance' \in [Callers -> RequestManager] /\ losses' \in Nat
  BY <1>1, <1>3 DEF ReqTypeOK
<1>12. KeysGiven /\ \A d \in Callers : CallFine(d) BY DEF ReqInvariant, CallsFine
<1> QED BY <1>1, <1>2, <1>3, <1>8, <1>9, <1>10, <1>11, <1>12, ReqAttempt DEF ReqInvariant, CallsFine

LEMMA ReqPlan ==
    ASSUME ReqAssumption, ReqTypeOK, ItemsFinite, NEW c \in Callers,
           \/ \E basis \in {NoBucket, rbucket}, want \in Wanted : build_bucket(c, basis, want)
           \/ Again(c) \/ __setstate__(c)
           \/ \E kept \in SUBSET rbucket.items : _from_items(c, kept)
    PROVE  /\ rbucket' \in PlannedBucket /\ IsFiniteSet(rbucket'.items) /\ rbucket'.source # "snapshot"
           /\ UNCHANGED <<retry_policy, service, rowsAt, keysSeen, request, instance, requests, losses>>
<1>1. rbucket \in PlannedBucket BY DEF ReqTypeOK
<1>7. IsFiniteSet({}) BY FS_EmptySet
<1>2. NoBucket \in PlannedBucket BY ReqNoFields DEF NoBucket, PlannedBucket
<1>3. ASSUME NEW basis \in {NoBucket, rbucket}, NEW want \in Wanted, build_bucket(c, basis, want)
      PROVE  rbucket' \in PlannedBucket /\ IsFiniteSet(rbucket'.items) /\ rbucket'.source # "snapshot" /\ BucketStep
  <2>1. basis \in PlannedBucket BY <1>1, <1>2
  <2>2. basis.filters \in Fields /\ basis.excludes \in Fields BY <2>1 DEF PlannedBucket
  <2>3. want.lookup \in Lookups /\ want.value \in RowValues BY DEF ReqAssumption, Wants
  <2>4. Merged(basis.filters, want, "filter") \in Fields /\ Merged(basis.excludes, want, "exclude") \in Fields
    BY <2>2, <2>3 DEF Merged, Fields
  <2>5. rbucket' = [NoBucket EXCEPT !.source = "plan", !.filters = Merged(basis.filters, want, "filter"),
                                    !.excludes = Merged(basis.excludes, want, "exclude")]
    BY <1>3 DEF build_bucket
  <2>6. rbucket' = [source |-> "plan", filters |-> Merged(basis.filters, want, "filter"),
                    excludes |-> Merged(basis.excludes, want, "exclude"), items |-> {}, count |-> 0, matching |-> {}]
    BY <2>5 DEF NoBucket
  <2>7. BucketStep BY <1>3 DEF build_bucket
  <2> QED BY <2>4, <2>6, <2>7, <1>7 DEF PlannedBucket
<1>4. ASSUME Again(c) PROVE rbucket' \in PlannedBucket /\ IsFiniteSet(rbucket'.items) /\ rbucket'.source # "snapshot" /\ BucketStep
  <2>1. rbucket' = [source |-> "plan", filters |-> rbucket.filters, excludes |-> rbucket.excludes,
                    items |-> {}, count |-> 0, matching |-> {}]
    BY <1>4 DEF Again, NoBucket
  <2>2. BucketStep BY <1>4 DEF Again
  <2> QED BY <2>1, <2>2, <1>1, <1>7 DEF PlannedBucket
<1>5. ASSUME __setstate__(c) PROVE rbucket' \in PlannedBucket /\ IsFiniteSet(rbucket'.items) /\ rbucket'.source # "snapshot" /\ BucketStep
  <2>1. rbucket' = [rbucket EXCEPT !.source = "restored"] BY <1>5 DEF __setstate__
  <2>2. BucketStep BY <1>5 DEF __setstate__
  <2> QED BY <2>1, <2>2, <1>1 DEF PlannedBucket, ItemsFinite
<1>6. ASSUME NEW kept \in SUBSET rbucket.items, _from_items(c, kept)
      PROVE  rbucket' \in PlannedBucket /\ IsFiniteSet(rbucket'.items) /\ rbucket'.source # "snapshot" /\ BucketStep
  <2>1. rbucket' = [source |-> "manager", filters |-> NoFields, excludes |-> NoFields,
                    items |-> kept, count |-> Cardinality(kept), matching |-> {}]
    BY <1>6 DEF _from_items, NoBucket
  <2>2. BucketStep BY <1>6 DEF _from_items
  <2>3. kept \in SUBSET (RowNumbers \X Fields) BY <1>1 DEF PlannedBucket
  <2>5. IsFiniteSet(kept) BY FS_Subset DEF ItemsFinite
  <2>4. Cardinality(kept) \in Nat BY <2>5, FS_CardinalityType
  <2> QED BY <2>1, <2>2, <2>3, <2>4, <2>5, ReqNoFields DEF PlannedBucket
<1> QED BY <1>3, <1>4, <1>5, <1>6 DEF BucketStep

-----------------------------------------------------------------------------
(* The theorem *)

LEMMA ReqInitially == ReqAssumption /\ ReqInit => ReqInvariant
<1> SUFFICES ASSUME ReqAssumption, ReqInit PROVE ReqInvariant OBVIOUS
<1>1. NoRequest \in RequestCall BY ReqNoFields DEF NoRequest, RequestCall
<1>2. NoBucket \in PlannedBucket /\ NoBucket.items = {} /\ NoBucket.source = "none" BY ReqNoFields DEF NoBucket, PlannedBucket
<1>3. ReqTypeOK BY <1>1, <1>2 DEF ReqTypeOK, ReqInit, ReqAssumption, RequestManager
<1>4. KeysGiven BY DEF KeysGiven, ReqInit
<1>5. \A c \in Callers : CallFine(c)
  <2>1. \A c \in Callers : request[c] = NoRequest BY DEF ReqInit
  <2>2. requests = 0 BY DEF ReqInit
  <2>3. 0 <= 0 /\ 0 <= 1 /\ ~ (0 > 0) OBVIOUS
  <2> QED BY <2>1, <2>2, <2>3 DEF CallFine, NoRequest, Busy, Changes
<1>6. ItemsFinite /\ FetchedIsComplete BY <1>2, FS_EmptySet DEF ItemsFinite, FetchedIsComplete, ReqInit
<1> QED BY <1>3, <1>4, <1>5, <1>6 DEF ReqInvariant, CallsFine

LEMMA ReqBucketKept ==
    ASSUME ReqInvariant, UNCHANGED <<rbucket, service>>
    PROVE  ItemsFinite' /\ FetchedIsComplete'
BY DEF ReqInvariant, ItemsFinite, FetchedIsComplete, local_predicates, LocalFilters, LocalExcludes

LEMMA ReqBeginsKept ==
    ASSUME ReqAssumption, ReqInvariant, NEW c \in Callers, CallBegins(c)
    PROVE  ReqInvariant'
<1>1. ReqTypeOK /\ KeysGiven /\ \A d \in Callers : CallFine(d) BY DEF ReqInvariant, CallsFine
<1>2. instance[c] \in RequestManager BY <1>1 DEF ReqTypeOK
<1>3. (instance[c].row # 0 => instance[c].row \in RowNumbers) /\ (instance[c].payload # NoFields => instance[c].row \in RowNumbers)
  BY <1>2 DEF RequestManager, NoInstance
<1>4. 0 \notin RowNumbers BY DEF ReqAssumption
<1>5. ASSUME NEW op, NEW n, NEW new, Begin(c, op, n, new), CallsFine' PROVE ReqInvariant'
  <2>1. UNCHANGED <<rbucket, service>> BY <1>5 DEF Begin
  <2> QED BY <1>5, <2>1, ReqBucketKept DEF ReqInvariant
<1>6. CASE \E n \in RowNumbers : attach(c, n)
  <2>1. PICK n \in RowNumbers : attach(c, n) BY <1>6
  <2>2. [row |-> n, payload |-> NoFields] \in RequestManager BY ReqNoFields DEF RequestManager
  <2>3. instance' \in [Callers -> RequestManager] BY <2>1, <2>2, <1>1 DEF attach, ReqTypeOK
  <2>4. UNCHANGED <<retry_policy, service, rowsAt, keysSeen, request, rbucket, requests, losses>> BY <2>1 DEF attach
  <2>5. rbucket' \in PlannedBucket BY <2>4, <1>1 DEF ReqTypeOK
  <2>6. CallsFine' BY <2>3, <2>4, <2>5, ReqCallsKept DEF ReqInvariant
  <2> QED BY <2>4, <2>6, ReqBucketKept DEF ReqInvariant
<1>7. CASE \E fields \in NewRows : create(c, fields)
  <2>1. PICK fields \in NewRows : create(c, fields) BY <1>7
  <2>2. fields \in FullRows /\ fields \in Fields BY ReqFullRows DEF ReqAssumption
  <2>3. Begin(c, "create", 0, fields) BY <2>1 DEF create
  <2>4. CallsFine' BY <1>1, <2>2, <2>3, ReqBegins DEF CallsFine
  <2> QED BY <2>3, <2>4, <1>5
<1>8. CASE \E new \in Updates : update(c, new)
  <2>1. PICK new \in Updates : update(c, new) BY <1>8
  <2>2. new \in Fields BY DEF ReqAssumption
  <2>3. Begin(c, "update", instance[c].row, new) /\ instance[c].row \in RowNumbers BY <2>1, <1>3 DEF update
  <2>4. CallsFine' BY <1>1, <1>4, <2>2, <2>3, ReqBegins DEF CallsFine
  <2> QED BY <2>3, <2>4, <1>5
<1>9. CASE get_data(c)
  <2>1. Begin(c, "detail", instance[c].row, NoFields) /\ instance[c].row \in RowNumbers BY <1>9, <1>3 DEF get_data
  <2>2. CallsFine' BY <1>1, <1>4, <2>1, ReqNoFields, ReqBegins DEF CallsFine
  <2> QED BY <2>1, <2>2, <1>5
<1>10. CASE delete(c)
  <2>1. Begin(c, "delete", instance[c].row, NoFields) /\ instance[c].row \in RowNumbers BY <1>10, <1>3 DEF delete
  <2>2. CallsFine' BY <1>1, <1>4, <2>1, ReqNoFields, ReqBegins DEF CallsFine
  <2> QED BY <2>1, <2>2, <1>5
<1>11. CASE execute_plan(c)
  <2>1. Begin(c, "list", 0, NoFields) BY <1>11 DEF execute_plan
  <2>2. CallsFine' BY <1>1, <2>1, ReqNoFields, ReqBegins DEF CallsFine
  <2> QED BY <2>1, <2>2, <1>5
<1> QED BY <1>6, <1>7, <1>8, <1>9, <1>10, <1>11 DEF CallBegins

LEMMA ReqAttemptsKept ==
    ASSUME ReqAssumption, ReqInvariant, NEW c \in Callers, Attempts(c)
    PROVE  ReqInvariant'
<1>1. CallsFine BY DEF ReqInvariant
<1>2. ASSUME CallsFine', UNCHANGED <<rbucket, service>> PROVE ReqInvariant' BY <1>2, ReqBucketKept DEF ReqInvariant
<1>3. CASE execute(c)
  <2>1. UNCHANGED <<rbucket, service>> BY <1>3 DEF execute
  <2> QED BY <2>1, <1>1, <1>2, <1>3, ReqExecute
<1>4. CASE NotFound(c)
  <2>1. UNCHANGED <<rbucket, service>> BY <1>4 DEF NotFound
  <2> QED BY <2>1, <1>1, <1>2, <1>4, ReqNotFound
<1>5. CASE Listed(c) BY <1>5, ReqListedCalls
<1>6. ASSUME NEW failure \in Failures, AnswerLost(c, failure) PROVE ReqInvariant'
  <2>1. UNCHANGED <<rbucket, service>> BY <1>6 DEF AnswerLost
  <2> QED BY <2>1, <1>1, <1>2, <1>6, ReqAnswerLost
<1>7. ASSUME NEW failure \in Failures, AttemptLost(c, failure) PROVE ReqInvariant'
  <2>1. UNCHANGED <<rbucket, service>> BY <1>7 DEF AttemptLost
  <2> QED BY <2>1, <1>1, <1>2, <1>7, ReqAttemptLost
<1> QED BY <1>3, <1>4, <1>5, <1>6, <1>7 DEF Attempts

LEMMA ReqChainsKept ==
    ASSUME ReqAssumption, ReqInvariant, NEW c \in Callers, Chains(c)
    PROVE  ReqInvariant'
<1>1. CallsFine /\ ReqTypeOK /\ ItemsFinite BY DEF ReqInvariant, CallsFine
<1>2. /\ rbucket' \in PlannedBucket /\ IsFiniteSet(rbucket'.items) /\ rbucket'.source # "snapshot"
      /\ UNCHANGED <<retry_policy, service, rowsAt, keysSeen, request, instance, requests, losses>>
  BY <1>1, ReqPlan DEF Chains
<1>3. instance' \in [Callers -> RequestManager] BY <1>1, <1>2 DEF ReqTypeOK
<1>4. CallsFine' BY <1>1, <1>2, <1>3, ReqCallsKept
<1> QED BY <1>2, <1>4 DEF ReqInvariant, ItemsFinite, FetchedIsComplete

\* ReqInvariant is inductive.
THEOREM ReqInvariantHolds == ReqSpec => []ReqInvariant
<1>1. ReqInit => ReqInvariant BY ReqInitially, ReqAssumption
<1>2. ReqInvariant /\ [ReqNext]_reqVars => ReqInvariant'
  <2> SUFFICES ASSUME ReqInvariant, [ReqNext]_reqVars PROVE ReqInvariant' OBVIOUS
  <2>1. CASE ReqNext
    <3>1. PICK c \in Callers : CallBegins(c) \/ Attempts(c) \/ Chains(c) BY <2>1 DEF ReqNext
    <3> QED BY <3>1, ReqAssumption, ReqBeginsKept, ReqAttemptsKept, ReqChainsKept
  <2>2. CASE UNCHANGED reqVars
    <3>1. UNCHANGED <<rbucket, service>> BY <2>2 DEF reqVars
    <3>2. UNCHANGED <<retry_policy, service, rowsAt, keysSeen, request, requests, losses>> /\ instance' = instance BY <2>2 DEF reqVars
    <3>3. ReqTypeOK BY DEF ReqInvariant, CallsFine
    <3>4. instance' \in [Callers -> RequestManager] /\ rbucket' \in PlannedBucket BY <3>1, <3>2, <3>3 DEF ReqTypeOK
    <3>5. CallsFine' BY <3>2, <3>4, ReqCallsKept DEF ReqInvariant
    <3> QED BY <3>1, <3>5, ReqBucketKept DEF ReqInvariant
  <2> QED BY <2>1, <2>2
<1> QED BY <1>1, <1>2, PTL DEF ReqSpec

\* A change asked for once happens at most once and a success has happened; a fetched
\* bucket holds and counts what matched (interface/requests.py, bucket/request_bucket.py).
THEOREM RequestsSoundCorrect == ReqSpec => []RequestsSound
<1>1. ReqInvariant => RequestsSound
  BY DEF ReqInvariant, CallsFine, CallFine, RequestsSound, ChangesAtMostOnce
<1> QED BY <1>1, ReqInvariantHolds, PTL
=============================================================================
