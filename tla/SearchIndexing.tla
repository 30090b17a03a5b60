--------------------------- MODULE SearchIndexing ---------------------------
(***************************************************************************)
(* The search index of one manager/index pair and the durable mark that    *)
(* keeps it repairable: search/invalidation.py (handoff after a commit),   *)
(* search/async_tasks.py (tasks), search/indexer.py (reads and writes),    *)
(* search/reconciliation.py and search/models.py (marks, claims, rebuild). *)
(*                                                                         *)
(* The content of a row is the number of its last change; a document is    *)
(* the change and the schema it was serialized from.  A task reads its row *)
(* and writes the backend in two steps, as does a rebuild.                 *)
(***************************************************************************)
EXTENDS Naturals, FiniteSets

CONSTANTS
    Rows,          \* rows of the manager
    Sweeps,        \* bound: sweeps of reconcile_search_indexes at the same time
    MaxChanges,    \* bound: committed changes
    MaxFaults      \* bound: failures, deaths, expired claims, deployments, forced sweeps

ASSUME SearchAssumption ==
    /\ "none" \notin Rows
    /\ Sweeps \in Nat /\ MaxChanges \in Nat /\ MaxFaults \in Nat

VARIABLES
    mode,       \* [async, default]: SEARCH_ASYNC; source rows in the default database
    changes,    \* number of committed changes
    rows,       \* row -> [at, live]: its last change
    pair,       \* the SearchIndexState row, and the schema it was built for (0: no row)
    schema,     \* fingerprint of the deployed search configuration
    docs,       \* row -> [at, live, schema]: what the backend holds, and as of when
    handoff,    \* change -> the on_commit callback of the process that made it
    task,       \* change -> its index or delete task, run inline or by a worker
    sweep,      \* number of a running sweep -> how far it is
    changed,    \* history: changes marked since the pair was last clean
    excused,    \* history: rows whose work was lost or overtaken
    searchFaults

searchVars == <<mode, changes, rows, pair, schema, docs, handoff, task, sweep, changed,
                excused, searchFaults>>

None == "none"
Changes == 1..MaxChanges
NoDocument == [at |-> 0, live |-> FALSE, schema |-> 0]
NoToken == [gen |-> 0, ack |-> FALSE]
NoHandoff == [pc |-> "idle", row |-> None, work |-> None, token |-> NoToken]
NoTask == [pc |-> "idle", kind |-> None, row |-> None, gen |-> 0, read |-> NoDocument]
NoSweep == [pc |-> "idle", token |-> 0, gen |-> 0, read |-> [r \in Rows |-> NoDocument]]
StrongReasons == {"initialization", "schema_changed", "forced"}

SearchInit ==
    /\ mode \in {[async |-> FALSE, default |-> TRUE], [async |-> TRUE, default |-> TRUE],
                 [async |-> FALSE, default |-> FALSE]}
    /\ schema = 1
    /\ changes = 0
    /\ rows = [r \in Rows |-> [at |-> 0, live |-> TRUE]]
    /\ \E known \in BOOLEAN :
         /\ pair = [fp |-> IF known THEN 1 ELSE 0, dirty |-> FALSE, reason |-> None, gen |-> 0,
                    claim |-> 0, live |-> FALSE]
         /\ docs = [r \in Rows |-> [at |-> 0, live |-> known, schema |-> 1]]
         /\ searchFaults = IF known THEN 0 ELSE 1
    /\ handoff = [c \in Changes |-> NoHandoff]
    /\ task = [c \in Changes |-> NoTask]
    /\ sweep = [q \in 1..Sweeps |-> NoSweep]
    /\ changed = {}
    /\ excused = {}

SearchFault == searchFaults < MaxFaults /\ searchFaults' = searchFaults + 1
NoSearchFault == UNCHANGED searchFaults

-----------------------------------------------------------------------------
(* Marks *)

\* mark_dirty: the generation moves with every mark.
mark_dirty(s, reason) == [s EXCEPT !.dirty = TRUE, !.reason = reason, !.gen = @ + 1]

\* _mark_search_index_config_dirty: a new row and a changed schema need a
\* rebuild, and a data change does not weaken a mark that needs one.
mark_search_index_dirty(s) ==
    mark_dirty([s EXCEPT !.fp = schema],
               IF s.fp = 0 THEN "initialization"
               ELSE IF s.fp # schema THEN "schema_changed"
               ELSE IF s.dirty /\ s.reason \in StrongReasons THEN s.reason
               ELSE "data_changed")

\* Only a mark that found the pair clean and current may be acknowledged.
Acknowledgeable(s) == s.fp = schema /\ ~s.dirty

MarkToken(s) == [gen |-> s.gen + 1, ack |-> Acknowledgeable(s)]

\* Mutant: the recovery keeps the reason of a clean row.
MarkExistingKeepingReason(s) == IF s.fp = 0 THEN s ELSE mark_dirty(s, s.reason)

\* mark_existing_search_index_dirty: recovery without the manager's configuration.
mark_existing_search_index_dirty(s) ==
    IF s.fp = 0 THEN s
    ELSE mark_dirty(s, IF s.reason \in StrongReasons THEN s.reason ELSE "data_changed")

Mark(s) == pair' = s
Forget == changed' = {}

\* _mark_pairs for a change of a row: a failing marker falls back on the
\* existing row, and when that fails too the change goes unmarked.
_mark_pairs(c, r, token) ==
    /\ \/ Mark(mark_search_index_dirty(pair)) /\ token = MarkToken(pair) /\ NoSearchFault
       \/ /\ \E new \in {mark_existing_search_index_dirty(pair), pair} : Mark(new)
          /\ token = NoToken
          /\ SearchFault
    /\ changed' = IF pair' = pair THEN changed ELSE changed \cup {c}
    /\ excused' = IF pair' = pair THEN excused \cup {r} ELSE excused

-----------------------------------------------------------------------------
(* A mutation and its callback *)

NextContent(c, action) == [at |-> c, live |-> action # "delete"]

\* A receiver that cannot name its targets schedules a mark without work.
_direct_work(action) == {IF action = "delete" THEN "delete" ELSE "index", "fallback"}

\* schedule_search_invalidation_work: on the default database the mark is part of
\* the transaction, on another one the callback begins with it.
schedule_search_invalidation_work(c, r, work, token) ==
    /\ IF mode.default THEN _mark_pairs(c, r, token)
       ELSE token = NoToken /\ UNCHANGED <<pair, changed, excused>> /\ NoSearchFault
    /\ handoff' = [handoff EXCEPT ![c] =
                      [pc |-> IF mode.default THEN "dispatch" ELSE "mark",
                       row |-> r, work |-> work, token |-> token]]

\* data_change with the pre and post receivers: the row changes and one callback
\* is registered for what has to be indexed.
commit_change(c, r, action) ==
    /\ c = changes + 1
    /\ changes' = c
    /\ rows[r].live = (action # "create")
    /\ rows' = [rows EXCEPT ![r] = NextContent(c, action)]
    /\ \E work \in _direct_work(action),
          token \in {MarkToken(pair), NoToken} :
         /\ work = "fallback" => searchFaults < MaxFaults
         /\ schedule_search_invalidation_work(c, r, work, token)
    /\ UNCHANGED <<mode, schema, docs, task, sweep>>

\* after_non_default_commit: the mark follows the commit of the other database.
after_non_default_commit(c) ==
    /\ handoff[c].pc = "mark"
    /\ \E token \in {MarkToken(pair), NoToken} :
         /\ _mark_pairs(c, handoff[c].row, token)
         /\ handoff' = [handoff EXCEPT ![c].pc = "dispatch", ![c].token = token]
    /\ UNCHANGED <<mode, changes, rows, schema, docs, task, sweep>>

NewTask(c) ==
    [pc |-> "start", kind |-> handoff[c].work,
     row |-> handoff[c].row, gen |-> handoff[c].token.gen, read |-> NoDocument]

\* _prepare_scheduled_work leaves nothing to hand over of a dirty fallback.
Fallback(c) == handoff[c].work = "fallback"

\* dispatch_delete_documents refuses to queue a delete without a fence.
MissingFence(c) == mode.async /\ handoff[c].work = "delete" /\ handoff[c].token = NoToken

\* _dispatch_prepared_work, the handing over: a task goes to the broker or is
\* run in place; a broker's refusal leaves the pair dirty, as a fallback does.
_dispatch_prepared_work(c) ==
    /\ handoff[c].pc = "dispatch"
    /\ \/ /\ ~Fallback(c) /\ ~MissingFence(c)
          /\ task' = [task EXCEPT ![c] = NewTask(c)]
          /\ handoff' = [handoff EXCEPT ![c].pc = IF mode.async THEN "ack" ELSE "inline"]
          /\ UNCHANGED pair /\ NoSearchFault
       \/ /\ Fallback(c) \/ MissingFence(c) \/ mode.async
          /\ pair' = IF MissingFence(c) THEN mark_search_index_dirty(pair) ELSE pair
          /\ IF Fallback(c) \/ MissingFence(c) THEN NoSearchFault ELSE SearchFault
          /\ handoff' = [handoff EXCEPT ![c] = NoHandoff]
          /\ UNCHANGED task
    /\ UNCHANGED <<mode, changes, rows, schema, docs, sweep, changed, excused>>

\* acknowledge_search_index_dirty: only its own generation of a data change,
\* and never under a reconciler's claim.
acknowledge_search_index_dirty(c) ==
    /\ handoff[c].pc = "ack"
    /\ handoff' = [handoff EXCEPT ![c] = NoHandoff]
    /\ IF /\ handoff[c].token.ack
          /\ pair.gen = handoff[c].token.gen
          /\ pair.reason = "data_changed"
          /\ pair.dirty
          /\ pair.claim = 0
       THEN Mark([pair EXCEPT !.dirty = FALSE, !.reason = None]) /\ Forget
       ELSE UNCHANGED <<pair, changed>>
    /\ UNCHANGED <<mode, changes, rows, schema, docs, task, sweep, excused, searchFaults>>

-----------------------------------------------------------------------------
(* Task bodies: a worker's, or the mutator's own when updates run inline *)

\* The document index_manager_index_batch serializes for a row it has loaded.
_serialize_document(r) == [at |-> rows[r].at, live |-> TRUE, schema |-> schema]

\* A document that says what its row says now, for the schema marked last.
Current(r, d) == d.live = rows[r].live /\ (d.live => d.at = rows[r].at /\ d.schema >= pair.fp)

Older(d, e) == d.at < e.at \/ d.schema < e.schema

\* The end of a body: a callback goes on to acknowledge what succeeded, and a
\* failed delete without a token marks the pair once more.
EndTask(c, ok) ==
    /\ task' = [task EXCEPT ![c] = NoTask]
    /\ handoff' = [handoff EXCEPT ![c] = IF @.pc # "inline" THEN @
                                         ELSE IF ok THEN [@ EXCEPT !.pc = "ack"] ELSE NoHandoff]

\* index_manager_index_batch up to the write: a row that is gone is an error,
\* and _mark_worker_failure marks the pair.
index_manager_index_batch(c) ==
    /\ task[c].pc = "start" /\ task[c].kind = "index"
    /\ IF rows[task[c].row].live
       THEN /\ task' = [task EXCEPT ![c].pc = "write", ![c].read = _serialize_document(task[c].row)]
            /\ UNCHANGED <<pair, handoff>>
       ELSE Mark(mark_search_index_dirty(pair)) /\ EndTask(c, FALSE)
    /\ UNCHANGED <<mode, changes, rows, schema, docs, sweep, changed, excused, searchFaults>>

\* backend.upsert at the end of index_manager_index_batch.
upsert(c) ==
    /\ task[c].pc = "write"
    /\ docs' = [docs EXCEPT ![task[c].row] = task[c].read]
    /\ excused' = IF Older(task[c].read, docs[task[c].row]) THEN excused \cup {task[c].row} ELSE excused
    /\ EndTask(c, TRUE)
    /\ UNCHANGED <<mode, changes, rows, pair, schema, sweep, changed, searchFaults>>

\* Mutant: deletes are not fenced.
AlwaysMatches(c) == TRUE

\* _generation_matches; a task without a fence always matches.
_generation_matches(c) == task[c].gen \in {0, pair.gen}

\* delete_documents_task, the check before: a stale delete marks instead.
delete_documents_task(c) ==
    /\ task[c].pc = "start" /\ task[c].kind = "delete"
    /\ IF _generation_matches(c)
       THEN task' = [task EXCEPT ![c].pc = "delete"] /\ UNCHANGED <<pair, handoff>>
       ELSE Mark(mark_search_index_dirty(pair)) /\ EndTask(c, TRUE)
    /\ UNCHANGED <<mode, changes, rows, schema, docs, sweep, changed, excused, searchFaults>>

\* SearchIndexer.delete_documents.  Without a fence, and in another database,
\* whose marks need not follow the order of its commits, it may remove a newer
\* document.
delete_documents(c) ==
    /\ task[c].pc = "delete"
    /\ docs' = [docs EXCEPT ![task[c].row] = [at |-> c, live |-> FALSE, schema |-> schema]]
    /\ task' = [task EXCEPT ![c].pc = "recheck"]
    /\ excused' = IF task[c].gen = 0 \/ (~mode.default /\ c < docs[task[c].row].at) THEN excused \cup {task[c].row} ELSE excused
    /\ UNCHANGED <<mode, changes, rows, pair, schema, handoff, sweep, changed, searchFaults>>

\* delete_documents_task, the check after: what changed meanwhile marks.
recheck_generation(c) ==
    /\ task[c].pc = "recheck"
    /\ IF _generation_matches(c) THEN UNCHANGED pair ELSE Mark(mark_search_index_dirty(pair))
    /\ EndTask(c, TRUE)
    /\ UNCHANGED <<mode, changes, rows, schema, docs, sweep, changed, excused, searchFaults>>

\* Any other exception in a body: _mark_worker_failure, or by path when the
\* manager does not import.
task_fails(c) ==
    /\ task[c].pc \in {"start", "write", "delete"}
    /\ SearchFault
    /\ \E new \in {mark_search_index_dirty(pair), mark_existing_search_index_dirty(pair)} : Mark(new)
    /\ EndTask(c, FALSE)
    /\ UNCHANGED <<mode, changes, rows, schema, docs, sweep, changed, excused>>

-----------------------------------------------------------------------------
(* Reconciliation *)

\* ensure_search_index_states, with which every sweep starts: a missing row, a
\* forced sweep and a changed fingerprint mark the pair for a rebuild.
ensure_search_index_states(force) ==
    /\ force \/ pair.fp # schema
    /\ IF force THEN SearchFault ELSE NoSearchFault
    /\ pair' = mark_dirty([pair EXCEPT !.fp = schema],
                          IF pair.fp = 0 THEN "initialization"
                          ELSE IF force THEN "forced" ELSE "schema_changed")
    /\ UNCHANGED <<mode, changes, rows, schema, docs, handoff, task, sweep, changed, excused>>

\* Mutant: a claim is taken while it is live.
ClaimableAlways == TRUE

\* Mutant: an expired claim is never taken.
ClaimableUnclaimed == pair.claim = 0

\* The claim_filter of _claim_dirty_states: unclaimed or expired.
Claimable == pair.claim = 0 \/ ~pair.live

\* A uuid no sweep and no claim has.
FreshToken ==
    CHOOSE t \in 1..(Sweeps + 2) :
        t # pair.claim /\ \A q \in 1..Sweeps : t # sweep[q].token

\* _claim_dirty_states: dirty, and unclaimed or expired; the sweep remembers
\* the token and the generation it claimed.
_claim_dirty_states(q) ==
    /\ sweep[q].pc = "idle" /\ \A p \in 1..(q - 1) : sweep[p].pc # "idle"
    /\ pair.dirty
    /\ Claimable
    /\ pair' = [pair EXCEPT !.claim = FreshToken, !.live = TRUE]
    /\ sweep' = [sweep EXCEPT ![q] = [NoSweep EXCEPT !.pc = "read", !.token = FreshToken, !.gen = pair.gen]]
    /\ UNCHANGED <<mode, changes, rows, schema, docs, handoff, task, changed, excused, searchFaults>>

\* reindex_manager_index reads and serializes every row ...
reindex_manager_index(q) ==
    /\ sweep[q].pc = "read"
    /\ sweep' = [sweep EXCEPT
                   ![q].pc = "write",
                   ![q].read = [r \in Rows |-> [_serialize_document(r) EXCEPT !.live = rows[r].live]]]
    /\ UNCHANGED <<mode, changes, rows, pair, schema, docs, handoff, task, changed, excused, searchFaults>>

\* A rebuild whose claim passed to another sweep may undo what that one wrote.
Superseded(q) == pair.claim # sweep[q].token

\* ... upserts the documents of the rows it found and deletes the others.
reindex_write(q) ==
    /\ sweep[q].pc = "write"
    /\ docs' = sweep[q].read
    /\ excused' = excused \cup {r \in Rows : Superseded(q) /\ Older(sweep[q].read[r], docs[r])}
    /\ sweep' = [sweep EXCEPT ![q].pc = "clear"]
    /\ UNCHANGED <<mode, changes, rows, pair, schema, handoff, task, changed, searchFaults>>

\* Mutant: a rebuild clears marks made while it ran.
ClearAnyGeneration(q) == pair.claim = sweep[q].token

\* clear_dirty: the claim and the generation must still be the sweep's.
clear_dirty(q) == pair.claim = sweep[q].token /\ pair.gen = sweep[q].gen

\* Work that may still write the document of r.
Writing(r) ==
    \/ \E c \in Changes : handoff[c].row = r \/ task[c].row = r
    \/ \E q \in 1..Sweeps : sweep[q].pc = "write"

\* The end of a successful sweep: clear, or _release_claim of its own claim.
reconcile_search_indexes(q) ==
    /\ sweep[q].pc = "clear"
    /\ IF clear_dirty(q)
       THEN /\ pair' = [pair EXCEPT !.dirty = FALSE, !.reason = None, !.claim = 0, !.live = FALSE]
            /\ Forget
            /\ excused' = {r \in excused : Writing(r) \/ ~Current(r, docs[r])}
       ELSE /\ pair' = IF Superseded(q) THEN pair ELSE [pair EXCEPT !.claim = 0, !.live = FALSE]
            /\ UNCHANGED <<changed, excused>>
    /\ sweep' = [sweep EXCEPT ![q] = NoSweep]
    /\ UNCHANGED <<mode, changes, rows, schema, docs, handoff, task, searchFaults>>

\* _release_claim_with_error after a failure anywhere in the rebuild.
_release_claim_with_error(q) ==
    /\ sweep[q].pc \in {"read", "write"}
    /\ SearchFault
    /\ pair' = IF Superseded(q) THEN pair
               ELSE [pair EXCEPT !.claim = 0, !.live = FALSE, !.gen = @ + 1]
    /\ sweep' = [sweep EXCEPT ![q] = NoSweep]
    /\ UNCHANGED <<mode, changes, rows, schema, docs, handoff, task, changed, excused>>

-----------------------------------------------------------------------------
(* The environment *)

\* The TTL of a claim passes: sooner or later when its sweep is gone, and as a
\* fault when the sweep still runs.
claim_expires ==
    /\ pair.claim # 0 /\ pair.live
    /\ IF \E q \in 1..Sweeps : sweep[q].token = pair.claim THEN SearchFault ELSE NoSearchFault
    /\ pair' = [pair EXCEPT !.live = FALSE]
    /\ UNCHANGED <<mode, changes, rows, schema, docs, handoff, task, sweep, changed, excused>>

\* A deployment with another search configuration.
deploy_schema ==
    /\ schema = 1
    /\ SearchFault
    /\ schema' = 2
    /\ UNCHANGED <<mode, changes, rows, pair, docs, handoff, task, sweep, changed, excused>>

\* The process dies in its callback; before the mark of another database the
\* change is lost to search, the gap the code's comment names.
mutator_dies(c) ==
    /\ handoff[c].pc # "idle"
    /\ SearchFault
    /\ excused' = IF handoff[c].pc = "mark" \/ (handoff[c].pc = "inline" /\ task[c].pc = "recheck")
                  THEN excused \cup {handoff[c].row} ELSE excused
    /\ handoff' = [handoff EXCEPT ![c] = NoHandoff]
    /\ task' = [task EXCEPT ![c] = IF handoff[c].pc = "inline" THEN NoTask ELSE @]
    /\ UNCHANGED <<mode, changes, rows, pair, schema, docs, sweep, changed>>

\* The broker or a dying worker loses a task.
task_lost(c) ==
    /\ mode.async /\ task[c].pc # "idle"
    /\ SearchFault
    /\ task' = [task EXCEPT ![c] = NoTask]
    /\ excused' = excused \cup {task[c].row}
    /\ UNCHANGED <<mode, changes, rows, pair, schema, docs, handoff, sweep, changed>>

\* A sweep dies; its claim stays until it expires.
sweep_dies(q) ==
    /\ sweep[q].pc # "idle"
    /\ SearchFault
    /\ sweep' = [sweep EXCEPT ![q] = NoSweep]
    /\ UNCHANGED <<mode, changes, rows, pair, schema, docs, handoff, task, changed, excused>>

TaskStep(c) ==
    \/ index_manager_index_batch(c) \/ upsert(c)
    \/ delete_documents_task(c) \/ delete_documents(c) \/ recheck_generation(c)

HandoffStep(c) ==
    after_non_default_commit(c) \/ _dispatch_prepared_work(c) \/ acknowledge_search_index_dirty(c)

SweepStep(q) ==
    \/ _claim_dirty_states(q) \/ reindex_manager_index(q) \/ reindex_write(q)
    \/ reconcile_search_indexes(q)

SearchNext ==
    \/ \E c \in Changes : \/ HandoffStep(c) \/ TaskStep(c)
                          \/ mutator_dies(c) \/ task_fails(c) \/ task_lost(c)
    \/ \E c \in Changes, r \in Rows, a \in {"create", "update", "delete"} : commit_change(c, r, a)
    \/ \E force \in BOOLEAN : ensure_search_index_states(force)
    \/ \E q \in 1..Sweeps : \/ SweepStep(q)
                              \/ _release_claim_with_error(q) \/ sweep_dies(q)
    \/ claim_expires \/ deploy_schema

\* Callbacks, tasks and sweeps go on, Celery Beat starts sweeps, and time passes.
SearchFairness ==
    /\ \A c \in Changes : WF_searchVars(HandoffStep(c)) /\ WF_searchVars(TaskStep(c))
    /\ \A q \in 1..Sweeps : WF_searchVars(SweepStep(q))
    /\ WF_searchVars(ensure_search_index_states(FALSE)) /\ WF_searchVars(claim_expires)

SearchSpec == SearchInit /\ [][SearchNext]_searchVars /\ SearchFairness

-----------------------------------------------------------------------------
(* Properties *)

SearchDocuments == [at : 0..MaxChanges, live : BOOLEAN, schema : 0..2]

\* Type invariant of the pair's durable state, the documents and the tasks.
SearchTypeOK ==
    /\ rows \in [Rows -> [at : 0..MaxChanges, live : BOOLEAN]]
    /\ pair \in [fp : 0..2, dirty : BOOLEAN, reason : StrongReasons \cup {"data_changed", None},
                 gen : Nat, claim : Nat, live : BOOLEAN]
    /\ docs \in [Rows -> SearchDocuments]
    /\ excused \subseteq Rows
    /\ changed \subseteq 1..MaxChanges
    /\ pair.dirty <=> pair.reason # None

\* The mark never lies: once a pair is clean and no work on a row is left, its
\* document is what the row says, unless work was lost (a task, a mark or a
\* callback) or an older write overtook a newer one.  A delete that removes the
\* document of a row created again, a rebuild that misses a concurrent change,
\* and an incremental update after a change of schema must all leave the pair dirty.
CleanIsCurrent ==
    pair.fp # 0 /\ ~pair.dirty =>
        \A r \in Rows \ excused : ~Writing(r) => Current(r, docs[r])

\* "older work cannot clear a newer mutation": a pair becomes clean only through
\* a rebuild that read every marked row as it is now, or through the acknowledgement of
\* the one change made since the pair was last clean.
OlderWorkNeverClears ==
    pair.dirty /\ ~pair'.dirty =>
      \/ \E q \in 1..Sweeps :
           /\ sweep[q].pc = "clear"
           /\ \A r \in Rows : rows[r].at \in changed => sweep[q].read[r].at = rows[r].at
      \/ \E c \in Changes : handoff[c].pc = "ack" /\ changed = {c}

\* A claim that has not expired is not taken from the sweep that holds it.
ClaimRespected ==
    \A q \in 1..Sweeps :
      pair.claim # 0 /\ pair.live /\ sweep[q].token = pair.claim /\ sweep[q].pc # "idle"
        /\ pair'.claim # pair.claim
      => sweep'[q].pc = "idle"

\* Repair: when changes and faults cease, every mark is worked off and the
\* deployed schema is the one the pair was built for.
SearchSettles == <>[](pair.fp = schema /\ ~pair.dirty)

\* The durable state is well formed and a clean pair is current
\* (SearchIndexState, reconcile_search_indexes).
SearchSound == SearchTypeOK /\ CleanIsCurrent

\* Marks and claims are given up only to work that may do so
\* (search/reconciliation.py, search/invalidation.py).
MarksRespected == [][OlderWorkNeverClears /\ ClaimRespected]_searchVars

=============================================================================
