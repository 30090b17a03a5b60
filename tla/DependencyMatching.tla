------------------------- MODULE DependencyMatching -------------------------
(***************************************************************************)
(* From a bucket to the invalidation of what was computed from it: the     *)
(* lookups a DatabaseBucket collects (bucket/database_bucket.py), the      *)
(* dependencies it reports when it is evaluated, where they are stored     *)
(* (cache/dependency_shards.py, or the legacy index of                     *)
(* cache/dependency_index.py) and which entries a changed row invalidates. *)
(*                                                                         *)
(* One manager whose rows have a name and a status.  A query is the set of *)
(* row values it selects.  How reads, changes and the index lock           *)
(* interleave is the subject of DependencyCache; here they are steps.      *)
(***************************************************************************)
EXTENDS Integers, Sequences, FiniteSets

CONSTANTS
    RowIds,         \* primary keys
    RowNames,       \* values of name (numbers)
    RowStatuses,    \* values of status (numbers)
    FirstRows,      \* the values of rows at the start
    CacheKeys,      \* cached computations
    MergesLookups,  \* TRUE: a chain may repeat a lookup and buckets may be united
    MaxSteps,       \* bound: filter, exclude, sort and union steps of one bucket
    MaxRowChanges   \* bound: changes of rows

VARIABLES
    rowTable,    \* row id -> value or NoRow
    entry,       \* cache key -> the cached result, what it read and its reverse membership
    registry,    \* tracked_lookup_names: the attributes tracked for filters and excludes
    legacyIndex, \* TRUE while the index of an earlier release is in the cache
    rowChanges   \* bound

depVars == <<rowTable, entry, registry, legacyIndex, rowChanges>>

NoRow == [name |-> -1, status |-> -1]
RowContents == [name : RowNames, status : RowStatuses]
RowLookups == {<<"name", "eq">>, <<"name", "gt">>, <<"name", "in">>, <<"status", "eq">>}
Conditions ==
    {[lookup |-> <<"name", "eq">>, value |-> {n}] : n \in RowNames}
    \cup {[lookup |-> <<"name", "gt">>, value |-> {0}], [lookup |-> <<"name", "in">>, value |-> {0, 2}],
          [lookup |-> <<"status", "eq">>, value |-> {1}]}

\* What the database makes of a lookup.
Holds(lookup, value, row) ==
    CASE lookup[2] = "gt" -> \E v \in value : row[lookup[1]] > v
      [] OTHER -> row[lookup[1]] \in value

-----------------------------------------------------------------------------
(* DatabaseBucket: the lookups it remembers, per lookup the list of values *)

NoLookups == [l \in RowLookups |-> << >>]
AllRows == [filters |-> NoLookups, excludes |-> NoLookups, sort |-> FALSE, sat |-> RowContents, steps |-> 0]

\* __merge_filter_definitions: the value is appended to the list of its lookup.
__merge_filter_definitions(basis, c) == [basis EXCEPT ![c.lookup] = Append(@, c.value)]

filter(b, c) ==
    [b EXCEPT !.filters = __merge_filter_definitions(b.filters, c), !.steps = @ + 1,
              !.sat = {v \in b.sat : Holds(c.lookup, c.value, v)}]

\* exclude of one call: rows that satisfy all of its lookups.
exclude(b, c, d) ==
    LET merged == __merge_filter_definitions(b.excludes, c)
    IN  [b EXCEPT !.excludes = IF c = d THEN merged ELSE __merge_filter_definitions(merged, d), !.steps = @ + 1,
                  !.sat = {v \in b.sat : ~(Holds(c.lookup, c.value, v) /\ Holds(d.lookup, d.value, v))}]

sort(b) == [b EXCEPT !.sort = TRUE, !.steps = @ + 1]

\* __or__: the lists of both sides are joined lookup by lookup.
__or__(a, b) ==
    [a EXCEPT !.filters = [l \in RowLookups |-> a.filters[l] \o b.filters[l]],
              !.excludes = [l \in RowLookups |-> a.excludes[l] \o b.excludes[l]],
              !.sat = a.sat \cup b.sat, !.steps = a.steps + b.steps + 1]

Repeats(basis, c) == basis[c.lookup] # << >>

\* The buckets that one more call derives.
Derived(b) ==
    {filter(b, c) : c \in {c \in Conditions : MergesLookups \/ ~Repeats(b.filters, c)}}
    \cup {exclude(b, p[1], p[2]) : p \in {p \in Conditions \X Conditions :
            (p[1] = p[2] \/ p[1].lookup # p[2].lookup) /\ (MergesLookups \/ ~(Repeats(b.excludes, p[1]) \/ Repeats(b.excludes, p[2])))}}
    \cup (IF b.sort THEN {} ELSE {sort(b)})

Reachable[n \in 0 .. MaxSteps] ==
    IF n = 0 THEN {AllRows}
    ELSE LET less == Reachable[n - 1]
             single == {b \in less : b.steps = 1 /\ b.filters # NoLookups}
         IN  less \cup UNION {Derived(b) : b \in less}
                  \cup (IF MergesLookups THEN {__or__(b, c) : b \in single, c \in single} ELSE {})

Used(params) == {l \in RowLookups : params[l] # << >>}

\* _track_effective_dependencies.
_track_effective_dependencies(b) ==
    LET dep(action, params) == [action |-> action, params |-> params, sorted |-> FALSE, excludes |-> NoLookups, id |-> 0]
    IN  (IF Used(b.filters) = {} THEN {dep("all", NoLookups)} ELSE {dep("filter", b.filters)})
        \cup (IF Used(b.excludes) = {} THEN {} ELSE {dep("exclude", b.excludes)})
        \cup (IF b.sort THEN {[dep("filter", b.filters) EXCEPT !.sorted = TRUE, !.excludes = b.excludes]} ELSE {})

\* The identification dependency of every manager that was built.
Identified(ids) ==
    {[action |-> "identification", params |-> NoLookups, sorted |-> FALSE, excludes |-> NoLookups, id |-> i] : i \in ids}

\* The rows of a bucket, its length, or its first row by name.
Selected(b, t) == {i \in RowIds : t[i] # NoRow /\ t[i] \in b.sat}
FirstRow(b, t) ==
    LET s == Selected(b, t)
        before(i, j) == IF b.sort /\ t[i].name # t[j].name THEN t[i].name < t[j].name ELSE i <= j
    IN  {i \in s : \A j \in s : before(i, j)}
Evaluate(b, op, t) ==
    CASE op = "count" -> [n |-> Cardinality(Selected(b, t)), rows |-> {}]
      [] op = "first" -> [n |-> 0, rows |-> {<<i, t[i]>> : i \in FirstRow(b, t)}]
      [] OTHER -> [n |-> 0, rows |-> {<<i, t[i]>> : i \in Selected(b, t)}]
Tracked_(b, op, t) ==
    _track_effective_dependencies(b)
    \cup Identified({r[1] : r \in Evaluate(b, op, t).rows})

-----------------------------------------------------------------------------
(* Where a dependency is stored *)

\* _shard_keys_for_dependency: the shards of a dependency.
_shard_keys_for_dependency(d) ==
    CASE d.action = "all" -> {<<"all", "all", "all">>}
      [] d.action = "identification" -> {<<"composite", "filter", "identification">>}
      [] d.sorted -> {<<"composite", d.action, "name">>}
      [] Cardinality(Used(d.params)) > 1 -> {<<"composite", d.action, l[1]>> : l \in Used(d.params)}
      [] OTHER -> {IF l[2] = "eq" THEN <<"composite", d.action, l[1]>> ELSE <<"scan", d.action, l[1]>> :
                      l \in Used(d.params)}

IsComposite(d) == d.sorted \/ Cardinality(Used(d.params)) > 1
Registrations(d) ==
    IF d.action \notin {"filter", "exclude"} THEN {}
    ELSE IF d.sorted THEN {"name"} ELSE {l[1] : l \in Used(d.params)}

\* _reverse_membership_for_dependencies.
_reverse_membership_for_dependencies(deps) ==
    [shards |-> UNION {_shard_keys_for_dependency(d) : d \in deps},
     composites |-> {d \in deps : IsComposite(d)}, simples |-> {d \in deps : ~IsComposite(d)}]

NoEntry == [cached |-> FALSE, reads |-> [bucket |-> AllRows, op |-> "count"], result |-> [n |-> 0, rows |-> {}],
            reverse |-> [shards |-> {}, composites |-> {}, simples |-> {}], deps |-> {}]

\* candidate_cache_keys_for_lookup: the scan, composite and all-records shards.
candidate_cache_keys_for_lookup(action, attr) ==
    {k \in CacheKeys : entry[k].reverse.shards \cap
        {<<"scan", action, attr>>, <<"composite", action, attr>>, <<"all", "all", "all">>} # {}}

-----------------------------------------------------------------------------
(* Which entries a change invalidates *)

\* Mutant: only the new value is compared.
NewValueOnly(action, old, new) == new

\* A filter dependency is hit when the row was or is in the result, an exclude one
\* when that changes.
ActionDecides(action, old, new) == IF action = "filter" THEN old \/ new ELSE old # new

\* matches_lookup_value: the stored value is the only value of the lookup; a list
\* of several is compared as one value, which no attribute equals.
matches_lookup_value(l, values, row) == row # NoRow /\ Len(values) = 1 /\ Holds(l, values[1], row)

params_match(params, row) == \A l \in Used(params) : matches_lookup_value(l, params[l], row)
InBucket(d, row) == params_match(d.params, row) /\ ~(Used(d.excludes) # {} /\ params_match(d.excludes, row))

dependency_matches(d, i, old, new, changed) ==
    CASE d.action = "all" -> TRUE
      [] d.action = "identification" -> d.id = i
      [] d.sorted /\ changed \in {"none", "name"} -> InBucket(d, old) \/ InBucket(d, new)
      [] d.sorted -> ActionDecides(d.action, FALSE, FALSE)
      [] OTHER -> ActionDecides(d.action, params_match(d.params, old), params_match(d.params, new))

candidate_should_invalidate(k, action, i, old, new, changed) ==
    \/ \E d \in entry[k].reverse.simples : dependency_matches(d, i, old, new, changed)
    \/ \E d \in entry[k].reverse.composites : d.action = action /\ dependency_matches(d, i, old, new, changed)

\* _generic_cache_invalidation_from_shards.
_generic_cache_invalidation_from_shards(i, old, new) ==
    {k \in CacheKeys : <<"all", "all", "all">> \in entry[k].reverse.shards}
    \cup {k \in candidate_cache_keys_for_lookup("filter", "identification") :
            candidate_should_invalidate(k, "identification", i, old, new, "none")}
    \cup UNION {{k \in candidate_cache_keys_for_lookup(action, attr) :
                    candidate_should_invalidate(k, action, i, old, new, attr)} :
                 action \in {"filter", "exclude"}, attr \in registry}

\* evaluate_composite of the legacy index, for a key that has composites.
evaluate_composite(k, l, action, old, new) ==
    \E d \in entry[k].deps :
        /\ d.action = action /\ ~d.sorted /\ Cardinality(Used(d.params)) > 1 /\ l \in Used(d.params)
        /\ ActionDecides(action, params_match(d.params, old), params_match(d.params, new))

HasComposite(k, action) ==
    \E d \in entry[k].deps : d.action = action /\ ~d.sorted /\ Cardinality(Used(d.params)) > 1

\* bucket_membership_matches: every filter lookup and no exclude lookup.
bucket_membership_matches(d, row) ==
    params_match(d.params, row) /\ \A l \in Used(d.excludes) : ~matches_lookup_value(l, d.excludes[l], row)

\* _generic_cache_invalidation_locked: lookup by lookup.
_generic_cache_invalidation_locked(i, old, new) ==
    {k \in CacheKeys : \E d \in entry[k].deps :
        \/ d.action = "all"
        \/ d.action = "identification" /\ ~HasComposite(k, "filter") /\ d.id = i
        \/ d.sorted /\ old.name # new.name /\ (bucket_membership_matches(d, old) \/ bucket_membership_matches(d, new))
        \/ d.action \in {"filter", "exclude"} /\ ~d.sorted /\ \E l \in Used(d.params) :
             IF HasComposite(k, d.action) THEN evaluate_composite(k, l, d.action, old, new)
             ELSE ActionDecides(d.action, matches_lookup_value(l, d.params[l], old), matches_lookup_value(l, d.params[l], new))}

-----------------------------------------------------------------------------
(* Steps *)

DepInit ==
    /\ rowTable \in [RowIds -> FirstRows \cup {NoRow}]
    /\ entry = [k \in CacheKeys |-> NoEntry]
    /\ registry = {}
    /\ legacyIndex \in BOOLEAN
    /\ rowChanges = 0

\* A computation reads one bucket, and its result and dependencies are stored.
\* record_many_cache_dependencies first drops what the legacy index knows;
\* _record_dependencies_locked is how the earlier release stored them.
record_many_cache_dependencies(k) ==
    /\ ~entry[k].cached
    /\ rowChanges < MaxRowChanges    \* what is computed after the last change is not looked at
    /\ \E b \in Reachable[MaxSteps], op \in {"rows", "count", "first"} :
         LET deps == Tracked_(b, op, rowTable)
         IN  /\ entry' = [entry EXCEPT ![k] =
                   [cached |-> TRUE, reads |-> [bucket |-> b, op |-> op], result |-> Evaluate(b, op, rowTable),
                    reverse |-> IF legacyIndex THEN NoEntry.reverse ELSE _reverse_membership_for_dependencies(deps),
                    deps |-> IF legacyIndex THEN deps ELSE {}]]
             /\ registry' = registry \cup UNION {Registrations(d) : d \in deps}
    /\ UNCHANGED <<rowTable, legacyIndex, rowChanges>>

\* clear_legacy_dependency_index, by the first entry the new release records.
clear_legacy_dependency_index ==
    /\ legacyIndex
    /\ legacyIndex' = FALSE
    /\ entry' = [k \in CacheKeys |-> NoEntry]
    /\ registry' = {}
    /\ UNCHANGED <<rowTable, rowChanges>>

\* A row is created, updated or deleted, and generic_cache_invalidation compares
\* the values captured before the change with the instance's.  A deleted
\* instance keeps its values.
generic_cache_invalidation(i) ==
    /\ rowChanges < MaxRowChanges
    /\ rowChanges' = rowChanges + 1
    /\ \E v \in (RowContents \cup {NoRow}) \ {rowTable[i]} :
         LET old == rowTable[i]
             new == IF v = NoRow THEN old ELSE v
             hit == IF legacyIndex THEN _generic_cache_invalidation_locked(i, old, new)
                    ELSE _generic_cache_invalidation_from_shards(i, old, new)
         IN  /\ rowTable' = [rowTable EXCEPT ![i] = v]
             /\ entry' = [k \in CacheKeys |-> IF k \in hit THEN NoEntry ELSE entry[k]]
    /\ UNCHANGED <<registry, legacyIndex>>

DepNext ==
    \/ \E k \in CacheKeys : record_many_cache_dependencies(k)
    \/ clear_legacy_dependency_index
    \/ \E i \in RowIds : generic_cache_invalidation(i)

DepSpec == DepInit /\ [][DepNext]_depVars

-----------------------------------------------------------------------------
(* Properties *)

\* No sequence of row changes leaves a cached result behind that the same bucket
\* would not return now: the dependencies a bucket reports cover every change
\* that can alter what was read from it.
CachedResultsCurrent ==
    \A k \in CacheKeys : entry[k].cached =>
        entry[k].result = Evaluate(entry[k].reads.bucket, entry[k].reads.op, rowTable)
=============================================================================
