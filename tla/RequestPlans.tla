---------------------------- MODULE RequestPlans ----------------------------
(***************************************************************************)
(* Queries of managers backed by a remote service: how chained lookups     *)
(* compile into one request and local predicates                           *)
(* (interface/capabilities/request, interface/requests.py), and what the   *)
(* buckets they give go on to answer (bucket/request_bucket.py).           *)
(*                                                                         *)
(* The service's rows do not change here; RemoteRequests lets them.  A     *)
(* payload may lack a field, which is 0 then, the default of the field.    *)
(***************************************************************************)
EXTENDS Naturals, FiniteSets, Sequences, SequencesExt

CONSTANTS
  ServiceRows,     \* id -> payload, a record of the payload keys
  Honours,         \* parameter -> what the service does with it: [lookup, action]
  InterfaceClasses,\* declarations: see the variable
  Asks,            \* lookups a caller may make: [action, lookup, value]
  MaxSteps         \* bound on the calls on one bucket

VARIABLES
  interface,       \* the declaration: [filters, operations, sources]
  bucket,          \* the RequestBucket at hand
  other,           \* another one, kept from before
  due,             \* bucket or other -> what its caller asked for: [rows, once]
  said,            \* the last answer
  steps

planVars == <<interface, bucket, other, due, said, steps>>

Ids == DOMAIN ServiceRows
NoLookups == <<>>
NoFilter == [param |-> "", negation |-> "", local |-> FALSE, location |-> "query", only |-> {}]

-----------------------------------------------------------------------------
(* Lookups *)

\* apply_request_lookup, where a value of 0 is a missing one.
apply_request_lookup(value, operator, expected) ==
  CASE operator = "exact" -> value = expected
    [] operator = "gt" -> value > expected
    [] operator = "in" -> value \in expected

\* resolve_payload_value: the payload key a field is read from, or its default.
resolve_payload_value(id, field) == ServiceRows[id][interface.sources[field]]
_matches_manager_lookup(id, lookup, expected) ==
  apply_request_lookup(resolve_payload_value(id, lookup[1]), lookup[2], expected)

\* A local predicate reads the payload by the name in the lookup.
_matches_payload_lookup(id, lookup, expected) ==
  /\ lookup[1] \in DOMAIN ServiceRows[id]
  /\ apply_request_lookup(ServiceRows[id][lookup[1]], lookup[2], expected)

_matches_local_predicates(id, predicates) ==
  \A p \in predicates :
    _matches_payload_lookup(id, p.lookup, p.value) <=> p.action = "filter"

\* What a caller means by a lookup: the rows whose attributes match, or do not.
Meant(ask) ==
  {id \in Ids : _matches_manager_lookup(id, ask.lookup, ask.value) <=> ask.action = "filter"}

-----------------------------------------------------------------------------
(* RequestValidationCapability: what a declaration may hold. *)

_validate_filter_spec(spec) ==
  /\ spec.param # "" \/ spec.local
  /\ spec.only \subseteq DOMAIN interface.operations

setup ==
  /\ "detail" \in DOMAIN interface.operations
  /\ \A l \in DOMAIN interface.filters : _validate_filter_spec(interface.filters[l])
  /\ \A o \in DOMAIN interface.operations :
       LET own == interface.operations[o].filters IN
       /\ DOMAIN own \cap DOMAIN interface.filters = {}
       /\ \A l \in DOMAIN own : _validate_filter_spec(own[l])

-----------------------------------------------------------------------------
(* Compiling a plan *)

\* get_query_operation: the default one need not be declared.
get_query_operation(name) ==
  IF name \in DOMAIN interface.operations THEN interface.operations[name]
  ELSE [filters |-> <<>>, static |-> {}]

_get_filter_spec(operation, lookup) ==
  LET own == get_query_operation(operation).filters
      spec == IF lookup \in DOMAIN own THEN own[lookup]
              ELSE IF lookup \in DOMAIN interface.filters THEN interface.filters[lookup]
              ELSE NoFilter
  IN  IF spec.only = {} \/ operation \in spec.only THEN spec ELSE NoFilter

\* Mutant: an exclusion is sent under the name of the filter.
FilterParam(spec, action) == spec.param

_resolve_param_name(spec, action) == IF action = "exclude" THEN spec.negation ELSE spec.param

Fragment(sent, locals, error) == [sent |-> sent, locals |-> locals, error |-> error]

\* _compile_fragment: a lookup becomes a part of the request, a local predicate
\* or an error.
_compile_fragment(operation, ask) ==
  LET spec == _get_filter_spec(operation, ask.lookup) IN
  IF spec = NoFilter THEN Fragment({}, {}, "UnknownRequestFilter")
  ELSE IF spec.param # "" /\ (ask.action = "filter" \/ spec.negation # "")
  THEN Fragment({[location |-> spec.location, value |-> ask.value,
                  key |-> _resolve_param_name(spec, ask.action)]}, {}, "none")
  ELSE IF spec.local THEN Fragment({}, {ask}, "none")
  ELSE Fragment({}, {}, "RequestExcludeNotSupported")

\* _merge_fragment, _merge_request_parts: one value per key and location.
Conflicts(parts) ==
  \E p, q \in parts : p.location = q.location /\ p.key = q.key /\ p.value # q.value

\* The lookups of a bucket: one value per lookup and action.
AsksOf(filters, excludes) ==
  {[action |-> "filter", lookup |-> l, value |-> filters[l]] : l \in DOMAIN filters}
  \union {[action |-> "exclude", lookup |-> l, value |-> excludes[l]] : l \in DOMAIN excludes}

_build_request_plan(operation, filters, excludes) ==
  LET fragments == {_compile_fragment(operation, a) : a \in AsksOf(filters, excludes)}
      sent == UNION {f.sent : f \in fragments}
      errors == {f.error : f \in fragments} \ {"none"}
  IN  [operation |-> operation, sent |-> sent, filters |-> filters, excludes |-> excludes,
       locals |-> UNION {f.locals : f \in fragments},
       error |-> IF errors # {} THEN CHOOSE e \in errors : TRUE
                 ELSE IF Conflicts(sent) THEN "RequestPlanConflict" ELSE "none"]

-----------------------------------------------------------------------------
(* Executing one *)

\* _build_request: the plan's parts join the operation's own.
_build_request(plan) == get_query_operation(plan.operation).static \union plan.sent

\* The service: every parameter it honours restricts its rows.
Served(parts) ==
  {id \in Ids : \A p \in parts : p.key \in DOMAIN Honours =>
     (apply_request_lookup(ServiceRows[id][Honours[p.key].lookup[1]],
                           Honours[p.key].lookup[2], p.value)
      <=> Honours[p.key].action = "filter")}

\* What the operation itself stands for.
RowsOf(operation) == Served(get_query_operation(operation).static)

Fetched(plan) ==
  SetToSortSeq({id \in Served(_build_request(plan)) : _matches_local_predicates(id, plan.locals)},
               LAMBDA i, j : i < j)

-----------------------------------------------------------------------------
(* RequestBucket: plan is NoPlan for one of concrete managers; items are the
managers it holds, once it has been read. *)

NoPlan == [operation |-> "none"]
PlanBucket(plan) == [operation |-> plan.operation, plan |-> plan, items |-> <<>>, read |-> FALSE]
Lazy(b) == b.plan # NoPlan
_from_items(operation, items) ==
  [operation |-> operation, plan |-> NoPlan, items |-> items, read |-> TRUE]

\* _ensure_items: a request at the first read; a plan that contradicts the
\* operation's own parts fails.
Executable(b) == b.read \/ ~ Conflicts(_build_request(b.plan))
_ensure_items(b) == IF b.read THEN b.items ELSE Fetched(b.plan)
Read(b) == [b EXCEPT !.items = _ensure_items(b), !.read = TRUE]

Step == steps < MaxSteps /\ steps' = steps + 1 /\ UNCHANGED interface
Refused(error) == said' = <<"refused", error>> /\ UNCHANGED <<bucket, other, due>>
Becomes(b, rows, once) ==
  /\ bucket' = b
  /\ due' = [due EXCEPT !.bucket = [rows |-> rows, once |-> once]]
  /\ said' = <<"bucket">>

\* build_bucket
build_bucket(operation, filters, excludes, rows, once) ==
  LET plan == _build_request_plan(operation, filters, excludes) IN
  IF plan.error # "none" THEN Refused(plan.error)
  ELSE Becomes(PlanBucket(plan), rows, once) /\ UNCHANGED other

\* all() and query_operation() of the interface
PlanInit ==
  /\ interface \in InterfaceClasses /\ setup
  /\ \E operation \in DOMAIN interface.operations \union {"list"} :
       /\ operation # "detail"
       /\ bucket = PlanBucket(_build_request_plan(operation, NoLookups, NoLookups))
       /\ due = [bucket |-> [rows |-> RowsOf(operation), once |-> TRUE],
                 other |-> [rows |-> {}, once |-> TRUE]]
  /\ other = _from_items("list", <<>>) /\ said = <<>> /\ steps = 0

Set(lookups, lookup, value) ==
  [l \in DOMAIN lookups \union {lookup} |-> IF l = lookup THEN value ELSE lookups[l]]

\* filter and exclude of a lazy bucket: the whole chain is compiled again, and a
\* lookup made before is replaced.
FilterPlan(ask) ==
  LET old == IF ask.action = "filter" THEN bucket.plan.filters ELSE bucket.plan.excludes
      new == Set(old, ask.lookup, ask.value)
  IN
  /\ Lazy(bucket) /\ Step
  /\ build_bucket(bucket.plan.operation,
       IF ask.action = "filter" THEN new ELSE bucket.plan.filters,
       IF ask.action = "filter" THEN bucket.plan.excludes ELSE new,
       due.bucket.rows \intersect Meant(ask),
       due.bucket.once /\ ask.lookup \notin DOMAIN old)

\* The same of a concrete one: the lookup has to be declared, and is applied to
\* the managers.
FilterItems(ask) ==
  LET plan == _build_request_plan(bucket.operation,
                IF ask.action = "filter" THEN Set(NoLookups, ask.lookup, ask.value) ELSE NoLookups,
                IF ask.action = "filter" THEN NoLookups ELSE Set(NoLookups, ask.lookup, ask.value))
      keeps(id) == _matches_manager_lookup(id, ask.lookup, ask.value) <=> ask.action = "filter"
  IN
  /\ ~ Lazy(bucket) /\ Step
  /\ IF plan.error # "none" THEN Refused(plan.error)
     ELSE /\ Becomes(_from_items(bucket.operation, SelectSeq(bucket.items, keeps)),
                     due.bucket.rows \intersect Meant(ask), due.bucket.once)
          /\ UNCHANGED other

all ==
  /\ Lazy(bucket) /\ Step
  /\ build_bucket(bucket.plan.operation, bucket.plan.filters, bucket.plan.excludes,
                  due.bucket.rows, due.bucket.once)

\* Iteration, len, count, first, last, get: the bucket is read.
Iterates ==
  /\ Step
  /\ IF ~ Executable(bucket) THEN Refused("RequestPlanConflict")
     ELSE /\ bucket' = Read(bucket)
          /\ said' = <<"rows", _ensure_items(bucket)>>
          /\ UNCHANGED <<other, due>>

\* sort, a slice of everything, with_instances: concrete managers.
sort ==
  /\ Step
  /\ IF ~ Executable(bucket) THEN Refused("RequestPlanConflict")
     ELSE /\ Becomes(_from_items(bucket.operation, Reverse(_ensure_items(bucket))), due.bucket.rows, due.bucket.once)
          /\ UNCHANGED other

\* A caller keeps the bucket and goes on with it.
Keeps ==
  /\ Step /\ other' = bucket /\ due' = [due EXCEPT !.other = due.bucket]
  /\ said' = <<"bucket">> /\ UNCHANGED bucket

\* bucket | other: the managers of both, a row of both twice.
__or__ ==
  /\ Step
  /\ IF ~ Executable(bucket) \/ ~ Executable(other) THEN Refused("RequestPlanConflict")
     ELSE /\ Becomes(_from_items(bucket.operation, _ensure_items(bucket) \o _ensure_items(other)),
                     due.bucket.rows \union due.other.rows, due.bucket.once /\ due.other.once)
          /\ other' = Read(other)

\* bucket == other: two plans are compared as they are, managers otherwise.
__eq__ ==
  /\ Step
  /\ IF Lazy(bucket) /\ Lazy(other)
     THEN said' = <<"equal", bucket.operation = other.operation /\ bucket.plan = other.plan>> /\ UNCHANGED <<bucket, other, due>>
     ELSE IF bucket.operation # other.operation
     THEN said' = <<"equal", FALSE>> /\ UNCHANGED <<bucket, other, due>>
     ELSE IF ~ Executable(bucket) \/ ~ Executable(other) THEN Refused("RequestPlanConflict")
     ELSE /\ bucket' = Read(bucket) /\ other' = Read(other)
          /\ said' = <<"equal", _ensure_items(bucket) = _ensure_items(other)>>
          /\ UNCHANGED due

PlanNext ==
  \/ \E ask \in Asks : FilterPlan(ask) \/ FilterItems(ask)
  \/ all \/ Iterates \/ sort \/ Keeps \/ __or__ \/ __eq__

-----------------------------------------------------------------------------
(* Properties.  due.once: no lookup of a lazy chain was replaced by a later one. *)

\* A read gives the rows that satisfy the whole chain, whichever part of it the
\* service, the local predicates or the managers decided; a chain they cannot
\* decide is refused.
RowsAsAsked ==
  said # <<>> /\ said[1] = "rows" /\ due.bucket.once =>
    /\ ToSet(said[2]) = due.bucket.rows
    /\ Lazy(bucket) => Len(said[2]) = Cardinality(due.bucket.rows)

\* Buckets that compare equal were asked for the same rows.
EqualsAreAlike ==
  said # <<>> /\ said[1] = "equal" /\ said[2] /\ due.bucket.once /\ due.other.once =>
    due.bucket.rows = due.other.rows
=============================================================================
