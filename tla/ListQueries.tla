------------------------------ MODULE ListQueries ------------------------------
(***************************************************************************)
(* A GraphQL list field (api/graphql_resolvers.py): its filter and exclude *)
(* inputs become lookups (api/graphql_search.py), read authorization and   *)
(* lookups narrow a lazy bucket, and the bucket is counted and read.       *)
(*                                                                         *)
(* An input is a set of entries, each with the relations it goes through,  *)
(* the outermost first.  A row has fields, an owner and tasks, and so has  *)
(* its owner.  Paging and the permission plans are module Permissions.     *)
(***************************************************************************)
EXTENDS Naturals, FiniteSets, Sequences, SequencesExt, FiniteSetsExt

CONSTANTS
  RowVersions,   \* what a row can be
  RelationDepth, \* how many relations a filter may go through
  Filters,       \* filter inputs: sets of entries [steps, field, value, text]
  Excludes,      \* exclude inputs
  Decisions      \* permission plans: "allow_all", "deny_all", "prefilter", "instances"

VARIABLES
  shape,    \* the interface: "database" or "calculation"
  row,      \* the row
  ask,      \* the arguments and the permission plan
  list,     \* the resolver: phase, query plan, bucket, answer
  changes,
  was       \* the versions the row had since the request began

listVars == <<shape, row, ask, list, changes, was>>

-----------------------------------------------------------------------------
(* Lookups: a path through relations and a field. *)

\* The keys of the generated input types: a relation has "any" and "none", or the
\* target's own keys, while the depth lasts.
_get_filter_relation_info(rel) == IF rel = "owner" THEN "direct" ELSE "collection"

get_relation_filter_option(step) ==
  step.mode \in IF _get_filter_relation_info(step.rel) = "direct" THEN {"direct"} ELSE {"any", "none"}

create_filter_options(entries) ==
  \A e \in entries :
    Len(e.steps) <= RelationDepth /\ \A i \in DOMAIN e.steps : get_relation_filter_option(e.steps[i])

Path(e) == [i \in DOMAIN e.steps |-> e.steps[i].rel]
Lookup(e) == Append(Path(e), e.field)
Negated(e) == \E i \in DOMAIN e.steps : e.steps[i].mode = "none"

Related(path, r) ==
  CASE path = << >> -> {r}
    [] path = <<"owner">> -> {r.owner}
    [] path = <<"tasks">> -> r.tasks
    [] path = <<"owner", "tasks">> -> r.owner.tasks

Fits(field, value, x) == ~ value.text /\ x[field] = value.v

\* The last of equal keys stays, as in a dict; a schema offers each key once.
Mapping(entries) == [k \in {Lookup(e) : e \in entries} |->
                       (CHOOSE e \in entries : Lookup(e) = k).value]

Empty == [k \in {} |-> 0]
Merge(f, g) == [k \in DOMAIN f \union DOMAIN g |-> IF k \in DOMAIN g THEN g[k] ELSE f[k]]

-----------------------------------------------------------------------------
(* From the inputs to a query plan. *)

\* An id is cast to the type of the manager's id input.
normalize_id_filter_value(e) == IF e.field = "id" THEN [e EXCEPT !.value.text = FALSE] ELSE e

\* "none" puts the lookups below it with the excludes; "any" and a direct
\* relation only lengthen them.
normalize_filter_input(entries) ==
  LET cast == {normalize_id_filter_value(e) : e \in entries}
  IN  [filter |-> Mapping({e \in cast : ~ Negated(e)}),
       exclude |-> Mapping({e \in cast : Negated(e)})]

contains_none_relation_filter(entries) == \E e \in entries : Negated(e)

\* A mutant's plan: one exclude call for the exclude input and the "none" lookups.
PlanInOneCall(filter, exclude) ==
  LET plan == normalize_filter_input(filter) IN
  [filters |-> plan.filter,
   excludes |-> Merge(normalize_filter_input(exclude).filter, plan.exclude),
   normalized |-> Empty]

build_query_parameter_plan(filter, exclude) ==
  LET plan == normalize_filter_input(filter) IN
  [filters |-> plan.filter, excludes |-> normalize_filter_input(exclude).filter,
   normalized |-> plan.exclude]

\* Lookups on the inputs of a calculation come before the permission check, those
\* on its computed values after it.
OnInputs(m) == [k \in {l \in DOMAIN m : l[1] # "total"} |-> m[k]]
Deferred(m) == [k \in DOMAIN m \ DOMAIN OnInputs(m) |-> m[k]]

partition_calculation_query_plan(plan) ==
  <<[filters |-> OnInputs(plan.filters), excludes |-> OnInputs(plan.excludes),
     normalized |-> OnInputs(plan.normalized)],
    [filters |-> Deferred(plan.filters), excludes |-> Deferred(plan.excludes),
     normalized |-> Deferred(plan.normalized)]>>

-----------------------------------------------------------------------------
(* The lazy bucket: calls of filter and exclude, and rows it is held to. *)

All == [calls |-> << >>, held |-> "all"]
None == [calls |-> << >>, held |-> "none"]
Calls(kind, m) == IF DOMAIN m = {} THEN << >> ELSE <<[kind |-> kind, lookups |-> m]>>

Matches(k, m, x) == Fits(Last(k), m[k], x)

\* The lookups of one filter call that go through a relation hold of one and the
\* same related row.
Selected(m, r) ==
  \A path \in {Front(k) : k \in DOMAIN m} :
    \E x \in Related(path, r) : \A k \in {l \in DOMAIN m : Front(l) = path} : Matches(k, m, x)

\* Those of an exclude call hold of any: a database row is excluded when all of
\* them do, a calculation when one does.
Dropped(m, r) ==
  LET holds == {k \in DOMAIN m : \E x \in Related(Front(k), r) : Matches(k, m, x)}
  IN  IF shape = "database" THEN holds = DOMAIN m ELSE holds # {}

Holds(b, r) ==
  /\ b.held # "none"
  /\ \A i \in DOMAIN b.calls :
       IF b.calls[i].kind = "filter" THEN Selected(b.calls[i].lookups, r)
       ELSE ~ Dropped(b.calls[i].lookups, r)

apply_query_parameter_plan(b, plan) ==
  [b EXCEPT !.calls = @ \o Calls("filter", plan.filters) \o Calls("exclude", plan.excludes)
                        \o Calls("exclude", plan.normalized)]

\* with_instances: what the bucket holds now, whatever its calls say later.
with_instances(b, r) ==
  IF shape = "database" THEN IF Holds(b, r) THEN b ELSE None
  ELSE IF Holds(b, r) THEN All ELSE None

-----------------------------------------------------------------------------
(* The resolver. *)

Secret == <<"secret">> :> [v |-> 0, text |-> FALSE]

ListInit ==
  /\ shape \in {"database", "calculation"}
  /\ row \in RowVersions
  /\ ask \in [filter : {f \in Filters : create_filter_options(f)},
             exclude : {e \in Excludes : create_filter_options(e)}, decision : Decisions]
  /\ list = [at |-> "asked", plan |-> build_query_parameter_plan({}, {}), bucket |-> All,
             total |-> 0, items |-> {}]
  /\ changes = 0 /\ was = {row}

\* A calculation has no lookups but on its inputs and computed values.
UnknownInputField ==
  shape = "calculation" /\ \E e \in ask.filter \union ask.exclude : Lookup(e)[1] = "tasks"

\* A "none" below exclude is refused; a calculation's inputs are narrowed and
\* kept before anyone is asked for permission.
BuildPlan ==
  LET plan == build_query_parameter_plan(ask.filter, ask.exclude)
      parts == partition_calculation_query_plan(plan)
      narrowed == apply_query_parameter_plan(All, parts[1])
  IN
  /\ list.at = "asked"
  /\ list' =
       CASE contains_none_relation_filter(ask.exclude) \/ UnknownInputField ->
              [list EXCEPT !.at = "refused"]
         [] shape = "calculation" /\ ~ UnknownInputField /\ ~ contains_none_relation_filter(ask.exclude) ->
              [list EXCEPT !.at = "planned", !.plan = parts[2],
                           !.bucket = IF narrowed.calls = << >> THEN All
                                      ELSE with_instances(narrowed, row)]
         [] OTHER -> [list EXCEPT !.at = "planned", !.plan = plan]
  /\ UNCHANGED <<shape, row, ask, changes, was>>

\* Each row is asked for where the plan does not decide.
filter_queryset_by_read_permission(b) ==
  IF row.secret = 0 THEN with_instances(b, row) ELSE None

apply_read_authorization(b) ==
  CASE ask.decision = "allow_all" -> b
    [] ask.decision = "deny_all" -> None
    [] ask.decision = "prefilter" -> [b EXCEPT !.calls = @ \o Calls("filter", Secret)]
    [] ask.decision = "instances" -> filter_queryset_by_read_permission(b)

apply_permission_filters ==
  /\ list.at = "planned"
  /\ list' = [list EXCEPT !.at = "authorized", !.bucket = apply_read_authorization(@)]
  /\ UNCHANGED <<shape, row, ask, changes, was>>

Narrow ==
  /\ list.at = "authorized"
  /\ list' = [list EXCEPT !.at = "narrowed", !.bucket = apply_query_parameter_plan(@, list.plan)]
  /\ UNCHANGED <<shape, row, ask, changes, was>>

Count ==
  /\ list.at = "narrowed"
  /\ list' = [list EXCEPT !.at = "counted", !.total = IF Holds(list.bucket, row) THEN 1 ELSE 0]
  /\ UNCHANGED <<shape, row, ask, changes, was>>

Fetch ==
  /\ list.at = "counted"
  /\ list' = [list EXCEPT !.at = "answered", !.items = {r \in {row} : Holds(list.bucket, r)}]
  /\ UNCHANGED <<shape, row, ask, changes, was>>

\* Somebody writes the row while the field is resolved.
RowChanges ==
  /\ changes = 0 /\ list.at \notin {"answered", "refused"}
  /\ row' \in RowVersions \ {row}
  /\ changes' = 1 /\ was' = was \union {row'}
  /\ UNCHANGED <<shape, ask, list>>

ListNext ==
  \/ BuildPlan \/ apply_permission_filters \/ Narrow \/ Count \/ Fetch \/ RowChanges

ListSpec == ListInit /\ [][ListNext]_listVars

-----------------------------------------------------------------------------
(* Properties. *)

\* What an input says of a row: the entries below one relation are about one
\* related row, which is there, or under "none" is not.
Steps(entries) == {e.steps : e \in entries}
Says(entries, r) ==
  \A s \in Steps(entries) :
    LET below == {e \in entries : e.steps = s}
        found == \E x \in Related(Path([steps |-> s]), r) :
                   \A e \in below : Fits(e.field, normalize_id_filter_value(e).value, x)
    IN  IF Negated([steps |-> s]) THEN ~ found ELSE found

\* An exclude input takes rows away of which all of it holds; from a calculation,
\* those of which one entry does.
TakesAway(entries, r) ==
  IF shape = "database" THEN entries # {} /\ Says(entries, r)
  ELSE \E e \in entries : Says({e}, r)

Asked(r) == Says(ask.filter, r) /\ ~ TakesAway(ask.exclude, r)

Readable(r) == ask.decision = "allow_all" \/ (ask.decision # "deny_all" /\ r.secret = 0)

\* Two entries below "none", or below one relation of an exclude, are decided
\* by two related rows: the cases in which lookups do not say what inputs do.
Plain ==
  /\ Cardinality({e \in ask.filter : Negated(e)}) <= 1
  /\ shape = "calculation" \/ \A s \in Steps(ask.exclude) \ {<< >>} :
       Cardinality({e \in ask.exclude : e.steps = s}) <= 1

\* A list is what was asked for of what may be read, and its count agrees; with a
\* change during the request, what it shows was asked for and readable at a moment.
ListsAsAsked ==
  list.at = "answered" /\ Plain =>
    /\ changes = 0 => /\ list.items = {r \in {row} : Asked(r) /\ Readable(r)}
                      /\ list.total = Cardinality(list.items)
    /\ list.items # {} => /\ \E r \in was : Asked(r) \/ shape = "calculation"
                          /\ \E r \in was : Readable(r)
                          /\ shape = "database" => \A r \in list.items : Asked(r)
=============================================================================
