------------------------------ MODULE MCValues ------------------------------
(***************************************************************************)
(* The components that compute answers for a caller, and those that decide *)
(* which answers are kept: buckets, permissions, data types, the budget of *)
(* runs and the matching of cached results, each on a small instance.  A   *)
(* behaviour is one of a single component, named by part, and slots v1 to  *)
(* v9 hold its variables.  Two of the parts are run alone as well, against *)
(* what the documentation says of them.                                    *)
(***************************************************************************)
EXTENDS Integers, Sequences, FiniteSets, TLC

CONSTANT PeriodsDepend  \* periods are declared of a project, as the documentation has it

VARIABLES part, v1, v2, v3, v4, v5, v6, v7, v8, v9

vars == <<part, v1, v2, v3, v4, v5, v6, v7, v8, v9>>

Unused9 == v9 = 0
Unused7 == v7 = 0 /\ v8 = 0 /\ Unused9
Unused6 == v6 = 0 /\ Unused7
Unused5 == v5 = 0 /\ Unused6

From6 == <<v6, v7, v8, v9>>
From5 == <<v5, v6, v7, v8, v9>>

-----------------------------------------------------------------------------
(* A manager's permission class over the eight rows of a catalog. *)
Fragments == {"public", "isAdmin", "isSelf", "active", "archived", "unlocked",
              "kept", "custom"}
Rule(f, g) == <<f, g>>
Expressions ==
  {<<f>> : f \in Fragments}
  \cup {Rule(f, g) : f \in {"isAdmin", "isSelf", "active", "kept", "unlocked"},
                     g \in {"active", "archived", "kept", "unlocked", "custom"}}
Unset == <<<<"unset">>>>
Row(status, creator, locked) == [status |-> status, creator |-> creator, locked |-> locked]
CatalogRows == <<Row(1, 1, 0), Row(2, 1, 0), Row(1, 2, 1), Row(2, 2, 1)>>

PermReadRules ==
  {Unset, <<>>} \cup {<<e>> : e \in Expressions}
    \cup {<<<<"active">>, <<"unlocked", "kept">>>>, <<<<"isAdmin">>, <<"isSelf">>>>,
          <<<<"custom">>, <<"active">>>>, <<<<"custom", "active">>, <<"kept">>>>}
PermParentRules ==
  {Unset, <<>>, <<<<"isAdmin">>>>, <<<<"active", "unlocked">>>>,
     <<<<"kept">>, <<"isSelf">>>>, <<<<"custom">>>>}
PermFieldRules == {Unset, <<<<"isAdmin">>>>}
PermCatalog ==
  [n \in 1 .. 8 |->
    [own |-> CatalogRows[((n - 1) % 4) + 1],
     parent |-> CatalogRows[((n - 1) \div 4) + ((n - 1) % 2) * 2 + 1]]]
PermPageSizes == {0, 3}

Perm == INSTANCE Permissions WITH
  ReadRules <- PermReadRules, ParentRules <- PermParentRules,
  FieldRules <- PermFieldRules, Catalog <- PermCatalog, PageSizes <- PermPageSizes,
  MaxAsked <- 2, config <- v1, viewer <- v2, object <- v3, said <- v4, listed <- v5

(* Database buckets over two rows, one of which has a different past. *)
DbLookups == {<<"exclude", 1>>}
DbWritten == {<<1, 1>>}
DbPast == <<1, 0>>
DbAddresses == {1, 2, 3}

Db == INSTANCE DatabaseBuckets WITH
  LastPk <- 2, Lookups <- DbLookups, Written <- DbWritten, Past <- DbPast,
  SnapshotLimit <- 1, Addresses <- DbAddresses, AddressesReused <- FALSE,
  Redates <- FALSE, MaxDerived <- 2, MaxTableChanges <- 1, MaxUses <- 2, tbl <- v1,
  asOf <- v2, cache <- v3, bkt <- v4, answer <- v5, moments <- v6, derived <- v7,
  tableChanges <- v8, uses <- v9

(* Calculation interfaces of two inputs: declared in and against the order of
their dependencies, with an optional input, and with a circle of them. *)
Fields(order, after, values, required) ==
  [order |-> order, hash |-> order, after |-> after, values |-> values,
   required |-> required, typed |-> [a |-> {1, 2, 3}, b |-> {1, 2, 3}],
   offers |-> [a |-> "values", b |-> "values"]]
OfA(x, y) == [a |-> 1] :> x @@ [a |-> 2] :> y
Independent(x) == <<>> :> x

Range(start, end, frequency, steps) ==
  {[start |-> start, end |-> end, frequency |-> f, step |-> s] : f \in frequency, s \in steps}

CalcDeclarations ==
  {Fields(<<"b", "a">>, [a |-> {}, b |-> {"a"}],
       [a |-> Independent(<< <<2, 1>> >>), b |-> OfA(<< <<1, 9>> >>, << <<3, 1>> >>)],
       {"a", "b"}),
     Fields(<<"a", "b">>, [a |-> {}, b |-> {"a"}],
       [a |-> Independent(<< <<1, 2>> >>), b |-> OfA(<<>>, << <<3, 1>> >>)], {"a"}),
     Fields(<<"a", "b">>, [a |-> {}, b |-> {"a"}],
       [a |-> Independent(<< <<1, 2>> >>), b |-> OfA(<< <<2>> >>, <<>>)], {"a", "b"}),
     Fields(<<"a", "b">>, [a |-> {"b"}, b |-> {"a"}],
       [a |-> [b |-> 1] :> << <<1>> >> @@ [b |-> 2] :> << <<1>> >>, b |-> OfA(<< <<2>> >>, <<>>)],
       {"a", "b"})}
CalcLookups == {<<"a", "exact", 1>>, <<"b", "gte", 2>>, <<"p", "exact", 1>>}
CalcDateDomains ==
  Range(<<2024, 1, 15>>, <<2024, 4, 10>>, {"month_start", "month_end", "quarter_end"}, {1, 2})
    \cup Range(<<2023, 1, 15>>, <<2025, 6, 10>>, {"year_start", "year_end"}, {1, 2})
    \cup Range(<<2023, 2, 26>>, <<2023, 3, 2>>, {"day"}, {1, 2})
CalcSomeDates ==
  {<<2024, 1, 1>>, <<2024, 2, 29>>, <<2024, 3, 31>>, <<2023, 12, 31>>,
                <<2023, 2, 28>>}

Calc == INSTANCE CalculationBuckets WITH
  Declarations <- CalcDeclarations, CalcLookups <- CalcLookups, PrintMax <- 1,
  DateDomains <- CalcDateDomains, SomeDates <- CalcSomeDates, MaxCalcDerived <- 2,
  MaxCalcUses <- 2, decl <- v1, bucket <- v2, held <- v3, only <- v4, projected <- v5,
  said <- v6, calcDerived <- v7, calcUses <- v8

(* Models of up to four fields: those whose attribute or argument names meet. *)
Field(name, kind, to, default, editable) ==
  [name |-> name, kind |-> kind, to |-> to, default |-> default, editable |-> editable,
   back |-> <<<<"a">>>>]
Column(name, default) == Field(name, "plain", "value", default, TRUE)
PointsHere(name, kind, to) == Field(name, kind, to, FALSE, FALSE)

ModelFields ==
  {Field(<<"c">>, "custom", "value", FALSE, TRUE), Column(<<"c", "_unit">>, FALSE),
   Column(<<"p">>, TRUE), Column(<<"o", "_id">>, FALSE),
   Field(<<"a">>, "fk", "manager", TRUE, TRUE), Field(<<"b">>, "fk", "model", FALSE, FALSE),
   Field(<<"t">>, "m2m", "manager", FALSE, TRUE), Field(<<"u">>, "m2m", "model", FALSE, TRUE),
   PointsHere(<<"p">>, "rev_one", "manager"), PointsHere(<<"o">>, "rev_one", "model"),
   PointsHere(<<"t">>, "rev_many", "model"), PointsHere(<<"u">>, "rev_many", "model"),
   PointsHere(<<"v">>, "rev_m2m", "manager")}

\* Two fields of one model have different names.
Distinct(fields) ==
  \A f, g \in fields :
    f # g /\ f.kind \in {"custom", "plain", "fk", "m2m"}
          /\ g.kind \in {"custom", "plain", "fk", "m2m"} => f.name # g.name

PayloadModels == {S \in SUBSET ModelFields : Cardinality(S) <= 4 /\ Distinct(S)}

Payload == INSTANCE FieldPayloads WITH
  Models <- PayloadModels, model <- v1, schema <- v2, call <- v3, stored <- v4

(* Lengths, money and prices: three metres in two units, a percentage, a number. *)
Of(name) == name :> 1
Per(name, other) == name :> 1 @@ other :> -1
Amount(n, d, unit) == [mag |-> <<n, d>>, unit |-> unit]

MeasureKind == [m |-> "length", cm |-> "length", percent |-> "none", EUR |-> "EUR", USD |-> "USD"]
MeasureFactor ==
  [m |-> <<1, 1>>, cm |-> <<1, 100>>, percent |-> <<1, 100>>,
             EUR |-> <<1, 1>>, USD |-> <<1, 1>>]
MeasureCurrencies == {"EUR", "USD"}
MeasureAmounts ==
  {Amount(3, 1, Of("m")), Amount(300, 1, Of("cm")), Amount(1, 2, <<>>),
              Amount(50, 1, Of("percent")), Amount(2, 1, Of("EUR")), Amount(4, 1, Of("USD")),
              Amount(2, 3, Per("EUR", "m")), Amount(1, 1, Per("USD", "cm"))}
MeasureScalars == {<<2, 1>>, <<1, 4>>}
MeasureTargets == {Of("cm"), Of("EUR"), Of("USD"), Per("USD", "m"), <<>>}
MeasureBaseUnits == {Of("m"), Of("EUR"), Per("EUR", "m"), <<>>}
MeasureQuantum == <<1, 10>>

Measure == INSTANCE Measurements WITH
  Kind <- MeasureKind, Factor <- MeasureFactor, Currencies <- MeasureCurrencies,
  Amounts <- MeasureAmounts, Scalars <- MeasureScalars, Targets <- MeasureTargets,
  BaseUnits <- MeasureBaseUnits, Quantum <- MeasureQuantum, MaxOperations <- 2, cur <- v1,
  truth <- v2, said <- v3, cell <- v4, operations <- v5

(* Two declarations over four rows: lookups the service decides, those the client
decides, of one operation only, and an operation with a parameter of its own. *)
Sends(param, negation, local, only) ==
  [param |-> param, negation |-> negation, local |-> local, location |-> "query", only |-> only]
Operation(filters, static) == [filters |-> filters, static |-> static]
IsA == <<"a", "exact">>
AboveA == <<"a", "gt">>
IsB == <<"b", "exact">>
InB == <<"b", "in">>
SameNames == [a |-> "a", b |-> "b"]

PlansServiceRows == <<[a |-> 1, b |-> 1], [a |-> 1, b |-> 2], [a |-> 2, b |-> 0], [a |-> 2, b |-> 1]>>
PlansHonours ==
  [a |-> [lookup |-> IsA, action |-> "filter"],
              not_a |-> [lookup |-> IsA, action |-> "exclude"],
              b |-> [lookup |-> IsB, action |-> "filter"]]
PlansInterfaceClasses ==
  {[filters |-> IsA :> Sends("a", "not_a", FALSE, {}) @@ InB :> Sends("", "", TRUE, {}),
      operations |->
        [detail |-> Operation(<<>>, {}),
         search |-> Operation(IsB :> Sends("b", "", TRUE, {}),
                              {[location |-> "query", key |-> "a", value |-> 1]})],
      sources |-> SameNames],
     [filters |-> IsA :> Sends("a", "", FALSE, {"list"}) @@ AboveA :> Sends("", "", TRUE, {})
                  @@ IsB :> Sends("b", "", TRUE, {"search"}),
      operations |->
        [detail |-> Operation(<<>>, {}), list |-> Operation(<<>>, {}),
         search |-> Operation(InB :> Sends("", "", TRUE, {}), {})],
      sources |-> SameNames]}
PlansAsks ==
  [action : {"filter", "exclude"}, lookup : {IsA}, value : {1, 2}]
          \cup [action : {"filter", "exclude"}, lookup : {IsB, AboveA}, value : {1}]
          \cup [action : {"filter", "exclude"}, lookup : {InB}, value : {{1, 2}}]

Plans == INSTANCE RequestPlans WITH
  ServiceRows <- PlansServiceRows, Honours <- PlansHonours,
  InterfaceClasses <- PlansInterfaceClasses, Asks <- PlansAsks, MaxSteps <- 5,
  interface <- v1, bucket <- v2, other <- v3, due <- v4, said <- v5, steps <- v6

\* ManagerInputs: a single id, a quantity chosen by a query on a project that
\* is declared after it, made optional and made free at run time, a period with
\* a validated quantity, inputs that wait for each other, a period by project.
Val(k, v) == [k |-> k, v |-> v]
Inp(name, type, required, after) ==
  [name |-> name, type |-> type, required |-> required, after |-> after,
   low |-> 0, high |-> 9, validator |-> FALSE, choices |-> "any"]
Project(required) == Inp("p", "manager", required, << >>)
Quantity == [Inp("q", "int", TRUE, <<"p">>) EXCEPT !.choices = "query"]
Ordered == <<Quantity, Project(TRUE)>>
Optional == <<[Quantity EXCEPT !.required = FALSE], Project(TRUE)>>
Freed == <<Inp("q", "int", TRUE, << >>), [Project(TRUE) EXCEPT !.after = <<"q">>]>>
Periods(required, after) == [Inp("m", "date", required, after) EXCEPT !.choices = "periods"]
Validated == [Inp("q", "int", FALSE, <<"p">>) EXCEPT !.validator = TRUE, !.high = 2]
MadeDeclarations ==
  {<<Inp("id", "int", TRUE, << >>)>>, Ordered, Optional, Freed,
                   <<Periods(TRUE, << >>), Validated, Project(FALSE)>>,
                   <<Inp("q", "int", TRUE, <<"p">>), Inp("p", "int", FALSE, <<"q">>)>>,
                   IF PeriodsDepend THEN <<Project(TRUE), Periods(FALSE, <<"p">>)>>
                   ELSE <<Project(TRUE)>>}
MadeAlters == {<<Freed, Ordered>>, <<Ordered, Optional>>, <<Optional, Freed>>}
MadeRaws ==
  [int |-> {Val("none", 0), Val("int", 1), Val("text", 2), Val("text", 0)},
           date |-> {Val("date", 1), Val("datetime", 4), Val("text", 3), Val("int", 1)},
           manager |-> {Val("none", 0), Val("manager", 1), Val("int", 2), Val("map", 1), Val("text", 0)}]
MadeOffer ==
  0 :> (0 :> {} @@ 1 :> {1} @@ 2 :> {1, 2}) @@ 1 :> (0 :> {} @@ 1 :> {1, 2} @@ 2 :> {2})

Made == INSTANCE ManagerInputs WITH
  Declarations <- MadeDeclarations, Alters <- MadeAlters, Raws <- MadeRaws,
  Offer <- MadeOffer, MaxChanges <- 1, decl <- v1, plan <- v2, mode <- v3, world <- v4,
  seen <- v5, kept <- v6, asked <- v7, said <- v8

(* A row that differs from another one in one respect, and every small input. *)
ListTask(k, st) == [kind |-> k, state |-> st]
ListRow(n, sec, tot, tasks, ownName, ownTasks) ==
  [id |-> 1, name |-> n, secret |-> sec, total |-> tot, tasks |-> tasks,
   owner |-> [name |-> ownName, tasks |-> ownTasks]]
ListEntry(steps, field, v, text) == [steps |-> steps, field |-> field, value |-> [v |-> v, text |-> text]]
ListStep(rel, mode) == [rel |-> rel, mode |-> mode]
ListEntries ==
  {ListEntry(<< >>, "name", 1, FALSE), ListEntry(<< >>, "id", 1, TRUE), ListEntry(<< >>, "total", 1, FALSE),
   ListEntry(<<ListStep("owner", "direct")>>, "name", 1, FALSE),
   ListEntry(<<ListStep("tasks", "any")>>, "kind", 1, FALSE),
   ListEntry(<<ListStep("tasks", "any")>>, "state", 1, FALSE)}
ListNones ==
  {ListEntry(<<ListStep("tasks", "none")>>, "kind", 1, FALSE),
   ListEntry(<<ListStep("owner", "direct"), ListStep("tasks", "none")>>, "kind", 1, FALSE)}
ListInputs(S) == {e \in SUBSET S : Cardinality(e) <= 2}

ListsRowVersions ==
  {ListRow(1, 0, 1, {ListTask(1, 1)}, 1, {}), ListRow(1, 1, 1, {ListTask(1, 1)}, 1, {}),
     ListRow(0, 0, 1, {ListTask(1, 0), ListTask(0, 1)}, 1, {ListTask(1, 1)}),
     ListRow(1, 0, 0, {}, 0, {ListTask(0, 0)})}
ListsFilters ==
  ListInputs(ListEntries \union ListNones)
             \union {{ListEntry(<<ListStep("tasks", "direct")>>, "kind", 1, FALSE)}}
ListsExcludes == ListInputs(ListEntries) \union {{e} : e \in ListNones}
ListsDecisions == {"allow_all", "deny_all", "prefilter", "instances"}

Lists == INSTANCE ListQueries WITH
  RowVersions <- ListsRowVersions, RelationDepth <- 2, Filters <- ListsFilters,
  Excludes <- ListsExcludes, Decisions <- ListsDecisions, shape <- v1, row <- v2,
  ask <- v3, list <- v4, changes <- v5, was <- v6

(* Three rows, among them equal ones, one without a value and one not there yet. *)
GRow(a, b, v) == [here |-> TRUE, a |-> a, b |-> b, v |-> v, w |-> a]
GNoRow == [here |-> FALSE, a |-> 0, b |-> 0, v |-> 0, w |-> 0]
GroupsTables ==
  {<<GRow(1, 1, 1), GRow(1, 2, 2), GRow(0, 1, 0)>>, <<GRow(1, 1, 0), GRow(1, 1, 3), GNoRow>>,
   <<GRow(2, 1, 1), GRow(1, 2, 2), GRow(2, 2, 1)>>}
GroupsVersions == {GNoRow, GRow(1, 2, 1)}
GroupsTypes == [a |-> "text", b |-> "manager", v |-> "number", w |-> "date"]
GroupsKeys == {<<"a">>, <<"b", "a">>}
GroupsConditions == {<<"a", 1>>, <<"b", 2>>}

Grouped == INSTANCE Groups WITH
  GroupTables <- GroupsTables, GroupVersions <- GroupsVersions, Types <- GroupsTypes,
  GroupKeys <- GroupsKeys, Conditions <- GroupsConditions, MaxGroupSteps <- 2,
  MaxGroupChanges <- 1, tbl <- v1, grp <- v2, moments <- v3, raised <- v4,
  groupSteps <- v5, groupChanges <- v6

(* The process-wide budget: none, or one that fits some of the values. *)
BudgetOwners == {"o1", "o2"}
BudgetSlots == {"s1"}
BudgetWeights ==
  {[stratum |-> FALSE, shallow |-> 0, deep |-> 2],
   [stratum |-> TRUE, shallow |-> 1, deep |-> 2],
   [stratum |-> TRUE, shallow |-> 3, deep |-> 8]}
BudgetBudgets == {-1, 6}

Budget == INSTANCE RunCacheBudget WITH
  Owners <- BudgetOwners, Slots <- BudgetSlots, Weights <- BudgetWeights,
  Budgets <- BudgetBudgets, CalibrationInterval <- 3, TouchBatch <- 2, MaxAdmissions <- 3,
  MaxSettings <- 1, bud <- v1, held <- v2, owner <- v3, setting <- v4, admissions <- v5,
  settings <- v6

(* One cached result over two rows. *)
MatchingRowIds == {1, 2}
MatchingRowNames == {0, 1, 2}
MatchingRowStatuses == {0, 1}
MatchingCacheKeys == {"k1"}
MatchingFirstRows == {[name |-> 0, status |-> 1], [name |-> 1, status |-> 0], [name |-> 2, status |-> 1]}

Matching == INSTANCE DependencyMatching WITH
  RowIds <- MatchingRowIds, RowNames <- MatchingRowNames,
  RowStatuses <- MatchingRowStatuses, CacheKeys <- MatchingCacheKeys,
  FirstRows <- MatchingFirstRows, MergesLookups <- FALSE, MaxSteps <- 2,
  MaxRowChanges <- 1, rowTable <- v1, entry <- v2, registry <- v3, legacyIndex <- v4,
  rowChanges <- v5

-----------------------------------------------------------------------------
Init ==
  \/ part = "permissions" /\ Perm!PermInit /\ Unused6
  \/ part = "database" /\ Db!BucketInit
  \/ part = "calculation" /\ Calc!CalcInit /\ Unused9
  \/ part = "payload" /\ Payload!PayInit /\ Unused5
  \/ part = "measure" /\ Measure!MeasureInit /\ Unused6
  \/ part = "plans" /\ Plans!PlanInit /\ Unused7
  \/ part = "inputs" /\ Made!InputInit /\ Unused9
  \/ part = "lists" /\ Lists!ListInit /\ Unused7
  \/ part = "groups" /\ Grouped!GroupInit /\ Unused7
  \/ part = "budget" /\ Budget!BudgetInit /\ Unused7
  \/ part = "matching" /\ Matching!DepInit /\ Unused6

Next ==
  /\ UNCHANGED part
  /\ \/ part = "permissions" /\ Perm!PermNext /\ UNCHANGED From6
     \/ part = "database" /\ Db!BucketNext
     \/ part = "calculation" /\ Calc!CalcNext /\ UNCHANGED v9
     \/ part = "payload" /\ Payload!PayNext /\ UNCHANGED From5
     \/ part = "measure" /\ Measure!MeasureNext /\ UNCHANGED From6
     \/ part = "plans" /\ Plans!PlanNext /\ UNCHANGED <<v7, v8, v9>>
     \/ part = "inputs" /\ Made!InputNext /\ UNCHANGED v9
     \/ part = "lists" /\ Lists!ListNext /\ UNCHANGED <<v7, v8, v9>>
     \/ part = "groups" /\ Grouped!GroupNext /\ UNCHANGED <<v7, v8, v9>>
     \/ part = "budget" /\ Budget!BudgetNext /\ UNCHANGED <<v7, v8, v9>>
     \/ part = "matching" /\ Matching!DepNext /\ UNCHANGED From6

Spec == Init /\ [][Next]_vars

UpdatesSpec == part = "payload" /\ Init /\ [][Next]_vars
PeriodsSpec == part = "inputs" /\ Init /\ [][Next]_vars

-----------------------------------------------------------------------------
(* What each component promises. *)

\* Permissions: a list query gives the rows each of which the check allows,
\* and answers follow the declared rules (permission/manager_based_permission.py).
PermissionsSound ==
  part = "permissions" => Perm!ListMatchesChecks /\ Perm!AnswersFollowTheRules

\* DatabaseBuckets: a read answers with rows its query had at a moment of the
\* run, and of its date (bucket/database_bucket.py, cache/run_context.py).
\* CalculationBuckets: the rows of a bucket are the combinations its inputs
\* define, inside its restriction (bucket/calculation_bucket.py, manager/input.py).
\* RequestPlans: a chain of lookups gives the rows it asks for, whoever decides
\* them, and equal buckets ask for the same (capabilities/request, request_bucket.py).
\* ListQueries: a list field shows what its inputs ask for and its reader may see
\* (api/graphql_resolvers.py, graphql_search.py).
\* Groups: the groups of a bucket share out its rows, and a value a group keeps
\* was true of them (bucket/group_bucket.py, manager/group_manager.py).
BucketsSound ==
  /\ part = "database" => Db!AnswersWereTrue /\ Db!HistoricalAnswersOnly
  /\ part = "calculation" =>
       Calc!RowsAsDefined /\ Calc!RestrictionsHold /\ Calc!DatesConsistent
  /\ part = "plans" => Plans!RowsAsAsked /\ Plans!EqualsAreAlike
  /\ part = "lists" => Lists!ListsAsAsked
  /\ part = "groups" => Grouped!GroupsShareOutTheRows /\ Grouped!KeptValuesWereTrue

\* FieldPayloads: every editable field has one argument, which writes it and
\* names it in errors (field_descriptors.py, api/graphql_mutations.py).
\* Measurements: a computation keeps its amount and its dimension, comparisons
\* and the stored field agree with it (measurement.py, measurement_field.py).
\* ManagerInputs: a manager accepts what its inputs declare, and what identifies
\* it makes the same one again (manager/input.py, interface/base_interface.py).
DataSound ==
  /\ part = "payload" =>
       /\ Payload!EveryFieldOnce
       /\ Payload!ArgumentsReachTheirFields /\ Payload!ErrorsNameArguments
  /\ part = "measure" =>
       Measure!AmountsRight /\ Measure!ComparesRight /\ Measure!StoresRight
  /\ part = "inputs" => Made!AcceptsWhatIsDeclared /\ Made!RebuildsItself

\* RunCacheBudget: between two calls the totals are those of the entries, no
\* stored value escapes the count, the reserve is kept, and contexts know whether
\* a budget applies (cache/run_context_lru.py).  DependencyMatching: a cached
\* result that is still there is what the rows give now (cache/dependency_index.py,
\* cache/dependency_matching.py).
CachesSound ==
  /\ part = "budget" =>
       /\ Budget!TotalsAddUp /\ Budget!NothingUncounted
       /\ Budget!WithinReserve /\ Budget!BudgetFlagAgrees
  /\ part = "matching" => Matching!CachedResultsCurrent

-----------------------------------------------------------------------------
(* What the documentation says of two of them. *)

\* docs/concepts/graphql/schema_autogen.md: update mutations "filter out omitted
\* Graphene NOT_PROVIDED values", so an update writes the fields that are given
\* and no other one (api/graphql_mutations.py).
UpdatesKeepOmitted == Payload!UpdatesKeepOmitted

\* docs/concepts/interfaces/computed_data_interfaces.md: a period of a project
\* "builds a DateRangeDomain once the project dependency is known and normalizes
\* arbitrary dates", so a manager with such a period is made as its inputs
\* declare, like any other (manager/input.py).
PeriodsNormalize == Made!AcceptsWhatIsDeclared
=============================================================================
