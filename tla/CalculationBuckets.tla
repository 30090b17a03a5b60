------------------------- MODULE CalculationBuckets -------------------------
(***************************************************************************)
(* Buckets of calculation managers (bucket/calculation_bucket.py): their   *)
(* rows are the combinations of input values, generated when they are      *)
(* first asked for.  Inputs and their domains come from manager/input.py,  *)
(* lookups from utils/filter_parser.py, the reads of columns and their     *)
(* memory in a calculation run from bucket/projection.py.                  *)
(*                                                                         *)
(* A row is a function from the inputs that have a value to their values.  *)
(* A declaration gives the inputs, their order, what they depend on, their *)
(* possible values for each choice of those, and which are required.       *)
(***************************************************************************)
EXTENDS Integers, Sequences, FiniteSets, FiniteSetsExt, SequencesExt, Functions

CONSTANTS
    Declarations,     \* interfaces: [order, hash, after, values, typed, required]
    CalcLookups,      \* <<name, operator, value>> filters and excludes may use
    PrintMax,         \* rows a printed bucket shows (PRINT_MAX, 5 in the code)
    DateDomains,      \* date ranges: [start, end, frequency, step]
    SomeDates,        \* dates asked about
    MaxCalcDerived,   \* bound on derivations of buckets
    MaxCalcUses       \* bound on reads

VARIABLES
    decl,       \* the input fields of the interface
    bucket,     \* the bucket in use: definitions, order, _data, _allowed_identifications
    held,       \* another bucket of the same manager
    only,       \* the instances each of the two was reduced to (history)
    projected,  \* the run's projection results: signature -> rows
    said,       \* the answer to the last read
    calcDerived, calcUses

calcVars == <<decl, bucket, held, only, projected, said, calcDerived, calcUses>>

Inputs == ToSet(decl.order)
NoRows == [how |-> "", rows |-> << >>]
Failed == [how |-> "raised", rows |-> << >>]

-----------------------------------------------------------------------------
(* Domains of dates (DateRangeDomain); a date is <<year, month, day>> *)

Leap(y) == y % 4 = 0
DaysIn(y, m) == IF m = 2 THEN (IF Leap(y) THEN 29 ELSE 28) ELSE IF m \in {4, 6, 9, 11} THEN 30 ELSE 31
_month_start(d) == <<d[1], d[2], 1>>
_month_end(d) == <<d[1], d[2], DaysIn(d[1], d[2])>>
_quarter_end(d) == LET m == ((d[2] - 1) \div 3 + 1) * 3 IN <<d[1], m, DaysIn(d[1], m)>>
NextDay(d) == IF d[3] < DaysIn(d[1], d[2]) THEN <<d[1], d[2], d[3] + 1>>
              ELSE IF d[2] < 12 THEN <<d[1], d[2] + 1, 1>> ELSE <<d[1] + 1, 1, 1>>
_add_months(d, months) ==
    LET month == d[1] * 12 + (d[2] - 1) + months
        y == month \div 12
        m == (month % 12) + 1
    IN  <<y, m, Min({d[3], DaysIn(y, m)})>>
Later(d, e) ==
    \/ d[1] > e[1]
    \/ d[1] = e[1] /\ d[2] > e[2]
    \/ d[1] = e[1] /\ d[2] = e[2] /\ d[3] > e[3]

NormalizeDate(domain, d) ==
    CASE domain.frequency = "day" -> d
      [] domain.frequency = "month_start" -> _month_start(d)
      [] domain.frequency = "month_end" -> _month_end(d)
      [] domain.frequency = "quarter_end" -> _quarter_end(d)
      [] domain.frequency = "year_start" -> <<d[1], 1, 1>>
      [] domain.frequency = "year_end" -> <<d[1], 12, 31>>

RECURSIVE DaysOn(_, _)
DaysOn(d, n) == IF n = 0 THEN d ELSE DaysOn(NextDay(d), n - 1)

\* Mutant: a month later is the same day of the next month.
AdvanceKeepingDay(domain, d) ==
    IF domain.frequency = "day" THEN DaysOn(d, domain.step) ELSE _add_months(d, domain.step)

_advance(domain, d) ==
    CASE domain.frequency = "day" -> DaysOn(d, domain.step)
      [] domain.frequency = "month_start" -> _month_start(_add_months(d, domain.step))
      [] domain.frequency = "month_end" -> _month_end(_add_months(d, domain.step))
      [] domain.frequency = "quarter_end" -> _quarter_end(_add_months(d, 3 * domain.step))
      [] domain.frequency = "year_start" -> <<d[1] + domain.step, 1, 1>>
      [] domain.frequency = "year_end" -> <<d[1] + domain.step, 12, 31>>

RECURSIVE DatesFrom(_, _)
DatesFrom(domain, d) ==
    IF Later(d, domain.end) THEN << >> ELSE <<d>> \o DatesFrom(domain, _advance(domain, d))

\* __iter__ and __contains__ of the domain.
OfferedDates(domain) == DatesFrom(domain, NormalizeDate(domain, domain.start))
DomainContains(domain, d) ==
    LET normal == NormalizeDate(domain, d)
    IN  ~Later(normal, domain.end) /\ normal \in ToSet(OfferedDates(domain))

-----------------------------------------------------------------------------
(* Buckets *)

NewBucket(filters, excludes, order, reverse) ==
    [filters |-> filters, excludes |-> excludes, order |-> order, reverse |-> reverse,
     data |-> << >>, allowed |-> << >>]
Everything == NewBucket([k \in {} |-> 0], [k \in {} |-> 0], << >>, FALSE)

\* Mutant: a derived bucket starts from all combinations again.
DeriveUnrestricted(b, filters, excludes, order, reverse) == NewBucket(filters, excludes, order, reverse)

\* _derive: the restriction to instances goes with the definitions, the rows do not.
_derive(b, filters, excludes, order, reverse) ==
    [NewBucket(filters, excludes, order, reverse) EXCEPT !.allowed = b.allowed]

Updated(definitions, k, v) == [x \in DOMAIN definitions \cup {k} |-> IF x = k THEN v ELSE definitions[x]]
filter(b, lookup) == _derive(b, Updated(b.filters, <<lookup[1], lookup[2]>>, lookup[3]), b.excludes, << >>, FALSE)
exclude(b, lookup) == _derive(b, b.filters, Updated(b.excludes, <<lookup[1], lookup[2]>>, lookup[3]), << >>, FALSE)
sort(b, key, reverse) == _derive(b, b.filters, b.excludes, <<key>>, reverse)
none(b) == [Everything EXCEPT !.order = b.order, !.reverse = b.reverse, !.data = << << >> >>, !.allowed = << << >> >>]
with_instances(b, rows) ==
    [_derive(b, b.filters, b.excludes, b.order, b.reverse) EXCEPT !.data = <<rows>>, !.allowed = <<rows>>]
\* A slice keeps its rows, but what is derived from it starts from the definitions.
Sliced(b, rows) == [_derive(b, b.filters, b.excludes, b.order, b.reverse) EXCEPT !.data = <<rows>>]

\* Definitions that both operands share; restrictions to instances are intersected.
Common(f, g) == [k \in {x \in DOMAIN f \cap DOMAIN g : f[x] = g[x]} |-> f[k]]
CommonRows(a, c) ==
    IF a.allowed = << >> THEN c.allowed ELSE IF c.allowed = << >> THEN a.allowed
    ELSE <<SelectSeq(a.allowed[1], LAMBDA row : row \in ToSet(c.allowed[1]))>>
Union(a, c) ==
    [_derive(a, Common(a.filters, c.filters), Common(a.excludes, c.excludes), << >>, FALSE) EXCEPT !.allowed = CommonRows(a, c)]

\* _bucket_index_source_signature: the generated rows are not in it.
_bucket_index_source_signature(b) == <<b.filters, b.excludes, b.allowed, b.order, b.reverse>>

-----------------------------------------------------------------------------
(* Lookups (filter_parser.py).  A missing value is << >>. *)

\* Comparisons with None are type errors, which do not match.
apply_lookup(present, operator, v) ==
    /\ present # << >>
    /\ \/ operator = "exact" /\ present[1] = v
       \/ operator = "gte" /\ present[1] >= v
ValueIn(row, f) == IF f \in DOMAIN row THEN <<row[f]>> ELSE << >>
\* A derived property of the manager: code of the project.
PropertyOf(row) == <<FoldFunction(+, 0, row) % 2>>
OnField(definitions, f) == {k \in DOMAIN definitions : k[1] = f}

\* parse_filters gives an input of manager type a mapping for the bucket of its possible
\* values, and every other input a predicate.
AppliedTo(definitions, f) == IF decl.offers[f] = "managers" THEN {} ELSE OnField(definitions, f)

\* The predicates of an input: all of the filters, none of the excludes.
PassesInput(b, f, present) ==
    /\ \A k \in AppliedTo(b.filters, f) : apply_lookup(present, k[2], b.filters[k])
    /\ \A k \in AppliedTo(b.excludes, f) : ~apply_lookup(present, k[2], b.excludes[k])
_filter_prop_combinations(b, row) ==
    /\ \A k \in OnField(b.filters, "p") : apply_lookup(PropertyOf(row), k[2], b.filters[k])
    /\ \A k \in OnField(b.excludes, "p") : ~apply_lookup(PropertyOf(row), k[2], b.excludes[k])

-----------------------------------------------------------------------------
(* Generating the combinations *)

\* topological_sort_inputs: the reverse of a depth-first post-order; the successors of an
\* input are a set, walked in the order of the interpreter's hashes.
Successors(f) == SelectSeq(decl.hash, LAMBDA g : f \in decl.after[g])

RECURSIVE Visit(_, _, _)
Visit(f, marked, walk) ==
    IF f \in ToSet(walk.done) THEN walk
    ELSE IF f \in marked THEN [walk EXCEPT !.cyclic = TRUE]
    ELSE LET inner == FoldLeft(LAMBDA w, g : Visit(g, marked \cup {f}, w), walk, Successors(f))
         IN  [inner EXCEPT !.done = Append(@, f)]
\* A cycle ends the walk with CyclicDependencyError.
Cyclic == \E f \in Inputs : LET reach[n \in Nat] == IF n = 0 THEN decl.after[f]
                                                    ELSE reach[n - 1] \cup UNION {decl.after[g] : g \in reach[n - 1]}
                            IN  f \in reach[Cardinality(Inputs)]

\* Mutant: dependents come before what they depend on.
InputsPostOrder == FoldLeft(LAMBDA w, f : Visit(f, {}, w), [done |-> << >>, cyclic |-> FALSE], decl.order).done

topological_sort_inputs ==
    Reverse(FoldLeft(LAMBDA w, f : Visit(f, {}, w), [done |-> << >>, cyclic |-> FALSE], decl.order).done)

\* What stands where a generation stops: a required input without possible values, or an
\* input whose dependency has no value yet (KeyError).
Broken == [broken |-> 1]
\* resolve_possible_values for the values chosen so far; << >> for None.
DependenciesKnown(f, row) == decl.after[f] \subseteq DOMAIN row
get_possible_values(f, row) == decl.values[f][Restrict(row, decl.after[f])]
Offers(b, f, choices) ==
    SelectSeq(choices, LAMBDA v : v \in decl.typed[f] /\ PassesInput(b, f, <<v>>))

RECURSIVE Combine(_, _, _, _)
Combine(b, order, i, row) ==
    IF i > Len(order) THEN <<row>>
    ELSE LET f == order[i]
         IN  IF ~DependenciesKnown(f, row) THEN <<Broken>>
             ELSE LET possible == get_possible_values(f, row)
                  IN  IF possible = << >>
                      THEN IF f \in decl.required THEN <<Broken>>
                           ELSE IF PassesInput(b, f, << >>) THEN Combine(b, order, i + 1, row) ELSE << >>
                      ELSE FoldLeft(LAMBDA rows, v : rows \o Combine(b, order, i + 1, [x \in DOMAIN row \cup {f} |-> IF x = f THEN v ELSE row[x]]),
                                    << >>, Offers(b, f, possible[1]))

\* _iter_input_combinations, as far as it gets.
_iter_input_combinations(b) == Combine(b, topological_sort_inputs, 1, << >>)
Kept(b, rows) ==
    SelectSeq(rows, LAMBDA row : row = Broken \/ /\ b.allowed = << >> \/ row \in ToSet(b.allowed[1])
                                                 /\ _filter_prop_combinations(b, row))

HasPropertyFilters(b) == OnField(b.filters, "p") \cup OnField(b.excludes, "p") # {}
_filters_or_sort_require_manager_access(b) == HasPropertyFilters(b) \/ b.order = <<"p">>
SortValue(row, key) == IF key = "p" THEN PropertyOf(row) ELSE ValueIn(row, key)
\* A stable sort; rows without the value come last.
Before(rows, key, i, j) ==
    LET x == SortValue(rows[i], key)
        y == SortValue(rows[j], key)
    IN  IF x # << >> /\ y # << >> /\ x # y THEN x[1] < y[1]
        ELSE IF (x = << >>) # (y = << >>) THEN y = << >> ELSE i < j
StableSort(rows, key) ==
    LET places == SetToSortSeq(DOMAIN rows, LAMBDA i, j : Before(rows, key, i, j))
    IN  [n \in DOMAIN rows |-> rows[places[n]]]
\* Managers are sorted by their attributes, and None is not comparable.
Incomparable(b, rows) ==
    /\ _filters_or_sort_require_manager_access(b)
    /\ \E i, j \in DOMAIN rows : (SortValue(rows[i], b.order[1]) = << >>) # (SortValue(rows[j], b.order[1]) = << >>)

\* generate_combinations: << >> stands for an exception.
Computed(b) ==
    LET rows == Kept(b, _iter_input_combinations(b))
        ordered == IF b.order = << >> THEN rows ELSE StableSort(rows, b.order[1])
    IN  IF Cyclic \/ Broken \in ToSet(rows) THEN << >>
        ELSE IF b.order # << >> /\ Incomparable(b, rows) THEN << >>
        ELSE <<IF b.reverse THEN Reverse(ordered) ELSE ordered>>
generate_combinations(b) == IF b.data # << >> THEN b.data ELSE Computed(b)

-----------------------------------------------------------------------------
(* Derivations *)

Derives(b, limit, cut) ==
    /\ calcDerived < MaxCalcDerived /\ calcDerived' = calcDerived + 1
    /\ calcUses < MaxCalcUses       \* what is derived after the last read is not looked at
    /\ bucket' = b /\ only' = [only EXCEPT !.limit = limit, !.cut = cut] /\ said' = NoRows
    /\ UNCHANGED <<decl, projected, calcUses>>
Refine ==
    \E lookup \in CalcLookups :
      /\ lookup[1] \in Inputs \cup {"p"}
      /\ Derives(filter(bucket, lookup), only.limit, FALSE) \/ Derives(exclude(bucket, lookup), only.limit, FALSE)
      /\ UNCHANGED held
Order ==
    \E key \in Inputs \cup {"p"}, reverse \in BOOLEAN : Derives(sort(bucket, key, reverse), only.limit, FALSE) /\ UNCHANGED held
None == Derives(none(bucket), << {} >>, FALSE) /\ UNCHANGED held
\* with_instances: the caller keeps some of the managers it has iterated over.
Reduce ==
    /\ bucket.data # << >>
    /\ \E keep \in SUBSET DOMAIN bucket.data[1] :
         LET rows == [i \in 1 .. Cardinality(keep) |-> bucket.data[1][SetToSortSeq(keep, <)[i]]]
         IN  Derives(with_instances(bucket, rows), <<ToSet(rows)>>, FALSE)
    /\ UNCHANGED held
\* __getitem__ with a slice.
Slice ==
    /\ bucket.data # << >> /\ Len(bucket.data[1]) > 1
    /\ \/ Derives(Sliced(bucket, SubSeq(bucket.data[1], 1, 1)), only.limit, TRUE)
       \/ Derives(Sliced(bucket, Tail(bucket.data[1])), only.limit, TRUE)
    /\ UNCHANGED held
BothLimits == IF only.limit = << >> THEN only.heldLimit ELSE IF only.heldLimit = << >> THEN only.limit
              ELSE << only.limit[1] \cap only.heldLimit[1] >>
Unite == \/ Derives(Union(bucket, held), BothLimits, FALSE) /\ UNCHANGED held
         \/ Derives(Union(held, bucket), BothLimits, FALSE) /\ UNCHANGED held
\* The bucket is put aside, and another one made from the manager.
PutAside ==
    /\ calcUses < MaxCalcUses
    /\ bucket # Everything /\ held = Everything
    /\ held' = bucket /\ bucket' = Everything
    /\ only' = [limit |-> << >>, cut |-> FALSE, heldLimit |-> only.limit]
    /\ said' = NoRows
    /\ UNCHANGED <<decl, projected, calcDerived, calcUses>>

-----------------------------------------------------------------------------
(* Reads *)

Answers(how, rows, kept) ==
    /\ calcUses < MaxCalcUses /\ calcUses' = calcUses + 1
    /\ said' = IF rows = << >> THEN Failed ELSE [how |-> how, rows |-> rows[1]]
    /\ bucket' = [bucket EXCEPT !.data = kept]
    /\ UNCHANGED <<decl, held, only, calcDerived>>

\* Iteration; first, last, count, an index and membership read the same list.
__iter__ ==
    LET rows == generate_combinations(bucket)
    IN  Answers("rows", rows, rows) /\ UNCHANGED projected

get ==
    \E lookup \in CalcLookups :
      LET rows == Computed(filter(bucket, lookup))
      IN  /\ lookup[1] \in Inputs \cup {"p"}
          /\ Answers("one", IF rows = << >> \/ Len(rows[1]) = 1 THEN rows ELSE << << >> >>, bucket.data)
          /\ UNCHANGED projected

\* The first rows for printing: generated one by one unless they are known or ordered.
FirstOf(rows) == SubSeq(rows, 1, Min({PrintMax, Len(rows)}))
LazyRows == LET rows == Kept(bucket, _iter_input_combinations(bucket)) IN SubSeq(rows, 1, Min({PrintMax + 1, Len(rows)}))
_str_combinations_preview ==
    LET all == generate_combinations(bucket)
    IN  /\ IF bucket.data # << >> \/ bucket.order # << >> \/ bucket.reverse
           THEN Answers("preview", IF all = << >> THEN << >> ELSE <<FirstOf(all[1])>>, all)
           ELSE Answers("preview", IF Cyclic \/ Broken \in ToSet(LazyRows) THEN << >> ELSE <<FirstOf(LazyRows)>>, << >>)
        /\ UNCHANGED projected

\* values and values_list of all inputs within a run (project_bucket_rows).
project_bucket_rows ==
    LET sig == _bucket_index_source_signature(bucket)
        rows == generate_combinations(bucket)
    IN  IF sig \in DOMAIN projected THEN Answers("columns", <<projected[sig]>>, bucket.data) /\ UNCHANGED projected
        ELSE /\ Answers("columns", rows, rows)
             /\ projected' = IF rows = << >> THEN projected
                             ELSE [x \in DOMAIN projected \cup {sig} |-> IF x = sig THEN rows[1] ELSE projected[x]]

\* A date range is listed.
ListDates ==
    /\ bucket = Everything /\ calcUses = 0
    /\ \E domain \in DateDomains :
         /\ said' = [how |-> "dates", rows |-> OfferedDates(domain), domain |-> domain]
    /\ calcUses' = MaxCalcUses
    /\ UNCHANGED <<decl, bucket, held, only, projected, calcDerived>>

-----------------------------------------------------------------------------
(* Specification *)

CalcInit ==
    /\ decl \in Declarations
    /\ bucket = Everything /\ held = Everything
    /\ only = [limit |-> << >>, cut |-> FALSE, heldLimit |-> << >>]
    /\ projected = << >> /\ said = NoRows
    /\ calcDerived = 0 /\ calcUses = 0

CalcNext ==
    \/ Refine \/ Order \/ None \/ Reduce \/ Slice \/ Unite \/ PutAside
    \/ __iter__ \/ get \/ _str_combinations_preview \/ project_bucket_rows \/ ListDates

CalcSpec == CalcInit /\ [][CalcNext]_calcVars

-----------------------------------------------------------------------------
(* Properties *)

\* The combinations the declaration allows, whatever order it is read in.
Combinations == UNION {[S -> UNION {decl.typed[f] : f \in Inputs}] : S \in SUBSET Inputs}
Allowed(row) ==
    \A f \in Inputs :
      /\ DependenciesKnown(f, row) /\ Restrict(row, decl.after[f]) \in DOMAIN decl.values[f]
      /\ LET possible == get_possible_values(f, row)
         IN  IF f \in DOMAIN row THEN possible # << >> /\ row[f] \in ToSet(possible[1]) \cap decl.typed[f]
             ELSE possible = << >> /\ f \notin decl.required
Satisfies(row, k, v) == apply_lookup(IF k[1] = "p" THEN PropertyOf(row) ELSE ValueIn(row, k[1]), k[2], v)
Expected ==
    {row \in Combinations :
      /\ Allowed(row)
      /\ \A k \in DOMAIN bucket.filters : Satisfies(row, k, bucket.filters[k])
      /\ \A k \in DOMAIN bucket.excludes : ~Satisfies(row, k, bucket.excludes[k])
      /\ only.limit = << >> \/ row \in only.limit[1]}
WellDeclared ==
    /\ ~Cyclic
    /\ \A f \in decl.required : \A choice \in DOMAIN decl.values[f] : decl.values[f][choice] # << >>

\* A bucket's rows are the combinations its declaration, filters, excludes and instances
\* allow, once each and in the order asked for, and a printed bucket shows some of them;
\* only a cycle, a required input without values or missing sort values make it fail.
RowsAsDefined ==
    /\ said.how = "rows" /\ ~only.cut =>
         /\ ToSet(said.rows) = Expected /\ Len(said.rows) = Cardinality(Expected)
         /\ bucket.order # << >> => LET rows == IF bucket.reverse THEN Reverse(said.rows) ELSE said.rows
                                    IN  rows = StableSort(rows, bucket.order[1])
    /\ said.how = "preview" /\ ~only.cut /\ WellDeclared =>
         ToSet(said.rows) \subseteq Expected /\ Len(said.rows) = Min({PrintMax, Cardinality(Expected)})
    /\ said.how = "raised" => ~WellDeclared \/ bucket.order # << >>

\* Once reduced to instances, a bucket never shows others, whatever is derived from it.
RestrictionsHold ==
    only.limit # << >> => ToSet(said.rows) \subseteq only.limit[1] \/ said.how = "dates"

\* A date range lists dates that it accepts, that normalisation leaves alone and that do
\* not pass its end, each the next one after another.
DatesConsistent ==
    said.how = "dates" =>
      /\ \A i \in DOMAIN said.rows :
           /\ NormalizeDate(said.domain, said.rows[i]) = said.rows[i]
           /\ ~Later(said.rows[i], said.domain.end)
           /\ i > 1 => Later(said.rows[i], said.rows[i - 1])
      /\ \A d \in SomeDates : DomainContains(said.domain, d) <=> NormalizeDate(said.domain, d) \in ToSet(said.rows)
=============================================================================
