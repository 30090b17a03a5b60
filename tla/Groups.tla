------------------------------- MODULE Groups -------------------------------
(***************************************************************************)
(* Grouped buckets (bucket/group_bucket.py) and the managers that stand    *)
(* for a group (manager/group_manager.py): the values rows are grouped by  *)
(* are read when the bucket is made, the rows of a group whenever they are *)
(* used, and a combined value is kept by the group that computed it.       *)
(*                                                                         *)
(* An ungrouped bucket is the query it wraps: a set of alternatives, each  *)
(* a set of conditions.  0 stands for None.                                *)
(***************************************************************************)
EXTENDS Integers, Sequences, FiniteSets, SequencesExt, TLC

CONSTANTS
  GroupTables,     \* tables at the start: sequences of rows
  GroupVersions,   \* what a row may become
  Types,           \* attribute -> "text", "manager", "number", "flag" or "date"
  GroupKeys,       \* the keys groups are asked for: sequences of attributes
  Conditions,      \* the lookups passed to filter and exclude: <<attribute, value>>
  MaxGroupSteps,   \* bound: calls on one chain of grouped buckets
  MaxGroupChanges  \* bound: changes of rows

VARIABLES
  tbl,       \* row number -> row
  grp,       \* the grouped bucket in use: _group_by_keys, _basis_data, _data
  moments,   \* the tables since its groups were made
  raised,    \* the last call raised
  groupSteps, groupChanges

groupVars == <<tbl, grp, moments, raised, groupSteps, groupChanges>>

None == <<>>
Attributes == DOMAIN Types

-----------------------------------------------------------------------------
(* Queries *)

Is(attr, value) == [attr |-> attr, value |-> value, negated |-> FALSE]
IsNot(attr, value) == [Is(attr, value) EXCEPT !.negated = TRUE]
Everything == {{}}
Nothing == {}
Narrowed(query, conditions) == {alternative \cup conditions : alternative \in query}
Matches(query, row) ==
  row.here /\ \E alternative \in query :
                \A c \in alternative : (row[c.attr] = c.value) # c.negated
\* The rows of a query, in the order of their keys.
RowsOf(query, t) == SelectSeq(t, LAMBDA row : Matches(query, row))

-----------------------------------------------------------------------------
(* Making groups *)

ValueOf(keys, row) == [k \in ToSet(keys) |-> row[k]]

\* Mutant: rows are told apart by their first key.
FirstKeyOnly(keys, row) == row[keys[1]]

\* _freeze_group_value: what makes two rows members of one group.
group_identity(keys, row) == ValueOf(keys, row)

\* Groups come in the order of their values' text, None after the numbers.
Rank(value) == IF value = 0 THEN 9 ELSE value
TextBefore(keys, x, y) ==
  \E n \in DOMAIN keys : /\ Rank(x[keys[n]]) < Rank(y[keys[n]])
                         /\ \A m \in 1..n - 1 : x[keys[m]] = y[keys[m]]

\* The first value of every identity (setdefault).
GroupValues(keys, rows) ==
  {ValueOf(keys, rows[i]) : i \in
     {i \in DOMAIN rows : \A j \in 1..i - 1 :
        group_identity(keys, rows[j]) # group_identity(keys, rows[i])}}

\* _group_filter_kwargs: the lookups of a group's value.
_group_filter_kwargs(value) == {Is(k, value[k]) : k \in DOMAIN value}

GroupManager(value, data) == [value |-> value, data |-> data, kept |-> <<>>]

\* __init__ and __build_grouped_manager.
GroupBucket(keys, basis) ==
  LET values == SetToSortSeq(GroupValues(keys, RowsOf(basis, tbl)),
                             LAMBDA x, y : TextBefore(keys, x, y))
  IN  [keys |-> keys, basis |-> basis,
       groups |-> [n \in DOMAIN values |->
                     GroupManager(values[n], Narrowed(basis, _group_filter_kwargs(values[n])))]]

-----------------------------------------------------------------------------
(* Combined values *)

Given(rows, item) ==
  SelectSeq([i \in DOMAIN rows |-> rows[i][item]], LAMBDA v : v # 0)
Distinct(values) == SelectSeq([i \in DOMAIN values |-> <<i, values[i]>>],
                              LAMBDA p : \A j \in 1..p[1] - 1 : values[j] # p[2])

\* combine_value: None for the id and when every row has None; otherwise texts
\* once each, one manager or the bucket of all, the sum, any, or the latest.
combine_value(item, data, t) ==
  LET values == Given(RowsOf(data, t), item)
  IN  CASE item = "id" \/ values = <<>> -> None
        [] Types[item] = "text" -> <<"text", [i \in DOMAIN Distinct(values) |-> Distinct(values)[i][2]]>>
        [] Types[item] = "manager" -> <<"managers", ToSet(values)>>
        [] Types[item] = "number" -> <<"sum", FoldLeft(+, 0, values)>>
        [] Types[item] = "flag" -> <<"any", 2 \in ToSet(values)>>
        [] Types[item] = "date" -> <<"latest", Max(ToSet(values))>>

\* __getattr__: a key is the group's value, any other attribute is combined once.
Kept(group, item) ==
  IF item \in DOMAIN group.value \/ item \in DOMAIN group.kept THEN group
  ELSE [group EXCEPT !.kept = @ @@ item :> combine_value(item, group.data, tbl)]
__getattr__(group, item) ==
  IF item \in DOMAIN group.value THEN <<"value", group.value[item]>> ELSE Kept(group, item).kept[item]

-----------------------------------------------------------------------------
(* The operations of a grouped bucket *)

Step == groupSteps < MaxGroupSteps /\ groupSteps' = groupSteps + 1

\* A bucket whose groups are made now.
Makes(keys, basis) ==
  /\ Step
  /\ grp' = GroupBucket(keys, basis)
  /\ moments' = {tbl}
  /\ raised' = FALSE
  /\ UNCHANGED <<tbl, groupChanges>>

\* A bucket that takes over groups made before.
TakesOver(basis, groups) ==
  /\ Step
  /\ grp' = [grp EXCEPT !.basis = basis, !.groups = groups]
  /\ raised' = FALSE
  /\ UNCHANGED <<tbl, moments, groupChanges>>

Raises ==
  /\ Step
  /\ raised' = TRUE
  /\ UNCHANGED <<tbl, grp, moments, groupChanges>>

filter(condition) == Makes(grp.keys, Narrowed(grp.basis, {Is(condition[1], condition[2])}))
exclude(condition) == Makes(grp.keys, Narrowed(grp.basis, {IsNot(condition[1], condition[2])}))
group_by(key) == Makes(Append(grp.keys, key), grp.basis)
none == Makes(grp.keys, Nothing)

\* __or__ with a bucket of other rows; other keys are refused.
__or__(keys, condition) ==
  IF keys # grp.keys THEN Raises
  ELSE Makes(keys, grp.basis \cup Narrowed(Everything, {Is(condition[1], condition[2])}))

\* get: the first group of a filtered bucket.
get(condition) ==
  LET found == GroupBucket(grp.keys, Narrowed(grp.basis, {Is(condition[1], condition[2])}))
  IN  IF found.groups = <<>> THEN Raises
      ELSE /\ Step
           /\ grp' = [found EXCEPT !.basis = found.groups[1].data, !.groups = <<found.groups[1]>>]
           /\ moments' = {tbl}
           /\ raised' = FALSE
           /\ UNCHANGED <<tbl, groupChanges>>

\* Mutant: a slice keeps the rows it was cut from.
BasisKept(groups) == grp.basis

\* The rows of some groups, one query after another.
UnionOf(groups) == UNION {groups[n].data : n \in DOMAIN groups}

\* __getitem__ with a slice: no groups, no rows to go on with.
__getitem__(from, to) ==
  LET groups == SubSeq(grp.groups, from, IF to > Len(grp.groups) THEN Len(grp.groups) ELSE to)
  IN  IF groups = <<>> THEN Raises ELSE TakesOver(UnionOf(groups), groups)

\* sort by a key or by a combined number; None is not comparable with a number.
SortValue(group, item) ==
  LET v == __getattr__(group, item)
  IN  IF v = None \/ v[2] = 0 THEN <<>> ELSE <<v[2]>>
sort(item, reverse) ==
  LET read == [n \in DOMAIN grp.groups |-> Kept(grp.groups[n], item)]
      value(n) == SortValue(grp.groups[n], item)
      before(n, m) ==
        IF value(n) = value(m) THEN n < m
        ELSE IF reverse THEN value(n)[1] > value(m)[1] ELSE value(n)[1] < value(m)[1]
      order == SetToSortSeq(DOMAIN read, before)
  IN  IF \E n, m \in DOMAIN read : value(n) = <<>> /\ value(m) # <<>>
      THEN Raises
      ELSE TakesOver(grp.basis, [n \in DOMAIN read |-> read[order[n]]])

\* An attribute of one of the groups is read.
Read(n, item) ==
  TakesOver(grp.basis, [grp.groups EXCEPT ![n] = Kept(@, item)])

\* A row is created, changed or deleted by somebody.
Change(i, version) ==
  /\ groupChanges < MaxGroupChanges /\ groupSteps < MaxGroupSteps
  /\ groupChanges' = groupChanges + 1
  /\ tbl[i] # version
  /\ tbl' = [tbl EXCEPT ![i] = version]
  /\ moments' = moments \cup {tbl'}
  /\ UNCHANGED <<grp, raised, groupSteps>>

-----------------------------------------------------------------------------
GroupInit ==
  /\ tbl \in GroupTables
  /\ \E keys \in GroupKeys : grp = GroupBucket(keys, Everything)
  /\ moments = {tbl}
  /\ raised = FALSE
  /\ groupSteps = 0 /\ groupChanges = 0

GroupNext ==
  \/ \E c \in Conditions : filter(c) \/ exclude(c) \/ get(c)
  \/ \E key \in Attributes : key \notin ToSet(grp.keys) /\ group_by(key)
  \/ none
  \/ \E keys \in GroupKeys, c \in Conditions : __or__(keys, c)
  \/ \E from \in 1..2, to \in 1..2 : __getitem__(from, to)
  \/ \E item \in Attributes, reverse \in BOOLEAN :
       (Types[item] = "number" \/ item \in ToSet(grp.keys)) /\ sort(item, reverse)
  \/ \E n \in DOMAIN grp.groups, item \in Attributes \cup {"id"} : Read(n, item)
  \/ \E i \in DOMAIN tbl, version \in GroupVersions : Change(i, version)

GroupSpec == GroupInit /\ [][GroupNext]_groupVars

-----------------------------------------------------------------------------
(* Properties *)

\* As long as no row changes, the groups of a bucket share out its rows: every
\* row is in exactly one group, the one of its own values, and no group is empty,
\* whatever was filtered, united, sorted, cut or grouped again before.
GroupsShareOutTheRows ==
  moments = {tbl} =>
    LET basis == RowsOf(grp.basis, tbl)
        Members(n) == RowsOf(grp.groups[n].data, tbl)
    IN  /\ \A i \in DOMAIN basis :
             Cardinality({n \in DOMAIN grp.groups : Matches(grp.groups[n].data, basis[i])}) = 1
        /\ \A n \in DOMAIN grp.groups :
             /\ Members(n) # <<>>
             /\ \A i \in DOMAIN Members(n) :
                  /\ Members(n)[i] \in ToSet(basis)
                  /\ ValueOf(grp.keys, Members(n)[i]) = grp.groups[n].value

\* A value a group keeps is the one its own rows gave at a moment since the group
\* was made, also after the group was taken over by a sorted or cut bucket.
KeptValuesWereTrue ==
  \A n \in DOMAIN grp.groups :
    \A item \in DOMAIN grp.groups[n].kept :
      \E t \in moments : grp.groups[n].kept[item] = combine_value(item, grp.groups[n].data, t)
=============================================================================
