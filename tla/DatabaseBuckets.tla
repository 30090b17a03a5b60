-------------------------- MODULE DatabaseBuckets --------------------------
(***************************************************************************)
(* ORM-backed buckets: how a bucket is derived from a manager or another   *)
(* bucket, the signature that names its query in a calculation run, and    *)
(* the operations that read it, from the run's snapshots or the database   *)
(* (bucket/database_bucket.py, bucket/base_bucket.py, bucket/indexing.py,  *)
(* bucket/projection.py, interface/capabilities/orm/support.py and the     *)
(* bucket part of cache/run_context.py).                                   *)
(*                                                                         *)
(* A row is its primary key and one column; rows come back in primary-key  *)
(* order or in its reverse.  One bucket is in hand at a time.  The live    *)
(* table changes through the run's own writes and those of other           *)
(* processes; Past is the table at the one historical date there is.       *)
(***************************************************************************)
EXTENDS Integers, Sequences, FiniteSets, SequencesExt, TLC

CONSTANTS
  LastPk,           \* primary keys are 1..LastPk
  Lookups,          \* the lookups passed to filter and exclude: <<op, column>>
  Written,          \* the writes: <<primary key, new column or NoRow>>
  Past,             \* the table at the historical date
  SnapshotLimit,    \* MAX_RUN_SCOPED_BUCKET_RESULT_ROWS
  Addresses,        \* what id() of a bucket may return
  AddressesReused,  \* the id of a dead bucket may be given to a new one
  Redates,          \* a search_date may be passed to filter() of a live bucket
  MaxDerived,       \* bound: buckets made in one behaviour
  MaxTableChanges,  \* bound: changes of the live table
  MaxUses           \* bound: reads

VARIABLES
  tbl,       \* the live table: primary key -> column, or NoRow
  asOf,      \* 1 inside as_of(date), else 0
  cache,     \* <<the run's cached values>>, or NoRun
  bkt,       \* the bucket in hand
  answer,    \* <<the last answer>>: the bucket asked, the operation, the value
  moments,   \* the live tables since the run began or wrote last, and those
             \* since the making of a bucket it read that was loaded before
  derived, tableChanges, uses

bucketVars == <<tbl, asOf, cache, bkt, answer, moments, derived, tableChanges, uses>>

NoRow == -1
Pks == 1..LastPk
Columns == {0, 1}
Tables == [Pks -> Columns \cup {NoRow}]
NoRun == <<>>
NoAnswer == <<>>
Raises == <<>>           \* a value is <<v>>, or Raises
NoSignature == <<>>
NotLoaded == <<>>

-----------------------------------------------------------------------------
(* The query of a bucket: its source, its lookups in the order given, its  *)
(* order, the primary keys a pickled bucket was restored from, its slice.  *)

Keeps(lookup, pk, column) ==
  CASE lookup[1] = "filter"  -> column = lookup[2]
    [] lookup[1] = "exclude" -> column # lookup[2]
    [] lookup[1] = "in"      -> pk \in lookup[2]
    [] lookup[1] = "either"  -> column \in lookup[2]
    [] lookup[1] = "never"   -> FALSE

InOrder(q) == LET up == IF q.ids = <<>> THEN [p \in Pks |-> p] ELSE q.ids
              IN IF q.order = "down" THEN Reverse(up) ELSE up

(* What the database answers: rows <<pk, column>> of the table t. *)
RowsOf(q, t) ==
  LET table == IF q.source = "past" THEN Past ELSE t
      kept(pk) == /\ table[pk] # NoRow
                  /\ \A l \in ToSet(q.lookups) : Keeps(l, pk, table[pk])
      rows == SelectSeq(InOrder(q), kept)
      cut == IF q.cut = 0 \/ Len(rows) <= q.cut THEN rows
             ELSE SubSeq(rows, 1, q.cut)
  IN [i \in 1..Len(cut) |-> <<cut[i], table[cut[i]]>>]

PksOf(rows) == [i \in 1..Len(rows) |-> rows[i][1]]

(* _query_signature: a trusted signature when the bucket was made by plain *)
(* lookups, else the SQL, which an empty query does not have.              *)
_query_signature(q, date, trusted, cacheable) ==
  CASE ~cacheable -> NoSignature
    [] trusted # <<>> -> <<"trusted", trusted, date, q.order>>
    [] \E l \in ToSet(q.lookups) : l[1] = "never" -> NoSignature
    [] OTHER -> <<"sql", q, date, q.order>>

(* DatabaseBucket.__init__; `address` stands for id(), `loaded` for the    *)
(* result cache of the queryset it wraps, `queryset` for that object, and  *)
(* `seen` for the live tables since the bucket was made; what its signature  *)
(* is made of does not change.                                             *)
MakeBucket(q, date, trusted, cacheable, a) ==
  [query |-> q, date |-> date, trusted |-> trusted, cacheable |-> cacheable,
   address |-> a, queryset |-> derived, loaded |-> NotLoaded, seen |-> {tbl},
   signature |-> _query_signature(q, date, trusted, cacheable)]

(* Mutant of Compatible: dates are not compared. *)
AlwaysCompatible(b) == asOf = 0 \/ b.date \in {0, 1}

(* _ensure_as_of_compatible *)
Compatible(b) == asOf = 0 \/ b.date = asOf

(* _bucket_index_source_signature: by query when there is a signature, else by identity. *)
_bucket_index_source_signature(b) ==
  IF b.signature = NoSignature THEN <<"id", b.address>> ELSE <<"database", b.signature>>

(* _trusted_query_signature_with: nothing to extend once the chain is not trusted. *)
Trusting(b, step) == IF b.trusted = <<>> THEN <<>> ELSE Append(b.trusted, step)

-----------------------------------------------------------------------------
(* The run's cache of bucket results (cache/run_context.py). *)

InRun == cache # NoRun
Values == cache[1]
CacheKey(kind, signature) == <<asOf, kind, signature>>
Holding(kind, signature) ==
  InRun /\ signature # NoSignature /\ CacheKey(kind, signature) \in DOMAIN Values
Cached(kind, signature) == Values[CacheKey(kind, signature)]

(* get/set of one kind of value under the key scoped by the as-of date. *)
Storing(entries) ==
  IF InRun THEN <<[k \in DOMAIN Values \cup DOMAIN entries |->
                     IF k \in DOMAIN entries THEN entries[k] ELSE Values[k]]>>
  ELSE NoRun
Nothing == [k \in {} |-> {}]
Entry(key, value) == [k \in {key} |-> value]
Store(kind, signature, value) ==
  IF signature = NoSignature THEN cache ELSE Storing(Entry(CacheKey(kind, signature), value))

ResultKinds == {"rows", "pks", "managers", "first", "exists", "bucket"}
(* Mutant of ClearResults: the first row is kept. *)
KeepsFirstRow(c) == {k \in DOMAIN c : k[1] = asOf /\ k[2] \in ResultKinds \ {"first"}}

(* clear_orm_bucket_results *)
ClearResults(c) == {k \in DOMAIN c : k[1] = asOf /\ k[2] \in ResultKinds}
(* clear_bucket_indexes, clear_bucket_projections *)
ClearIndexes(c) == {k \in DOMAIN c : k[1] = asOf /\ k[2] \in {"index", "values"}}
(* What a data change of this process leaves of the run's cache. *)
Cleared(c) ==
  IF c = NoRun THEN c
  ELSE <<[k \in DOMAIN c[1] \ (ClearResults(c[1]) \cup ClearIndexes(c[1])) |-> c[1][k]]>>

-----------------------------------------------------------------------------
(* Making buckets. *)

NewAddress(a) ==
  /\ a \in Addresses
  /\ IF AddressesReused THEN a # bkt.address ELSE a = derived + 1

BaseQuery(lookups, source) ==
  [source |-> source, lookups |-> lookups, order |-> "none", ids |-> <<>>, cut |-> 0]

Holds(b) == /\ bkt' = b
            /\ derived' = derived + 1
            /\ answer' = NoAnswer
            /\ UNCHANGED <<tbl, asOf, moments, tableChanges, uses>>

Derivable == derived < MaxDerived

(* OrmQueryCapability.filter and exclude: _normalize_kwargs resolves the   *)
(* search date against the as-of date, _build_bucket picks the live or the *)
(* historical table, and the run keeps the bucket it made; what is handed  *)
(* out is a copy that shares the queryset of the bucket kept.              *)
_build_bucket(op, v, date, a) ==
  MakeBucket(BaseQuery(<<<<op, v>>>>, IF date = 1 THEN "past" ELSE "live"), date,
             <<<<"source", date>>, <<op, v>>>>, TRUE, a)

_build_or_reuse_bucket(op, v, given) ==
  /\ Derivable
  /\ asOf = 0 \/ given \in {0, asOf}
  /\ LET date == IF given = 0 THEN asOf ELSE given
         signature == IF date = 1 THEN NoSignature ELSE <<<<"source", date>>, <<op, v>>>>
     IN \E a \in Addresses :
          /\ NewAddress(a)
          /\ IF Holding("bucket", signature)
             THEN /\ Holds([Cached("bucket", signature) EXCEPT !.address = a])
                  /\ UNCHANGED cache
             ELSE LET b == _build_bucket(op, v, date, a)
                  IN /\ Holds(b)
                     /\ cache' = Store("bucket", signature, b)

(* Derivations share guard and form; the new bucket replaces the one in hand. *)
Derive(q, date, trusted, cacheable) ==
  /\ Derivable
  /\ Compatible(bkt)
  /\ \E a \in Addresses :
       NewAddress(a) /\ Holds(MakeBucket(q, date, trusted, cacheable, a))
  /\ UNCHANGED cache

(* DatabaseBucket.filter/exclude by a column: Django refuses a sliced      *)
(* query.  A search date given to a live bucket is kept on the result and  *)
(* does not change the table the query reads.                              *)
Refine(op, v, given) ==
  /\ bkt.query.cut = 0
  /\ given = 0 \/ (Redates /\ given = 1)
  /\ bkt.date = 0 \/ given \in {0, bkt.date}
  /\ asOf = 0 \/ given \in {0, asOf}
  /\ Derive([bkt.query EXCEPT !.lookups = Append(@, <<op, v>>)],
            IF given = 0 THEN bkt.date ELSE given,
            Trusting(bkt, <<op, v>>), bkt.cacheable)

(* A filter on a Python-only property: the candidates are read now, and    *)
(* the query narrowed to the primary keys that passed                      *)
(* (__parse_filter_definitions, __parse_python_filters).                   *)
RefinePython(v) ==
  /\ bkt.query.cut = 0
  /\ LET rows == RowsOf(bkt.query, tbl)
         ids == {r[1] : r \in {rr \in ToSet(rows) : rr[2] = v}}
     IN Derive([bkt.query EXCEPT !.lookups = Append(@, <<"in", ids>>)],
               bkt.date, <<>>, bkt.cacheable)

(* sort, by a column the database orders by: the trusted signature stays. *)
Order(direction) ==
  /\ bkt.query.cut = 0
  /\ Derive([bkt.query EXCEPT !.order = direction], bkt.date, bkt.trusted, bkt.cacheable)

(* bucket | Manager.filter(...): a union has no signature. *)
Unite(v) ==
  /\ bkt.query.cut = 0 /\ bkt.query.ids = <<>>
  /\ Len(bkt.query.lookups) = 1 /\ bkt.query.lookups[1][1] = "filter"
  /\ Derive([bkt.query EXCEPT !.lookups = <<<<"either", {v, bkt.query.lookups[1][2]}>>>>],
            bkt.date, <<>>, FALSE)

(* bucket[:1] *)
Cut == /\ bkt.query.cut = 0
       /\ Derive([bkt.query EXCEPT !.cut = 1], bkt.date, <<>>, bkt.cacheable)

(* all *)
All == Derive(bkt.query, bkt.date, bkt.trusted, bkt.cacheable)

(* none *)
None == Derive([bkt.query EXCEPT !.lookups = Append(@, <<"never">>)], bkt.date, <<>>,
               bkt.cacheable)

(* with_instances: filter(id__in) on the managers given, none without any. *)
with_instances(pks) ==
  IF pks = {} THEN None
  ELSE /\ bkt.query.cut = 0
       /\ Derive([bkt.query EXCEPT !.lookups = Append(@, <<"in", pks>>)], bkt.date,
                 Trusting(bkt, <<"in", pks>>), bkt.cacheable)

(* Pickling reads the primary keys past every snapshot, and restoring      *)
(* selects them from the live model, in that order, whatever the search    *)
(* date (__reduce__, _restore_database_bucket_from_primary_keys); a bucket *)
(* of a historical table is left out, its rows being of another model.     *)
Pickle ==
  /\ bkt.query.source = "live"
  /\ LET pks == PksOf(RowsOf(bkt.query, tbl))
     IN Derive([BaseQuery(IF pks = <<>> THEN <<<<"never">>>> ELSE <<>>, "live")
                  EXCEPT !.ids = pks], bkt.date, <<>>, TRUE)

-----------------------------------------------------------------------------
(* Reading a bucket. *)

Sig == bkt.signature

(* The queryset's own result cache: filled by iterating it, used by what   *)
(* reads the same queryset afterwards.                                     *)
Loaded == bkt.loaded # NotLoaded
FromQueryset == IF Loaded THEN bkt.loaded[1] ELSE RowsOf(bkt.query, tbl)

(* _get_run_scoped_rows: the row snapshot, made from the database when the *)
(* run has none and the result is not too large.                           *)
FreshRows == RowsOf(bkt.query, tbl)
HasRows == \/ Holding("rows", Sig)
           \/ InRun /\ Sig # NoSignature /\ Len(FromQueryset) <= SnapshotLimit
_get_run_scoped_rows == IF Holding("rows", Sig) THEN Cached("rows", Sig) ELSE FromQueryset
WithRows ==
  IF Holding("rows", Sig) THEN Nothing
  ELSE [k \in {CacheKey("rows", Sig), CacheKey("pks", Sig)} |->
          IF k[2] = "rows" THEN FromQueryset ELSE PksOf(FromQueryset)]

(* A manager made from a primary key reads its row when used. *)
Lazily(pks) == IF \E p \in ToSet(pks) : tbl[p] = NoRow THEN Raises
               ELSE <<[i \in 1..Len(pks) |-> <<pks[i], tbl[pks[i]]>>]>>

(* __iter__: the managers of the run, else its rows, else its primary      *)
(* keys, else the queryset.                                                *)
Iteration ==
  CASE Holding("managers", Sig) ->
         [rows |-> <<Cached("managers", Sig)>>, entries |-> Nothing, loaded |-> bkt.loaded]
    [] ~Holding("managers", Sig) /\ HasRows ->
         [rows |-> <<_get_run_scoped_rows>>,
          entries |-> WithRows @@ Entry(CacheKey("managers", Sig), _get_run_scoped_rows),
          loaded |-> bkt.loaded]
    [] ~Holding("managers", Sig) /\ ~HasRows /\ Holding("pks", Sig) ->
         [rows |-> IF bkt.query.source = "past" THEN Raises ELSE Lazily(Cached("pks", Sig)),
          entries |-> Nothing, loaded |-> bkt.loaded]
    [] OTHER -> [rows |-> <<FromQueryset>>, entries |-> Nothing, loaded |-> <<FromQueryset>>]

Use == uses < MaxUses /\ uses' = uses + 1

(* An answer; iterating a queryset loads it for every bucket that wraps it. *)
Answers(op, value, entries, loaded) ==
  /\ Use
  /\ Compatible(bkt)
  /\ answer' = <<[bucket |-> bkt, op |-> op, value |-> value, asOf |-> asOf]>>
  /\ cache' = LET after == Storing(entries)
              IN IF ~InRun THEN NoRun
                 ELSE <<[k \in DOMAIN after[1] |->
                           IF k[2] = "bucket" /\ after[1][k].queryset = bkt.queryset
                           THEN [after[1][k] EXCEPT !.loaded = loaded] ELSE after[1][k]]>>
  /\ bkt' = [bkt EXCEPT !.loaded = loaded]
  /\ moments' = IF Loaded THEN moments \cup bkt.seen ELSE moments
  /\ UNCHANGED <<tbl, asOf, derived, tableChanges>>

(* A read that leaves the run's snapshots and the queryset alone. *)
Reads(op, value) == Answers(op, <<value>>, Nothing, bkt.loaded)

(* _ensure_as_of_compatible raises for every operation of a bucket of      *)
(* another date.                                                           *)
Refused == /\ ~Compatible(bkt)
           /\ answer' = <<[bucket |-> bkt, op |-> <<"list">>, value |-> Raises, asOf |-> asOf]>>
           /\ UNCHANGED <<tbl, asOf, cache, bkt, moments, derived, tableChanges, uses>>

__iter__ == Answers(<<"list">>, IF Iteration.rows = Raises THEN Raises
                              ELSE <<PksOf(Iteration.rows[1])>>,
                    Iteration.entries, Iteration.loaded)

FirstOf(s) == IF s = <<>> THEN <<>> ELSE <<s[1]>>
LastOf(s) == IF s = <<>> THEN <<>> ELSE <<s[Len(s)]>>

(* The snapshot peeked at before the database: rows, then primary keys. *)
Peeked == Holding("rows", Sig) \/ Holding("pks", Sig)
PeekedPks == IF Holding("rows", Sig) THEN PksOf(Cached("rows", Sig)) ELSE Cached("pks", Sig)

(* A value read from the queryset and kept in the run. *)
ReadsAndKeeps(op, kind, value) ==
  Answers(op, <<value>>,
          IF Sig = NoSignature THEN Nothing ELSE Entry(CacheKey(kind, Sig), value), bkt.loaded)

first ==
  CASE Peeked -> Reads(<<"first">>, FirstOf(PeekedPks))
    [] ~Peeked /\ Holding("first", Sig) -> Reads(<<"first">>, Cached("first", Sig))
    [] OTHER -> ReadsAndKeeps(<<"first">>, "first",
                  FirstOf(PksOf(IF bkt.query.order = "none" THEN FreshRows ELSE FromQueryset)))

(* last reverses the query, which makes a new one. *)
last == Reads(<<"last">>, LastOf(IF Peeked THEN PeekedPks ELSE PksOf(FreshRows)))

(* count: a query with conditions is materialized for its count. *)
count ==
  IF InRun /\ bkt.query.lookups # <<>> /\ HasRows
  THEN Answers(<<"count">>, <<Len(_get_run_scoped_rows)>>, WithRows, bkt.loaded)
  ELSE Reads(<<"count">>, Len(IF Holding("pks", Sig) THEN Cached("pks", Sig) ELSE FromQueryset))

__bool__ ==
  CASE Peeked -> Reads(<<"bool">>, PeekedPks # <<>>)
    [] ~Peeked /\ Holding("exists", Sig) -> Reads(<<"bool">>, Cached("exists", Sig))
    [] OTHER -> ReadsAndKeeps(<<"bool">>, "exists", FromQueryset # <<>>)

(* get(pk=...) and `in`: from the snapshot, else a query of its own. *)
get(pk) ==
  Reads(<<"get", pk>>, pk \in ToSet(IF Peeked THEN PeekedPks ELSE PksOf(FreshRows)))
__contains__(pk) ==
  Reads(<<"get", pk>>,
        pk \in ToSet(IF Holding("pks", Sig) THEN Cached("pks", Sig) ELSE PksOf(FreshRows)))

(* bucket[i]; an index past the end raises. *)
__getitem__(i) ==
  LET pks == IF Peeked THEN PeekedPks ELSE PksOf(FromQueryset)
  IN IF i > Len(pks) THEN Answers(<<"item", i>>, Raises, Nothing, bkt.loaded)
     ELSE Reads(<<"item", i>>, pks[i])

(* build_unique_bucket_index, build_multi_bucket_index: refused for too    *)
(* many rows and, unless many, for a key held by two rows.                 *)
CannotIndex(rows, many, maxRows) ==
  \/ rows = Raises
  \/ Len(rows[1]) > maxRows
  \/ ~many /\ \E i, j \in 1..Len(rows[1]) : i # j /\ rows[1][i][2] = rows[1][j][2]

(* index_by and index_many: kept in the run by source signature, built by  *)
(* iterating.  A build that raises is not kept.                            *)
Index(many, maxRows) ==
  LET source == <<_bucket_index_source_signature(bkt), many, maxRows>>
      rows == Iteration.rows
  IN IF Holding("index", source) THEN Reads(<<"index">>, Cached("index", source))
     ELSE IF CannotIndex(rows, many, maxRows)
     THEN Answers(<<"index">>, Raises, Iteration.entries, Iteration.loaded)
     ELSE Answers(<<"index">>, <<ToSet(rows[1])>>,
                  Iteration.entries @@ Entry(CacheKey("index", source), ToSet(rows[1])),
                  Iteration.loaded)

(* project_bucket_rows: the key of the rows projected on some fields. *)
ProjectionSource(native) == <<_bucket_index_source_signature(bkt), native>>

(* values, values_list: the columns are read straight from the database    *)
(* (_native_projection_plan), or through iteration when a field is not a   *)
(* plain column; the rows are kept in the run by source signature.         *)
Project(native) ==
  LET source == ProjectionSource(native)
      rows == IF native THEN <<FreshRows>> ELSE Iteration.rows
      entries == IF native THEN Nothing ELSE Iteration.entries
      loaded == IF native THEN bkt.loaded ELSE Iteration.loaded
  IN IF Holding("values", source) THEN Reads(<<"index">>, Cached("values", source))
     ELSE IF rows = Raises THEN Answers(<<"index">>, Raises, entries, loaded)
     ELSE Answers(<<"index">>, <<ToSet(rows[1])>>,
                  entries @@ Entry(CacheKey("values", source), ToSet(rows[1])), loaded)

-----------------------------------------------------------------------------
(* The surroundings: the run, the as-of block, writes, eviction. *)

(* as_of(date) entered and left. *)
AsOf(date) == /\ asOf # date
              /\ asOf' = date
              /\ answer' = NoAnswer
              /\ UNCHANGED <<tbl, cache, bkt, moments, derived, tableChanges, uses>>

Changed(pk, column) ==
  /\ tableChanges < MaxTableChanges
  /\ column # tbl[pk]
  /\ tbl' = [tbl EXCEPT ![pk] = column]
  /\ bkt' = [bkt EXCEPT !.seen = @ \cup {tbl'}]
  /\ answer' = NoAnswer
  /\ tableChanges' = tableChanges + 1
  /\ UNCHANGED <<asOf, derived, uses>>

(* A create, update or delete of this process; refused inside as_of. *)
OwnWrite(pk, column) ==
  /\ asOf = 0
  /\ Changed(pk, column)
  /\ cache' = Cleared(cache)
  /\ moments' = {tbl'}

OtherWrite(pk, column) ==
  /\ Changed(pk, column)
  /\ moments' = IF InRun THEN moments \cup {tbl'} ELSE {tbl'}
  /\ UNCHANGED cache

(* Storing what a read produced lets the run-cache budget evict a value. *)
EvictValue(k) ==
  /\ answer # NoAnswer
  /\ cache' = <<[kk \in DOMAIN Values \ {k} |-> Values[kk]]>>
  /\ answer' = NoAnswer
  /\ UNCHANGED <<tbl, asOf, bkt, moments, derived, tableChanges, uses>>

(* Outside a run or at the start of one, with a bucket made before it and  *)
(* perhaps iterated already.                                               *)
BucketInit ==
  /\ derived = 1
  /\ tbl = [p \in Pks |-> IF p = 1 THEN 0 ELSE IF p = 2 THEN 1 ELSE NoRow]
  /\ asOf = 0
  /\ cache \in {NoRun, <<Nothing>>}
  /\ LET b == _build_bucket("filter", 0, 0, 1)
     IN bkt \in {b, [b EXCEPT !.loaded = <<RowsOf(b.query, tbl)>>]}
  /\ answer = NoAnswer
  /\ moments = {tbl}
  /\ tableChanges = 0 /\ uses = 0

BucketRead ==
  \/ __iter__ \/ first \/ last \/ count \/ __bool__
  \/ \E w \in Written : get(w[1]) \/ __contains__(w[1])
  \/ __getitem__(1)
  \/ \E many \in BOOLEAN : Index(many, SnapshotLimit + 1)
  \/ \E native \in BOOLEAN : Project(native)
  \/ Refused

\* What happens after the last read is not looked at.
BucketStep ==
  \/ \E l \in Lookups, date \in {0, 1} :
       _build_or_reuse_bucket(l[1], l[2], date) \/ Refine(l[1], l[2], date)
  \/ RefinePython(0) \/ Unite(1)
  \/ \E direction \in {"up", "down"} : Order(direction)
  \/ Cut \/ All \/ Pickle
  \/ \E pks \in {{}, {1}} : with_instances(pks)
  \/ \E date \in {0, 1} : AsOf(date)
  \/ \E w \in Written : OwnWrite(w[1], w[2]) \/ OtherWrite(w[1], w[2])
  \/ InRun /\ \E k \in DOMAIN Values : EvictValue(k)

BucketNext == BucketRead \/ (uses < MaxUses /\ BucketStep)

BucketSpec == BucketInit /\ [][BucketNext]_bucketVars

-----------------------------------------------------------------------------
(* What an operation returns for the rows of a query. *)
Returns(op, rows) ==
  CASE op[1] = "list" -> PksOf(rows)
    [] op[1] = "first" -> FirstOf(PksOf(rows))
    [] op[1] = "last" -> LastOf(PksOf(rows))
    [] op[1] = "count" -> Len(rows)
    [] op[1] = "bool" -> rows # <<>>
    [] op[1] = "get" -> op[2] \in ToSet(PksOf(rows))
    [] op[1] = "item" -> IF op[2] > Len(rows) THEN NoRow ELSE PksOf(rows)[op[2]]

Told == answer[1]

(* Every answer is what the database would have answered to this bucket's  *)
(* own query at one moment since the run began or last wrote (or since the *)
(* making of a bucket that was iterated before and is read again, whose    *)
(* queryset keeps its rows and passes them on to the run): whatever the    *)
(* order of derivations, reads, evictions, as-of blocks and writes, no     *)
(* snapshot of another query, of before an own write or of another date is *)
(* served.  An index may mix two moments when its managers were made from  *)
(* primary keys, so each of its pairs and its set of rows are judged apart.*)
AnswersWereTrue ==
  (answer # NoAnswer /\ Told.value # Raises) =>
    LET results == {RowsOf(Told.bucket.query, t) : t \in moments}
        value == Told.value[1]
    IN IF Told.op = <<"index">>
       THEN /\ \E rows \in results : ToSet(PksOf(rows)) = {p[1] : p \in value}
            /\ \A p \in value : \E t \in moments :
                 (IF Told.bucket.query.source = "past" THEN Past ELSE t)[p[1]] = p[2]
       ELSE \E rows \in results : value = Returns(Told.op, rows)

(* Inside as_of(date) a bucket never answers from the live table. *)
HistoricalAnswersOnly ==
  (answer # NoAnswer /\ Told.value # Raises /\ Told.asOf = 1) =>
    Told.bucket.query.source = "past"
=============================================================================
