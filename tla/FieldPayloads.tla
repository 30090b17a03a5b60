---------------------------- MODULE FieldPayloads ----------------------------
(***************************************************************************)
(* What a client can write of a model: the attributes that an interface    *)
(* derives from a model's fields (orm_utils/field_descriptors.py), the     *)
(* arguments of the generated GraphQL mutations and what they become       *)
(* (api/graphql_mutations.py), and the payload that the ORM layer checks,  *)
(* splits and assigns (orm_utils/payload_normalizer.py, orm/mutations.py). *)
(* All these steps go by names and suffixes.                               *)
(*                                                                         *)
(* A name is the sequence of its parts: x_id_list is <<"x","_id","_list">>. *)
(***************************************************************************)
EXTENDS Integers, Sequences, FiniteSets, SequencesExt

CONSTANTS
  Models    \* the models: sets of fields [name, kind, to, default, editable, back]
            \*   kind  custom, plain, fk, m2m: the model's own fields, custom ones
            \*         with helper columns; rev_one, rev_many, rev_m2m: relations
            \*         that point at it, named as Django does
            \*   to    "manager" if the other side has one, else "model"
            \*   back  the field of the other side that points here

VARIABLES
  model,     \* the model
  schema,    \* its descriptors by attribute name, <<>> before, "duplicate"
  call,      \* the mutation under way: operation and the arguments given
  stored     \* what it did: [field, value] pairs, or the key it refused

payVars == <<model, schema, call, stored>>

NoCall == [op |-> "none", given |-> {}]

EndsIn(name, suffix) ==
  Len(name) > Len(suffix) /\ SubSeq(name, Len(name) - Len(suffix) + 1, Len(name)) = suffix
Without(name, suffix) == SubSeq(name, 1, Len(name) - Len(suffix))
Id == <<"_id">>
List == <<"_list">>
IdList == <<"_id", "_list">>

OwnKinds == {"custom", "plain", "fk", "m2m"}
Of(kinds) == SetToSeq({f \in model : f.kind \in kinds})

PayInit ==
  /\ model \in Models
  /\ schema = <<>> /\ call = NoCall /\ stored = {}

-----------------------------------------------------------------------------
(* Descriptors.  A registration tries its candidates in turn; one that may   *)
(* be left out gives way to an attribute of its name.                       *)

Registration(candidates, yields, f, type, relation, editable, derived) ==
  [candidates |-> candidates, yields |-> yields,
   info |-> [field |-> f.name, type |-> type, relation |-> relation,
             is_editable |-> editable, is_derived |-> derived, default |-> f.default]]

\* The columns c_value and c_unit of a custom field c.
_collect_custom_fields ==
  UNION {{f.name \o <<"_value">>, f.name \o <<"_unit">>} : f \in {g \in model : g.kind = "custom"}}

Own == {f \in model : f.kind \in OwnKinds /\ f.name \notin _collect_custom_fields}

Plainly(fields) ==
  [i \in DOMAIN fields |->
     Registration(<<fields[i].name>>, FALSE, fields[i], "value", "none",
                  fields[i].editable, FALSE)]
_add_custom_fields == Plainly(Of({"custom"}))
_add_model_fields ==
  Plainly(SelectSeq(Of({"plain"}), LAMBDA f : f.name \notin _collect_custom_fields))

\* The relation, and its raw id column under a name that is not editable.
_add_foreign_key_fields ==
  FlattenSeq([i \in DOMAIN Of({"fk"}) |->
    LET f == Of({"fk"})[i] IN
    <<Registration(<<f.name>>, FALSE, f, f.to, "direct", f.editable, FALSE),
      Registration(<<f.name \o Id>>, TRUE, f, "value", "none", FALSE, FALSE)>>])

_add_reverse_one_to_one_relations ==
  [i \in DOMAIN Of({"rev_one"}) |->
     LET f == Of({"rev_one"})[i]
     IN  Registration(<<f.name>>, TRUE, f, f.to, "direct", FALSE, TRUE)]

\* A relation has its own name only.
FirstCandidateOnly(f) == <<f.name>>

\* _resolve_collection_base_name: the name, Django's accessor, then what the
\* other side's field suggests.
_resolve_collection_base_name(f) ==
  CASE f.kind = "m2m" -> <<f.name>>
    [] f.kind = "rev_m2m" -> <<f.name, f.back[1] \o <<"_">> \o f.name, f.back[1]>>
    [] f.kind = "rev_many" ->
         <<f.name, f.name \o <<"_set">>, f.back[1] \o <<"_">> \o f.name, f.back[1]>>

_register_collection_field(f) ==
  LET bases == _resolve_collection_base_name(f)
  IN  Registration([i \in DOMAIN bases |-> bases[i] \o List], FALSE, f, f.to, "collection",
                   f.editable /\ f.kind = "m2m", f.kind = "rev_many")

_add_collection_relations ==
  [i \in DOMAIN Of({"m2m", "rev_m2m"}) |-> _register_collection_field(Of({"m2m", "rev_m2m"})[i])]
  \o [i \in DOMAIN Of({"rev_many"}) |-> _register_collection_field(Of({"rev_many"})[i])]

\* DuplicateFieldNameError: no candidate is free; built is <<>> from then on.
_register(built, r) ==
  IF built = <<>> THEN <<>>
  ELSE LET free == SelectSeq(r.candidates, LAMBDA n : n \notin DOMAIN built[1]) IN
       IF free # <<>>
       THEN <<[n \in DOMAIN built[1] \union {free[1]} |->
                 IF n = free[1] THEN r.info ELSE built[1][n]]>>
       ELSE IF r.yields THEN built ELSE <<>>

build ==
  FoldLeft(_register, <<[n \in {} |-> 0]>>,
           _add_custom_fields \o _add_model_fields \o _add_foreign_key_fields
           \o _add_reverse_one_to_one_relations \o _add_collection_relations)

build_field_descriptors ==
  /\ schema = <<>> /\ call = NoCall
  /\ schema' = build
  /\ call' = [NoCall EXCEPT !.op = IF build = <<>> THEN "duplicate" ELSE "ready"]
  /\ UNCHANGED <<model, stored>>

-----------------------------------------------------------------------------
(* Arguments. *)

Attributes == DOMAIN schema[1]
Info(n) == schema[1][n]
IsManager(n) == n \in Attributes /\ Info(n).type = "manager"

\* Raw id columns are hidden from derived relations as well.
AliasOfAnyDirect(n) ==
  \/ EndsIn(n, IdList) /\ IsManager(Without(n, IdList) \o List)
  \/ /\ EndsIn(n, Id) /\ Without(n, Id) \in Attributes
     /\ Info(Without(n, Id)).relation = "direct"

_is_direct_relation_raw_id_alias(n) ==
  \/ EndsIn(n, IdList) /\ IsManager(Without(n, IdList) \o List)
  \/ /\ EndsIn(n, Id) /\ Without(n, Id) \in Attributes
     /\ Info(Without(n, Id)).relation = "direct" /\ ~ Info(Without(n, Id)).is_derived

create_write_fields ==
  {n \in Attributes : ~ Info(n).is_derived /\ ~ _is_direct_relation_raw_id_alias(n)}

Arguments == {n \in create_write_fields : Info(n).is_editable}

\* graphene gives an argument that is left out the default of its field; those
\* without one are filtered, a relation's list is passed as null.
Passed(given) ==
  [n \in given \union {m \in Arguments : Info(m).default \/ Info(m).relation = "collection"} |->
     IF n \in given THEN "given"
     ELSE IF Info(n).relation = "collection" THEN "null" ELSE "default"]

\* Relations to managers are passed on by id.
ManagerKey(n) ==
  IF EndsIn(n, List) /\ ~ EndsIn(n, IdList) /\ IsManager(n) THEN Without(n, List) \o IdList
  ELSE IF ~ EndsIn(n, Id) /\ IsManager(n) THEN n \o Id ELSE n

\* setdefault: a key that is there already keeps its value.
_normalize_mutation_kwargs_for_manager(kwargs) ==
  [k \in {ManagerKey(n) : n \in DOMAIN kwargs} |->
     IF k \in DOMAIN kwargs THEN kwargs[k]
     ELSE kwargs[CHOOSE n \in DOMAIN kwargs : ManagerKey(n) = k]]

\* The argument a field's error is reported under.
_graphql_mutation_field_name(n) ==
  IF EndsIn(n, IdList) /\ IsManager(Without(n, IdList) \o List) THEN Without(n, IdList) \o List
  ELSE IF EndsIn(n, Id) /\ IsManager(Without(n, Id)) THEN Without(n, Id) ELSE n

-----------------------------------------------------------------------------
(* The ORM's payload. *)

ManyToMany == {f.name : f \in {g \in model : g.kind = "m2m"}}
Relations == {f.name : f \in {g \in model : g.kind = "fk"}}
Columns == {f.name \o Id : f \in {g \in model : g.kind = "fk"}}

\* Only the short suffix is taken off.
BaseOfListOnly(k) == IF EndsIn(k, List) THEN Without(k, List) ELSE k

_base_field_name(k) ==
  IF EndsIn(k, IdList) THEN Without(k, IdList)
  ELSE IF EndsIn(k, List) THEN Without(k, List) ELSE k

\* validate_keys: attributes of the model class, or names of its fields.
validate_keys(keys) ==
  \A k \in keys : _base_field_name(k) \in ManyToMany
                  \/ k \in {f.name : f \in model} \union Columns \union _collect_custom_fields

split_many_to_many(keys) == {k \in keys : _base_field_name(k) \in ManyToMany}

\* normalize_simple_values: a relation given by id is assigned to its column.
normalize_simple_values(k, value) ==
  IF k \in Relations /\ ~ EndsIn(k, Id) /\ value # "null" THEN k \o Id ELSE k

\* setattr: a column is its relation's, another name is a field's.
assign_simple_attributes(k, value) ==
  [field |-> IF k \in Columns THEN Without(k, Id) ELSE k, value |-> value]

\* normalize_many_values leaves out null, the others replace the relations.
normalize_payload(kwargs) ==
  LET keys == DOMAIN kwargs IN
  {assign_simple_attributes(normalize_simple_values(k, kwargs[k]), kwargs[k]) :
     k \in keys \ split_many_to_many(keys)}
  \union
  {[field |-> _base_field_name(k), value |-> kwargs[k]] :
     k \in {j \in split_many_to_many(keys) : kwargs[j] # "null"}}

\* create_mutation and update_mutation, from the arguments to the row.
Mutate(op, given) ==
  LET kwargs == _normalize_mutation_kwargs_for_manager(Passed(given)) IN
  /\ call.op = "ready"
  /\ call' = [op |-> op, given |-> given]
  /\ stored' = IF validate_keys(DOMAIN kwargs) THEN normalize_payload(kwargs)
               ELSE {[field |-> <<"unknown">>, value |-> "refused"]}
  /\ UNCHANGED <<model, schema>>

PayNext ==
  \/ build_field_descriptors
  \/ \E op \in {"create", "update"} :
       \E given \in (IF schema = <<>> THEN {} ELSE SUBSET Arguments) : Mutate(op, given)

-----------------------------------------------------------------------------
(* Properties. *)

\* Each editable field of the model is written by one argument, nothing else is,
\* and no relation hides another one, whatever their names (docs/concepts/graphql/schema_autogen.md).
EveryFieldOnce ==
  call.op # "none" =>
    /\ call.op # "duplicate"
    /\ \A f \in Own : Cardinality({n \in Arguments : Info(n).field = f.name})
                        = IF f.editable THEN 1 ELSE 0
    /\ \A f \in model :
         f.kind \notin {"plain", "rev_one"} => \E n \in Attributes : Info(n).field = f.name
    /\ \A n \in Arguments : \E f \in Own : f.name = Info(n).field

\* What the call gives, each value at the field that its argument stands for, and
\* the declared defaults of the arguments it leaves out.
Meant == {[field |-> Info(n).field, value |-> "given"] : n \in call.given}
Defaults ==
  {[field |-> Info(n).field, value |-> "default"] :
     n \in {m \in Arguments \ call.given : Info(m).default}}

\* What is given reaches the field its argument stands for, and no other field is
\* touched but for a declared default.  A create stores those defaults
\* (create_mutation, normalize_payload); whether an update may is the question of
\* UpdatesKeepOmitted.
ArgumentsReachTheirFields ==
  /\ call.op \in {"create", "update"} =>
       Meant \subseteq stored /\ stored \subseteq Meant \union Defaults
  /\ call.op = "create" => Defaults \subseteq stored

\* docs/concepts/graphql/schema_autogen.md: update mutations "make every generated
\* write field optional" and "filter out omitted Graphene NOT_PROVIDED values": an
\* update writes the fields that are given and no other one (create_write_fields,
\* update_mutation).
UpdatesKeepOmitted == call.op = "update" => stored = Meant

\* A field that fails validation is reported under the argument that writes it.
ErrorsNameArguments ==
  schema # <<>> =>
    \A n \in Arguments :
      /\ _graphql_mutation_field_name(ManagerKey(n)) = n
      /\ Info(n).relation # "collection" => _graphql_mutation_field_name(Info(n).field) = n

=============================================================================
