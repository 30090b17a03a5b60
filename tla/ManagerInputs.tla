---------------------------- MODULE ManagerInputs ----------------------------
(* Construction of a manager from its inputs (interface/base_interface.py,  *)
(* manager/input.py).  A call gives raw values by position, by name or under *)
(* the alias "<name>_id"; the interface casts, normalizes and validates them *)
(* in the order of their dependencies and stores the identification, from    *)
(* which pickling and reloading construct the manager again.  The possible   *)
(* values of an input are computed once per calculation run and dependency   *)
(* values; other workers may change the rows behind them.                    *)
EXTENDS Naturals, Sequences, FiniteSets, Functions, SequencesExt

CONSTANTS
  Declarations,   \* sequences of inputs
  Alters,         \* pairs of declarations: input_fields edited at run time
  Raws,           \* Raws[type]: the raw values callers give an input of the type
  Offer,          \* Offer[w][d]: the choices a query gives dependency d at moment w
  MaxChanges      \* bound on changes of the rows behind the choices

VARIABLES
  decl,    \* the interface's input_fields
  plan,    \* the parsing plan and dependency order kept on the class
  mode,    \* the settings: values are validated, a calculation run is active
  world,   \* the moment of the data behind the choices
  seen,    \* the moments the run's kept choices may stem from
  kept,    \* the run's kept choices, by input and frozen dependency values
  asked,   \* what the current call means
  said     \* its outcome

inputVars == <<decl, plan, mode, world, seen, kept, asked, said>>

-----------------------------------------------------------------------------
(* Values. *)

Val(k, v) == [k |-> k, v |-> v]
None == Val("none", 0)
Wrong == Val("raised", 0)

Names(d) == {d[i].name : i \in DOMAIN d}
Field(d, n) == d[CHOOSE i \in DOMAIN d : d[i].name = n]
Required(d) == {n \in Names(d) : Field(d, n).required}
NameSeq(d) == [i \in DOMAIN d |-> d[i].name]

\* A text with the value 0 is one no type parses; a map is an identification.
Manager(v) == CASE v.k = "map" -> Val("manager", v.v)
                [] v.k \in {"int", "text"} /\ v.v # 0 -> Val("manager", v.v)
                [] OTHER -> Wrong

Typed(f, v) ==
  CASE v.k \in {"none", f.type} -> v
    [] f.type = "date" /\ v.k \in {"datetime", "text"} /\ v.v # 0 -> Val("date", v.v)
    [] f.type = "int" /\ v.k = "text" /\ v.v # 0 -> Val("int", v.v)
    [] f.type = "manager" -> Manager(v)
    [] OTHER -> Wrong

\* DateRangeDomain.normalize: days 1 and 2 form a period, 3 and 4 the next.
Period(v) == [v EXCEPT !.v = 2 * ((@ + 1) \div 2)]

\* The helper's normalizer is called with the value and then the dependency
\* values by position: with dependencies, the first of them takes the domain's
\* place, and it has no normalize().
normalize(f, v) ==
  CASE v \in {None, Wrong} \/ f.choices # "periods" -> v
    [] f.after # << >> -> Wrong
    [] OTHER -> Period(v)

cast(f, v) == normalize(f, Typed(f, v))

\* The identification: managers by their own identification.
Format(ident) == [n \in DOMAIN ident |->
  IF ident[n].k = "manager" THEN Val("map", ident[n].v) ELSE ident[n]]

-----------------------------------------------------------------------------
(* The plan kept on the class. *)

NoPlan == [fields |-> << >>, order |-> << >>, ordered |-> FALSE]

\* A mutant's refresh: the dependency order survives an edited declaration.
KeepsOrder(d) == [plan EXCEPT !.fields = d]

PlanOf(d) == IF plan.fields = d THEN plan ELSE [NoPlan EXCEPT !.fields = d]

\* Repeated passes over the declaration; unresolved names stay out.
Pass(d, ordered) ==
  FoldLeft(LAMBDA w, f : IF f.name \notin ToSet(w) /\ ToSet(f.after) \subseteq ToSet(w)
                         THEN Append(w, f.name) ELSE w, ordered, d)

Ordering(d) == FoldLeft(LAMBDA w, f : Pass(d, w), << >>, d)

\* The order is kept only when it covers every input.
_get_input_dependency_order(p) ==
  LET ordered == Ordering(p.fields)
  IN  IF p.ordered THEN p
      ELSE [p EXCEPT !.order = ordered, !.ordered = Len(ordered) = Len(p.fields)]

-----------------------------------------------------------------------------
(* Casting and validating the inputs, in order. *)

DepValues(f, ident) == [i \in DOMAIN f.after |-> ident[f.after[i]]]

\* A mutant's key: the choices of one dependency value serve every other.
KeyWithoutDependencies(f, ident) == <<f.name>>

_possible_values_run_cache_key(f, ident) == <<f.name, DepValues(f, ident)>>

Offered(f, ident) == Offer[world][ident[f.after[1]].v]

resolve_possible_values(f, ident, k) ==
  LET key == _possible_values_run_cache_key(f, ident)
  IN  IF mode.run /\ key \in DOMAIN k THEN k[key] ELSE Offered(f, ident)

InBounds(f, v) == v.v \in f.low .. f.high

\* The validator compares the value with its first dependency.
Satisfies(f, v, ident) == f.validator => v.v <= ident[f.after[1]].v

\* The work on one input: w carries the identification so far, the kept choices
\* and whether an input has raised.
_process_input_field(w, f, v) ==
  LET offered == resolve_possible_values(f, w.ident, w.kept)
      asks == mode.checked /\ f.choices = "query" /\ v # None
      reaches == InBounds(f, v) /\ Satisfies(f, v, w.ident)
      key == _possible_values_run_cache_key(f, w.ident)
  IN  CASE v = Wrong \/ (v = None /\ f.required) -> [w EXCEPT !.failed = TRUE]
        [] ~ ToSet(f.after) \subseteq DOMAIN w.ident -> [w EXCEPT !.failed = TRUE]
        [] v = None -> [w EXCEPT !.ident = @ @@ (f.name :> v)]
        [] ~ reaches -> [w EXCEPT !.failed = TRUE]
        [] OTHER ->
             [ident |-> w.ident @@ (f.name :> v),
              failed |-> asks /\ v.v \notin offered,
              kept |-> IF asks /\ mode.run THEN w.kept @@ (key :> offered) ELSE w.kept]

Process(d, order, kwargs) ==
  FoldLeft(LAMBDA w, n :
             LET f == Field(d, n)
                 v == cast(f, IF <<n, FALSE>> \in DOMAIN kwargs THEN kwargs[<<n, FALSE>>] ELSE None)
             IN  IF w.failed THEN w ELSE _process_input_field(w, f, v),
           [ident |-> << >>, failed |-> FALSE, kept |-> kept], order)

-----------------------------------------------------------------------------
(* A call.  A keyword is a name and whether it is the name's alias. *)

Refused == [failed |-> TRUE, ident |-> << >>, kept |-> kept, order |-> FALSE]

\* args_to_kwargs: positional values take the names in declaration order.
args_to_kwargs(d, args, kwargs) ==
  [n \in {<<d[i].name, FALSE>> : i \in DOMAIN args} |->
     args[CHOOSE i \in DOMAIN args : d[i].name = n[1]]] @@ kwargs

\* An alias overwrites its input's value.
Renamed(kwargs) ==
  [n \in {<<k[1], FALSE>> : k \in DOMAIN kwargs} |->
     IF <<n[1], TRUE>> \in DOMAIN kwargs THEN kwargs[<<n[1], TRUE>>] ELSE kwargs[n]]

Plain(kwargs) == \A k \in DOMAIN kwargs : ~ k[2]
Given(kwargs) == {k[1] : k \in DOMAIN kwargs}

parse_input_fields_to_identification(p, args, kwargs) ==
  LET d == p.fields
      single == Len(d) = 1 /\ d[1].required /\ d[1].after = << >>
      fast == args = << >> /\ Plain(kwargs)
              /\ Given(kwargs) \subseteq Names(d) /\ Required(d) \subseteq Given(kwargs)
      dependent == \E i \in DOMAIN d : d[i].after # << >>
      q == _get_input_dependency_order(p)
      all == Renamed(args_to_kwargs(d, args, kwargs))
      clash == \E i \in DOMAIN args : <<d[i].name, FALSE>> \in DOMAIN kwargs
      Ends(w) == [failed |-> w.failed \/ Len(q.order) < Len(d), ident |-> w.ident,
                  kept |-> w.kept, order |-> TRUE]
  IN  CASE single /\ Len(args) = 1 /\ kwargs = << >> ->
             Process(d, NameSeq(d), <<d[1].name, FALSE>> :> args[1]) @@ [order |-> FALSE]
        [] single /\ args = << >> /\ DOMAIN kwargs = {<<d[1].name, FALSE>>} ->
             Process(d, NameSeq(d), kwargs) @@ [order |-> FALSE]
        [] fast /\ ~ dependent -> Process(d, NameSeq(d), kwargs) @@ [order |-> FALSE]
        [] fast -> Ends(Process(d, q.order, kwargs))
        [] Len(args) > Len(d) -> Refused
        [] clash \/ ~ Given(kwargs) \subseteq Names(d) -> Refused
        [] ~ Required(d) \subseteq Given(all) -> Refused
        [] OTHER -> Ends(Process(d, q.order, all))

-----------------------------------------------------------------------------
Nothing == [kind |-> "none", ok |-> FALSE, ident |-> << >>]
NoCall == [sane |-> FALSE, given |-> << >>, at |-> {}]

InputInit ==
  /\ decl \in Declarations
  /\ plan = NoPlan
  /\ mode \in [checked : BOOLEAN, run : BOOLEAN]
  /\ world = 0
  /\ seen = {0}
  /\ kept = << >>
  /\ asked = NoCall
  /\ said = Nothing

\* The keywords for the names in rest, all plain or all aliases.
Keywords(given, rest, aliased) == [k \in {<<n, aliased>> : n \in rest} |-> given[k[1]]]

\* InterfaceBase.__init__ and GeneralManager.__init__.
Parse(kind, args, kwargs, call) ==
  LET p == PlanOf(decl)
      w == parse_input_fields_to_identification(p, args, kwargs)
  IN  /\ plan' = IF w.order THEN _get_input_dependency_order(p) ELSE p
      /\ kept' = w.kept
      /\ asked' = [call EXCEPT !.at = seen]
      /\ said' = [kind |-> kind, ok |-> ~ w.failed,
                  ident |-> IF w.failed THEN << >> ELSE Format(w.ident)]
      /\ UNCHANGED <<decl, mode, world, seen>>

\* The first n inputs by position, the others by name or by alias.
Construct(given, n, aliased) ==
  LET first == {decl[i].name : i \in 1..n}
  IN  /\ first \subseteq DOMAIN given
      /\ Parse("made", [i \in 1..n |-> given[decl[i].name]],
               Keywords(given, DOMAIN given \ first, aliased),
               [NoCall EXCEPT !.sane = TRUE, !.given = given])

\* A value too many, a name given twice, a name that is no input.
Misuse(n, key) ==
  /\ said = Nothing
  /\ key = << >> => n > Len(decl)
  /\ Parse("made", [i \in 1..n |-> None], IF key = << >> THEN << >> ELSE key :> None, NoCall)

\* Unpickling gives the identification's values by position
\* (_reconstruct_general_manager), a reload gives them by name.
Rebuild(byName) ==
  /\ said.ok
  /\ Parse("rebuilt",
           IF byName THEN << >> ELSE [i \in DOMAIN decl |-> said.ident[decl[i].name]],
           IF byName THEN Keywords(said.ident, Names(decl), FALSE) ELSE << >>,
           [NoCall EXCEPT !.sane = TRUE, !.given = said.ident])

\* A write of this run drops its kept choices; one of another worker does not.
DataChange(own) ==
  /\ world < MaxChanges
  /\ world' = world + 1
  /\ kept' = IF own THEN << >> ELSE kept
  /\ seen' = IF own \/ ~ mode.run THEN {world'} ELSE seen \cup {world'}
  /\ UNCHANGED <<decl, plan, mode, asked, said>>

\* input_fields is edited; the plan finds out at the next call.
Redeclare ==
  /\ said = Nothing
  /\ \E d \in Declarations : <<decl, d>> \in Alters /\ decl' = d
  /\ kept' = << >>
  /\ seen' = {world}
  /\ UNCHANGED <<plan, mode, world, asked, said>>

Forget ==
  /\ said # Nothing
  /\ said' = Nothing /\ asked' = NoCall
  /\ UNCHANGED <<decl, plan, mode, world, seen, kept>>

\* Every way to give some of the inputs a raw value of their type.
Calls ==
  FoldLeft(LAMBDA gs, f : gs \cup {g @@ (f.name :> v) : g \in gs, v \in Raws[f.type]},
           {<< >>}, decl)

InputNext ==
  \/ /\ said = Nothing
     /\ \E given \in Calls, n \in 0..Len(decl), aliased \in BOOLEAN : Construct(given, n, aliased)
  \/ \E n \in 1..Len(decl) + 1,
        key \in {<<decl[1].name, FALSE>>, <<"z", FALSE>>, << >>} : Misuse(n, key)
  \/ \E byName \in BOOLEAN : Rebuild(byName)
  \/ \E own \in BOOLEAN : DataChange(own)
  \/ Redeclare
  \/ Forget

InputSpec == InputInit /\ [][InputNext]_inputVars

-----------------------------------------------------------------------------
(* Properties.  Meant and Acceptable read the declaration only: no order, no *)
(* style of call, no kept choices.                                           *)

Meant(n) ==
  LET f == Field(decl, n)
      v == Typed(f, IF n \in DOMAIN asked.given THEN asked.given[n] ELSE None)
  IN  IF f.choices = "periods" /\ v \notin {None, Wrong} THEN Period(v) ELSE v

Acceptable(n, w) ==
  LET f == Field(decl, n)
      v == Meant(n)
      on == IF f.after = << >> THEN None ELSE Meant(f.after[1])
  IN  CASE v = Wrong -> FALSE
        [] v = None -> ~ f.required
        [] OTHER -> /\ v.v \in f.low .. f.high
                    /\ f.validator => v.v <= on.v
                    /\ mode.checked /\ f.choices = "query" => v.v \in Offer[w][on.v]

Circular == \E S \in SUBSET Names(decl) \ {{}} :
  \A n \in S : \E m \in ToSet(Field(decl, n).after) : m \in S \/ m \notin Names(decl)

\* A call's outcome depends on what it gives each input, and on nothing else:
\* it is accepted only with acceptable values, each judged with its own
\* dependencies' choices as they were at a moment of the run, and refused only
\* for a value that was not (parse_input_fields_to_identification and its three
\* paths, _process_input_field, resolve_possible_values).
AcceptsWhatIsDeclared ==
  said.kind # "none" /\ asked.sane =>
    IF said.ok
    THEN /\ ~ Circular
         /\ \A n \in Names(decl) : \E w \in asked.at : Acceptable(n, w)
         /\ said.ident = Format([n \in Names(decl) |-> Meant(n)])
    ELSE \/ Circular
         \/ \E n \in Names(decl), w \in asked.at : ~ Acceptable(n, w)

\* Whatever a manager is rebuilt from, pickled positions or reloaded names, it
\* is the manager it was (_reconstruct_general_manager, _reload_interface_state).
RebuildsItself ==
  said.kind = "rebuilt" /\ said.ok => said.ident = asked.given

=============================================================================
