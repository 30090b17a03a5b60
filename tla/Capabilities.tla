---------------------------- MODULE Capabilities ----------------------------
(***************************************************************************)
(* How interfaces get their capabilities, and what the capabilities then   *)
(* have run at startup: the manifest builder, the binding of handlers, the *)
(* creation of a manager class around them, the registries of startup      *)
(* hooks and system checks, and the runner that orders the hooks.          *)
(*                                                                         *)
(* A manager class has two interface classes: the declared one, written by *)
(* the project, and the concrete one its lifecycle capability derives from *)
(* it.  Each binds its own handlers, and each binding of a handler makes   *)
(* new hook and check closures: handlers are numbered in the order they    *)
(* are bound, and a closure has the number of its handler.                 *)
(***************************************************************************)
EXTENDS Integers, Sequences, SequencesExt, FiniteSets, FiniteSetsExt

CONSTANTS
  Managers,    \* manager classes
  Kind,        \* "readonly", "database" or "calculation", by manager
  Points,      \* the managers a manager's model refers to
  Adds,        \* the extra capabilities its interface is configured with
  Lacks,       \* capabilities its interface lacks a required attribute for
  RebuildAt    \* bound: the counts of bound handlers at which a caller builds again

VARIABLES
  phase,       \* how far Django's startup is
  wiring,      \* capability state of each interface class
  bound,       \* concrete interfaces that know their manager and model
  hooks,       \* registered startup hooks, in order of their registration
  checks,      \* registered system checks
  serial,      \* handlers bound so far
  undone,      \* handlers whose build was taken back
  classes,     \* all_classes
  django,      \* identities and checks handed to Django
  ran          \* startup hooks run, in order

capVars == <<phase, wiring, bound, hooks, checks, serial, undone, classes, django, ran>>

Interfaces == {"declared", "concrete"} \X Managers
KindOf(i) == Kind[i[2]]
NoSelection == {"unset"}

-----------------------------------------------------------------------------
(* The manifest. *)

Orm == {"orm_support", "orm_lifecycle", "soft_delete", "read", "validation", "query",
        "observability"}
DatabaseOnly == {"orm_mutation", "create", "update", "delete", "history"}
Optional == {"notification", "scheduling", "access_control"}

CAPABILITY_MANIFEST == [
  readonly |-> [required |-> Orm \cup {"read_only_management"}, optional |-> Optional],
  database |-> [required |-> Orm \cup DatabaseOnly, optional |-> Optional \cup {"observability"}],
  calculation |->
    [required |-> {"read", "validation", "observability", "query", "calculation_lifecycle"},
     optional |-> Optional]]

\* Sorted names, the order in which a build binds its handlers.
Alphabet == <<"access_control", "calculation_lifecycle", "create", "delete", "history",
  "notification", "observability", "orm_lifecycle", "orm_mutation", "orm_support", "query",
  "read", "read_only_management", "scheduling", "soft_delete", "update", "validation">>

\* configured_capabilities: the bundle of the kind, then the additions.
configured_capabilities(i) ==
  LET bundle == SelectSeq(Alphabet, LAMBDA c : c \in CAPABILITY_MANIFEST[KindOf(i)].required)
  IN bundle \o SetToSeq(Adds[i[2]])

_resolve_optional(plan, enabled, disabled) ==
  IF enabled \subseteq plan.optional THEN <<"active", enabled \ disabled>> ELSE <<"refused", {}>>

-----------------------------------------------------------------------------
(* Binding handlers.  A state st under way carries what a binding changes. *)

Related(i) == {j \in {<<"concrete", m>> : m \in Points[i[2]]} : KindOf(j) = "readonly"} \ {i}

\* get_startup_hooks of the read-only management, which waits for the class to
\* be complete, and of an added capability that has its resolver in common
\* with other interfaces, makes its own, or has none.
HooksOf(i, c, n, complete) ==
  CASE c = "read_only_management" /\ i \in complete -> {[owner |-> i, id |-> n, resolver |-> <<"related">>]}
    [] c = "shared" -> {[owner |-> i, id |-> n, resolver |-> <<"common">>]}
    [] c = "own" -> {[owner |-> i, id |-> n, resolver |-> <<"own", n>>]}
    [] c = "none" -> {[owner |-> i, id |-> n, resolver |-> <<>>]}
    [] OTHER -> {}

ChecksOf(i, c, n) ==
  IF c = "read_only_management" THEN {[owner |-> i, id |-> n]} ELSE {}

teardown(handlers, c) == [k \in DOMAIN handlers \ {c} |-> handlers[k]]

setup(handlers, c, n) == [k \in DOMAIN handlers \cup {c} |-> IF k = c THEN n ELSE handlers[k]]

_bind_capability_handler(st, i, c, complete) ==
  LET n == st.serial + 1
      freed == teardown(st.wiring[i].handlers, c)
  IN IF ~st.ok THEN st
     ELSE IF c \in Lacks[i[2]] \cup st.raising
       THEN [st EXCEPT !.ok = FALSE, !.wiring[i].handlers = freed]
       ELSE [st EXCEPT
         !.wiring[i].handlers = setup(freed, c, n),
         !.hooks = @ \o SetToSeq(HooksOf(i, c, n, complete)),
         !.checks = @ \o SetToSeq(ChecksOf(i, c, n)),
         !.serial = n]

BindAll(st, i, names, complete) ==
  FoldLeft(LAMBDA acc, c : _bind_capability_handler(acc, i, c, complete), st, names)

\* Mutant: the registries keep what the failed build put there.
RestoredButRegistries(before, st, i) ==
  [wiring |-> [st.wiring EXCEPT ![i] = before.wiring[i]],
   hooks |-> st.hooks, checks |-> st.checks, serial |-> st.serial,
   undone |-> st.undone \cup (before.serial + 1 .. st.serial),
   raising |-> st.raising, ok |-> FALSE]

\* Takes a failed build back: handlers, selection and both registries are those
\* of before; numbers already given are not given again.
Restored(before, st, i) ==
  [wiring |-> [st.wiring EXCEPT ![i] = before.wiring[i]],
   hooks |-> before.hooks, checks |-> before.checks, serial |-> st.serial,
   undone |-> st.undone \cup (before.serial + 1 .. st.serial),
   raising |-> st.raising, ok |-> FALSE]

\* An override of the interface, or else the class registered for the name.
\* Overrides come from the configured capabilities, so a build binds the same
\* kinds of handler as they do.
build(st, i, enabled, disabled, complete) ==
  LET plan == CAPABILITY_MANIFEST[KindOf(i)]
      resolved == _resolve_optional(plan, enabled, disabled)
      selection == plan.required \cup resolved[2]
      started == [st EXCEPT !.wiring[i].selection = selection]
      done == BindAll(started, i, SelectSeq(Alphabet, LAMBDA c : c \in selection), complete)
  IN CASE ~st.ok -> st
       [] disabled \cap plan.required # {} \/ resolved[1] = "refused" -> [st EXCEPT !.ok = FALSE]
       [] done.ok -> done
       [] OTHER -> Restored(st, done, i)

_apply_configured_capabilities(st, i, complete) ==
  IF ~st.ok \/ st.wiring[i].applied THEN st
  ELSE LET done == BindAll(st, i, configured_capabilities(i), complete)
       IN IF done.ok THEN [done EXCEPT !.wiring[i].applied = TRUE] ELSE done

_ensure_capabilities_initialized(st, i, complete) ==
  _apply_configured_capabilities(
    IF st.wiring[i].selection = NoSelection THEN build(st, i, {}, {}, complete) ELSE st,
    i, complete)

Now(raising) == [wiring |-> wiring, hooks |-> hooks, checks |-> checks, serial |-> serial,
                 undone |-> undone, raising |-> raising, ok |-> TRUE]

Becomes(st) ==
  /\ wiring' = st.wiring /\ hooks' = st.hooks /\ checks' = st.checks
  /\ serial' = st.serial /\ undone' = st.undone

-----------------------------------------------------------------------------
(* Manager classes. *)

\* The body of GeneralManagerMeta.__new__ for a class with an Interface: the
\* lifecycle capability is looked up on the declared interface, its post_create
\* ties the concrete interface to the class and, for an ORM model, uses its
\* support capability, and then the concrete interface is built once more.
handle_interface(m) ==
  LET declared == <<"declared", m>>
      concrete == <<"concrete", m>>
      complete == bound \cup {concrete}
      found == _ensure_capabilities_initialized(Now({}), declared, bound)
      tied == IF Kind[m] = "calculation" THEN found
              ELSE IF found.ok THEN _ensure_capabilities_initialized(found, concrete, complete)
                               ELSE found
  IN build(tied, concrete, {}, {}, complete)

Define(m) ==
  /\ phase \in {"models", "managers"}
  /\ m \notin ToSet(classes)
  /\ LET done == handle_interface(m)
     IN /\ Becomes(done)
        /\ bound' = IF done.ok THEN bound \cup {<<"concrete", m>>} ELSE bound
        /\ classes' = IF done.ok THEN Append(classes, m) ELSE classes
        \* an error in a module the app registry imports ends the process
        /\ phase' = IF done.ok THEN phase ELSE "failed"
  /\ UNCHANGED <<django, ran>>

\* A handler is asked for, which applies what is still to be applied.
get_capability_handler(i) ==
  /\ phase \in {"models", "managers"}
  /\ i \in bound
  /\ ~wiring[i].applied
  /\ Becomes(_ensure_capabilities_initialized(Now({}), i, bound))
  /\ UNCHANGED <<phase, bound, classes, django, ran>>

\* A caller builds an interface of its own accord, with flags and exclusions.
Rebuild(i) ==
  /\ phase = "managers"
  /\ i \in bound
  /\ serial \in RebuildAt
  /\ \E enabled \in {{}, {"scheduling"}}, disabled \in {{}, {"read"}},
        raising \in {{}, {"validation"}} :
       Becomes(build(Now(raising), i, enabled, disabled, bound))
  /\ UNCHANGED <<phase, bound, classes, django, ran>>

-----------------------------------------------------------------------------
(* Startup. *)

\* Concrete ORM and calculation interfaces are made by type() in the lifecycle
\* modules, so their module and qualified name are the same for all managers.
_interface_identity(i) == IF i[1] = "declared" THEN i ELSE <<"lifecycle", KindOf(i) = "calculation">>

\* Mutant: every registered check is handed over, whoever owns it.
RegisterAllChecks ==
  django' = [django EXCEPT !.registered = @ \o checks]

register_system_checks ==
  LET new == SelectSeq(checks, LAMBDA c : _interface_identity(c.owner) \notin django.identities)
  IN django' = [identities |-> django.identities \cup
                  {_interface_identity(new[k].owner) : k \in DOMAIN new},
                registered |-> django.registered \o new]

\* AppConfig.ready: the checks first, then the managers modules.
ready ==
  /\ phase = "models"
  /\ register_system_checks
  /\ phase' = "managers"
  /\ UNCHANGED <<wiring, bound, hooks, checks, serial, undone, classes, ran>>

\* Test cases register the checks of the classes they define.
RegisterAgain ==
  /\ phase = "managers"
  /\ register_system_checks
  /\ django' # django
  /\ UNCHANGED <<phase, wiring, bound, hooks, checks, serial, undone, classes, ran>>

Dependencies(resolver, i) ==
  IF resolver = <<"related">> THEN Related(i) ELSE {<<"concrete", m>> : m \in Points[i[2]]}

\* Mutant: interfaces in a circle are left out.
OrderAcyclicOnly(given, resolver) ==
  SelectSeq(given, LAMBDA i :
    resolver = <<>> \/ \A j \in Dependencies(resolver, i) : i \notin Dependencies(resolver, j))

\* Repeatedly the first interface, in the given order, whose dependencies among
\* the given ones are all placed; those in circles at the end.
order_interfaces_by_dependency(given, resolver) ==
  LET open(placed) == SelectSeq(given, LAMBDA i :
                        /\ i \notin ToSet(placed)
                        /\ Dependencies(resolver, i) \cap ToSet(given) \subseteq ToSet(placed))
      step(placed) == IF open(placed) = <<>> THEN placed ELSE Append(placed, open(placed)[1])
      sorted == FoldLeft(LAMBDA placed, k : step(placed), <<>>, given)
  IN IF resolver = <<>> THEN given
     ELSE FoldLeft(LAMBDA acc, i : IF i \in ToSet(acc) THEN acc ELSE Append(acc, i),
                   sorted, given)

\* The registry is keyed by interface, so a later hook of an interface stands
\* with its earlier ones.
ByInterface ==
  LET owners == FoldLeft(LAMBDA acc, h : IF h.owner \in ToSet(acc) THEN acc
                                         ELSE Append(acc, h.owner), <<>>, hooks)
  IN FlattenSeq([k \in DOMAIN owners |-> SelectSeq(hooks, LAMBDA h : h.owner = owners[k])])

resolver_groups ==
  FoldLeft(LAMBDA acc, h : IF h.resolver \in ToSet(acc) THEN acc ELSE Append(acc, h.resolver),
           <<>>, ByInterface)

\* One group per resolver; an interface is listed once for each of its hooks
\* there, and each listing that the order keeps runs all of them.
run_from_argv_with_startup_hooks ==
  LET listed(r) == SelectSeq(ByInterface, LAMBDA h : h.resolver = r)
      owners(r) == [k \in DOMAIN listed(r) |-> listed(r)[k].owner]
      group(r) == LET order == order_interfaces_by_dependency(owners(r), r)
                  IN FlattenSeq([k \in DOMAIN order |->
                       SelectSeq(listed(r), LAMBDA h : h.owner = order[k])])
  IN FlattenSeq([k \in DOMAIN resolver_groups |-> group(resolver_groups[k])])

\* initialize_general_manager_classes reads the attributes of every pending
\* class, which asks each interface for its handlers.
initialize_general_manager_classes ==
  /\ phase = "managers"
  /\ phase' = "ready"
  /\ Becomes(FoldLeft(LAMBDA st, m :
        _ensure_capabilities_initialized(st, <<"concrete", m>>, bound), Now({}), classes))
  /\ UNCHANGED <<bound, classes, django, ran>>

RunCommand ==
  /\ phase = "ready"
  /\ ran' = run_from_argv_with_startup_hooks
  /\ phase' = "running"
  /\ UNCHANGED <<wiring, bound, hooks, checks, serial, undone, classes, django>>

-----------------------------------------------------------------------------
CapInit ==
  /\ phase = "models" /\ bound = {} /\ hooks = <<>> /\ checks = <<>> /\ serial = 0
  /\ undone = {} /\ classes = <<>> /\ ran = <<>>
  /\ wiring = [i \in Interfaces |->
       [selection |-> NoSelection, handlers |-> <<>>, applied |-> FALSE]]
  /\ django = [identities |-> {}, registered |-> <<>>]

CapNext ==
  \/ \E m \in Managers : Define(m)
  \/ \E i \in Interfaces : get_capability_handler(i) \/ Rebuild(i)
  \/ ready \/ RegisterAgain \/ initialize_general_manager_classes \/ RunCommand

CapSpec == CapInit /\ [][CapNext]_capVars

-----------------------------------------------------------------------------
(* Properties. *)

FirstRun(i, r) ==
  LET at == {k \in DOMAIN ran : ran[k].owner = i /\ ran[k].resolver = r}
  IN IF at = {} THEN 0 ELSE Min(at)

LastRun(i, r) ==
  LET at == {k \in DOMAIN ran : ran[k].owner = i /\ ran[k].resolver = r}
  IN IF at = {} THEN 0 ELSE Max(at)

Owners(r) == {ran[k].owner : k \in {n \in DOMAIN ran : ran[n].resolver = r}}

\* No circle among the interfaces of the group lies before i.
ClearOfCircles(r, i) ==
  \A S \in SUBSET Owners(r) :
    i \in S => \E j \in S : Dependencies(r, j) \cap S = {}

\* A hook runs after the hooks, of the same resolver, of every interface its own
\* depends on, unless that one is caught behind a circle; whatever order the
\* classes were defined in (startup_hooks.py:120).
HooksFollowDependencies ==
  \A r \in {ran[k].resolver : k \in DOMAIN ran} \ {<<>>} :
    \A i, j \in Owners(r) :
      j \in Dependencies(r, i) /\ ClearOfCircles(r, j) => LastRun(j, r) < FirstRun(i, r)

\* The runner reaches every hook that is registered when it starts, those of
\* interfaces in a circle too (bootstrap.py:196-235).
EveryHookRuns == phase = "running" => ToSet(ran) = ToSet(hooks)

\* A build that fails leaves none of its handlers, hooks and checks behind, and
\* an interface keeps a handler for each capability it had selected
\* (capability_builder.py:148-176).
FailedBuildsLeaveNothing ==
  /\ \A k \in DOMAIN hooks : hooks[k].id \notin undone
  /\ \A k \in DOMAIN checks : checks[k].id \notin undone
  /\ phase # "failed" =>
       \A i \in bound : /\ \A c \in DOMAIN wiring[i].handlers : wiring[i].handlers[c] \notin undone
                        /\ wiring[i].selection \subseteq DOMAIN wiring[i].handlers

\* Django is given no check twice (bootstrap.py:297-310).
ChecksRegisteredOnce == IsInjective(django.registered)

=============================================================================
