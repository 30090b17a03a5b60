----------------------------- MODULE Permissions -----------------------------
(***************************************************************************)
(* Manager permissions (permission/*.py) and the read gate of GraphQL      *)
(* lists (api/graphql_resolvers.py): rules of a manager and of the manager *)
(* it is based on, their evaluation on one instance, the read plan that    *)
(* prefilters a query, the checks of create, update and delete, and the    *)
(* results a permission object remembers.                                  *)
(*                                                                         *)
(* A rule is a list of alternatives, each a conjunction of fragments.  The *)
(* value of a lookup is a natural: status 1 active, 2 archived; the user's *)
(* id is 1, or 0 without an id.                                            *)
(***************************************************************************)
EXTENDS Naturals, Sequences, FiniteSets

CONSTANTS
    ReadRules,     \* rules of a manager: sequences of sequences of fragments
    ParentRules,   \* rules of the manager it is based on, or NoRules
    FieldRules,    \* rules of the attribute "secret", or NoRules
    Catalog,       \* the rows of the manager, a sequence
    PageSizes,     \* page sizes asked for, 0 for none
    MaxAsked       \* bound on the questions to one permission object

VARIABLES
    config,   \* [rules, parent, parentClass, field, kind]: the permission class
    viewer,   \* [super, admin, id]: the user
    object,   \* the permission object in use: its row and what it remembers
    said,     \* the last question and its answer
    listed    \* the last list query and the pages it gave

permVars == <<config, viewer, object, said, listed>>

NoRules == <<<<"unset">>>>
Viewers == {[super |-> TRUE, admin |-> FALSE, id |-> 1]}
               \cup [super : {FALSE}, admin : BOOLEAN, id : {0, 1}]
Kinds == {"additive", "override", "mutation"}
Attributes == {"name", "secret"}
Remembers == {"none", "yes", "no"}
Memo(answer) == IF answer THEN "yes" ELSE "no"

-----------------------------------------------------------------------------
(* Fragments: the check of an instance and the filter they translate to *)

\* permission_functions[...]["permission_method"], the one of a fragment.
permission_method(f, part) ==
    CASE f = "public" -> TRUE
      [] f = "isAdmin" -> viewer.admin
      [] f = "isSelf" -> viewer.id # 0 /\ part.creator = viewer.id
      [] f = "active" -> part.status = 1
      [] f = "archived" -> part.status = 2
      [] f = "unlocked" -> part.locked # 1
      [] f = "kept" -> part.status # 2
      [] OTHER -> part.locked = 1

\* _get_permission_filter_result: a decision, nothing, or a constraint.
Constraint(filter_, exclude_) == [decision |-> "conditional", filter |-> filter_, exclude |-> exclude_, known |-> TRUE]
Decided(granted) == [decision |-> IF granted THEN "allow_all" ELSE "deny_all", filter |-> {}, exclude |-> {}, known |-> FALSE]
_get_permission_filter_result(f) ==
    CASE f = "public" -> Decided(TRUE)
      [] f = "isAdmin" -> Decided(viewer.admin)
      [] f = "isSelf" -> IF viewer.id = 0 THEN Decided(FALSE) ELSE Constraint({<<<<"own", "creator">>, viewer.id>>}, {})
      [] f = "active" -> Constraint({<<<<"own", "status">>, 1>>}, {})
      [] f = "archived" -> Constraint({<<<<"own", "status">>, 2>>}, {})
      [] f = "unlocked" -> Constraint({}, {<<<<"own", "locked">>, 1>>})
      [] f = "kept" -> Constraint({}, {<<<<"own", "status">>, 2>>})
      [] OTHER -> [decision |-> "conditional", filter |-> {}, exclude |-> {}, known |-> FALSE]

\* validate_permission_string: all fragments of an alternative.
validate_permission_string(expression, part) ==
    viewer.super \/ \A i \in DOMAIN expression : permission_method(expression[i], part)

\* __check_specific_permission: no rules, or one alternative.
__check_specific_permission(rules, part) ==
    rules = << >> \/ \E i \in DOMAIN rules : validate_permission_string(rules[i], part)

-----------------------------------------------------------------------------
(* The read plan *)

Plan(filters, check, decision) == [filters |-> filters, requires_instance_check |-> check, decision |-> decision]
AllowAll == Plan(<< >>, FALSE, "allow_all")
DenyAll == Plan(<< >>, FALSE, "deny_all")
Group(filter_, exclude_) == [filter |-> filter_, exclude |-> exclude_]

\* _merge_filter_group_parts: the first value of a lookup stays.
_merge_filter_group_parts(basis, part) == basis \cup {p \in part : \A q \in basis : q[1] # p[1]}
Conflict(basis, part) == \E p \in part, q \in basis : p[1] = q[1] /\ p[2] # q[2]

\* Mutant: two different excludes are merged as if both had to match.
MergesExcludes(a, b) == Conflict(a.filter, b.filter) \/ Conflict(a.exclude, b.exclude)

\* When a merged group selects more than both of its parts do.
NeedsCheck(a, b) ==
    \/ Conflict(a.filter, b.filter) \/ Conflict(a.exclude, b.exclude)
    \/ a.exclude # {} /\ b.exclude # {} /\ a.exclude # b.exclude

Merged(a, b) == Group(_merge_filter_group_parts(a.filter, b.filter), _merge_filter_group_parts(a.exclude, b.exclude))

\* _plan_permission_expression: fragment after fragment.
FragmentResults(expression) ==
    [i \in DOMAIN expression |-> _get_permission_filter_result(expression[i])]
PlanOfConstraints(results, bound) ==
    LET unfilterable == \E i \in DOMAIN results : results[i].decision = "conditional" /\ ~results[i].known
        merged[n \in 0 .. Len(bound)] == IF n = 0 THEN Group({}, {}) ELSE Merged(merged[n - 1], bound[n])
        clash == \E n \in 1 .. Len(bound) : NeedsCheck(merged[n - 1], bound[n])
    IN  CASE \E i \in DOMAIN results : results[i].decision = "deny_all" -> DenyAll
          [] bound = << >> /\ ~unfilterable -> AllowAll
          [] OTHER -> Plan(IF bound = << >> THEN << >> ELSE <<merged[Len(bound)]>>, unfilterable \/ clash, "conditional")
_plan_permission_expression(expression) ==
    PlanOfConstraints(FragmentResults(expression), SelectSeq(FragmentResults(expression), LAMBDA r : r.known))

\* _plan_local_read_permissions: the alternatives that survive.
ExpressionPlans(rules) == [i \in DOMAIN rules |-> _plan_permission_expression(rules[i])]
PlanOfAlternatives(plans, alive) ==
    LET all[n \in 0 .. Len(alive)] == IF n = 0 THEN << >> ELSE all[n - 1] \o alive[n].filters
    IN  CASE plans = << >> \/ \E i \in DOMAIN plans : plans[i].decision = "allow_all" -> AllowAll
          [] alive = << >> -> DenyAll
          [] OTHER -> Plan(IF \E i \in DOMAIN alive : alive[i].requires_instance_check /\ alive[i].filters = << >>
                           THEN << >> ELSE all[Len(alive)],
                           \E i \in DOMAIN alive : alive[i].requires_instance_check, "conditional")
_plan_local_read_permissions(rules) ==
    PlanOfAlternatives(ExpressionPlans(rules),
                       SelectSeq(ExpressionPlans(rules), LAMBDA p : p.decision # "deny_all"))

\* _prefix_read_permission_plan: the lookups of the parent.
Prefixed(pairs) == {<<<<"parent", p[1][2]>>, p[2]>> : p \in pairs}
_prefix_read_permission_plan(plan) ==
    IF plan.decision # "conditional" THEN Plan(<< >>, FALSE, plan.decision)
    ELSE [plan EXCEPT !.filters = [i \in DOMAIN @ |-> Group(Prefixed(@[i].filter), Prefixed(@[i].exclude))]]

\* _and_read_permission_plans: every group of one with every group of the other.
GroupsOf(plan) == IF plan.filters = << >> THEN <<Group({}, {})>> ELSE plan.filters
ProductPlan(a, b, A, B) ==
    LET pair(n) == <<A[((n - 1) \div Len(B)) + 1], B[((n - 1) % Len(B)) + 1]>>
        product == [n \in 1 .. Len(A) * Len(B) |-> Merged(pair(n)[1], pair(n)[2])]
        clash == \E n \in DOMAIN product : NeedsCheck(pair(n)[1], pair(n)[2])
    IN  Plan(IF product = <<Group({}, {})>> THEN << >> ELSE product,
             a.requires_instance_check \/ b.requires_instance_check \/ clash, "conditional")
_and_read_permission_plans(a, b) ==
    CASE a.decision = "deny_all" \/ b.decision = "deny_all" -> DenyAll
      [] a.decision = "allow_all" -> b
      [] b.decision = "allow_all" -> a
      [] OTHER -> ProductPlan(a, b, GroupsOf(a), GroupsOf(b))

\* get_read_permission_plan on the class: the parent's class may not be reachable.
DelegatedPlan == IF config.parentClass THEN _prefix_read_permission_plan(_plan_local_read_permissions(config.parent))
                 ELSE Plan(<< >>, TRUE, "conditional")
WithDelegated(local) ==
    IF local.decision = "deny_all" \/ config.parent = NoRules THEN local
    ELSE _and_read_permission_plans(DelegatedPlan, local)
get_read_permission_plan ==
    IF viewer.super THEN AllowAll ELSE WithDelegated(_plan_local_read_permissions(config.rules))

-----------------------------------------------------------------------------
(* Reading *)

Lookup(row, key) == row[key[1]][key[2]]
Selects(g, row) ==
    /\ \A p \in g.filter : Lookup(row, p[1]) = p[2]
    /\ ~(g.exclude # {} /\ \A p \in g.exclude : Lookup(row, p[1]) = p[2])

\* can_read_instance of a row whose parent is set.
can_read_instance(row) ==
    /\ config.parent = NoRules \/ viewer.super \/ __check_specific_permission(config.parent, row.parent)
    /\ viewer.super \/ __check_specific_permission(config.rules, row.own)

\* apply_read_authorization and filter_queryset_by_read_permission.
Authorized(plan, rows) ==
    LET InPlan(r) == plan.filters = << >> \/ \E i \in DOMAIN plan.filters : Selects(plan.filters[i], r)
    IN  CASE plan.decision = "deny_all" -> << >>
          [] plan.decision = "allow_all" -> rows
          [] OTHER -> SelectSeq(rows, LAMBDA r : InPlan(r) /\ (plan.requires_instance_check => can_read_instance(r)))
apply_read_authorization(rows) == Authorized(get_read_permission_plan, rows)

Slice(rows, from, to) == SubSeq(rows, from + 1, IF to > Len(rows) THEN Len(rows) ELSE to)

\* apply_pagination: page and size default to 1 and 10 when one of them is given.
apply_pagination(rows, page, page_size) ==
    LET size == IF page_size = 0 THEN 10 ELSE page_size IN Slice(rows, (page - 1) * size, page * size)

\* The resolver of create_list_resolver, page by page as total_pages tells: read
\* authorization, then the filter of the query, then the pages.
Pages(rows, page_size) ==
    LET total_pages == (Len(rows) + page_size - 1) \div page_size
    IN  IF page_size = 0 THEN <<rows>>
        ELSE [p \in 1 .. total_pages |-> apply_pagination(rows, p, page_size)]
create_list_resolver(status, page_size) ==
    /\ config.kind # "mutation" /\ listed = << >> /\ object.asked = 0
    /\ listed' = <<status, Pages(SelectSeq(apply_read_authorization(Catalog),
                                          LAMBDA r : status = 0 \/ r.own.status = status), page_size)>>
    /\ UNCHANGED <<config, viewer, object, said>>

-----------------------------------------------------------------------------
(* Checks of operations and attributes by one permission object *)

\* The rules of an attribute of the class, if it has any.
HasAttributeRules(attribute) == attribute = "secret" /\ config.field # NoRules

\* _evaluate_local_permission of the additive and of the overriding class.
_evaluate_local_permission(attribute, row) ==
    LET base == __check_specific_permission(config.rules, row.own)
        own == __check_specific_permission(config.field, row.own)
    IN  CASE ~HasAttributeRules(attribute) -> base
          [] config.kind = "override" -> own
          [] OTHER -> base /\ own

Granted(answer, memo) == [answer |-> answer, memo |-> memo]

\* check_permission of a manager permission; memo is __overall_results[action].
check_permission(attribute, row, memo) ==
    LET can_use_action_cache == ~HasAttributeRules(attribute) /\ config.parent = NoRules
    IN  CASE viewer.super -> Granted(TRUE, "yes")
          [] config.parent # NoRules /\ ~__check_specific_permission(config.parent, row.parent) -> Granted(FALSE, memo)
          [] can_use_action_cache /\ memo # "none" -> Granted(memo = "yes", memo)
          [] OTHER -> LET permission == _evaluate_local_permission(attribute, row)
                      IN  Granted(permission, IF can_use_action_cache THEN Memo(permission) ELSE memo)

\* check_operation_permission: the rules of the action only.
check_operation_permission(row, memo) ==
    CASE viewer.super -> Granted(TRUE, "yes")
      [] config.parent # NoRules /\ ~__check_specific_permission(config.parent, row.parent) -> Granted(FALSE, memo)
      [] config.parent = NoRules /\ memo # "none" -> Granted(memo = "yes", memo)
      [] OTHER -> LET permission == __check_specific_permission(config.rules, row.own)
                  IN  Granted(permission, IF config.parent = NoRules THEN Memo(permission) ELSE memo)

\* Mutant: the answer for the attribute is remembered as the one for the mutation.
RemembersAttribute(attribute, row, memo) ==
    LET own == ~HasAttributeRules(attribute) \/ __check_specific_permission(config.field, row.own)
        base == config.rules # NoRules /\ __check_specific_permission(config.rules, row.own)
    IN  IF ~HasAttributeRules(attribute) /\ memo # "none" THEN Granted(memo = "yes", memo)
        ELSE Granted(base /\ own, Memo(base /\ own))

\* check_permission of MutationPermission; memo is __overall_result.
check_mutation_permission(attribute, row, memo) ==
    LET own == ~HasAttributeRules(attribute) \/ __check_specific_permission(config.field, row.own)
        base == config.rules # NoRules /\ __check_specific_permission(config.rules, row.own)
    IN  IF ~HasAttributeRules(attribute) /\ memo # "none" THEN Granted(memo = "yes", memo)
        ELSE Granted(base /\ own, Memo(base))

Ask(attribute, row, memo) ==
    CASE config.kind = "mutation" -> check_mutation_permission(attribute, row, memo)
      [] attribute = "operation" -> check_operation_permission(row, memo)
      [] OTHER -> check_permission(attribute, row, memo)

\* The loop of the checks: question after question, one audit event each; an
\* unrestricted user is allowed everything and the events say so.
Asked(questions, row) ==
    LET asked[n \in 0 .. Len(questions)] ==
            IF n = 0 THEN [memo |-> "none", events |-> << >>]
            ELSE LET reply == Ask(questions[n], row, asked[n - 1].memo)
                 IN  [memo |-> reply.memo, events |-> Append(asked[n - 1].events, <<questions[n], reply.answer>>)]
    IN  IF viewer.super THEN [n \in DOMAIN questions |-> <<questions[n], TRUE>>] ELSE asked[Len(questions)].events
Check(questions, row) ==
    /\ object.asked = 0 /\ listed = << >>
    /\ object' = [object EXCEPT !.asked = MaxAsked]
    /\ said' = [row |-> row, events |-> Asked(questions, row)]
    /\ UNCHANGED <<config, viewer, listed>>

\* check_create_permission and check_update_permission: the operation when there is no
\* data, otherwise every key; check_delete_permission: the attributes of the instance;
\* check: a mutation, refused when one of the answers is no.
check_create_permission(keys, row) ==
    config.kind # "mutation" /\ Check(IF keys = << >> THEN <<"operation">> ELSE keys, row)
check_update_permission(keys, row) ==
    config.kind # "mutation" /\ Check(IF keys = << >> THEN <<"operation">> ELSE keys, row)
check_delete_permission(row) == config.kind # "mutation" /\ Check(<<"name", "secret">>, row)
check(keys, row) == config.kind = "mutation" /\ Check(IF keys = << >> THEN <<"operation">> ELSE keys, row)

\* A permission object kept by its user: reads of fields, operations, attributes.
AskObject(attribute) ==
    /\ object.asked < MaxAsked /\ listed = << >>
    /\ (config.kind = "mutation" => attribute # "operation" /\ ~viewer.super)
    /\ LET reply == Ask(attribute, object.row, object.memo)
       IN  /\ object' = [object EXCEPT !.memo = reply.memo, !.asked = @ + 1]
           /\ said' = [row |-> object.row, events |-> <<<<attribute, reply.answer>>>>]
    /\ UNCHANGED <<config, viewer, listed>>

-----------------------------------------------------------------------------
(* Specification *)

\* The class as declared: __init_subclass__ and __init__ fill in the rules; only the
\* first row of the catalog and its last one are asked about.
PermInit ==
    /\ config \in [rules : ReadRules, parent : ParentRules, parentClass : BOOLEAN, field : FieldRules, kind : Kinds]
    /\ config.kind = "mutation" => config.parent = NoRules
    /\ config.kind = "override" => config.field # NoRules
    /\ config.parentClass => config.parent # NoRules
    /\ config.rules = NoRules => config.kind = "mutation"
    /\ viewer \in Viewers
    /\ object \in [row : {Catalog[1], Catalog[Len(Catalog)]}, memo : {"none"}, asked : {0}]
    /\ said = [row |-> object.row, events |-> << >>]
    /\ listed = << >>

KeyOrders == {<< >>, <<"name">>, <<"secret">>, <<"name", "secret">>, <<"secret", "name">>}
PermNext ==
    \/ \E status \in {0, 1}, page_size \in PageSizes : create_list_resolver(status, page_size)
    \/ \E keys \in KeyOrders : check_create_permission(keys, object.row)
    \/ \E keys \in KeyOrders : check_update_permission(keys, object.row)
    \/ check_delete_permission(object.row)
    \/ \E keys \in KeyOrders : check(keys, object.row)
    \/ \E attribute \in Attributes \cup {"operation"} : AskObject(attribute)

PermSpec == PermInit /\ [][PermNext]_permVars

-----------------------------------------------------------------------------
(* Properties *)

\* A list shows exactly the rows whose own check allows reading, whatever prefilter the
\* rules of the manager and of its basis were turned into, and its pages are the list in
\* order with nothing missing or repeated.
Readable(status) ==
    SelectSeq(Catalog, LAMBDA r : can_read_instance(r) /\ (status = 0 \/ r.own.status = status))
Joined(pages) ==
    LET all[n \in 0 .. Len(pages)] == IF n = 0 THEN << >> ELSE all[n - 1] \o pages[n] IN all[Len(pages)]
ListMatchesChecks == listed # << >> => Joined(listed[2]) = Readable(listed[1])

\* The answer to a question about an operation or an attribute does not depend on what
\* the permission object was asked before, nor on the order of the keys of a write: it is
\* the one the rules give, so a remembered answer never stands for another question.
RuledAnswer(question, row) ==
    LET base == config.rules # NoRules /\ __check_specific_permission(config.rules, row.own)
        own == __check_specific_permission(config.field, row.own)
        basis == config.parent = NoRules \/ __check_specific_permission(config.parent, row.parent)
        local == CASE ~HasAttributeRules(question) -> base
                   [] config.kind = "override" -> own
                   [] OTHER -> base /\ own
    IN  viewer.super \/ (basis /\ local)
AnswersFollowTheRules ==
    \A i \in DOMAIN said.events : said.events[i][2] = RuledAnswer(said.events[i][1], said.row)
=============================================================================
