---------------------------- MODULE GraphQLRequests ----------------------------
(***************************************************************************)
(* One HTTP request to the GraphQL endpoint (api/graphql_view.py): a batch *)
(* of operations, each with its own @asOf directive, whose fields run one  *)
(* after the other, inside the blocks that ATOMIC_REQUESTS and             *)
(* ATOMIC_MUTATIONS open.  Fields are reads, generated mutations (one      *)
(* manager call) and custom ones (graph_ql_mutation functions, mutation    *)
(* classes with an async mutate, or a query's resolver that writes).       *)
(*                                                                         *)
(* graphql-core, graphene-django's base view and Django's blocks are       *)
(* modelled from how they are used; what a write is made of is module      *)
(* OrmManagers.                                                            *)
(***************************************************************************)
EXTENDS Naturals, Sequences, SequencesExt

CONSTANTS
  Batches,      \* the requests: sequences of operations
  Sites         \* the settings: atomic requests, atomic mutations

VARIABLES
  site,    \* the settings
  todo,    \* the operations of the request not begun
  op,      \* the current operation, its phase, field results and awaitable
  asOf,    \* the search date of the context, 0 without
  blocks,  \* the open transaction blocks, outermost first
  db,      \* the committed writes, <<operation, field>>
  log,     \* what ran: operation, field, context date and date shown
  out      \* the answers of the request

requestVars == <<site, todo, op, asOf, blocks, db, log, out>>

NoOp == [at |-> "none"]
Errors(results) == {i \in DOMAIN results : results[i] # "ok"}
Number == Len(out) + 1

-----------------------------------------------------------------------------
(* Transaction blocks. *)

Block == [writes |-> {}, doomed |-> FALSE]

\* A block marked for rollback refuses every query until its end.
Broken == \E i \in DOMAIN blocks : blocks[i].doomed

Doom == IF blocks = << >> THEN blocks ELSE [blocks EXCEPT ![Len(blocks)].doomed = TRUE]

\* Without a savepoint of its own an inner block takes the outer one with it.
Leave ==
  LET b == Last(blocks) rest == Front(blocks) IN
  CASE rest # << >> ->
         /\ blocks' = [rest EXCEPT ![Len(rest)] =
                         [writes |-> @.writes \union b.writes, doomed |-> @.doomed \/ b.doomed]]
         /\ UNCHANGED db
    [] OTHER -> /\ blocks' = << >>
                /\ db' = IF b.doomed THEN db ELSE db \union b.writes

\* A manager call's own block has ended well.
Write(id) ==
  IF blocks = << >> THEN db' = db \union {id} /\ UNCHANGED blocks
  ELSE blocks' = [blocks EXCEPT ![Len(blocks)].writes = @ \union {id}] /\ UNCHANGED db

-----------------------------------------------------------------------------
(* The public face of errors. *)

Historical == [clash |-> "HISTORICAL_CONTEXT_CONFLICT", frozen |-> "HISTORICAL_MUTATION_FORBIDDEN",
               unsupported |-> "HISTORICAL_READ_NOT_SUPPORTED"]

historical_graphql_error(e) == IF e \in DOMAIN Historical THEN Historical[e] ELSE "none"

\* GraphQLErrors pass, what is not known is masked.
handle_graph_ql_error(e) ==
  LET public == historical_graphql_error(e) IN
  CASE public # "none" -> public
    [] e = "public" -> "PUBLIC"
    [] e = "invalid" -> "BAD_USER_INPUT"
    [] e = "denied" -> "PERMISSION_DENIED"
    [] OTHER -> "INTERNAL_SERVER_ERROR"

\* The view's own formatting: what a query's resolver raises keeps its message.
format_error(e) ==
  CASE op.of.type = "mutation" -> handle_graph_ql_error(e)
    [] historical_graphql_error(e) # "none" -> historical_graphql_error(e)
    [] OTHER -> "message"

-----------------------------------------------------------------------------
(* The @asOf directive of an operation; the date 0 is one that cannot be used. *)

extract_as_of_search_date(o) ==
  CASE o.dates = << >> -> [date |-> 0, error |-> "none"]
    [] Len(o.dates) # 1 -> [date |-> 0, error |-> "HISTORICAL_CONTEXT_CONFLICT"]
    [] o.type # "query" -> [date |-> 0, error |-> "GRAPHQL_VALIDATION_FAILED"]
    [] o.dates[1] = 0 -> [date |-> 0, error |-> "BAD_USER_INPUT"]
    [] OTHER -> [date |-> o.dates[1], error |-> "none"]

\* A mutant's mark: every awaitable counts.
AnyDeclared(o) == o.type = "mutation" /\ \E i \in DOMAIN o.fields : o.fields[i].async # "no"

_has_declared_async_mutation_resolver(o) ==
  o.type = "mutation" /\ \E i \in DOMAIN o.fields : o.fields[i].async = "declared"

-----------------------------------------------------------------------------
(* Fields. *)

\* A date of its own must be the context's.
Clashes(explicit) == explicit # 0 /\ asOf \notin {0, explicit}

resolve_search_date(explicit) == IF explicit = 0 THEN asOf ELSE explicit

\* InterfaceBase.filter, exclude and all; a transparent interface has no dates.
ensure_as_of_read_supported(f) ==
  IF asOf # 0 /\ f.interface = "unsupported" THEN "unsupported" ELSE "none"

ReadError(f) ==
  CASE ensure_as_of_read_supported(f) # "none" -> "unsupported"
    [] f.interface = "historical" /\ Clashes(f.date) -> "clash"
    [] Broken \/ f.fails = "body" -> "failure"
    [] OTHER -> "none"

Read(f) ==
  LET e == ReadError(f)
      shown == IF f.interface = "historical" THEN resolve_search_date(f.date) ELSE asOf
  IN  /\ op' = [op EXCEPT !.results = Append(@, IF e = "none" THEN "ok" ELSE format_error(e)),
                          !.awaits = @ \/ f.async # "no"]
      /\ log' = IF e # "none" THEN log
                ELSE log \union {[on |-> Number, field |-> Len(op.results) + 1, asOf |-> asOf,
                                  shows |-> shown, wrote |-> FALSE]}
      /\ UNCHANGED <<blocks, db>>

\* A mutant's guard: the interface's handlers are reached in any context.
UnguardedMutation(f) == "none"

\* Managers and interfaces refuse to write in a historical context, a custom
\* mutation may open one itself.
reject_historical_mutation(f) == IF asOf # 0 \/ f.date # 0 THEN "frozen" ELSE "none"

\* The observer's hooks go around the handler of the interface's create, update or
\* delete, and a failing hook fails the call, also when the handler has written.
_execute_with_observability(f) ==
  CASE Broken \/ f.fails \in {"before", "handler", "after"} -> "failure"
    [] f.fails = "invalid" -> "invalid"
    [] OTHER -> "none"

InterfaceWrite(f) ==
  IF reject_historical_mutation(f) # "none" THEN "frozen" ELSE _execute_with_observability(f)

\* GeneralManager.create, update and delete: permission, then the interface, in
\* the block of data_change, which a failure undoes.
ManagerCall(f) ==
  CASE reject_historical_mutation(f) # "none" -> "frozen"
    [] f.kind = "generated" /\ f.fails = "denied" -> "denied"
    [] OTHER -> InterfaceWrite(f)

\* What goes wrong before the manager call: uploads, arguments, permission.
EarlyError(f) ==
  CASE f.fails = "arguments" -> "invalid"
    [] f.fails = "public" -> "public"
    [] f.kind = "custom" /\ f.fails = "denied" -> "denied"
    [] OTHER -> "none"

\* A custom function can fail after its manager call, and its result can have
\* the wrong number of values.
Late(f) == IF f.kind = "custom" /\ f.fails = "late" THEN "failure" ELSE "none"

_mutate(f) ==
  LET early == EarlyError(f)
      call == IF early = "none" THEN ManagerCall(f) ELSE early
      e == IF call = "none" THEN Late(f) ELSE call
      id == <<Number, Len(op.results) + 1>>
  IN  /\ op' = [op EXCEPT !.results = Append(@, IF e = "none" THEN "ok" ELSE format_error(e)),
                          !.awaits = @ \/ (f.async # "no" /\ e = "none")]
      /\ IF call = "none"
         THEN /\ Write(id)
              /\ log' = log \union {[on |-> Number, field |-> Len(op.results) + 1, asOf |-> asOf,
                                     shows |-> f.date, wrote |-> TRUE]}
         ELSE UNCHANGED <<blocks, db, log>>

-----------------------------------------------------------------------------
(* The view. *)

RequestInit ==
  /\ site \in Sites
  /\ todo \in Batches
  /\ op = NoOp /\ asOf = 0 /\ db = {} /\ log = {} /\ out = << >>
  /\ blocks = IF site.requests THEN <<Block>> ELSE << >>

Refuse(o, code) == [at |-> "complete", of |-> o, results |-> << >>, awaits |-> FALSE, refused |-> code]
Running(o) == [at |-> "run", of |-> o, results |-> << >>, awaits |-> FALSE, refused |-> "none"]

_execute_and_complete(o) ==
  /\ op' = Running(o)
  /\ blocks' = IF o.type = "mutation" /\ site.mutations THEN Append(blocks, Block) ELSE blocks

\* A document that does not validate is left to the execution, which refuses it.
get_response ==
  LET o == Head(todo) found == extract_as_of_search_date(o) IN
  /\ op = NoOp /\ todo # << >>
  /\ todo' = Tail(todo)
  /\ \/ /\ o.type = "invalid"
        /\ op' = Refuse(o, "MESSAGE") /\ UNCHANGED <<asOf, blocks>>
     \/ /\ o.type # "invalid" /\ found.error # "none"
        /\ op' = Refuse(o, found.error) /\ UNCHANGED <<asOf, blocks>>
     \/ /\ o.type # "invalid" /\ found.error = "none"
        /\ _has_declared_async_mutation_resolver(o)
        /\ op' = Refuse(o, "GRAPHQL_VALIDATION_FAILED") /\ UNCHANGED <<asOf, blocks>>
     \/ /\ o.type # "invalid" /\ found.error = "none"
        /\ ~ _has_declared_async_mutation_resolver(o)
        /\ asOf' = found.date
        /\ _execute_and_complete(o)
  /\ UNCHANGED <<site, db, log, out>>

\* The parts of a field that do not wait run even after one that does.
RunField ==
  LET f == op.of.fields[Len(op.results) + 1] IN
  /\ op.at = "run" /\ Len(op.results) < Len(op.of.fields)
  /\ IF f.kind = "read" THEN Read(f) ELSE _mutate(f)
  /\ UNCHANGED <<site, todo, asOf, out>>

\* A mutant's completion: the block of a closed mutation is left as it is.
CompleteKeepingBlock ==
  LET closed == op.of.type = "mutation" /\ op.awaits IN
  /\ op.at = "run" /\ Len(op.results) = Len(op.of.fields)
  /\ op' = [op EXCEPT !.at = "leave",
                      !.refused = IF closed THEN "GRAPHQL_VALIDATION_FAILED" ELSE "none"]
  /\ UNCHANGED <<site, todo, asOf, blocks, db, log, out>>

\* A mutation that would have to be awaited is closed unread, and its block is
\* rolled back; a query is awaited, within its context.
_complete_execution_result ==
  LET closed == op.of.type = "mutation" /\ op.awaits IN
  /\ op.at = "run" /\ Len(op.results) = Len(op.of.fields)
  /\ op' = [op EXCEPT !.at = "leave",
                      !.refused = IF closed THEN "GRAPHQL_VALIDATION_FAILED" ELSE "none"]
  /\ blocks' = IF closed /\ site.mutations THEN Doom ELSE blocks
  /\ UNCHANGED <<site, todo, asOf, db, log, out>>

\* A mutant's exit: the date of the context stays behind.
LeaveInContext ==
  /\ op.at = "leave"
  /\ op' = [op EXCEPT !.at = "complete"]
  /\ IF op.of.type = "mutation" /\ site.mutations THEN Leave ELSE UNCHANGED <<blocks, db>>
  /\ UNCHANGED <<site, todo, asOf, log, out>>

\* The block of the mutation and the context as_of end.
LeaveContext ==
  /\ op.at = "leave"
  /\ op' = [op EXCEPT !.at = "complete"]
  /\ asOf' = 0
  /\ IF op.of.type = "mutation" /\ site.mutations THEN Leave ELSE UNCHANGED <<blocks, db>>
  /\ UNCHANGED <<site, todo, log, out>>

\* Errors doom the request's block; an error without a path costs the data.
Respond ==
  LET refused == op.refused # "none" IN
  /\ op.at = "complete"
  /\ blocks' = IF site.requests /\ (refused \/ Errors(op.results) # {}) THEN Doom ELSE blocks
  /\ out' = Append(out, [of |-> op.of, status |-> IF refused THEN 400 ELSE 200,
                         results |-> IF refused THEN << >> ELSE op.results, refused |-> op.refused])
  /\ op' = NoOp
  /\ UNCHANGED <<site, todo, asOf, db, log>>

EndRequest ==
  /\ op = NoOp /\ todo = << >> /\ blocks # << >>
  /\ Leave
  /\ UNCHANGED <<site, todo, op, asOf, log, out>>

RequestNext ==
  \/ get_response \/ RunField \/ _complete_execution_result \/ LeaveContext
  \/ Respond \/ EndRequest

RequestSpec == RequestInit /\ [][RequestNext]_requestVars

-----------------------------------------------------------------------------
(* Properties. *)

Over == op = NoOp /\ todo = << >> /\ blocks = << >>

\* What an answer reports as done is done, unless an error anywhere in the
\* request took all of it back under ATOMIC_REQUESTS.
ReportedIsKept ==
  Over =>
    \A i \in DOMAIN out : \A j \in DOMAIN out[i].results :
      /\ out[i].results[j] = "ok" /\ out[i].of.fields[j].kind # "read" =>
           \/ <<i, j>> \in db
           \/ site.requests /\ \E k \in DOMAIN out : out[k].status = 400 \/ Errors(out[k].results) # {}

\* A refused operation leaves nothing behind when mutations are atomic, and a
\* mutation with an async resolver never does; nor does a generated mutation
\* that reports an error.
RefusedLeavesNothing ==
  Over =>
    \A w \in db :
      LET answer == out[w[1]] f == answer.of.fields[w[2]] IN
      /\ answer.status = 400 =>
           ~ site.mutations /\ \E g \in ToSet(answer.of.fields) : g.async = "hidden"
      /\ answer.status = 200 /\ f.kind = "generated" => answer.results[w[2]] = "ok"

\* An operation reads at its own date only, writes at none, and leaves no date
\* to the operation after it.
OneDatePerOperation ==
  /\ op = NoOp => asOf = 0
  /\ \A r \in log :
       LET o == IF r.on <= Len(out) THEN out[r.on].of ELSE op.of IN
       /\ r.asOf = extract_as_of_search_date(o).date
       /\ r.wrote => r.asOf = 0 /\ r.shows = 0
       /\ ~ r.wrote /\ r.asOf # 0 => r.shows = r.asOf
=============================================================================
