--------------------------- MODULE RemoteRequests ---------------------------
(***************************************************************************)
(* Managers backed by a remote service (interface/requests.py, the request *)
(* capabilities, bucket/request_bucket.py) and the service another         *)
(* deployment offers with api/remote_api.py: the attempts of a call, its   *)
(* idempotency key, the payloads that instances keep, and the buckets that *)
(* filter partly at the service and partly on what came back.              *)
(*                                                                         *)
(* A row has a value for every lookup; 0 stands for a value not given.     *)
(* The service answers a change with the whole row.                        *)
(***************************************************************************)
EXTENDS Naturals, FiniteSets

CONSTANTS
    Callers,        \* threads of the client
    Lister,         \* the one that uses a bucket
    RowNumbers,     \* identifiers the service can give out
    Lookups,        \* what rows can be filtered by
    RowValues,      \* values of a lookup
    FirstTables,    \* rows the service starts with
    NewRows,        \* rows that callers create
    Updates,        \* what they update rows with
    Wanted,         \* lookups that Lister asks for: [lookup, value, action]
    Services,       \* kinds of service
    RetryPolicies,  \* retry policies
    PageLimit,      \* rows a service that pages returns in one reply
    MaxRequests,    \* bound on calls
    MaxLookups,     \* bound on lookups chained on a bucket
    MaxLosses       \* bound on failed attempts

NoFields == [l \in Lookups |-> 0]
FullRows == [Lookups -> RowValues]
Fields == [Lookups -> RowValues \cup {0}]
Entries == [state : {"here"}, fields : FullRows] \cup [state : {"unused", "gone"}, fields : {NoFields}]
RetryPolicy == [max_attempts : Nat \ {0}, non_idempotent : BOOLEAN, keyed : BOOLEAN]

\* A service takes a list by GET or POST, applies some filters and excludes itself, and
\* perhaps pages, tells how many rows match, and honours idempotency keys; fallback are
\* the lookups that are declared with a local fallback.
Service == [method : {"GET", "POST"}, filters : SUBSET Lookups, excludes : SUBSET Lookups,
            fallback : SUBSET Lookups, pages : BOOLEAN, totals : BOOLEAN, honours : BOOLEAN]
Wants == [lookup : Lookups, value : RowValues, action : {"filter", "exclude"}]

ASSUME ReqAssumption ==
    /\ IsFiniteSet(RowNumbers) /\ 0 \notin RowNumbers /\ 0 \notin RowValues
    /\ FirstTables \subseteq [RowNumbers -> Entries]
    /\ NewRows \subseteq FullRows /\ Updates \subseteq Fields /\ Wanted \subseteq Wants
    /\ RetryPolicies \subseteq RetryPolicy /\ Services \subseteq Service

VARIABLES
    retry_policy,      \* the retry policy of the interface
    service,           \* what the service and its declared operations can do
    rowsAt,            \* the service's rows: number -> whether it is there, and its fields
    keysSeen,          \* keys the service has acted on, with its answers
    request,           \* caller -> the call it is in, or the last one
    instance,          \* caller -> its manager and _request_payload_cache
    rbucket,           \* the bucket of Lister
    requests, losses

reqVars == <<retry_policy, service, rowsAt, keysSeen, request, instance, rbucket, requests, losses>>

NoRequest == [op |-> "none", row |-> 0, change |-> NoFields, key |-> 0,
              attempt |-> 1, effects |-> 0, outcome |-> "none"]
NoInstance == [row |-> 0, payload |-> NoFields]
NoBucket == [source |-> "none", filters |-> NoFields, excludes |-> NoFields,
             items |-> {}, count |-> 0, matching |-> {}]

Existing == {n \in RowNumbers : rowsAt[n].state = "here"}
Unused == {n \in RowNumbers : rowsAt[n].state = "unused"}
Busy(c) == request[c].outcome = "pending"

-----------------------------------------------------------------------------
(* The retry policy *)

\* Declared operations: a detail is a GET, a list a GET or, of another deployment, a POST.
Method(op) ==
    CASE op = "list" -> service.method
      [] op = "create" -> "POST" [] op = "update" -> "PATCH" [] op = "delete" -> "DELETE"
      [] OTHER -> "GET"
Idempotent(op) == Method(op) \in {"GET", "HEAD", "OPTIONS", "DELETE"}
allows_method(op) == retry_policy.non_idempotent \/ Idempotent(op)

\* An exception (a timeout, a refused connection) and a status the policy names may be
\* retried; another status, an answer that is no JSON and other errors may not.
Retryable == {"exception", "retryable status"}
Failures == Retryable \cup {"status", "schema error", "transport error"}
_should_retry(c, failure) ==
    failure \in Retryable /\ request[c].attempt < retry_policy.max_attempts /\ allows_method(request[c].op)

\* Mutant: a key is made for every attempt.
KeyPerAttempt(c) == requests + 10 * request[c].attempt

\* What the next attempt sends: the request as it was built.
NextKey(c) == request[c].key

\* _with_idempotency_key: one key for all attempts of a call, different from all others.
_with_idempotency_key(op) ==
    IF retry_policy.keyed /\ retry_policy.max_attempts > 1 /\ retry_policy.non_idempotent /\ ~Idempotent(op)
    THEN requests + 1 ELSE 0

-----------------------------------------------------------------------------
(* The calls *)

Begin(c, op, row, change) ==
    /\ ~Busy(c) /\ requests < MaxRequests
    /\ requests' = requests + 1
    /\ request' = [request EXCEPT ![c] =
         [op |-> op, row |-> row, change |-> change, key |-> _with_idempotency_key(op),
          attempt |-> 1, effects |-> 0, outcome |-> "pending"]]
    /\ UNCHANGED <<retry_policy, service, rowsAt, keysSeen, instance, rbucket, losses>>

\* A manager is made for an identifier, without a request; a caller uses one at a time.
attach(c, row) ==
    /\ ~Busy(c) /\ instance[c] = NoInstance
    /\ instance' = [instance EXCEPT ![c] = [row |-> row, payload |-> NoFields]]
    /\ UNCHANGED <<retry_policy, service, rowsAt, keysSeen, request, rbucket, requests, losses>>

\* get_data: only when the instance has no payload yet.
get_data(c) ==
    /\ instance[c].row # 0 /\ instance[c].payload = NoFields
    /\ Begin(c, "detail", instance[c].row, NoFields)
create(c, fields) == Begin(c, "create", 0, fields)
\* update needs the payload of the instance, for the rules; a get_data before it reads it.
update(c, change) == instance[c].payload # NoFields /\ Begin(c, "update", instance[c].row, change)
delete(c) == instance[c].row # 0 /\ Begin(c, "delete", instance[c].row, NoFields)
\* execute_plan: the request of an unfetched bucket.
execute_plan(c) == c = Lister /\ rbucket.source = "plan" /\ Begin(c, "list", 0, NoFields)

-----------------------------------------------------------------------------
(* The service acts: the views of api/remote_api.py *)

\* A service that honours keys answers a key it has acted on as it did then.
Answers(c) == {s \in keysSeen : service.honours /\ request[c].key # 0 /\ s.key = request[c].key}
Replayed(c) == Answers(c) # {}
Found(c) == Replayed(c) \/ request[c].op = "create" \/ request[c].row \in Existing
CanAct(c) == Found(c) /\ (request[c].op = "create" => Replayed(c) \/ Unused # {})

\* A number is given out once.
Target(c) ==
    IF request[c].op = "create" THEN CHOOSE n \in Unused : TRUE ELSE request[c].row
Result(c) ==
    LET old == rowsAt[Target(c)].fields
        new == request[c].change
    IN  CASE request[c].op \in {"create", "update"} ->
               [state |-> "here", fields |-> [l \in Lookups |-> IF new[l] = 0 THEN old[l] ELSE new[l]]]
          [] request[c].op = "delete" -> [state |-> "gone", fields |-> NoFields]
          [] OTHER -> rowsAt[Target(c)]
Answer(c) ==
    IF Replayed(c) THEN CHOOSE s \in Answers(c) : TRUE
    ELSE [key |-> request[c].key, row |-> Target(c), fields |-> Result(c).fields]

Changes(op) == op \in {"create", "update", "delete"}
Acts(c) ==
    IF Replayed(c) THEN UNCHANGED <<rowsAt, keysSeen>>
    ELSE /\ rowsAt' = [rowsAt EXCEPT ![Target(c)] = Result(c)]
         /\ keysSeen' = IF request[c].key = 0 THEN keysSeen ELSE keysSeen \cup {Answer(c)}
\* How often the call has changed the service, after it acted.
Effects(c) == IF Replayed(c) \/ ~Changes(request[c].op) THEN request[c].effects ELSE request[c].effects + 1

-----------------------------------------------------------------------------
(* The attempts of a call *)

Sending(c) == Busy(c) /\ request[c].op # "list"

\* What the caller's manager is after a call that succeeded: create makes one from the
\* answered identifier, update keeps the merged payload, delete invalidates it.
Kept(c) ==
    CASE request[c].op = "create" -> [row |-> Answer(c).row, payload |-> NoFields]
      [] request[c].op \in {"detail", "update"} -> [row |-> request[c].row, payload |-> Answer(c).fields]
      [] OTHER -> NoInstance

\* execute: the attempt is answered.
execute(c) ==
    /\ Sending(c) /\ CanAct(c)
    /\ Acts(c)
    /\ request' = [request EXCEPT ![c].outcome = "ok", ![c].effects = Effects(c)]
    /\ instance' = [instance EXCEPT ![c] = Kept(c)]
    /\ UNCHANGED <<retry_policy, service, rbucket, requests, losses>>

\* map_request_transport_error: a missing row is an error that is not retried.
NotFound(c) ==
    /\ Sending(c) /\ ~Found(c)
    /\ request' = [request EXCEPT ![c].outcome = "not found"]
    /\ UNCHANGED <<retry_policy, service, rowsAt, keysSeen, instance, rbucket, requests, losses>>

\* Another attempt after the backoff, or the error.
AttemptFails(c, effects, failure) ==
    request' = IF _should_retry(c, failure)
               THEN [request EXCEPT ![c].attempt = @ + 1, ![c].key = NextKey(c), ![c].effects = effects]
               ELSE [request EXCEPT ![c].outcome = failure, ![c].effects = effects]

\* The service acts and its answer does not arrive: in time, through a gateway, or as
\* something the client can read and accept as one item.
AnswerLost(c, failure) ==
    /\ Sending(c) /\ CanAct(c) /\ losses < MaxLosses
    /\ losses' = losses + 1
    /\ Acts(c)
    /\ AttemptFails(c, Effects(c), failure)
    /\ UNCHANGED <<retry_policy, service, instance, rbucket, requests>>

\* The service does not act.
AttemptLost(c, failure) ==
    /\ Busy(c) /\ losses < MaxLosses
    /\ losses' = losses + 1
    /\ AttemptFails(c, request[c].effects, failure)
    /\ UNCHANGED <<retry_policy, service, rowsAt, keysSeen, instance, rbucket, requests>>

-----------------------------------------------------------------------------
(* Buckets *)

Matches(fields, filters, excludes) ==
    \A l \in Lookups : filters[l] \in {0, fields[l]} /\ excludes[l] # fields[l]

Only(lookups, within) == [l \in Lookups |-> IF l \in within THEN lookups[l] ELSE 0]

\* _compile_fragment: what the service can apply is sent; the rest is a local predicate
\* where the filter has a local fallback, and refused where it has none.
Supported(lookup, action) ==
    lookup \in service.fallback \/ lookup \in (IF action = "filter" THEN service.filters ELSE service.excludes)
LocalFilters(b) == Only(b.filters, Lookups \ service.filters)
LocalExcludes(b) == Only(b.excludes, Lookups \ service.excludes)
local_predicates(b) == LocalFilters(b) # NoFields \/ LocalExcludes(b) # NoFields
RemoteMatches(b) ==
    {n \in Existing : Matches(rowsAt[n].fields, Only(b.filters, service.filters), Only(b.excludes, service.excludes))}
_matches_local_predicates(n, b) == Matches(rowsAt[n].fields, LocalFilters(b), LocalExcludes(b))

Snapshot(numbers) == {<<n, rowsAt[n].fields>> : n \in numbers}
Given(lookups) == Cardinality({l \in Lookups : lookups[l] # 0})
BucketStep == UNCHANGED <<retry_policy, service, rowsAt, keysSeen, request, instance, requests, losses>>

Merged(lookups, want, action) ==
    IF want.action = action THEN [lookups EXCEPT ![want.lookup] = want.value] ELSE lookups

\* build_bucket: from the manager, or from a bucket that has a plan, fetched or not,
\* whose lookups are merged by name.
build_bucket(c, basis, want) ==
    /\ c = Lister /\ ~Busy(c)
    /\ basis = NoBucket \/ (basis = rbucket /\ rbucket.source # "manager")
    /\ Supported(want.lookup, want.action)
    /\ rbucket' = [NoBucket EXCEPT !.source = "plan",
          !.filters = Merged(basis.filters, want, "filter"),
          !.excludes = Merged(basis.excludes, want, "exclude")]
    /\ Given(rbucket'.filters) + Given(rbucket'.excludes) <= MaxLookups
    /\ BucketStep

\* all: the same plan, not fetched.
Again(c) ==
    /\ c = Lister /\ ~Busy(c) /\ rbucket.source # "manager"
    /\ rbucket' = [NoBucket EXCEPT !.source = "plan", !.filters = rbucket.filters, !.excludes = rbucket.excludes]
    /\ BucketStep

\* Pickling makes no request: an unfetched bucket comes back without items.
__setstate__(c) ==
    /\ c = Lister /\ ~Busy(c) /\ rbucket.source = "plan"
    /\ rbucket' = [rbucket EXCEPT !.source = "restored"]
    /\ BucketStep

\* Mutant: rows of a partial page are filtered as if they were all.
AnyPage(b, answered, total) == local_predicates(b) /\ total < Cardinality(answered)

\* Local predicates cannot be applied to a part of the remote matches, if one can tell.
PartialPage(b, answered, total) ==
    local_predicates(b) /\ service.totals /\ total # Cardinality(answered)

\* _ensure_raw_items: what passes the local predicates, and the count they change; after
\* the error of a partial page the bucket is not fetched.
_ensure_raw_items(answered, total) ==
    LET b == rbucket
        kept == Snapshot({n \in answered : _matches_local_predicates(n, b)})
    IN  rbucket' = IF PartialPage(b, answered, total) THEN b
                   ELSE [b EXCEPT !.source = "snapshot", !.items = kept,
                           !.count = IF local_predicates(b) \/ ~service.totals THEN Cardinality(kept) ELSE total,
                           !.matching = Snapshot({n \in Existing : Matches(rowsAt[n].fields, b.filters, b.excludes)})]

\* The list is answered: all remote matches or a page of them, and perhaps their number.
Listed(c) ==
    /\ Busy(c) /\ request[c].op = "list"
    /\ \E answered \in SUBSET RemoteMatches(rbucket) :
         /\ ~service.pages => answered = RemoteMatches(rbucket)
         /\ service.pages =>
              /\ Cardinality(answered) <= PageLimit
              /\ Cardinality(answered) = PageLimit \/ answered = RemoteMatches(rbucket)
         /\ _ensure_raw_items(answered, Cardinality(RemoteMatches(rbucket)))
    /\ request' = [request EXCEPT ![c].outcome = "ok"]
    /\ UNCHANGED <<retry_policy, service, rowsAt, keysSeen, instance, requests, losses>>

\* _from_items: slices, sorted buckets, none and subsets hold managers and have no plan;
\* they are filtered in memory.
_from_items(c, kept) ==
    /\ c = Lister /\ ~Busy(c) /\ rbucket.source \in {"restored", "snapshot", "manager"}
    /\ kept \subseteq rbucket.items
    /\ rbucket' = [NoBucket EXCEPT !.source = "manager", !.items = kept, !.count = Cardinality(kept)]
    /\ BucketStep

-----------------------------------------------------------------------------
(* Specification *)

ReqInit ==
    /\ retry_policy \in RetryPolicies /\ service \in Services
    /\ rowsAt \in FirstTables
    /\ keysSeen = {}
    /\ request = [c \in Callers |-> NoRequest]
    /\ instance = [c \in Callers |-> NoInstance]
    /\ rbucket = NoBucket
    /\ requests = 0 /\ losses = 0

CallBegins(c) ==
    \/ \E row \in RowNumbers : attach(c, row)
    \/ \E fields \in NewRows : create(c, fields)
    \/ \E change \in Updates : update(c, change)
    \/ get_data(c) \/ delete(c) \/ execute_plan(c)
Attempts(c) ==
    \/ execute(c) \/ NotFound(c) \/ Listed(c)
    \/ \E failure \in Failures : AnswerLost(c, failure) \/ AttemptLost(c, failure)
Chains(c) ==
    \/ \E basis \in {NoBucket, rbucket}, want \in Wanted : build_bucket(c, basis, want)
    \/ Again(c) \/ __setstate__(c)
    \/ \E kept \in SUBSET rbucket.items : _from_items(c, kept)
ReqNext == \E c \in Callers : CallBegins(c) \/ Attempts(c) \/ Chains(c)
ReqSpec == ReqInit /\ [][ReqNext]_reqVars

-----------------------------------------------------------------------------
(* Properties *)

KeyedAnswer == [key : Nat \ {0}, row : RowNumbers, fields : Fields]
RequestCall ==
    [op : {"none", "detail", "list", "create", "update", "delete"}, row : RowNumbers \cup {0}, change : Fields,
     key : Nat, attempt : Nat, effects : Nat, outcome : {"none", "pending", "ok", "not found"} \cup Failures]
RequestManager == [row : RowNumbers, payload : Fields] \cup {NoInstance}
PlannedBucket ==
    [source : {"none", "plan", "restored", "snapshot", "manager"}, filters : Fields, excludes : Fields,
     items : SUBSET (RowNumbers \X Fields), count : Nat, matching : SUBSET (RowNumbers \X Fields)]

\* Calls and buckets are what they are declared to be.
ReqTypeOK ==
    /\ retry_policy \in RetryPolicy /\ service \in Service
    /\ rowsAt \in [RowNumbers -> Entries]
    /\ keysSeen \subseteq KeyedAnswer
    /\ request \in [Callers -> RequestCall]
    /\ instance \in [Callers -> RequestManager]
    /\ rbucket \in PlannedBucket
    /\ requests \in Nat /\ losses \in Nat

\* A key the service honours, or a policy that repeats only what is safe to repeat.
RepeatsSafely(c) ==
    ~retry_policy.non_idempotent \/ Idempotent(request[c].op) \/ (service.honours /\ request[c].key # 0)

\* A call changes the service at most once however many answers are lost and whatever
\* others do meanwhile, unless it is told to retry what is not safe to repeat without a
\* key that the service honours; and a call that reports success has changed it.
ChangesAtMostOnce ==
    \A c \in Callers :
      /\ RepeatsSafely(c) => request[c].effects <= 1
      /\ Changes(request[c].op) /\ request[c].outcome = "ok" => request[c].effects >= 1

\* A fetched bucket with lookups the service cannot apply holds every row that matched
\* when it was fetched, and counts them: a partial page is never filtered and shown as
\* the whole, if the service tells how many there are.  A bucket that the service
\* filtered alone knows how many there are though it holds a page of them.
FetchedIsComplete ==
    rbucket.source = "snapshot" =>
        /\ rbucket.items \subseteq rbucket.matching
        /\ service.totals \/ ~service.pages => rbucket.count = Cardinality(rbucket.matching)
        /\ local_predicates(rbucket) /\ (service.totals \/ ~service.pages) => rbucket.items = rbucket.matching

\* What the remote interfaces promise.
RequestsSound == ReqTypeOK /\ ChangesAtMostOnce /\ FetchedIsComplete
=============================================================================
