----------------------------- MODULE MCServices -----------------------------
(***************************************************************************)
(* The components that share a backend, a store or a service between       *)
(* threads, processes or requests, each on a small instance.  They do not  *)
(* share state with each other, so a behaviour is one of a single          *)
(* component, named by part.  Those with a theorem have variables of their *)
(* own (Services.cfg gives their constants), which the other parts leave   *)
(* at one initial value; slots v1 to v10 hold the variables of the others. *)
(***************************************************************************)
EXTENDS Integers, RunContext, Chat, LiveUpdates, RemoteRequests, ReadOnlySync, GraphQLWarmup,
        S3Adapters

VARIABLES part, v1, v2, v3, v4, v5, v6, v7, v8, v9, v10

slots == <<v1, v2, v3, v4, v5, v6, v7, v8, v9, v10>>
vars == <<part, slots, runVars, chatVars, liveVars, reqVars, syncVars, warmVars, s3Vars>>

Unused10 == v10 = 0
Unused9 == v9 = 0 /\ Unused10
Unused1 ==
  /\ v1 = 0 /\ v2 = 0 /\ v3 = 0 /\ v4 = 0 /\ v5 = 0
  /\ v6 = 0 /\ v7 = 0 /\ v8 = 0 /\ Unused9

-----------------------------------------------------------------------------
(* Two processes that synchronise two interfaces; the rows they declare. *)
Unit(k, v) == [key |-> k, value |-> v, ref |-> "omitted"]
PartOf(k, v, r) == [key |-> k, value |-> v, ref |-> r]

SyncDeclarations ==
  {[units |-> <<Unit("x", "new")>>, parts |-> <<PartOf("x", "omitted", "x")>>],
     [units |-> <<Unit("y", "omitted"), Unit("x", "new")>>,
      parts |-> <<PartOf("y", "new", "x"), PartOf("x", "new", "y")>>],
     [units |-> <<Unit("x", "old"), Unit("x", "new")>>, parts |-> <<>>],
     [units |-> <<>>, parts |-> <<PartOf("x", "new", "y")>>]}

(* Two callers of a remote service under two retry policies: a service of
another deployment, which takes every lookup itself and knows no idempotency keys, or
one that honours keys, pages, filters by status and says how many rows match. *)
Row(s, k) == [status |-> s, kind |-> k]
RowHere(s, k) == [state |-> "here", fields |-> Row(s, k)]
NotYet == [state |-> "unused", fields |-> Row(0, 0)]
RemoteTables == {<<RowHere(1, 1), NotYet>>}
RemoteNew == {Row(1, 2)}
RemoteUpdates == {Row(2, 0)}
Want(l, v, a) == [lookup |-> l, value |-> v, action |-> a]
RemoteWanted == {Want("kind", 1, "filter")}
Deployment ==
  [method |-> "POST", filters |-> {"status", "kind"}, excludes |-> {"status", "kind"},
   fallback |-> {}, pages |-> FALSE, totals |-> TRUE, honours |-> FALSE]
Paging(totals) ==
  [method |-> "GET", filters |-> {"status"}, excludes |-> {},
   fallback |-> {"status", "kind"}, pages |-> TRUE, totals |-> totals, honours |-> TRUE]
RemoteServices == {Deployment, Paging(TRUE)}
Policy(attempts, unsafe, key) ==
  [max_attempts |-> attempts, non_idempotent |-> unsafe, keyed |-> key]
RemotePolicies == {Policy(2, FALSE, FALSE), Policy(3, TRUE, TRUE)}

(* Every configuration of a bucket on which two workers run. *)
S3Settings == {s \in Setting : s.copyIfNoneMatch /\ s.conditionalMembers}

(* A stream of an item beside a connection that invalidates remotely (MCServices
has two streams of one operation). *)
DistantItemStreams == {"a1"}
DistantRemoteStreams == {"r1"}

Distant == INSTANCE LiveUpdates WITH
  ItemStreams <- DistantItemStreams, ClassStreams <- {},
  RemoteStreams <- DistantRemoteStreams, ChannelCapacity <- 1, MaxCommits <- 1,
  MaxLiveFaults <- 1, version <- v1, members <- v2, stream <- v3, handler <- v4,
  active <- v5, publisher <- v6, commits <- v7, liveFaults <- v8

(* One caller that chains two lookups on the service of another deployment, which
takes every lookup, or on one that pages, filters by status and may not say how
many rows match (MCServices has two callers). *)
ChainCallers == {"q1"}
ChainRows == {1, 2}
ChainLookups == {"status", "kind"}
ChainFields(s, k) == [status |-> s, kind |-> k]
ChainTables ==
  {<<[state |-> "here", fields |-> ChainFields(1, 1)], [state |-> "unused", fields |-> ChainFields(0, 0)]>>}
ChainNew == {ChainFields(1, 1)}
ChainUpdates == {ChainFields(2, 0)}
ChainWant(l, v, a) == [lookup |-> l, value |-> v, action |-> a]
ChainWanted ==
  {ChainWant("kind", 1, "filter"), ChainWant("status", 1, "filter"), ChainWant("status", 2, "exclude")}
ChainServices ==
  {[method |-> "POST", filters |-> ChainLookups, excludes |-> ChainLookups, fallback |-> {},
    pages |-> FALSE, totals |-> TRUE, honours |-> FALSE]}
  \union [method : {"GET"}, filters : {{"status"}}, excludes : {{}}, fallback : {ChainLookups},
          pages : {TRUE}, totals : BOOLEAN, honours : {TRUE}]
ChainPolicies == {[max_attempts |-> 2, non_idempotent |-> FALSE, keyed |-> FALSE]}

Chain == INSTANCE RemoteRequests WITH
  Callers <- ChainCallers, Lister <- "q1", RowNumbers <- ChainRows, Lookups <- ChainLookups,
  RowValues <- ChainRows, FirstTables <- ChainTables, NewRows <- ChainNew,
  Updates <- ChainUpdates, Wanted <- ChainWanted, Services <- ChainServices,
  RetryPolicies <- ChainPolicies, PageLimit <- 1, MaxRequests <- 2, MaxLookups <- 2,
  MaxLosses <- 1, retry_policy <- v1, service <- v2, rowsAt <- v3, keysSeen <- v4,
  request <- v5, instance <- v6, rbucket <- v7, requests <- v8, losses <- v9

(* Interface classes: a read-only manager that refers to another one, with an
addition that orders its hooks by the same references; and a circle. *)
WiringManagers == {"City", "Country", "Plan"}
WiringKind == [City |-> "readonly", Country |-> "readonly", Plan |-> "calculation"]
WiringPoints == [City |-> {"Country"}, Country |-> {}, Plan |-> {"City"}]
WiringAdds == [City |-> {"shared"}, Country |-> {}, Plan |-> {"shared"}]
WiringLacks == [City |-> {}, Country |-> {}, Plan |-> {}]
WiringRebuildAt == {42}

Wiring == INSTANCE Capabilities WITH
  Managers <- WiringManagers, Kind <- WiringKind, Points <- WiringPoints,
  Adds <- WiringAdds, Lacks <- WiringLacks, RebuildAt <- WiringRebuildAt, phase <- v1,
  wiring <- v2, bound <- v3, hooks <- v4, checks <- v5, serial <- v6, undone <- v7,
  classes <- v8, django <- v9, ran <- v10

CircleManagers == {"City", "Country", "Plan"}
CircleKind == [City |-> "readonly", Country |-> "readonly", Plan |-> "database"]
CirclePoints == [City |-> {"Country"}, Country |-> {"City"}, Plan |-> {}]
CircleAdds == [City |-> {"own"}, Country |-> {"none"}, Plan |-> {}]
CircleLacks == [City |-> {}, Country |-> {}, Plan |-> {"history"}]

Circle == INSTANCE Capabilities WITH
  Managers <- CircleManagers, Kind <- CircleKind, Points <- CirclePoints,
  Adds <- CircleAdds, Lacks <- CircleLacks, RebuildAt <- {}, phase <- v1, wiring <- v2,
  bound <- v3, hooks <- v4, checks <- v5, serial <- v6, undone <- v7, classes <- v8,
  django <- v9, ran <- v10

(* Two threads use a class that is there at startup and one defined later, whose
schema reads both and does not support its template at first. *)
ClassThreads == {"t1", "t2"}
ClassClasses == {"a", "b"}
ClassEarly == {"a"}
ClassReads == [a |-> {"b"}, b |-> {"a", "b"}]
ClassBroken == {"b"}

Class == INSTANCE ManagerClasses WITH
  Threads <- ClassThreads, Classes <- ClassClasses, Early <- ClassEarly,
  Reads <- ClassReads, Broken <- ClassBroken, cls <- v1, pending <- v2, all <- v3,
  ready <- v4, startup <- v5, supported <- v6, lock <- v7, use <- v8

(* A row of an interface that deletes, and of one that deactivates. *)
OrmObjects == {"o1"}
OrmTargets == {"a"}
OrmCalls == {[by |-> "amy", why |-> "fix"]}

Orm == INSTANCE OrmManagers WITH
  Objects <- OrmObjects, Targets <- OrmTargets, SoftDelete <- FALSE, LookupBuffer <- 1,
  Calls <- OrmCalls, MaxNow <- 1, MaxOrmWrites <- 2, now <- v1, db <- v2, tx <- v3,
  op <- v4, obj <- v5, run <- v6, asof <- v7, log <- v8

SoftObjects == {"o1"}
SoftTargets == {"a"}
SoftCalls == {[by |-> "amy", why |-> "fix"], [by |-> "none", why |-> "none"]}

Soft == INSTANCE OrmManagers WITH
  Objects <- SoftObjects, Targets <- SoftTargets, SoftDelete <- TRUE, LookupBuffer <- 1,
  Calls <- SoftCalls, MaxNow <- 0, MaxOrmWrites <- 2, now <- v1, db <- v2, tx <- v3,
  op <- v4, obj <- v5, run <- v6, asof <- v7, log <- v8

(* Requests of two operations: any first one, and a second one of each kind. *)
GqlRead(i, d, fails) == [kind |-> "read", interface |-> i, date |-> d, fails |-> fails, async |-> "no"]
GqlWrite(k, d, fails) == [kind |-> k, interface |-> "historical", date |-> d, fails |-> fails, async |-> "no"]
GqlReads ==
  {GqlRead("historical", d, "no") : d \in 0..2} \union {GqlRead("historical", 0, "body")}
  \union {GqlRead(i, 0, "no") : i \in {"transparent", "unsupported"}}
  \union {[GqlRead("historical", 0, "no") EXCEPT !.async = "hidden"]}
GqlWrites ==
  {GqlWrite("custom", d, fails) : d \in {0, 1}, fails \in {"no", "late"}}
  \union {GqlWrite("custom", 0, fails) : fails \in {"denied", "handler"}}
  \union {GqlWrite("generated", 0, fails) :
            fails \in {"no", "arguments", "public", "denied", "before", "invalid", "after"}}
  \union {[GqlWrite("custom", 0, "no") EXCEPT !.async = a] : a \in {"declared", "hidden"}}
GqlOps ==
  {[type |-> "invalid", dates |-> << >>, fields |-> << >>]}
  \union {[type |-> "query", dates |-> d, fields |-> <<f, g>>] :
            d \in {<< >>, <<1>>, <<0>>, <<1, 1>>}, f \in GqlReads, g \in GqlReads \union {GqlWrite("custom", 0, "no")}}
  \union {[type |-> "mutation", dates |-> d, fields |-> <<f, g>>] :
            d \in {<< >>, <<1>>}, f \in GqlWrites, g \in GqlWrites}
GqlSecond ==
  {[type |-> "query", dates |-> << >>, fields |-> <<GqlRead("historical", 0, "no")>>],
   [type |-> "query", dates |-> <<2>>, fields |-> <<GqlRead("historical", 2, "no")>>],
   [type |-> "mutation", dates |-> << >>, fields |-> <<GqlWrite("generated", 0, "no")>>],
   [type |-> "mutation", dates |-> << >>, fields |-> <<GqlWrite("custom", 0, "late")>>]}

GqlBatches == {<<o, p>> : o \in GqlOps, p \in GqlSecond}
GqlSites == [requests : BOOLEAN, mutations : BOOLEAN]

Gql == INSTANCE GraphQLRequests WITH
  Batches <- GqlBatches, Sites <- GqlSites, site <- v1, todo <- v2, op <- v3, asOf <- v4,
  blocks <- v5, db <- v6, log <- v7, out <- v8

-----------------------------------------------------------------------------
(* Components with variables of their own that are not the part's. *)
QuietSync ==
  /\ data = CHOOSE d \in Declarations : TRUE
  /\ schemaOk = [i \in Interfaces |-> TRUE]
  /\ table = [i \in Interfaces |-> [k \in RowKeys |-> Missing]]
  /\ SyncInit
QuietReq ==
  /\ retry_policy = Policy(2, FALSE, FALSE) /\ service = Deployment
  /\ rowsAt = <<RowHere(1, 1), NotYet>>
  /\ ReqInit
QuietWarm == redis = TRUE /\ WarmInit
AnySetting == CHOOSE s \in AllSettings : TRUE
QuietS3 == storage = AnySetting /\ S3Init

Init ==
  /\ RunInit /\ ChatInit /\ LiveInit
  /\ \/ part = "sync" /\ SyncInit /\ QuietReq /\ QuietWarm /\ QuietS3 /\ Unused1
     \/ part = "warm" /\ QuietReq /\ QuietSync /\ WarmInit /\ QuietS3 /\ Unused1
     \/ part = "s3" /\ QuietReq /\ QuietSync /\ QuietWarm /\ S3Init /\ Unused1
     \/ part = "remote" /\ ReqInit /\ QuietSync /\ QuietWarm /\ QuietS3 /\ Unused1
     \/ /\ QuietReq /\ QuietSync /\ QuietWarm /\ QuietS3
        /\ \/ part \in {"run", "chat", "live"} /\ Unused1
           \/ part = "distant" /\ Distant!LiveInit /\ Unused9
           \/ part = "chain" /\ Chain!ReqInit /\ Unused10
           \/ part = "wiring" /\ Wiring!CapInit
           \/ part = "circle" /\ Circle!CapInit
           \/ part = "classes" /\ Class!ClassInit /\ Unused9
           \/ part = "orm" /\ Orm!OrmInit /\ Unused9
           \/ part = "soft" /\ Soft!OrmInit /\ Unused9
           \/ part = "graphql" /\ Gql!RequestInit /\ Unused9

SlotNext ==
  \/ part = "distant" /\ Distant!LiveNext /\ UNCHANGED <<v9, v10>>
  \/ part = "chain" /\ Chain!ReqNext /\ UNCHANGED v10
  \/ part = "wiring" /\ Wiring!CapNext
  \/ part = "circle" /\ Circle!CapNext
  \/ part = "classes" /\ Class!ClassNext /\ UNCHANGED <<v9, v10>>
  \/ part = "orm" /\ Orm!OrmNext /\ UNCHANGED <<v9, v10>>
  \/ part = "soft" /\ Soft!OrmNext /\ UNCHANGED <<v9, v10>>
  \/ part = "graphql" /\ Gql!RequestNext /\ UNCHANGED <<v9, v10>>

Next ==
  /\ UNCHANGED part
  /\ \/ /\ UNCHANGED <<reqVars, syncVars, warmVars, s3Vars>>
        /\ \/ part = "run" /\ RunNext /\ UNCHANGED <<slots, chatVars, liveVars>>
           \/ part = "chat" /\ ChatNext /\ UNCHANGED <<slots, runVars, liveVars>>
           \/ part = "live" /\ LiveNext /\ UNCHANGED <<slots, runVars, chatVars>>
           \/ SlotNext /\ UNCHANGED <<runVars, chatVars, liveVars>>
     \/ /\ UNCHANGED <<slots, runVars, chatVars, liveVars>>
        /\ \/ part = "remote" /\ ReqNext /\ UNCHANGED <<syncVars, warmVars, s3Vars>>
           \/ part = "sync" /\ SyncNext /\ UNCHANGED <<reqVars, warmVars, s3Vars>>
           \/ part = "warm" /\ WarmNext /\ UNCHANGED <<reqVars, syncVars, s3Vars>>
           \/ part = "s3" /\ S3Next /\ UNCHANGED <<reqVars, syncVars, warmVars>>

Spec == Init /\ [][Next]_vars

-----------------------------------------------------------------------------
(* What the components without a theorem promise. *)

\* Capabilities: startup hooks all run, each after those its interface depends
\* on, Django gets a check once, and a failed build leaves nothing.
\* ManagerClasses: nobody uses a class before its rules' templates are
\* validated, and a failed validation leaves a class as it was
\* (capability_builder.py, startup_hooks.py, bootstrap.py, manager/meta.py).
\* OrmManagers: the newest record is the committed row, a run sees what its
\* thread wrote, and a settled date shows one state (orm/mutations.py, support.py).
\* LiveUpdates: a client told of changes from afar is as sound as a
\* subscription (api/remote_invalidation.py).
\* RemoteRequests: a fetched bucket with two lookups holds all its matches
\* (bucket/request_bucket.py).  GraphQLRequests: what an answer reports is kept,
\* what is refused leaves nothing, and an operation has one date
\* (api/graphql_view.py, mutation.py).
ManagersSound ==
  /\ part = "distant" => Distant!LiveSound
  /\ part = "chain" => Chain!RequestsSound
  /\ part = "graphql" =>
       Gql!ReportedIsKept /\ Gql!RefusedLeavesNothing /\ Gql!OneDatePerOperation
  /\ part = "wiring" =>
       /\ Wiring!HooksFollowDependencies /\ Wiring!EveryHookRuns
       /\ Wiring!FailedBuildsLeaveNothing /\ Wiring!ChecksRegisteredOnce
  /\ part = "circle" =>
       /\ Circle!HooksFollowDependencies /\ Circle!EveryHookRuns
       /\ Circle!FailedBuildsLeaveNothing /\ Circle!ChecksRegisteredOnce
  /\ part = "classes" =>
       Class!UsesAreValidated /\ Class!ClassesAreWhole /\ Class!FailureLeavesNoTrace
  /\ part = "orm" => Orm!RecordedTogether /\ Orm!RunSeesOwnWrites /\ Orm!HistoryStandsStill
  /\ part = "soft" =>
       Soft!RecordedTogether /\ Soft!RunSeesOwnWrites /\ Soft!HistoryStandsStill
=============================================================================
