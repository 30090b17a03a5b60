---------------------------- MODULE GraphQLWarmup ----------------------------
(***************************************************************************)
(* Warm-up of cached GraphQL properties: the recipes and their two index   *)
(* sets in the shared cache (api/graphql_warmup_registry.py), the batch    *)
(* warm-up, the re-warming of invalidated keys and the sweep over due      *)
(* timeout recipes (api/graphql_warmup.py), each run by Celery workers     *)
(* (api/graphql_warmup_tasks.py) that interleave between cache calls.      *)
(*                                                                         *)
(* A cached property is its cache key; a recipe keeps the scope it was     *)
(* registered with and the time of its next refresh.                       *)
(***************************************************************************)
EXTENDS Naturals, Sequences, FiniteSets

CONSTANTS
    WarmKeys,        \* cache keys of warmable properties (naturals)
    WarmWorkers,
    RefreshAfter,    \* timeout * GRAPHQL_WARMUP_TIMEOUT_REFRESH_RATIO, in ticks
    SweepLimit,      \* limit of one sweep
    MaxTicks,        \* bound: the clock
    MaxWarmRuns,     \* bound: tasks
    MaxWarmFaults    \* bound: expired locks, waits that time out, failing properties, redeployments

VARIABLES
    recipes,    \* cache key -> recipe or NoRecipe
    index,      \* index -> set of cache keys
    locks,      \* lock name -> its owner
    worker,     \* worker -> where it is
    scope,      \* cache key -> cache scope the running code gives the property
    redis,      \* TRUE if the cache can run a script
    ticks, warmRuns, warmFaults

warmVars == <<recipes, index, locks, worker, scope, redis, ticks, warmRuns, warmFaults>>

NoOwner == "none"
NoRecipe == [scope |-> "none", refresh_at |-> 0]
RecipeIndex == 101     \* RECIPE_INDEX_KEY
TimeoutIndex == 102    \* TIMEOUT_RECIPE_INDEX_KEY
IndexNames == {RecipeIndex, TimeoutIndex}
LockNames == WarmKeys \cup IndexNames

ASSUME WarmAssumption ==
    /\ WarmKeys \subseteq Nat /\ IsFiniteSet(WarmKeys) /\ WarmKeys \cap IndexNames = {}
    /\ NoOwner \notin WarmWorkers
    /\ RefreshAfter \in Nat /\ SweepLimit \in Nat

\* todo: keys to do; found: <<0, key>> of candidates of a batch, or
\* <<time of refresh, key>> of what a sweep found due;
\* key: the recipe being executed; ops: index updates still to make, and after
\* them `after`; read: the index as read; lock: the lock to give back, and after
\* it `then`; owns: locks acquired and neither given back nor expired.
IdleWorker == [pc |-> "idle", todo |-> << >>, found |-> {}, key |-> 0, ops |-> << >>, after |-> "idle",
               read |-> {}, lock |-> 0, then |-> "idle", owns |-> {}]

\* A step of a worker that ends in r.
WarmStep(w, r) ==
    /\ worker' = [worker EXCEPT ![w] = r]
    /\ UNCHANGED <<scope, redis, ticks>>
Here(w, pc) == worker[w].pc = pc
\* The keys of entries <<time, key>>, in the order a worker goes through them.
Before(d, e) == d[1] < e[1] \/ (d[1] = e[1] /\ d[2] < e[2])
Sorted(entries) == {s \in [1..Cardinality(entries) -> entries] : \A i, j \in DOMAIN s : i < j => Before(s[i], s[j])}
KeysOf(s) == [i \in DOMAIN s |-> s[i][2]]
Faulty == warmFaults < MaxWarmFaults /\ warmFaults' = warmFaults + 1

-----------------------------------------------------------------------------
(* Locks *)

\* _acquire_cache_lock, acquire_graphql_warmup_recipe_lock: cache.add.
Unlocked(n) == locks[n] = NoOwner
_acquire_cache_lock(w, n) == Unlocked(n) /\ locks' = [locks EXCEPT ![n] = w]

\* Mutant: the lock is deleted whoever holds it.
DeletesAnyLock(w, n) == w = w /\ n = n

OwnedBy(w, n) == locks[n] = w

\* _delete_redis_lock_if_owned: compare and delete in one script.
_delete_redis_lock_if_owned(w) ==
    /\ Here(w, "release") /\ redis
    /\ LET n == worker[w].lock
       IN  /\ locks' = IF OwnedBy(w, n) THEN [locks EXCEPT ![n] = NoOwner] ELSE locks
           /\ WarmStep(w, [worker[w] EXCEPT !.pc = worker[w].then, !.owns = @ \ {n}])
    /\ UNCHANGED <<recipes, index, warmRuns, warmFaults>>

\* _delete_lock_if_owned without scripts: the owner is compared ...
_delete_lock_if_owned(w) ==
    /\ Here(w, "release") /\ ~redis
    /\ LET owned == OwnedBy(w, worker[w].lock)
       IN  WarmStep(w, [worker[w] EXCEPT !.pc = IF owned THEN "delete" ELSE worker[w].then,
                                         !.owns = IF owned THEN @ ELSE @ \ {worker[w].lock}])
    /\ UNCHANGED <<recipes, index, locks, warmRuns, warmFaults>>

\* ... and then the key is deleted, whoever owns it by then.
DeleteLock(w) ==
    /\ Here(w, "delete")
    /\ locks' = [locks EXCEPT ![worker[w].lock] = NoOwner]
    /\ WarmStep(w, [worker[w] EXCEPT !.pc = worker[w].then, !.owns = @ \ {worker[w].lock}])
    /\ UNCHANGED <<recipes, index, warmRuns, warmFaults>>

\* The timeout of a lock passes; whoever held it is not told.
LockExpires(n) ==
    /\ ~Unlocked(n) /\ Faulty
    /\ locks' = [locks EXCEPT ![n] = NoOwner]
    /\ worker' = [w \in WarmWorkers |-> [worker[w] EXCEPT !.owns = @ \ {n}]]
    /\ UNCHANGED <<recipes, index, scope, redis, ticks, warmRuns>>

-----------------------------------------------------------------------------
(* Recipes and their indexes *)

\* _recipe_for: scope and refresh time come from the running code.
_recipe_for(k) ==
    [scope |-> scope[k], refresh_at |-> IF scope[k] = "timeout" THEN ticks + RefreshAfter ELSE 0]

\* register_graphql_warmup_recipe: the recipe, then the index of all recipes, then
\* the index of the timeout recipes.
register_graphql_warmup_recipe(w, k, r, after) ==
    /\ recipes' = [recipes EXCEPT ![k] = _recipe_for(k)]
    /\ WarmStep(w, [r EXCEPT !.pc = "index", !.after = after,
                        !.ops = <<<<RecipeIndex, "add", k>>, <<TimeoutIndex, IF scope[k] = "timeout" THEN "add" ELSE "remove", k>>>>])

\* Mutant: the index is updated without its lock.
UpdateUnlocked(w) ==
    /\ Here(w, "index") /\ worker[w].ops # << >>
    /\ LET n == Head(worker[w].ops)[1]
       IN  WarmStep(w, [worker[w] EXCEPT !.pc = "write", !.read = index[n], !.lock = n])
    /\ UNCHANGED <<recipes, index, locks, warmRuns, warmFaults>>

\* _add_index_member, _remove_index_member: under its lock the index is read ...
_locked_index_update(w) ==
    /\ Here(w, "index") /\ worker[w].ops # << >>
    /\ LET n == Head(worker[w].ops)[1]
       IN  /\ _acquire_cache_lock(w, n)
           /\ WarmStep(w, [worker[w] EXCEPT !.pc = "write", !.read = index[n], !.lock = n, !.owns = @ \cup {n}])
    /\ UNCHANGED <<recipes, index, warmRuns, warmFaults>>

\* ... and written back.
_write_index(w) ==
    /\ Here(w, "write")
    /\ LET op == Head(worker[w].ops)
       IN  index' = [index EXCEPT ![op[1]] = IF op[2] = "add" THEN worker[w].read \cup {op[3]} ELSE worker[w].read \ {op[3]}]
    /\ WarmStep(w, [worker[w] EXCEPT !.pc = "release", !.then = "index", !.ops = Tail(@), !.read = {}])
    /\ UNCHANGED <<recipes, locks, warmRuns, warmFaults>>

\* The recipe lock is given back by the finally of warm_up_graphql_recipe.
GoingOn(r, after) ==
    IF after = "unlock" THEN [r EXCEPT !.pc = "release", !.lock = r.key, !.then = "next", !.ops = << >>]
    ELSE [r EXCEPT !.pc = after, !.ops = << >>]

IndexUpdated(w) ==
    /\ Here(w, "index") /\ worker[w].ops = << >>
    /\ WarmStep(w, GoingOn(worker[w], worker[w].after))
    /\ UNCHANGED <<recipes, index, locks, warmRuns, warmFaults>>

\* GraphQLWarmUpRecipeLockTimeoutError: caught only around the execution of a
\* recipe, it ends a batch and a sweep.
LockTimeout(w) ==
    /\ Here(w, "index") /\ worker[w].ops # << >> /\ ~Unlocked(Head(worker[w].ops)[1]) /\ Faulty
    /\ WarmStep(w, IF worker[w].after = "unlock" THEN GoingOn(worker[w], "unlock") ELSE IdleWorker)
    /\ UNCHANGED <<recipes, index, locks, warmRuns>>

-----------------------------------------------------------------------------
(* warm_up_graphql_properties *)

BeginTask(w, pc, K) ==
    /\ Here(w, "idle") /\ warmRuns < MaxWarmRuns /\ warmRuns' = warmRuns + 1
    /\ \E s \in Sorted({0} \X K) : WarmStep(w, [IdleWorker EXCEPT !.pc = pc, !.todo = KeysOf(s)])
    /\ UNCHANGED <<recipes, index, locks, warmFaults>>

warm_up_graphql_properties(w) == BeginTask(w, "batch", WarmKeys)

\* _warm_batch: properties that raise are skipped, the others become candidates.
_warm_batch(w) ==
    /\ Here(w, "batch")
    /\ LET r == worker[w] IN
       \/ /\ r.todo # << >>
          /\ WarmStep(w, [r EXCEPT !.todo = Tail(@), !.found = @ \cup {<<0, Head(r.todo)>>}])
          /\ UNCHANGED warmFaults
       \/ /\ r.todo # << >> /\ Faulty
          /\ WarmStep(w, [r EXCEPT !.todo = Tail(@)])
       \/ /\ r.todo = << >>
          /\ \E s \in Sorted(r.found) : WarmStep(w, [r EXCEPT !.pc = "register", !.todo = KeysOf(s), !.found = {}])
          /\ UNCHANGED warmFaults
    /\ UNCHANGED <<recipes, index, locks, warmRuns>>

RegisterCandidates(w) ==
    /\ Here(w, "register")
    /\ LET r == worker[w] IN
       IF r.todo = << >> THEN WarmStep(w, IdleWorker) /\ UNCHANGED recipes
       ELSE register_graphql_warmup_recipe(w, Head(r.todo), [r EXCEPT !.todo = Tail(@)], "register")
    /\ UNCHANGED <<index, locks, warmRuns, warmFaults>>

-----------------------------------------------------------------------------
(* warm_up_graphql_recipes_task and refresh_due_graphql_warmup_recipes *)

\* Keys that an invalidation names, once each.
warm_up_graphql_recipes_task(w) == \E K \in SUBSET WarmKeys \ {{}} : BeginTask(w, "next", K)

refresh_due_graphql_warmup_recipes(w) == BeginTask(w, "scan", index[TimeoutIndex])

\* due_timeout_graphql_warmup_recipe_keys: recipe by recipe; a member without a
\* timeout recipe is removed from the index.
due_timeout_graphql_warmup_recipe_keys(w) ==
    /\ Here(w, "scan") /\ worker[w].todo # << >>
    /\ LET r == worker[w]
           k == Head(r.todo)
       IN  WarmStep(w, IF recipes[k].scope # "timeout"
                       THEN [r EXCEPT !.pc = "index", !.todo = Tail(@), !.after = "scan", !.ops = <<<<TimeoutIndex, "remove", k>>>>]
                       ELSE [r EXCEPT !.todo = Tail(@), !.found = IF recipes[k].refresh_at <= ticks THEN @ \cup {<<recipes[k].refresh_at, k>>} ELSE @])
    /\ UNCHANGED <<recipes, index, locks, warmRuns, warmFaults>>

\* The oldest ones found due are refreshed first.
SortDue(w) ==
    /\ Here(w, "scan") /\ worker[w].todo = << >>
    /\ \E s \in Sorted(worker[w].found) :
         WarmStep(w, [worker[w] EXCEPT !.pc = "next", !.found = {},
                                       !.todo = SubSeq(KeysOf(s), 1, IF Len(s) < SweepLimit THEN Len(s) ELSE SweepLimit)])
    /\ UNCHANGED <<recipes, index, locks, warmRuns, warmFaults>>

\* warm_up_graphql_recipe: without a recipe, or while another worker has its
\* lock, nothing is done.
warm_up_graphql_recipe(w) ==
    /\ Here(w, "next")
    /\ LET r == worker[w]
           k == Head(r.todo)
       IN  IF r.todo # << >> /\ recipes[k] # NoRecipe /\ Unlocked(k)
           THEN /\ _acquire_cache_lock(w, k)
                /\ WarmStep(w, [r EXCEPT !.pc = "execute", !.key = k, !.todo = Tail(@), !.owns = @ \cup {k}])
           ELSE /\ WarmStep(w, IF r.todo = << >> THEN IdleWorker ELSE [r EXCEPT !.todo = Tail(@)])
                /\ UNCHANGED locks
    /\ UNCHANGED <<recipes, index, warmRuns, warmFaults>>

\* _execute_graphql_warmup_recipe: the value is computed and stored and the recipe
\* registered anew; an exception is logged.
_execute_graphql_warmup_recipe(w) ==
    /\ Here(w, "execute")
    /\ \/ register_graphql_warmup_recipe(w, worker[w].key, worker[w], "unlock") /\ UNCHANGED warmFaults
       \/ Faulty /\ WarmStep(w, GoingOn(worker[w], "unlock")) /\ UNCHANGED recipes
    /\ UNCHANGED <<index, locks, warmRuns>>

-----------------------------------------------------------------------------
(* The environment *)

\* A worker dies; its locks stay until they expire.
WorkerDies(w) ==
    /\ ~Here(w, "idle") /\ Faulty
    /\ WarmStep(w, [IdleWorker EXCEPT !.owns = {n \in LockNames : locks[n] = w}])
    /\ UNCHANGED <<recipes, index, locks, warmRuns>>

\* The cache drops a recipe, or a deployment changes the scope of a property.
RecipeEvicted(k) ==
    /\ recipes[k] # NoRecipe /\ Faulty
    /\ recipes' = [recipes EXCEPT ![k] = NoRecipe]
    /\ UNCHANGED <<index, locks, worker, scope, redis, ticks, warmRuns>>

Redeployed(k) ==
    /\ Faulty
    /\ scope' = [scope EXCEPT ![k] = IF @ = "timeout" THEN "dependency" ELSE "timeout"]
    /\ UNCHANGED <<recipes, index, locks, worker, redis, ticks, warmRuns>>

WarmTick == ticks < MaxTicks /\ ticks' = ticks + 1 /\ UNCHANGED <<recipes, index, locks, worker, scope, redis, warmRuns, warmFaults>>

WarmInit ==
    /\ recipes = [k \in WarmKeys |-> NoRecipe]
    /\ index = [n \in IndexNames |-> {}]
    /\ locks = [n \in LockNames |-> NoOwner]
    /\ worker = [w \in WarmWorkers |-> IdleWorker]
    /\ scope = [k \in WarmKeys |-> "timeout"]
    /\ redis \in BOOLEAN
    /\ ticks = 0 /\ warmRuns = 0 /\ warmFaults = 0

WarmNext ==
    \/ \E w \in WarmWorkers :
         \/ warm_up_graphql_properties(w) \/ _warm_batch(w) \/ RegisterCandidates(w)
         \/ warm_up_graphql_recipes_task(w) \/ refresh_due_graphql_warmup_recipes(w)
         \/ due_timeout_graphql_warmup_recipe_keys(w) \/ SortDue(w) \/ warm_up_graphql_recipe(w) \/ _execute_graphql_warmup_recipe(w)
         \/ _locked_index_update(w) \/ _write_index(w) \/ IndexUpdated(w) \/ LockTimeout(w)
         \/ _delete_redis_lock_if_owned(w) \/ _delete_lock_if_owned(w) \/ DeleteLock(w) \/ WorkerDies(w)
    \/ \E n \in LockNames : LockExpires(n)
    \/ \E k \in WarmKeys : RecipeEvicted(k) \/ Redeployed(k)
    \/ WarmTick

WarmSpec == WarmInit /\ [][WarmNext]_warmVars

-----------------------------------------------------------------------------
(* Properties *)

\* On a cache with scripts a worker that refreshes a recipe or updates an index
\* has the lock for as long as it did not expire, whichever worker finishes late
\* (release_graphql_warmup_recipe_lock deletes only its own token).
LocksKept == redis => \A w \in WarmWorkers : \A n \in worker[w].owns : locks[n] = w

\* While no lock expires and nothing fails, no registration is lost to a
\* concurrent one: a recipe that nobody is registering is in both indexes, so the
\* sweep will find it.
RecipesIndexed ==
    warmFaults = 0 =>
        \A k \in WarmKeys :
            (recipes[k] # NoRecipe /\ \A w \in WarmWorkers : \A i \in DOMAIN worker[w].ops : worker[w].ops[i][3] # k)
                => k \in index[RecipeIndex] /\ (recipes[k].scope = "timeout" => k \in index[TimeoutIndex])

\* What the warm-up promises.
WarmSound == LocksKept /\ RecipesIndexed
=============================================================================
