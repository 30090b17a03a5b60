--------------------------- MODULE RunCacheBudget ---------------------------
(***************************************************************************)
(* The process-wide byte budget of the run caches: cache/run_context_lru.py *)
(* with the bookkeeping of cache/run_context.py that feeds it.             *)
(*                                                                         *)
(* Every thread has one context.  A context writes its own dictionary      *)
(* first and reports to the budget afterwards; the budget evicts entries   *)
(* of any context under its lock and announces its modes (budget on,       *)
(* recency on) to the contexts outside of it.  Sizes are counted in units  *)
(* of MIN_TRACKED_ENTRY_BYTES; a value is atomic, or belongs to the one    *)
(* stratum whose size is projected from samples.                           *)
(***************************************************************************)
EXTENDS Integers, Sequences, FiniteSets

CONSTANTS
    Owners,          \* contexts, one per thread
    Slots,           \* keys inside a context
    Weights,         \* [stratum, shallow, deep]: what values weigh
    Budgets,         \* configured RUN_CONTEXT_CACHE_MAX_BYTES (NoBudget: None)
    CalibrationInterval, TouchBatch,
    MaxAdmissions,   \* bound: values stored
    MaxSettings      \* bound: changes of the setting

VARIABLES
    bud,        \* ProcessRunContextCacheBudget
    held,       \* owner -> slot -> the value in its dictionary
    owner,      \* owner -> its flags, queued touches, and what its thread is doing
    setting,    \* the configured budget
    admissions, settings    \* counters of the bounds

budVars == <<bud, held, owner, setting, admissions, settings>>

NoBudget == -1
Absent == [stratum |-> FALSE, shallow |-> 0, deep |-> 0]
Tracked == Owners \X Slots
NoStratum == [count |-> 0, shallow |-> 0, admitted |-> 0, samples |-> << >>]
NoPublication == [to |-> {}, budget |-> FALSE, recency |-> FALSE, gen |-> 0]
CalibrationWindow == 2
MaxReestimates == 1

BudgetInit ==
    /\ setting \in Budgets
    /\ bud = [max |-> NoBudget, order |-> << >>, entry |-> [e \in Tracked |-> Absent],
              stratum |-> NoStratum, history |-> NoStratum, exact |-> 0, total |-> 0,
              conf |-> 0, ticket |-> 0, attempt |-> [e \in Tracked |-> 0],
              owners |-> {}, recency |-> FALSE, gen |-> 0,
              published |-> <<FALSE, FALSE>>, queue |-> << >>,
              bypassed |-> FALSE]     \* history: the last admission was too large
    /\ held = [o \in Owners |-> [s \in Slots |-> Absent]]
    /\ owner = [o \in Owners |-> [pc |-> "none", then |-> "none", slot |-> "none", value |-> Absent,
                  budget |-> FALSE, recency |-> FALSE, gen |-> 0, touches |-> << >>, reads |-> 0,
                  conf |-> 0, attempt |-> 0, tries |-> 0, limit |-> 0, out |-> NoPublication]]
    /\ admissions = 0
    /\ settings = 0

-----------------------------------------------------------------------------
(* Sizes *)

CeilDiv(a, d) == (a + d - 1) \div d
SumOf(f) == LET g[n \in 0..Len(f)] == IF n = 0 THEN 0 ELSE g[n - 1] + f[n]
            IN  g[Len(f)]
AtLeast1(n) == IF n < 1 THEN 1 ELSE n
Residual(st) == SumOf([i \in DOMAIN st.samples |-> st.samples[i].deep - 1])
Sampled(st) == SumOf([i \in DOMAIN st.samples |-> st.samples[i].shallow])

\* modeled_bytes: the residual above the minimum is projected from the samples.
modeled_bytes(st) ==
    IF st.count = 0 THEN 0
    ELSE st.count + CeilDiv(st.shallow * Residual(st), AtLeast1(Sampled(st)))

\* _modeled_entry_bytes_locked.
_modeled_entry_bytes_locked(b, v) ==
    IF ~v.stratum THEN v.deep
    ELSE 1 + CeilDiv(v.shallow * Residual(b.stratum), AtLeast1(Sampled(b.stratum)))

\* estimate_cache_entry_size saturates just above the budget.
estimate_cache_entry_size(v, stop) == IF v.deep > stop THEN stop + 1 ELSE v.deep

_eviction_target(max) == (max * 95) \div 100
should_calibrate_next(st) ==
    st.admitted = 0 \/ (st.admitted + 1) % CalibrationInterval = 0

-----------------------------------------------------------------------------
(* Accounting, under the budget's lock *)

IsTracked(b, e) == \E i \in DOMAIN b.order : b.order[i] = e
WithoutKey(seq, e) == SelectSeq(seq, LAMBDA x : x # e)

\* _add_entry_accounting_locked: the totals move by the difference it makes.
_add_entry_accounting_locked(b, e, v) ==
    LET st == [b.stratum EXCEPT !.count = @ + 1, !.shallow = @ + v.shallow]
        c == [b EXCEPT !.order = Append(@, e), !.entry[e] = v]
    IN  IF ~v.stratum THEN [c EXCEPT !.exact = @ + v.deep, !.total = @ + v.deep]
        ELSE [c EXCEPT !.stratum = st,
                       !.total = @ + modeled_bytes(st) - modeled_bytes(b.stratum)]

\* Mutant: an emptied stratum is dropped without taking its bytes off the total.
RemoveKeepingBytes(b, e) ==
    IF ~IsTracked(b, e) THEN b
    ELSE LET v == b.entry[e]
             st == [b.stratum EXCEPT !.count = @ - 1, !.shallow = @ - v.shallow]
             c == [b EXCEPT !.order = WithoutKey(@, e), !.entry[e] = Absent]
         IN  IF ~v.stratum THEN [c EXCEPT !.exact = @ - v.deep, !.total = @ - v.deep]
             ELSE [c EXCEPT !.stratum = IF st.count = 0 THEN NoStratum ELSE st,
                            !.history = IF st.count = 0 THEN st ELSE @,
                            !.total = IF st.count = 0 THEN @
                                      ELSE @ + modeled_bytes(st) - modeled_bytes(b.stratum)]

\* _remove_entry_accounting_locked with _retain_calibration_locked: the samples
\* of an emptied stratum go to the calibration history.
_remove_entry_accounting_locked(b, e) ==
    IF ~IsTracked(b, e) THEN b
    ELSE LET v == b.entry[e]
             st == [b.stratum EXCEPT !.count = @ - 1, !.shallow = @ - v.shallow]
             c == [b EXCEPT !.order = WithoutKey(@, e), !.entry[e] = Absent]
         IN  IF ~v.stratum THEN [c EXCEPT !.exact = @ - v.deep, !.total = @ - v.deep]
             ELSE [c EXCEPT !.stratum = IF st.count = 0 THEN NoStratum ELSE st,
                            !.history = IF st.count = 0 THEN st ELSE @,
                            !.total = @ + modeled_bytes(st) - modeled_bytes(b.stratum)]

\* _activate_stratum_locked: an empty stratum starts from what history kept.
_activate_stratum_locked(b) ==
    IF b.stratum.count > 0 \/ b.stratum.samples # << >> THEN b
    ELSE [b EXCEPT !.stratum = [b.history EXCEPT !.count = 0, !.shallow = 0],
                   !.history = NoStratum]

\* _publish_calibration_locked: a new sample changes what all entries weigh.
_publish_calibration_locked(b, v, estimate) ==
    LET kept == IF Len(b.stratum.samples) = CalibrationWindow THEN Tail(b.stratum.samples)
                ELSE b.stratum.samples
        st == [b.stratum EXCEPT
                 !.samples = Append(kept, [shallow |-> v.shallow, deep |-> estimate])]
    IN  [b EXCEPT !.stratum = st, !.total = @ + modeled_bytes(st) - modeled_bytes(b.stratum)]

Evict(g, e) == [b |-> _remove_entry_accounting_locked([g.b EXCEPT !.attempt[e] = 0], e),
                held |-> [g.held EXCEPT ![e[1]][e[2]] = Absent]]

\* _evict_excess_locked: the oldest entries, until the reserve is free again.
_evict_excess_locked(g) ==
    LET after[n \in 0..Len(g.b.order)] ==
            IF n = 0 THEN [g EXCEPT !.b.bypassed = FALSE] ELSE Evict(after[n - 1], g.b.order[n])
        fits == {n \in DOMAIN after : after[n].b.total <= _eviction_target(g.b.max)}
    IN  IF fits = {} THEN after[Len(g.b.order)]
        ELSE after[CHOOSE n \in fits : \A k \in fits : n <= k]

\* A replaced value leaves its samples to the one that replaces it.
Preserved(before, removed, same) ==
    IF same /\ removed.stratum.samples = << >>
    THEN [removed EXCEPT !.stratum = [before.stratum EXCEPT !.count = 0, !.shallow = 0],
                         !.history = NoStratum]
    ELSE removed

Activated(b, v) == IF v.stratum THEN _activate_stratum_locked(b) ELSE b
Calibrated(b, v, estimate) ==
    IF v.stratum /\ estimate # 0 /\ should_calibrate_next(b.stratum)
    THEN _publish_calibration_locked(b, v, estimate) ELSE b
Counted(b, e, v) ==
    [b EXCEPT !.stratum.admitted = @ + (IF v.stratum THEN 1 ELSE 0), !.attempt[e] = 0]

\* A value larger than the whole budget is not kept.
Kept(b, g, e, v) ==
    IF _modeled_entry_bytes_locked(b, v) > b.max
    THEN Evict([b |-> [b EXCEPT !.bypassed = TRUE], held |-> g.held], e)
    ELSE _evict_excess_locked([b |-> b, held |-> g.held])

_publish_entry_locked(g, e, v, estimate) ==
    LET same == v.stratum /\ IsTracked(g.b, e) /\ g.b.entry[e].stratum
        active == Activated(Preserved(g.b, _remove_entry_accounting_locked(g.b, e), same), v)
    IN  Kept(Counted(_add_entry_accounting_locked(Calibrated(active, v, estimate), e, v), e, v),
             g, e, v)

\* _desired_recency_locked: on at 80 % of the budget, off below 70 %.
_desired_recency_locked(b) ==
    b.max > 0 /\ b.total * 100 >= b.max * (IF b.recency THEN 70 ELSE 80)

\* _capture_mode_publication_locked: a change of modes goes to all owners, an
\* unchanged mode to a new owner only.
_capture_mode_publication_locked(b, new) ==
    LET modes == <<b.max # NoBudget, _desired_recency_locked(b)>>
        changed == modes # b.published
        gen == IF changed THEN b.gen + 1 ELSE b.gen
        to == IF changed THEN b.owners ELSE new
    IN  [b EXCEPT !.recency = IF changed THEN modes[2] ELSE @, !.published = modes, !.gen = gen,
                  !.queue = IF changed \/ new # {}
                            THEN Append(@, [to |-> to, budget |-> modes[1],
                                            recency |-> modes[2], gen |-> gen])
                            ELSE @]

\* _track_owner_entries_locked: what the owner's dictionary already holds.
_track_owner_entries_locked(g, o) ==
    LET kept == {s \in Slots : g.held[o][s] # Absent}
        order == CHOOSE f \in [1..Cardinality(kept) -> kept] : \A i, j \in DOMAIN f : i # j => f[i] # f[j]
        Track(h, s) == IF h.b.max = 0 THEN Evict(h, <<o, s>>)
                       ELSE _publish_entry_locked(h, <<o, s>>, h.held[o][s],
                              estimate_cache_entry_size(h.held[o][s], h.b.max))
        after[n \in 0..Cardinality(kept)] == IF n = 0 THEN g ELSE Track(after[n - 1], order[n])
    IN  after[Cardinality(kept)]

\* Mutant: switching the budget on starts with empty books.
RebuildEmpty(g) ==
    [g EXCEPT !.b.order = << >>, !.b.entry = [e \in Tracked |-> Absent], !.b.stratum = NoStratum,
              !.b.history = NoStratum, !.b.exact = 0, !.b.total = 0]

\* _rebuild_locked: accounting starts afresh from the dictionaries.
_rebuild_locked(g) ==
    LET fresh == [g EXCEPT !.b.order = << >>, !.b.entry = [e \in Tracked |-> Absent],
                           !.b.stratum = NoStratum, !.b.history = NoStratum,
                           !.b.exact = 0, !.b.total = 0]
        n == Cardinality(g.b.owners)
        order == CHOOSE f \in [1..n -> g.b.owners] : \A i, j \in DOMAIN f : i # j => f[i] # f[j]
        after[i \in 0..n] == IF i = 0 THEN fresh ELSE _track_owner_entries_locked(after[i - 1], order[i])
    IN  after[n]

-----------------------------------------------------------------------------
(* register, track, touch, remove, clear_context *)

State == [b |-> bud, held |-> held]
Commit(g, new) ==
    /\ bud' = _capture_mode_publication_locked(g.b, new)
    /\ held' = g.held

\* register: a changed setting rebuilds, drops or trims the accounting.
register(o) ==
    LET new == IF o \in bud.owners THEN {} ELSE {o}
        in == [State EXCEPT !.b.owners = @ \cup {o}]
        set == [in EXCEPT !.b.max = setting, !.b.conf = @ + 1, !.b.history = NoStratum]
        off == [set EXCEPT !.b.order = << >>, !.b.entry = [e \in Tracked |-> Absent],
                           !.b.stratum = NoStratum, !.b.attempt = [e \in Tracked |-> 0],
                           !.b.exact = 0, !.b.total = 0]
    IN  IF setting = bud.max
        THEN Commit(IF new # {} /\ setting # NoBudget THEN _track_owner_entries_locked(in, o) ELSE in, new)
        ELSE Commit(CASE setting = NoBudget -> off
                      [] setting # NoBudget /\ bud.max = NoBudget -> _rebuild_locked(set)
                      [] OTHER -> _evict_excess_locked(set), {})

Go(o, pc, then) == owner' = [owner EXCEPT ![o].pc = pc, ![o].then = then]

\* __init__ creates and registers the context ...
ConstructContext(o) ==
    /\ owner[o].pc = "none"
    /\ register(o)
    /\ owner' = [owner EXCEPT ![o].pc = "publish", ![o].then = "created", ![o].gen = -1,
                              ![o].budget = setting # NoBudget, ![o].recency = FALSE]
    /\ UNCHANGED <<setting, admissions, settings>>

\* ... and __enter__ resets its flags and registers it again.
EnterContext(o) ==
    /\ owner[o].pc = "created"
    /\ register(o)
    /\ owner' = [owner EXCEPT ![o].pc = "publish", ![o].then = "idle",
                              ![o].budget = setting # NoBudget, ![o].recency = FALSE,
                              ![o].touches = << >>, ![o].reads = 0]
    /\ UNCHANGED <<setting, admissions, settings>>

\* _publish_modes: one announcement is taken under the lock ...
TakePublication(o) ==
    /\ owner[o].pc = "publish"
    /\ IF bud.queue = << >>
       THEN owner' = [owner EXCEPT ![o].pc = owner[o].then] /\ UNCHANGED bud
       ELSE /\ owner' = [owner EXCEPT ![o].pc = "deliver", ![o].out = Head(bud.queue)]
            /\ bud' = [bud EXCEPT !.queue = Tail(@)]
    /\ UNCHANGED <<held, setting, admissions, settings>>

\* Mutant: the generation of an announcement is not compared.
SetModesAlways(x, p) == [x EXCEPT !.gen = p.gen, !.budget = p.budget, !.recency = p.recency]

\* _set_run_cache_modes: an older announcement that comes late is ignored.
_set_run_cache_modes(x, p) ==
    IF p.gen < x.gen THEN x
    ELSE [x EXCEPT !.gen = p.gen, !.budget = p.budget, !.recency = p.recency,
                   !.touches = IF p.budget /\ p.recency THEN @ ELSE << >>,
                   !.reads = IF p.budget /\ p.recency THEN @ ELSE 0]

\* ... and delivered outside of it.
DeliverPublication(o) ==
    /\ owner[o].pc = "deliver"
    /\ owner' = [q \in Owners |->
         LET x == IF q \in owner[o].out.to THEN _set_run_cache_modes(owner[q], owner[o].out)
                  ELSE owner[q]
         IN  IF q = o THEN [x EXCEPT !.pc = "publish", !.out = NoPublication] ELSE x]
    /\ UNCHANGED <<bud, held, setting, admissions, settings>>

\* touch_many: touches of another generation of modes are dropped.
touch_many(b, keys, gen) ==
    IF b.max = NoBudget \/ gen # b.gen \/ ~b.recency THEN b
    ELSE LET moved == SelectSeq(keys, LAMBDA e : IsTracked(b, e))
             stay == SelectSeq(b.order, LAMBDA e : \A i \in DOMAIN moved : moved[i] # e)
         IN  [b EXCEPT !.order = stay \o moved]

\* _store_run_value: queued touches are flushed, then the dictionary is written;
\* the budget hears of it in a later step.
_store_run_value(o, s, v) ==
    /\ owner[o].pc = "idle"
    /\ admissions < MaxAdmissions
    /\ admissions' = admissions + 1
    /\ bud' = touch_many(bud, owner[o].touches, owner[o].gen)
    /\ held' = [held EXCEPT ![o][s] = v]
    /\ owner' = [owner EXCEPT ![o].pc = "track", ![o].slot = s, ![o].value = v,
                              ![o].touches = << >>, ![o].reads = 0]
    /\ UNCHANGED <<setting, settings>>

NeedsCalibration(b, v) ==
    v.stratum /\ should_calibrate_next(IF b.stratum.samples # << >> THEN b.stratum ELSE b.history)

Key(o) == <<o, owner[o].slot>>
Dropped(e) == Commit(Evict(State, e), {})

\* _track_accounting up to the estimate: without a budget nothing is tracked, a
\* budget of zero keeps nothing, and a value that needs no sample is admitted.
_track_accounting(o) ==
    /\ owner[o].pc = "track"
    /\ IF bud.max = NoBudget THEN Go(o, "publish", "idle") /\ UNCHANGED <<bud, held>>
       ELSE IF bud.max = 0 THEN Go(o, "publish", "idle") /\ Dropped(Key(o))
       ELSE IF ~NeedsCalibration(bud, owner[o].value)
       THEN Go(o, "publish", "idle")
            /\ Commit(_publish_entry_locked(State, Key(o), owner[o].value, 0), {})
       ELSE /\ bud' = [bud EXCEPT !.ticket = @ + 1, !.attempt[Key(o)] = bud.ticket + 1]
            /\ owner' = [owner EXCEPT ![o].pc = "estimate", ![o].conf = bud.conf,
                           ![o].attempt = bud.ticket + 1, ![o].limit = bud.max, ![o].tries = 0]
            /\ UNCHANGED held
    /\ UNCHANGED <<setting, admissions, settings>>

\* The estimate is made outside the lock: a newer attempt wins, a changed
\* setting asks for another estimate, and after too many the value is given up.
AdmitEstimated(o) ==
    /\ owner[o].pc = "estimate"
    /\ LET e == Key(o) IN
       IF owner[o].attempt # bud.attempt[e] THEN Go(o, "publish", "idle") /\ UNCHANGED <<bud, held>>
       ELSE IF owner[o].conf = bud.conf
       THEN Go(o, "publish", "idle")
            /\ Commit(_publish_entry_locked(State, e, owner[o].value,
                        estimate_cache_entry_size(owner[o].value, owner[o].limit)), {})
       ELSE IF bud.max = NoBudget THEN Go(o, "publish", "idle") /\ UNCHANGED <<bud, held>>
       ELSE IF bud.max = 0 \/ owner[o].tries >= MaxReestimates
       THEN Go(o, "publish", "idle") /\ Dropped(e)
       ELSE /\ owner' = [owner EXCEPT ![o].tries = @ + 1, ![o].conf = bud.conf, ![o].limit = bud.max]
            /\ UNCHANGED <<bud, held>>
    /\ UNCHANGED <<setting, admissions, settings>>

\* An estimate that raises drops the value, unless a newer attempt owns it.
EstimateRaises(o) ==
    /\ owner[o].pc = "estimate"
    /\ Go(o, "publish", "idle")
    /\ IF owner[o].attempt = bud.attempt[Key(o)] THEN Dropped(Key(o)) ELSE UNCHANGED <<bud, held>>
    /\ UNCHANGED <<setting, admissions, settings>>

\* _touch_run_cache_entry: with recency on, reads are queued and moved in batches.
_touch_run_cache_entry(o, s) ==
    /\ owner[o].pc = "idle"
    /\ held[o][s] # Absent
    /\ owner[o].budget /\ owner[o].recency
    /\ LET queued == Append(WithoutKey(owner[o].touches, <<o, s>>), <<o, s>>) IN
       IF owner[o].reads + 1 < TouchBatch
       THEN /\ owner' = [owner EXCEPT ![o].touches = queued, ![o].reads = @ + 1]
            /\ UNCHANGED bud
       ELSE /\ owner' = [owner EXCEPT ![o].touches = << >>, ![o].reads = 0]
            /\ bud' = touch_many(bud, queued, owner[o].gen)
    /\ UNCHANGED <<held, setting, admissions, settings>>

\* _remove_run_value: the dictionary is checked, ...
CheckValue(o, s) ==
    /\ owner[o].pc = "idle"
    /\ held[o][s] # Absent
    /\ owner' = [owner EXCEPT ![o].pc = "delete", ![o].slot = s,
                              ![o].touches = WithoutKey(@, <<o, s>>)]
    /\ UNCHANGED <<bud, held, setting, admissions, settings>>

\* ... the entry deleted (an eviction in between makes this a KeyError), ...
DeleteValue(o) ==
    /\ owner[o].pc = "delete"
    /\ held' = [held EXCEPT ![o][owner[o].slot] = Absent]
    /\ owner' = [owner EXCEPT ![o].pc = IF held[o][owner[o].slot] = Absent THEN "idle" ELSE "remove"]
    /\ UNCHANGED <<bud, setting, admissions, settings>>

\* ... and then the budget told: remove().
remove(o) ==
    /\ owner[o].pc = "remove"
    /\ Go(o, "publish", "idle")
    /\ LET forgotten == [bud EXCEPT !.attempt[Key(o)] = 0] IN
       IF bud.max = NoBudget THEN bud' = forgotten
       ELSE bud' = _capture_mode_publication_locked(
                     _remove_entry_accounting_locked(forgotten, Key(o)), {})
    /\ UNCHANGED <<held, setting, admissions, settings>>

\* __exit__ with clear_context.
ExitContext(o) ==
    /\ owner[o].pc = "idle"
    /\ LET keys == {e \in Tracked : e[1] = o}
           left == SelectSeq(bud.order, LAMBDA e : e \in keys)
           cleared[n \in 0..Len(left)] ==
               IF n = 0 THEN bud ELSE _remove_entry_accounting_locked(cleared[n - 1], left[n])
           b == [cleared[Len(left)] EXCEPT !.owners = @ \ {o},
                   !.attempt = [e \in Tracked |-> IF e \in keys THEN 0 ELSE @[e]]]
       IN  bud' = _capture_mode_publication_locked(b, {})
    /\ held' = [held EXCEPT ![o] = [s \in Slots |-> Absent]]
    /\ owner' = [owner EXCEPT ![o].pc = "publish", ![o].then = "gone", ![o].touches = << >>,
                              ![o].reads = 0]
    /\ UNCHANGED <<setting, admissions, settings>>

\* Settings are overridden while runs are active.
Reconfigure(m) ==
    /\ settings < MaxSettings
    /\ m # setting
    /\ setting' = m
    /\ settings' = settings + 1
    /\ UNCHANGED <<bud, held, owner, admissions>>

BudgetNext ==
    \/ \E o \in Owners :
         \/ ConstructContext(o) \/ EnterContext(o) \/ ExitContext(o)
         \/ TakePublication(o) \/ DeliverPublication(o)
         \/ (\E s \in Slots, v \in Weights : _store_run_value(o, s, v))
         \/ _track_accounting(o) \/ AdmitEstimated(o) \/ EstimateRaises(o)
         \/ (\E s \in Slots : _touch_run_cache_entry(o, s) \/ CheckValue(o, s))
         \/ DeleteValue(o) \/ remove(o)
    \/ \E m \in Budgets : Reconfigure(m)

BudgetSpec == BudgetInit /\ [][BudgetNext]_budVars

-----------------------------------------------------------------------------
\* The incremental totals are what the tracked entries add up to, whatever was
\* sampled, replaced, evicted or dropped in between (_total_bytes and the
\* assertions of _remove_entry_accounting_locked).
TotalsAddUp ==
    LET exact == SelectSeq(bud.order, LAMBDA e : ~bud.entry[e].stratum)
        projected == SelectSeq(bud.order, LAMBDA e : bud.entry[e].stratum)
    IN  /\ bud.exact = SumOf([i \in DOMAIN exact |-> bud.entry[exact[i]].deep])
        /\ bud.stratum.count = Len(projected)
        /\ bud.stratum.shallow = SumOf([i \in DOMAIN projected |-> bud.entry[projected[i]].shallow])
        /\ bud.total = bud.exact + modeled_bytes(bud.stratum)
        /\ projected # << >> => bud.stratum.samples # << >>

\* With a budget, nothing stays in a registered context without being counted:
\* the dictionary is written before the budget is asked, so a context that
\* stores while another one switches the budget on is not missed.
NothingUncounted ==
    bud.max # NoBudget =>
      \A o \in bud.owners, s \in Slots :
        held[o][s] # Absent =>
          IsTracked(bud, <<o, s>>) \/ (owner[o].pc \in {"track", "estimate"} /\ owner[o].slot = s)

\* With an active budget the modelled total stays within its reserve, however
\* samples change what the other entries weigh.  The one gap is a value that is
\* larger than the whole budget: its sample counts, and nothing is evicted for
\* it before the next admission (_publish_entry_locked returns early).
WithinReserve == bud.max >= 0 /\ ~bud.bypassed => bud.total <= _eviction_target(bud.max)

Announced == bud.queue = << >> /\ \A o \in Owners : owner[o].pc \notin {"publish", "deliver"}

\* Announcements are delivered outside the lock, by any thread and in any
\* order; when none is left, every registered context knows whether there is a
\* budget (_set_run_cache_modes).
BudgetFlagAgrees == Announced => \A o \in bud.owners : owner[o].budget = (bud.max # NoBudget)
=============================================================================
