-------------------------- MODULE WorkflowDelivery --------------------------
(***************************************************************************)
(* Delivery of workflow events by DatabaseEventRegistry                    *)
(* (workflow/event_registry.py) and its Celery tasks (workflow/tasks.py).  *)
(*                                                                         *)
(* publish() persists an outbox row; a drain (Celery beat, the on-commit   *)
(* task or workflow_drain_outbox) claims due rows under a fresh token and  *)
(* queues one route task per claim; a worker that takes the task routes    *)
(* the event to its registrations one by one, guarded by one delivery row  *)
(* per (event, registration), and then finalizes the outbox row.  Every    *)
(* action is one database transaction or one step outside of any.          *)
(*                                                                         *)
(* Clocks are abstracted to "has passed": due (available_at reached),      *)
(* stale of a row (claim TTL over), stale of a delivery (running timeout   *)
(* over).  Events, registrations and tokens are opaque.  The body of a     *)
(* handler is the module that composes this one with the engine.           *)
(***************************************************************************)
EXTENDS Naturals, Sequences, FiniteSets

CONSTANTS
    Events,         \* event ids
    Handlers,       \* the registrations of _get_entries, in routing order
    Applies,        \* <<event, registration>> whose validator and when accept
    Workers,        \* Celery worker processes and publishing processes
    AsyncSettings,  \* what workflow_async_enabled() may return to a publisher
    MaxRetries,     \* WORKFLOW_MAX_RETRIES
    HandlerRetries, \* register(retries=...)
    DeadLetters,    \* WORKFLOW_DEAD_LETTER_ENABLED
    BatchSize,      \* WORKFLOW_OUTBOX_PROCESS_CHUNK_SIZE
    Tokens,         \* bound: claim tokens in use at the same time
    MaxReplays      \* bound: workflow_replay_dead_letters commands

NoToken == 0

Registrations == {Handlers[i] : i \in DOMAIN Handlers}

ASSUME DeliveryAssumption ==
    /\ Handlers \in Seq(Registrations)
    /\ Applies \subseteq Events \X Registrations
    /\ AsyncSettings \subseteq BOOLEAN
    /\ MaxRetries \in Nat /\ HandlerRetries \in Nat /\ DeadLetters \in BOOLEAN
    /\ BatchSize \in Nat \ {0} /\ MaxReplays \in Nat
    /\ NoToken \notin Tokens

VARIABLES
    outbox,    \* event -> WorkflowOutbox row
    delivery,  \* event -> registration -> WorkflowDeliveryAttempt row
    worker,    \* worker -> where it is in process_outbox_entry
    tasks,     \* route tasks queued: <<event, claim token>>
    replay,    \* replay command -> its progress and the rows it selected
    overran    \* history: <<event, registration>> whose run, still going,
               \* outlived the running timeout

deliveryVars == <<outbox, delivery, worker, tasks, replay, overran>>

-----------------------------------------------------------------------------
(* Rows and worker states. *)

NoRow == [status |-> "none", token |-> NoToken, due |-> FALSE,
          stale |-> FALSE, attempts |-> 0]
NewRow == [NoRow EXCEPT !.status = "pending", !.due = TRUE]
Idle == [pc |-> "idle"]

\* process_outbox_entry after its ownership check: next is the position in
\* the routing loop, try the attempt number of that registration.
Routing(e, token) ==
    [pc |-> "route", event |-> e, token |-> token, next |-> 1, try |-> 1,
     handled |-> FALSE, applicable |-> FALSE]

Routed(w) == worker[w].pc # "idle"
AtEntry(w) == Routed(w) /\ worker[w].next <= Len(Handlers)
Entry(w) == Handlers[worker[w].next]
Executing(w) == worker[w].pc \in {"handler", "returned", "raised"}
Current(w) == <<worker[w].event, Entry(w)>>

\* The routing loop goes on with the next registration.
NextEntry(s, handled) ==
    [s EXCEPT !.pc = "route", !.next = @ + 1, !.try = 1,
              !.handled = @ \/ handled]

DeliveryInit ==
    /\ outbox = [e \in Events |-> NoRow]
    /\ delivery = [e \in Events |->
                     [h \in Registrations |-> [status |-> "none", stale |-> FALSE]]]
    /\ worker = [w \in Workers |-> Idle]
    /\ tasks = {}
    /\ replay = [r \in 1 .. MaxReplays |-> [pc |-> "ready", rows |-> {}]]
    /\ overran = {}

-----------------------------------------------------------------------------
(* Publishing and claiming. *)

\* publish: the event record and its outbox row in one transaction; a second
\* publish of the same id fails on the unique event_id and changes nothing.
\* Asynchronously the drain picks the row up; otherwise the publisher
\* processes it itself, without a token.
publish(e) ==
    /\ outbox[e].status = "none"
    /\ outbox' = [outbox EXCEPT ![e] = NewRow]
    /\ \E async \in AsyncSettings :
         tasks' = IF async THEN tasks ELSE tasks \cup {<<e, NoToken>>}
    /\ UNCHANGED <<delivery, worker, replay, overran>>

\* Mutant: a claim whose holder is gone is never taken over.
ClaimableUnclaimed(e) == outbox[e].status \in {"pending", "failed"} /\ outbox[e].due

Claimable(e) ==
    \/ outbox[e].status \in {"pending", "failed"} /\ outbox[e].due
    \/ outbox[e].status = "claimed" /\ outbox[e].stale

\* uuid4().hex is never a token anyone still holds.
FreshTokens ==
    Tokens \ ({outbox[e].token : e \in Events} \cup {t[2] : t \in tasks}
              \cup {worker[w].token : w \in {x \in Workers : Routed(x)}})

claim_outbox_batch(S, token) ==
    [e \in Events |->
       IF e \in S
       THEN [outbox[e] EXCEPT !.status = "claimed", !.token = token, !.stale = FALSE]
       ELSE outbox[e]]

\* One drain: at most
\* BatchSize claimable rows (rows another transaction holds are skipped) get
\* one fresh token.
publish_outbox_batch(S) ==
    /\ S # {} /\ Cardinality(S) <= BatchSize /\ \A e \in S : Claimable(e)
    /\ \E token \in FreshTokens :
         /\ outbox' = claim_outbox_batch(S, token)
         /\ tasks' = tasks \cup {<<e, token>> : e \in S}
    /\ UNCHANGED <<delivery, worker, replay, overran>>

\* route_outbox_event, process_outbox_entry up to the end of its first
\* transaction: a tokenless call is refused a claimed row, a call with a
\* token everything but the row claimed under it.
MayProcess(row, token) ==
    IF token = NoToken THEN row.status \notin {"processed", "claimed"}
    ELSE row.status = "claimed" /\ row.token = token

process_outbox_entry(w, t) ==
    /\ worker[w].pc = "idle" /\ t \in tasks
    /\ tasks' = tasks \ {t}
    /\ worker' = IF MayProcess(outbox[t[1]], t[2])
                 THEN [worker EXCEPT ![w] = Routing(t[1], t[2])]
                 ELSE worker
    /\ UNCHANGED <<outbox, delivery, replay, overran>>

-----------------------------------------------------------------------------
(* _route_event: one registration after the other. *)

\* Validator refused the event or when returned False.
SkipEntry(w) ==
    /\ worker[w].pc = "route" /\ AtEntry(w)
    /\ Current(w) \notin Applies
    /\ worker' = [worker EXCEPT ![w] = NextEntry(@, FALSE)]
    /\ UNCHANGED <<outbox, delivery, tasks, replay, overran>>

\* A when predicate or a dead-letter hook raises: routing stops.
PredicateRaises(w) ==
    /\ worker[w].pc = "route" /\ AtEntry(w) /\ worker[w].try = 1
    /\ worker' = [worker EXCEPT ![w].pc = "broken"]
    /\ UNCHANGED <<outbox, delivery, tasks, replay, overran>>

\* Mutant: a delivery that is running is started again.
BeginAttemptAnyway(w) ==
    /\ worker[w].pc = "route" /\ AtEntry(w)
    /\ Current(w) \in Applies
    /\ LET e == worker[w].event
           d == delivery[e][Entry(w)]
           s == [worker[w] EXCEPT !.applicable = TRUE]
       IN \/ /\ d.status = "completed"
             /\ worker' = [worker EXCEPT ![w] = NextEntry(s, TRUE)]
             /\ UNCHANGED delivery
          \/ /\ d.status # "completed"
             /\ worker' = [worker EXCEPT ![w] = [s EXCEPT !.pc = "handler"]]
             /\ delivery' = [delivery EXCEPT ![e][Entry(w)] =
                               [status |-> "running", stale |-> FALSE]]
    /\ UNCHANGED <<outbox, tasks, replay, overran>>

\* Mutant: a delivery that is running elsewhere counts as handled.
BeginAttemptSuppressedHandled(w) ==
    /\ worker[w].pc = "route" /\ AtEntry(w)
    /\ Current(w) \in Applies
    /\ LET e == worker[w].event
           d == delivery[e][Entry(w)]
           s == [worker[w] EXCEPT !.applicable = TRUE]
       IN \/ /\ d.status = "completed"
             /\ worker' = [worker EXCEPT ![w] = NextEntry(s, TRUE)]
             /\ UNCHANGED delivery
          \/ /\ d.status = "running" /\ ~d.stale
             /\ worker' = [worker EXCEPT ![w] = NextEntry(s, TRUE)]
             /\ UNCHANGED delivery
          \/ /\ d.status # "completed" /\ ~(d.status = "running" /\ ~d.stale)
             /\ worker' = [worker EXCEPT ![w] = [s EXCEPT !.pc = "handler"]]
             /\ delivery' = [delivery EXCEPT ![e][Entry(w)] =
                               [status |-> "running", stale |-> FALSE]]
    /\ UNCHANGED <<outbox, tasks, replay, overran>>

\* _attempt_handler up to the handler call, in one transaction on the
\* delivery row: a completed delivery counts as handled, one running within
\* the timeout ends the processing with the outbox row left as it is, and
\* any other is taken (over) as running.
BeginAttempt(w) ==
    /\ worker[w].pc = "route" /\ AtEntry(w)
    /\ Current(w) \in Applies
    /\ LET e == worker[w].event
           d == delivery[e][Entry(w)]
           s == [worker[w] EXCEPT !.applicable = TRUE]
       IN \/ /\ d.status = "completed"
             /\ worker' = [worker EXCEPT ![w] = NextEntry(s, TRUE)]
             /\ UNCHANGED delivery
          \/ /\ d.status = "running" /\ ~d.stale
             /\ worker' = [worker EXCEPT ![w] = Idle]
             /\ UNCHANGED delivery
          \/ /\ d.status # "completed" /\ ~(d.status = "running" /\ ~d.stale)
             /\ worker' = [worker EXCEPT ![w] = [s EXCEPT !.pc = "handler"]]
             /\ delivery' = [delivery EXCEPT ![e][Entry(w)] =
                               [status |-> "running", stale |-> FALSE]]
    /\ UNCHANGED <<outbox, tasks, replay, overran>>

\* The handler call comes back; what it did is the composing module's.
HandlerReturns(w) ==
    /\ worker[w].pc = "handler"
    /\ worker' = [worker EXCEPT ![w].pc = "returned"]
    /\ UNCHANGED <<outbox, delivery, tasks, replay, overran>>

HandlerRaises(w) ==
    /\ worker[w].pc = "handler"
    /\ worker' = [worker EXCEPT ![w].pc = "raised"]
    /\ UNCHANGED <<outbox, delivery, tasks, replay, overran>>

\* Mutant: the update is not filtered on status running.
SettleDeliveryUnfiltered(e, h, status) ==
    [delivery EXCEPT ![e][h] = [status |-> status, stale |-> FALSE]]

\* The delivery row's update after the handler, filtered on status running.
SettleDelivery(e, h, status) ==
    IF delivery[e][h].status = "running"
    THEN [delivery EXCEPT ![e][h] = [status |-> status, stale |-> FALSE]]
    ELSE delivery

RecordCompleted(w) ==
    /\ worker[w].pc = "returned"
    /\ delivery' = SettleDelivery(worker[w].event, Entry(w), "completed")
    /\ worker' = [worker EXCEPT ![w] = NextEntry(@, TRUE)]
    /\ UNCHANGED <<outbox, tasks, replay, overran>>

\* The exception path of _attempt_handler and _run_handler_with_retry: an
\* exception is tried again while attempts remain and retry_on agrees,
\* otherwise the dead-letter hook is called and the loop goes on.
RecordFailed(w) ==
    /\ worker[w].pc = "raised"
    /\ LET last == worker[w].try > HandlerRetries
           status == IF last /\ DeadLetters THEN "dead_letter" ELSE "failed"
       IN /\ delivery' = SettleDelivery(worker[w].event, Entry(w), status)
          /\ \/ /\ ~last
                /\ worker' = [worker EXCEPT ![w].pc = "route", ![w].try = @ + 1]
             \/ worker' = [worker EXCEPT ![w] = NextEntry(@, FALSE)]
             \/ worker' = [worker EXCEPT ![w].pc = "broken"]
    /\ UNCHANGED <<outbox, tasks, replay, overran>>

-----------------------------------------------------------------------------
(* Finalization of the outbox row. *)

\* Mutant: only a dead letter is refused, not a row someone else owns now.
StillOwnedUnlessDead(row, token) == row.status # "dead_letter"

\* The re-read under lock: the row must still be what the call started from.
StillOwned(row, token) ==
    IF token = NoToken THEN row.status \in {"pending", "failed"}
    ELSE row.status = "claimed" /\ row.token = token

Released(row, status) ==
    [row EXCEPT !.status = status, !.token = NoToken, !.stale = FALSE]

\* Mutant: one processing call too many before the dead letter.
FailedOneMore(row) ==
    LET attempts == row.attempts + 1
        dead == attempts > MaxRetries /\ DeadLetters
    IN [Released(row, IF dead THEN "dead_letter" ELSE "failed")
          EXCEPT !.attempts = attempts, !.due = @ /\ dead]

\* _finalize_outbox_failure on an owned row.
Failed(row) ==
    LET attempts == row.attempts + 1
        dead == attempts >= MaxRetries /\ DeadLetters
    IN [Released(row, IF dead THEN "dead_letter" ELSE "failed")
          EXCEPT !.attempts = attempts, !.due = @ /\ dead]

Finalize(w) ==
    /\ \/ worker[w].pc = "broken"
       \/ worker[w].pc = "route" /\ ~AtEntry(w)
    /\ LET s == worker[w]
           row == outbox[s.event]
           failed == s.pc = "broken" \/ (s.applicable /\ ~s.handled)
       IN outbox' = IF ~StillOwned(row, s.token) THEN outbox
                    ELSE [outbox EXCEPT ![s.event] =
                            IF failed THEN Failed(row)
                            ELSE Released(row, "processed")]
    /\ worker' = [worker EXCEPT ![w] = Idle]
    /\ UNCHANGED <<delivery, tasks, replay, overran>>

-----------------------------------------------------------------------------
(* workflow_replay_dead_letters: the ids are selected, then updated by a   *)
(* second statement that does not look at the status again.                *)

ReplaySelect(r, S) ==
    /\ replay[r].pc = "ready"
    /\ S # {} /\ \A e \in S : outbox[e].status = "dead_letter"
    /\ replay' = [replay EXCEPT ![r] = [pc |-> "selected", rows |-> S]]
    /\ UNCHANGED <<outbox, delivery, worker, tasks, overran>>

ReplayUpdate(r) ==
    /\ replay[r].pc = "selected"
    /\ outbox' = [e \in Events |->
                    IF e \in replay[r].rows
                    THEN [Released(outbox[e], "pending") EXCEPT !.attempts = 0]
                    ELSE outbox[e]]
    /\ replay' = [replay EXCEPT ![r] = [pc |-> "finished", rows |-> {}]]
    /\ UNCHANGED <<delivery, worker, tasks, overran>>

-----------------------------------------------------------------------------
(* Time, and failures of the environment. *)

BackoffElapses(e) ==
    /\ outbox[e].status # "none" /\ ~outbox[e].due
    /\ outbox' = [outbox EXCEPT ![e].due = TRUE]
    /\ UNCHANGED <<delivery, worker, tasks, replay, overran>>

\* Some task or worker still acts for the row's claim.
ClaimHeld(e) ==
    \/ <<e, outbox[e].token>> \in tasks
    \/ \E w \in Workers : /\ Routed(w) /\ worker[w].event = e
                          /\ worker[w].token = outbox[e].token

RunHeld(e, h) == \E w \in Workers : Executing(w) /\ Current(w) = <<e, h>>

ClaimExpires(e) ==
    /\ outbox[e].status = "claimed" /\ ~outbox[e].stale
    /\ outbox' = [outbox EXCEPT ![e].stale = TRUE]
    /\ UNCHANGED <<delivery, worker, tasks, replay, overran>>

RunExpires(e, h) ==
    /\ delivery[e][h].status = "running" /\ ~delivery[e][h].stale
    /\ delivery' = [delivery EXCEPT ![e][h].stale = TRUE]
    /\ overran' = IF RunHeld(e, h) THEN overran \cup {<<e, h>>} ELSE overran
    /\ UNCHANGED <<outbox, worker, tasks, replay>>

WorkerDies(w) ==
    /\ Routed(w)
    /\ worker' = [worker EXCEPT ![w] = Idle]
    /\ UNCHANGED <<outbox, delivery, tasks, replay, overran>>

\* A route task is lost with the worker or the broker that held it.
LoseTask(t) ==
    /\ t \in tasks
    /\ tasks' = tasks \ {t}
    /\ UNCHANGED <<outbox, delivery, worker, replay, overran>>

\* The broker hands a task out again (visibility timeout).
RedeliverTask(w, t) ==
    /\ worker[w].pc = "idle" /\ t \in tasks
    /\ MayProcess(outbox[t[1]], t[2])
    /\ worker' = [worker EXCEPT ![w] = Routing(t[1], t[2])]
    /\ UNCHANGED <<outbox, delivery, tasks, replay, overran>>

=============================================================================
