--------------------------- MODULE WorkflowSystem ---------------------------
(***************************************************************************)
(* Event delivery composed with the execution engine: the handler of every *)
(* registration starts the workflow with the event id as correlation id,   *)
(* which is how docs/howto/workflow_events.md has events start workflows.  *)
(*                                                                         *)
(* A step of delivery leaves the engine alone and the other way round,     *)
(* except the handler body: start() runs in the worker that is inside      *)
(* _attempt_handler, in transactions of its own.  Whatever goes wrong in   *)
(* the environment (a process dies, a message is lost or delivered twice,  *)
(* a claim or a run outlives its timeout while someone still acts for it)  *)
(* takes one of MaxFaults faults.                                          *)
(***************************************************************************)
EXTENDS WorkflowDelivery, WorkflowEngine

CONSTANT MaxFaults  \* bound: environment failures in one behaviour

ASSUME SystemAssumption ==
    /\ MaxFaults \in Nat
    /\ Callers = Workers
    /\ Keys = Events
    /\ ~EngineAsync

VARIABLE faults

vars == <<deliveryVars, engineVars, faults>>

Init == DeliveryInit /\ EngineInit /\ faults = 0

Fault == faults < MaxFaults /\ faults' = faults + 1
NoFault == UNCHANGED faults

-----------------------------------------------------------------------------
(* The handler body. *)

InHandler(w) == worker[w].pc = "handler"

\* start() finds an execution to reuse.
HandlerReuses(w) ==
    InHandler(w) /\ StartReuses(w, worker[w].event) /\ HandlerReturns(w)

HandlerLooks(w) ==
    InHandler(w) /\ StartFindsNone(w, worker[w].event) /\ UNCHANGED deliveryVars

\* start() inserts; the handler may still raise afterwards.
HandlerStarts(w) ==
    /\ InHandler(w) /\ StartInserts(w)
    /\ HandlerReturns(w) \/ HandlerRaises(w)

HandlerLosesRace(w) ==
    InHandler(w) /\ StartLosesRace(w) /\ UNCHANGED deliveryVars

\* The handler raises: its own error, a database error, or the lost race.
HandlerFails(w) == HandlerRaises(w) /\ CallEnds(w)

HandlerStep(w) ==
    \/ HandlerReuses(w) \/ HandlerLooks(w) \/ HandlerStarts(w)
    \/ HandlerLosesRace(w) \/ HandlerFails(w)

-----------------------------------------------------------------------------
(* The system's steps. *)

RouteStep(w) ==
    /\ \/ SkipEntry(w) \/ PredicateRaises(w) \/ BeginAttempt(w)
       \/ RecordCompleted(w) \/ RecordFailed(w) \/ Finalize(w)
    /\ UNCHANGED engineVars

WorkerStep(w) == (RouteStep(w) \/ HandlerStep(w)) /\ NoFault

TakeTask ==
    /\ \E w \in Workers, t \in tasks : process_outbox_entry(w, t)
    /\ UNCHANGED engineVars /\ NoFault

Drain(e) ==
    /\ \E S \in SUBSET Events : e \in S /\ publish_outbox_batch(S)
    /\ UNCHANGED engineVars /\ NoFault

Operator ==
    /\ \/ \E e \in Events : publish(e)
       \/ \E r \in 1 .. MaxReplays, S \in SUBSET Events : ReplaySelect(r, S)
       \/ \E r \in 1 .. MaxReplays : ReplayUpdate(r)
    /\ UNCHANGED engineVars /\ NoFault

\* Timeouts that nobody acts against any more.
Passes(e, timeout) ==
    /\ \/ timeout = "backoff" /\ BackoffElapses(e)
       \/ timeout = "claim" /\ ~ClaimHeld(e) /\ ClaimExpires(e)
       \/ /\ timeout = "run"
          /\ \E h \in Registrations : ~RunHeld(e, h) /\ RunExpires(e, h)
    /\ UNCHANGED engineVars /\ NoFault

Timeouts == {"backoff", "claim", "run"}

DeliveryFault ==
    /\ \/ \E w \in Workers : WorkerDies(w) /\ CallEnds(w)
       \/ /\ \/ \E t \in tasks : LoseTask(t)
             \/ \E w \in Workers, t \in tasks : RedeliverTask(w, t)
             \/ \E e \in Events : ClaimHeld(e) /\ ClaimExpires(e)
             \/ \E e \in Events, h \in Registrations : RunHeld(e, h) /\ RunExpires(e, h)
          /\ UNCHANGED engineVars
    /\ Fault

Next ==
    \/ \E w \in Workers : WorkerStep(w)
    \/ TakeTask
    \/ \E e \in Events : Drain(e) \/ \E timeout \in Timeouts : Passes(e, timeout)
    \/ Operator
    \/ DeliveryFault

Spec == Init /\ [][Next]_vars

\* Beat drains periodically, workers run and clocks advance; a worker that
\* takes a task brings every step of it to an end (death is a fault).
Fairness ==
    /\ \A w \in Workers : WF_vars(WorkerStep(w))
    /\ WF_vars(TakeTask)
    /\ \A e \in Events :
         WF_vars(Drain(e)) /\ \A timeout \in Timeouts : WF_vars(Passes(e, timeout))

-----------------------------------------------------------------------------
(* Properties. *)

\* Every variable keeps its type: rows of the four tables, the progress of a
\* worker through process_outbox_entry and of a caller through start().
TypeOK ==
    /\ outbox \in [Events ->
         [status : {"none", "pending", "claimed", "processed", "failed", "dead_letter"},
          token : Tokens \cup {NoToken}, due : BOOLEAN, stale : BOOLEAN,
          attempts : Nat]]
    /\ delivery \in [Events -> [Registrations ->
         [status : {"none", "running", "completed", "failed", "dead_letter"},
          stale : BOOLEAN]]]
    /\ \A w \in Workers :
         \/ worker[w] = Idle
         \/ worker[w] \in [pc : {"route", "handler", "returned", "raised", "broken"},
                           event : Events, token : Tokens \cup {NoToken},
                           next : 1 .. Len(Handlers) + 1, try : 1 .. HandlerRetries + 1,
                           handled : BOOLEAN, applicable : BOOLEAN]
    /\ tasks \subseteq Events \X (Tokens \cup {NoToken})
    /\ \A r \in 1 .. MaxReplays : replay[r].rows \subseteq Events
    /\ overran \subseteq Applies
    /\ EngineTypeOK
    /\ faults \in 0 .. MaxFaults

\* A handler is executed for an event by one worker at a time, across
\* expired claims, redelivered tasks and replays, unless a run of it outlived
\* WORKFLOW_DELIVERY_RUNNING_TIMEOUT_SECONDS (_attempt_handler).
ExclusiveRun ==
    \A v, w \in Workers :
      v # w /\ Executing(v) /\ Executing(w) /\ Current(v) = Current(w)
        => Current(w) \in overran

\* A delivery recorded as completed is never taken up again: not by a replay,
\* a redelivered task or a later claim of the same event (_attempt_handler).
CompletedStays ==
    \A e \in Events, h \in Registrations :
      delivery[e][h].status = "completed" => delivery'[e][h].status = "completed"

\* A processed row stays processed whatever late workers do that lost their
\* claim (_finalize_outbox_*); only a replay command that selected the row
\* while it was a dead letter can overwrite it.
ProcessedStays ==
    \A e \in Events :
      outbox[e].status = "processed" /\ outbox'[e].status # "processed"
        => \E r \in 1 .. MaxReplays : e \in replay[r].rows

\* An event with a matching handler is only marked processed when the handler
\* has left its mark: an execution for the event was started, and the delivery
\* is recorded as completed unless an overrun run's late failure replaced it.
ProcessedBacked ==
    \A e \in Events :
      outbox[e].status = "processed" /\ (\E h \in Registrations : <<e, h>> \in Applies)
        => /\ \E i \in Ids : execs[i].key = e
           /\ \E h \in Registrations :
                delivery[e][h].status = "completed" \/ <<e, h>> \in overran

\* A published event is eventually processed or dead-lettered, through any
\* MaxFaults deaths, losses and overruns: no claim, running delivery or
\* back-off holds it for ever.
EventsSettle ==
    \A e \in Events :
      outbox[e].status # "none" ~> outbox[e].status \in {"processed", "dead_letter"}

\* With dead letters no row is processed more often than the settings allow; a
\* row of no retries still takes its first call (_finalize_outbox_failure).
AttemptsBounded ==
    DeadLetters => \A e \in Events : outbox[e].attempts \in 0 .. MaxRetries \/ outbox[e].attempts = 1

\* Rows and workers are well formed, no two workers execute one handler for
\* one event, and failures are counted to the limit (_attempt_handler).
DeliverySound == TypeOK /\ ExclusiveRun /\ AttemptsBounded

\* What has been completed or processed is not taken up again by a late worker,
\* a redelivered task or a replay (_finalize_outbox_*, _attempt_handler).
SettledStays == [][CompletedStays /\ ProcessedStays]_vars

=============================================================================
