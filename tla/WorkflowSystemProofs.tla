------------------------ MODULE WorkflowSystemProofs ------------------------
(***************************************************************************)
(* Safety of event delivery composed with the execution engine, for any    *)
(* events, registrations, workers, retries, replays and faults: no handler *)
(* runs twice at a time for an event, what is settled stays, a processed   *)
(* event has left its mark, and the composition uses the engine as the     *)
(* engine's own specification allows, whose properties it inherits.        *)
(***************************************************************************)
EXTENDS WorkflowSystem, WorkflowEngineProofs

\* The values of the rows and of a worker that routes an event.
Row == [status : {"none", "pending", "claimed", "processed", "failed", "dead_letter"},
        token : Tokens \cup {NoToken}, due : BOOLEAN, stale : BOOLEAN, attempts : Nat]
Attempt == [status : {"none", "running", "completed", "failed", "dead_letter"}, stale : BOOLEAN]
RoutingState ==
    [pc : {"route", "handler", "returned", "raised", "broken"}, event : Events,
     token : Tokens \cup {NoToken}, next : 1 .. Len(Handlers) + 1,
     try : 1 .. HandlerRetries + 1, handled : BOOLEAN, applicable : BOOLEAN]

TypeInv ==
    /\ outbox \in [Events -> Row]
    /\ delivery \in [Events -> [Registrations -> Attempt]]
    /\ worker \in [Workers -> {Idle} \cup RoutingState]
    /\ tasks \subseteq Events \X (Tokens \cup {NoToken})
    /\ replay \in [1 .. MaxReplays -> [pc : {"ready", "selected", "finished"}, rows : SUBSET Events]]
    /\ overran \subseteq Applies
    /\ faults \in 0 .. MaxFaults

\* A worker executes a registration that applies; unless the run outlived the
\* timeout, its delivery row is running and fresh, and nobody else executes it.
RunInv ==
    \A w \in Workers : Executing(w) =>
      /\ worker[w].next <= Len(Handlers) /\ worker[w].applicable /\ Current(w) \in Applies
      /\ Current(w) \notin overran =>
           /\ delivery[worker[w].event][Entry(w)] = [status |-> "running", stale |-> FALSE]
           /\ \A v \in Workers : v # w /\ Executing(v) => Current(v) # Current(w)

\* start() is called from inside a handler, for the event that is handled.
CallInv ==
    \A w \in Workers : call[w] # NotCalling => InHandler(w) /\ call[w][2] = worker[w].event

\* An execution of the event exists; a registration is recorded as done.
Known(e) == \E i \in Ids : execs[i].key = e
Done(e) == \E h \in Registrations : delivery[e][h].status = "completed" \/ <<e, h>> \in overran

\* What a worker has noted about the registrations it has passed.
Noted(s) ==
    s.pc # "idle" =>
      /\ \A n \in 1 .. s.next - 1 : <<s.event, Handlers[n]>> \in Applies => s.applicable
      /\ s.handled => Known(s.event) /\ Done(s.event)
      /\ s.pc = "returned" => Known(s.event)

LoopInv == \A w \in Workers : Noted(worker[w])

DoneInv ==
    \A e \in Events :
      /\ \A h \in Registrations : delivery[e][h].status = "completed" => Known(e)
      /\ outbox[e].status = "processed" /\ (\E h \in Registrations : <<e, h>> \in Applies)
           => Known(e) /\ Done(e)

\* A row that may still be processed has attempts left.
AttemptsInv ==
    DeadLetters => \A e \in Events :
      \/ outbox[e].attempts = 0 \/ outbox[e].attempts < MaxRetries
      \/ outbox[e].status = "dead_letter" /\ outbox[e].attempts \in {1, MaxRetries}

SystemInv ==
    TypeInv /\ EngineInv /\ RunInv /\ CallInv /\ LoopInv /\ DoneInv /\ AttemptsInv

-----------------------------------------------------------------------------
(* Rows and workers. *)

\* The constants.
LEMMA Limits ==
    /\ Len(Handlers) \in Nat /\ DOMAIN Handlers = 1 .. Len(Handlers)
    /\ \A n \in 1 .. Len(Handlers) : Handlers[n] \in Registrations
    /\ \A h \in Registrations : \E n \in 1 .. Len(Handlers) : Handlers[n] = h
    /\ MaxRetries \in Nat /\ HandlerRetries \in Nat /\ MaxFaults \in Nat /\ NoToken \notin Tokens
    /\ DeadLetters \in BOOLEAN /\ Callers = Workers /\ Keys = Events
BY DeliveryAssumption, SystemAssumption, LenProperties DEF Registrations

\* The state of a worker that is not idle.
LEMMA RoutedWorker ==
    ASSUME TypeInv, NEW w \in Workers, worker[w].pc # "idle"
    PROVE  worker[w] \in RoutingState
BY DEF TypeInv, Idle

LEMMA RoutingLegal ==
    ASSUME NEW e \in Events, NEW token \in Tokens \cup {NoToken}
    PROVE  Routing(e, token) \in RoutingState
BY Limits DEF Routing, RoutingState

\* The routing loop goes on to a position in its range.
LEMMA NextEntryLegal ==
    ASSUME NEW s \in RoutingState, s.next <= Len(Handlers), NEW handled \in BOOLEAN
    PROVE  /\ NextEntry(s, handled) \in RoutingState
           /\ NextEntry(s, handled).pc = "route" /\ NextEntry(s, handled).event = s.event
           /\ NextEntry(s, handled).next = s.next + 1
           /\ NextEntry(s, handled).handled = (s.handled \/ handled)
           /\ NextEntry(s, handled).applicable = s.applicable
<1>1. s = [pc |-> s.pc, event |-> s.event, token |-> s.token, next |-> s.next, try |-> s.try,
           handled |-> s.handled, applicable |-> s.applicable]
  BY DEF RoutingState
<1>2. NextEntry(s, handled) =
        [pc |-> "route", event |-> s.event, token |-> s.token, next |-> s.next + 1, try |-> 1,
         handled |-> s.handled \/ handled, applicable |-> s.applicable]
  <2> DEFINE b == s.handled \/ handled
  <2>1. NextEntry(s, handled) =
          [s EXCEPT !.pc = "route", !.next = s.next + 1, !.try = 1, !.handled = b]
    BY <1>1, Zenon DEF NextEntry
  <2> HIDE DEF b
  <2>2. NextEntry(s, handled) =
          [pc |-> "route", event |-> s.event, token |-> s.token, next |-> s.next + 1, try |-> 1,
           handled |-> b, applicable |-> s.applicable]
    BY <1>1, <2>1
  <2> QED BY <2>2 DEF b
<1>3. /\ s.next + 1 \in 1 .. Len(Handlers) + 1 /\ 1 \in 1 .. HandlerRetries + 1
      /\ s.event \in Events /\ s.token \in Tokens \cup {NoToken}
      /\ (s.handled \/ handled) \in BOOLEAN /\ s.applicable \in BOOLEAN
  BY Limits DEF RoutingState
<1> QED BY <1>2, <1>3 DEF RoutingState

\* A call with a token or without leaves rows rows.
LEMMA FailedLegal ==
    ASSUME NEW row \in Row, NEW status \in {"pending", "failed", "processed", "dead_letter"}
    PROVE  Released(row, status) \in Row /\ Failed(row) \in Row
<1>1. Released(row, status) \in Row
  BY DEF Released, Row
<1>2. row.attempts + 1 \in Nat
  BY DEF Row
<1>3. \A dead \in BOOLEAN :
        [Released(row, IF dead THEN "dead_letter" ELSE "failed")
           EXCEPT !.attempts = row.attempts + 1, !.due = @ /\ dead] \in Row
  BY <1>2 DEF Released, Row
<1>4. (row.attempts + 1 >= MaxRetries /\ DeadLetters) \in BOOLEAN
  OBVIOUS
<1> QED BY <1>1, <1>3, <1>4 DEF Failed

\* Executions are never removed, and their keys stay.
LEMMA KnownStays ==
    ASSUME EngineInv, NEW c \in Callers, StartStep(c), NEW e, Known(e)
    PROVE  Known(e)'
<1>1. CASE UNCHANGED execs
  BY <1>1 DEF Known, Ids
<1>2. CASE StartInserts(c)
  <2>1. PICK d \in Definitions : \E state \in InsertedStates(d) :
          execs' = Append(execs, [key |-> call[c][2], state |-> state, begun |-> 0])
    BY <1>2 DEF StartInserts
  <2>2. PICK state \in InsertedStates(d) :
          execs' = Append(execs, [key |-> call[c][2], state |-> state, begun |-> 0])
    BY <2>1
  <2>3. call[c] \in {"insert", "error"} \X Keys
    BY <1>2 DEF StartInserts, EngineInv, CallsInv, NotCalling
  <2>4. [key |-> call[c][2], state |-> state, begun |-> 0] \in Execution
    BY <2>3, InsertedStatesLegal DEF Execution, Active, Terminal
  <2>5. /\ execs \in Seq(Execution) /\ Len(execs) \in Nat /\ Ids = 1 .. Len(execs)
        /\ execs' \in Seq(Execution) /\ Len(execs') = Len(execs) + 1
        /\ \A i \in Ids : execs'[i] = execs[i]
    BY <2>2, <2>4, RowsTyped, AppendProperties DEF EngineInv, RowsInv
  <2>6. Ids' = 1 .. Len(execs) + 1
    BY <2>5, LenProperties DEF Ids
  <2> QED BY <2>5, <2>6 DEF Known
<1> QED BY <1>1, <1>2
        DEF StartStep, StartReuses, StartFindsNone, StartLosesRace, CallEnds, engineVars


-----------------------------------------------------------------------------
(* Steps on the outbox. *)

\* A step that leaves workers, deliveries and executions alone.
LEMMA RestUntouched ==
    ASSUME SystemInv, UNCHANGED <<delivery, worker, overran, engineVars>>
    PROVE  /\ EngineInv' /\ RunInv' /\ CallInv' /\ LoopInv'
           /\ \A e \in Events : Known(e)' = Known(e) /\ Done(e)' = Done(e)
<1>1. EngineInv'
  BY DEF SystemInv, engineVars, EngineInv, RowsInv, MessagesInv, CallsInv, BegunInv, Ids,
         UniqueCorrelation
<1>2. \A e \in Events : Known(e)' = Known(e) /\ Done(e)' = Done(e)
  BY DEF Known, Done, Ids, engineVars
<1> QED BY <1>1, <1>2 DEF SystemInv, engineVars, RunInv, CallInv, LoopInv, Executing,
           Current, Entry, InHandler, Noted, Known, Done, Ids

\* Rows that are not processed by the step, and that come out of a dead letter
\* only with their attempts reset.
RowsMove ==
    /\ outbox' \in [Events -> Row]
    /\ \A e \in Events :
         /\ outbox'[e].status = "processed" => outbox[e].status = "processed"
         /\ \/ outbox'[e].attempts = 0
            \/ /\ outbox'[e].attempts = outbox[e].attempts
               /\ outbox[e].status = "dead_letter" => outbox'[e].status = "dead_letter"

LEMMA RowsMoveKeeps ==
    ASSUME SystemInv, RowsMove, UNCHANGED <<delivery, worker, overran, engineVars>>,
           tasks' \subseteq Events \X (Tokens \cup {NoToken}),
           replay' \in [1 .. MaxReplays ->
                          [pc : {"ready", "selected", "finished"}, rows : SUBSET Events]],
           faults' \in 0 .. MaxFaults
    PROVE  SystemInv'
<1>1. /\ EngineInv' /\ RunInv' /\ CallInv' /\ LoopInv'
      /\ \A e \in Events : Known(e)' = Known(e) /\ Done(e)' = Done(e)
  BY RestUntouched
<1>2. TypeInv'
  BY DEF SystemInv, TypeInv, RowsMove
<1>3. DoneInv'
  BY <1>1 DEF SystemInv, DoneInv, RowsMove
<1>4. AttemptsInv'
  BY DEF SystemInv, AttemptsInv, RowsMove
<1> QED BY <1>1, <1>2, <1>3, <1>4 DEF SystemInv

\* What happens to a row on its own.
LEMMA OneRowMoves ==
    ASSUME TypeInv, NEW e \in Events, NEW r \in Row, outbox' = [outbox EXCEPT ![e] = r],
           r.status # "processed" \/ outbox[e].status = "processed",
           \/ r.attempts = 0
           \/ /\ r.attempts = outbox[e].attempts
              /\ outbox[e].status = "dead_letter" => r.status = "dead_letter"
    PROVE  RowsMove
BY DEF TypeInv, RowsMove

LEMMA OutboxStepKeeps ==
    ASSUME SystemInv, UNCHANGED engineVars, faults' \in 0 .. MaxFaults,
           \/ \E e \in Events : publish(e) \/ BackoffElapses(e) \/ ClaimExpires(e)
           \/ \E S \in SUBSET Events : publish_outbox_batch(S)
           \/ \E r \in 1 .. MaxReplays, S \in SUBSET Events : ReplaySelect(r, S)
           \/ \E r \in 1 .. MaxReplays : ReplayUpdate(r)
           \/ \E t \in tasks : LoseTask(t)
    PROVE  SystemInv'
<1>0. TypeInv
  BY DEF SystemInv
<1>1. ASSUME NEW e \in Events, publish(e) PROVE SystemInv'
  <2>1. NewRow \in Row /\ NewRow.status = "pending" /\ NewRow.attempts = 0
    BY DEF NewRow, NoRow, Row
  <2>2. RowsMove
    BY <1>0, <1>1, <2>1, OneRowMoves DEF publish
  <2>3. tasks' \subseteq Events \X (Tokens \cup {NoToken})
    BY <1>0, <1>1 DEF publish, TypeInv
  <2> QED BY <1>0, <1>1, <2>2, <2>3, RowsMoveKeeps DEF publish, TypeInv
<1>2. ASSUME NEW e \in Events, BackoffElapses(e) \/ ClaimExpires(e) PROVE SystemInv'
  <2>1. outbox[e] \in Row
    BY <1>0 DEF TypeInv
  <2>2. /\ [outbox[e] EXCEPT !.due = TRUE] \in Row /\ [outbox[e] EXCEPT !.stale = TRUE] \in Row
        /\ [outbox[e] EXCEPT !.due = TRUE].status = outbox[e].status
        /\ [outbox[e] EXCEPT !.due = TRUE].attempts = outbox[e].attempts
        /\ [outbox[e] EXCEPT !.stale = TRUE].status = outbox[e].status
        /\ [outbox[e] EXCEPT !.stale = TRUE].attempts = outbox[e].attempts
    BY <2>1 DEF Row
  <2>3. \/ outbox' = [outbox EXCEPT ![e] = [outbox[e] EXCEPT !.due = TRUE]]
        \/ outbox' = [outbox EXCEPT ![e] = [outbox[e] EXCEPT !.stale = TRUE]]
    BY <1>2 DEF BackoffElapses, ClaimExpires
  <2>4. RowsMove
    BY <1>0, <2>2, <2>3, OneRowMoves
  <2> QED BY <1>0, <1>2, <2>4, RowsMoveKeeps DEF BackoffElapses, ClaimExpires, TypeInv
<1>3. ASSUME NEW S \in SUBSET Events, publish_outbox_batch(S) PROVE SystemInv'
  <2>1. PICK token \in Tokens : /\ outbox' = claim_outbox_batch(S, token)
                                /\ tasks' = tasks \cup {<<e, token>> : e \in S}
    BY <1>3 DEF publish_outbox_batch, FreshTokens
  <2>2. ASSUME NEW e \in Events
        PROVE  /\ outbox'[e] \in Row
               /\ outbox'[e].attempts = outbox[e].attempts
               /\ \/ outbox'[e].status = "claimed" /\ outbox[e].status # "dead_letter"
                  \/ outbox'[e] = outbox[e]
    <3>1. outbox[e] \in Row
      BY <1>0 DEF TypeInv
    <3>2. e \in S => outbox[e].status \in {"pending", "failed", "claimed"}
      BY <1>3 DEF publish_outbox_batch, Claimable
    <3>3. outbox'[e] = IF e \in S
                       THEN [outbox[e] EXCEPT !.status = "claimed", !.token = token, !.stale = FALSE]
                       ELSE outbox[e]
      BY <2>1 DEF claim_outbox_batch
    <3> QED BY <3>1, <3>2, <3>3 DEF Row
  <2>3. outbox' \in [Events -> Row]
    BY <2>1, <2>2 DEF claim_outbox_batch
  <2>4. RowsMove
    BY <2>2, <2>3 DEF RowsMove
  <2>5. tasks' \subseteq Events \X (Tokens \cup {NoToken})
    BY <1>0, <2>1 DEF TypeInv
  <2> QED BY <1>0, <1>3, <2>4, <2>5, RowsMoveKeeps DEF publish_outbox_batch, TypeInv
<1>4. ASSUME NEW r \in 1 .. MaxReplays, NEW S \in SUBSET Events, ReplaySelect(r, S)
      PROVE  SystemInv'
  <2>1. RowsMove /\ replay' \in [1 .. MaxReplays ->
                          [pc : {"ready", "selected", "finished"}, rows : SUBSET Events]]
    BY <1>0, <1>4 DEF ReplaySelect, RowsMove, TypeInv
  <2> QED BY <1>0, <1>4, <2>1, RowsMoveKeeps DEF ReplaySelect, TypeInv
<1>5. ASSUME NEW r \in 1 .. MaxReplays, ReplayUpdate(r) PROVE SystemInv'
  <2>1. ASSUME NEW e \in Events
        PROVE  /\ outbox'[e] \in Row
               /\ \/ outbox'[e] = outbox[e]
                  \/ outbox'[e].status = "pending" /\ outbox'[e].attempts = 0
    <3>1. outbox[e] \in Row
      BY <1>0 DEF TypeInv
    <3>2. /\ [Released(outbox[e], "pending") EXCEPT !.attempts = 0] \in Row
          /\ [Released(outbox[e], "pending") EXCEPT !.attempts = 0].status = "pending"
          /\ [Released(outbox[e], "pending") EXCEPT !.attempts = 0].attempts = 0
      BY <3>1 DEF Released, Row
    <3>3. CASE e \in replay[r].rows
      <4>1. outbox'[e] = [Released(outbox[e], "pending") EXCEPT !.attempts = 0]
        BY <1>5, <3>3 DEF ReplayUpdate
      <4> QED BY <3>2, <4>1
    <3>4. CASE e \notin replay[r].rows
      <4>1. outbox'[e] = outbox[e]
        BY <1>5, <3>4 DEF ReplayUpdate
      <4> QED BY <3>1, <4>1
    <3> QED BY <3>3, <3>4
  <2>2. outbox' \in [Events -> Row]
    BY <1>5, <2>1 DEF ReplayUpdate
  <2>3. RowsMove
    BY <2>1, <2>2 DEF RowsMove
  <2>4. replay' \in [1 .. MaxReplays ->
                      [pc : {"ready", "selected", "finished"}, rows : SUBSET Events]]
    BY <1>0, <1>5 DEF ReplayUpdate, TypeInv
  <2> QED BY <1>0, <1>5, <2>3, <2>4, RowsMoveKeeps DEF ReplayUpdate, TypeInv
<1>6. ASSUME NEW t \in tasks, LoseTask(t) PROVE SystemInv'
  <2>1. RowsMove /\ tasks' \subseteq Events \X (Tokens \cup {NoToken})
    BY <1>0, <1>6 DEF LoseTask, RowsMove, TypeInv
  <2> QED BY <1>0, <1>6, <2>1, RowsMoveKeeps DEF LoseTask, TypeInv
<1> QED BY <1>1, <1>2, <1>3, <1>4, <1>5, <1>6

-----------------------------------------------------------------------------
(* Steps of a worker. *)

Runs(s) == s.pc \in {"handler", "returned", "raised"}

\* What a step may do to the outbox: settle a row as processed when that is
\* justified, and leave attempts to those that may still be processed.
OutboxKept ==
    /\ outbox' \in [Events -> Row] /\ AttemptsInv'
    /\ \A e \in Events :
         outbox'[e].status = "processed" /\ (\E h \in Registrations : <<e, h>> \in Applies)
           => outbox[e].status = "processed" \/ (Known(e)' /\ Done(e)')

\* A worker that moves without taking up a run, while executions may be added.
LEMMA WorkerMovesOn ==
    ASSUME SystemInv, NEW w \in Workers, NEW s \in {Idle} \cup RoutingState,
           worker' = [worker EXCEPT ![w] = s],
           Runs(s) => /\ Executing(w) /\ s.event = worker[w].event /\ s.next = worker[w].next
                      /\ s.applicable,
           Noted(s)',
           \A e \in Events : Known(e) => Known(e)',
           EngineInv', CallInv', OutboxKept,
           UNCHANGED <<delivery, replay, overran>>,
           tasks' \subseteq Events \X (Tokens \cup {NoToken}),
           faults' \in 0 .. MaxFaults
    PROVE  SystemInv'
<1>1. TypeInv'
  BY DEF SystemInv, TypeInv, OutboxKept
<1>2. /\ worker'[w] = s /\ \A v \in Workers : v # w => worker'[v] = worker[v]
  BY DEF SystemInv, TypeInv
<1>3. \A v \in Workers : Executing(v)' =>
        /\ Executing(v) /\ Current(v)' = Current(v)
        /\ worker'[v].next = worker[v].next /\ worker'[v].event = worker[v].event
        /\ worker'[v].applicable = worker[v].applicable \/ worker'[v].applicable
  BY <1>2 DEF Executing, Runs, Current, Entry
<1>4. RunInv'
  <2> SUFFICES ASSUME NEW v \in Workers, Executing(v)'
               PROVE  /\ worker'[v].next <= Len(Handlers) /\ worker'[v].applicable
                      /\ Current(v)' \in Applies
                      /\ Current(v)' \notin overran =>
                           /\ delivery[worker'[v].event][Entry(v)'] =
                                [status |-> "running", stale |-> FALSE]
                           /\ \A u \in Workers :
                                u # v /\ Executing(u)' => Current(u)' # Current(v)'
    BY DEF RunInv
  <2>1. Entry(v)' = Entry(v)
    BY <1>3 DEF Entry
  <2> QED BY <1>3, <2>1 DEF SystemInv, RunInv
<1>5. \A e \in Events : Done(e)' = Done(e)
  BY DEF Done
<1>6. LoopInv'
  <2>1. ASSUME NEW v \in Workers, v # w PROVE Noted(worker[v])'
    <3>1. worker[v] \in {Idle} \cup RoutingState /\ Noted(worker[v])
      BY DEF SystemInv, TypeInv, LoopInv
    <3> QED BY <1>2, <1>5, <2>1, <3>1 DEF Noted, RoutingState, Idle
  <2> QED BY <1>2, <2>1 DEF LoopInv, Noted
<1>7. DoneInv'
  BY <1>5 DEF SystemInv, DoneInv, OutboxKept
<1> QED BY <1>1, <1>4, <1>6, <1>7 DEF SystemInv, OutboxKept

LEMMA WorkerMoves ==
    ASSUME SystemInv, NEW w \in Workers, NEW s \in {Idle} \cup RoutingState,
           worker' = [worker EXCEPT ![w] = s],
           Runs(s) => /\ Executing(w) /\ s.event = worker[w].event /\ s.next = worker[w].next
                      /\ s.applicable,
           Noted(s)',
           \A e \in Events : Known(e) => Known(e)',
           EngineInv', CallInv',
           UNCHANGED <<outbox, delivery, replay, overran>>,
           tasks' \subseteq Events \X (Tokens \cup {NoToken}),
           faults' \in 0 .. MaxFaults
    PROVE  SystemInv'
<1>1. OutboxKept
  BY DEF SystemInv, TypeInv, AttemptsInv, OutboxKept
<1> QED BY <1>1, WorkerMovesOn

\* A step that leaves executions and calls alone, of a worker outside handlers.
LEMMA EngineUntouched ==
    ASSUME SystemInv, UNCHANGED engineVars, NEW w \in Workers, ~InHandler(w),
           NEW s, worker' = [worker EXCEPT ![w] = s]
    PROVE  /\ EngineInv' /\ CallInv' /\ \A e \in Events : Known(e)' = Known(e)
<1>1. EngineInv'
  BY DEF SystemInv, engineVars, EngineInv, RowsInv, MessagesInv, CallsInv, BegunInv, Ids,
         UniqueCorrelation
<1>2. \A e \in Events : Known(e)' = Known(e)
  BY DEF Known, Ids, engineVars
<1> QED BY <1>1, <1>2 DEF SystemInv, TypeInv, CallInv, InHandler, engineVars

\* Taking a task, passing by a registration, and a predicate that raises.
LEMMA PassKeeps ==
    ASSUME SystemInv, UNCHANGED engineVars, faults' \in 0 .. MaxFaults, NEW w \in Workers,
           \/ \E t \in tasks : process_outbox_entry(w, t) \/ RedeliverTask(w, t)
           \/ SkipEntry(w) \/ PredicateRaises(w)
    PROVE  SystemInv'
<1> USE DEF Runs
<1>1. ASSUME NEW t \in tasks, process_outbox_entry(w, t) \/ RedeliverTask(w, t) PROVE SystemInv'
  <2>1. t[1] \in Events /\ t[2] \in Tokens \cup {NoToken} /\ worker[w].pc = "idle"
    BY <1>1 DEF SystemInv, TypeInv, process_outbox_entry, RedeliverTask
  <2>2. Routing(t[1], t[2]) \in RoutingState
    BY <2>1, RoutingLegal
  <2>3. PICK s \in {Idle} \cup RoutingState :
          /\ worker' = [worker EXCEPT ![w] = s]
          /\ s.pc = "idle" \/ s = Routing(t[1], t[2])
    <3>1. worker[w] \in {Idle} \cup RoutingState /\ worker = [worker EXCEPT ![w] = worker[w]]
      BY DEF SystemInv, TypeInv
    <3>2. worker' = worker \/ worker' = [worker EXCEPT ![w] = Routing(t[1], t[2])]
      BY <1>1 DEF process_outbox_entry, RedeliverTask
    <3> QED BY <2>1, <2>2, <3>1, <3>2
  <2>4. ~Runs(s) /\ Noted(s)'
    BY <2>3 DEF Noted, Routing
  <2>5. EngineInv' /\ CallInv' /\ \A e \in Events : Known(e)' = Known(e)
    BY <2>1, <2>3, EngineUntouched DEF InHandler
  <2>6. tasks' \subseteq Events \X (Tokens \cup {NoToken})
    BY <1>1 DEF SystemInv, TypeInv, process_outbox_entry, RedeliverTask
  <2>7. UNCHANGED <<outbox, delivery, replay, overran>>
    BY <1>1 DEF process_outbox_entry, RedeliverTask
  <2> HIDE DEF Runs
  <2> QED BY <2>3, <2>4, <2>5, <2>6, <2>7, WorkerMoves
<1>2. CASE SkipEntry(w)
  <2>1. worker[w] \in RoutingState /\ worker[w].next <= Len(Handlers)
    BY <1>2, RoutedWorker DEF SkipEntry, AtEntry, SystemInv
  <2>2. PICK s \in RoutingState :
          /\ worker' = [worker EXCEPT ![w] = s]
          /\ s.pc = "route" /\ s.event = worker[w].event /\ s.next = worker[w].next + 1
          /\ s.handled = worker[w].handled /\ s.applicable = worker[w].applicable
    <3>1. worker' = [worker EXCEPT ![w] = NextEntry(worker[w], FALSE)]
      BY <1>2 DEF SkipEntry
    <3>2. /\ NextEntry(worker[w], FALSE) \in RoutingState
          /\ NextEntry(worker[w], FALSE).pc = "route"
          /\ NextEntry(worker[w], FALSE).event = worker[w].event
          /\ NextEntry(worker[w], FALSE).next = worker[w].next + 1
          /\ NextEntry(worker[w], FALSE).handled = (worker[w].handled \/ FALSE)
          /\ NextEntry(worker[w], FALSE).applicable = worker[w].applicable
      BY <2>1, NextEntryLegal
    <3>3. (worker[w].handled \/ FALSE) = worker[w].handled
      BY <2>1 DEF RoutingState
    <3> QED BY <3>1, <3>2, <3>3
  <2>4. EngineInv' /\ CallInv' /\ \A e \in Events : Known(e)' = Known(e)
    BY <1>2, <2>2, EngineUntouched DEF InHandler, SkipEntry
  <2>5. Done(s.event)' = Done(s.event)
    BY <1>2 DEF SkipEntry, Done
  <2>6. Noted(s)'
    <3>1. Noted(worker[w])
      BY DEF SystemInv, LoopInv
    <3>2. <<s.event, Handlers[worker[w].next]>> \notin Applies
      BY <1>2, <2>2 DEF SkipEntry, Current, Entry
    <3>3. \A n \in 1 .. s.next - 1 : n \in 1 .. worker[w].next - 1 \/ n = worker[w].next
      BY <2>1, <2>2, Limits DEF RoutingState
    <3>4. \A n \in 1 .. s.next - 1 : <<s.event, Handlers[n]>> \in Applies => s.applicable
      BY <1>2, <2>2, <3>1, <3>2, <3>3 DEF Noted, SkipEntry
    <3>5. s.handled => Known(s.event)' /\ Done(s.event)'
      BY <1>2, <2>2, <2>4, <2>5, <3>1 DEF Noted, SkipEntry, RoutingState
    <3> QED BY <2>2, <3>4, <3>5 DEF Noted
  <2>7. ~Runs(s)
    BY <2>2
  <2> HIDE DEF Runs
  <2> QED BY <1>2, <2>2, <2>4, <2>6, <2>7, WorkerMoves DEF SkipEntry, SystemInv, TypeInv
<1>3. CASE PredicateRaises(w)
  <2>1. worker[w] \in RoutingState
    BY <1>3, RoutedWorker DEF PredicateRaises, SystemInv
  <2>2. PICK s \in RoutingState :
          /\ worker' = [worker EXCEPT ![w] = s]
          /\ s.pc = "broken" /\ s.event = worker[w].event /\ s.next = worker[w].next
          /\ s.handled = worker[w].handled /\ s.applicable = worker[w].applicable
    <3>1. worker' = [worker EXCEPT ![w] = [worker[w] EXCEPT !.pc = "broken"]]
      BY <1>3 DEF PredicateRaises
    <3>2. [worker[w] EXCEPT !.pc = "broken"] \in RoutingState
      BY <2>1 DEF RoutingState
    <3> QED BY <2>1, <3>1, <3>2 DEF RoutingState
  <2>4. EngineInv' /\ CallInv' /\ \A e \in Events : Known(e)' = Known(e)
    BY <1>3, <2>2, EngineUntouched DEF InHandler, PredicateRaises
  <2>5. Done(s.event)' = Done(s.event)
    BY <1>3 DEF PredicateRaises, Done
  <2>6. Noted(s)'
    <3>1. Noted(worker[w])
      BY DEF SystemInv, LoopInv
    <3>2. \A n \in 1 .. s.next - 1 : <<s.event, Handlers[n]>> \in Applies => s.applicable
      BY <1>3, <2>2, <3>1 DEF Noted, PredicateRaises
    <3>3. s.handled => Known(s.event)' /\ Done(s.event)'
      BY <1>3, <2>2, <2>4, <2>5, <3>1 DEF Noted, PredicateRaises, RoutingState
    <3> QED BY <2>2, <3>2, <3>3 DEF Noted
  <2>7. ~Runs(s)
    BY <2>2
  <2> HIDE DEF Runs
  <2> QED BY <1>3, <2>2, <2>4, <2>6, <2>7, WorkerMoves DEF PredicateRaises, SystemInv, TypeInv
<1> QED BY <1>1, <1>2, <1>3

\* A worker that becomes idle: it has finalized the row, a delivery is running
\* elsewhere, or it dies.
LEMMA IdleKeeps ==
    ASSUME SystemInv, NEW w \in Workers, worker' = [worker EXCEPT ![w] = Idle],
           UNCHANGED <<delivery, tasks, replay, overran>>, faults' \in 0 .. MaxFaults,
           outbox' = outbox \/ OutboxKept,
           (UNCHANGED engineVars /\ ~InHandler(w)) \/ CallEnds(w)
    PROVE  SystemInv'
<1>1. EngineInv' /\ CallInv' /\ \A e \in Events : Known(e)' = Known(e)
  <2>1. CASE UNCHANGED engineVars /\ ~InHandler(w)
    BY <2>1, EngineUntouched
  <2>2. CASE CallEnds(w)
    <3>1. EngineInv'
      BY <2>2, RowsUntouched, Limits DEF CallEnds, SystemInv, EngineInv, MessagesInv, CallsInv
    <3>2. CallInv'
      BY <2>2, Limits DEF CallEnds, SystemInv, EngineInv, CallsInv, CallInv, TypeInv, InHandler
    <3> QED BY <2>2, <3>1, <3>2 DEF CallEnds, Known, Ids
  <2> QED BY <2>1, <2>2
<1>2. Idle.pc = "idle" /\ ~Runs(Idle) /\ Noted(Idle)'
  BY DEF Idle, Runs, Noted
<1>3. OutboxKept
  BY DEF SystemInv, TypeInv, AttemptsInv, OutboxKept
<1> QED BY <1>1, <1>2, <1>3, WorkerMovesOn DEF SystemInv, TypeInv

\* A completed delivery counts as handled.
LEMMA SkipDoneKeeps ==
    ASSUME SystemInv, UNCHANGED engineVars, faults' \in 0 .. MaxFaults, NEW w \in Workers,
           worker[w].pc = "route", AtEntry(w),
           UNCHANGED <<outbox, delivery, tasks, replay, overran>>,
           delivery[worker[w].event][Entry(w)].status = "completed",
           worker' = [worker EXCEPT ![w] = NextEntry([worker[w] EXCEPT !.applicable = TRUE], TRUE)]
    PROVE  SystemInv'
<1>1. worker[w] \in RoutingState /\ worker[w].next <= Len(Handlers)
  BY RoutedWorker DEF AtEntry, SystemInv
<1>2. /\ [worker[w] EXCEPT !.applicable = TRUE] \in RoutingState
      /\ [worker[w] EXCEPT !.applicable = TRUE].next = worker[w].next
      /\ [worker[w] EXCEPT !.applicable = TRUE].event = worker[w].event
      /\ [worker[w] EXCEPT !.applicable = TRUE].applicable = TRUE
  BY <1>1 DEF RoutingState
<1>3. PICK s \in RoutingState :
        /\ worker' = [worker EXCEPT ![w] = s]
        /\ s.pc = "route" /\ s.event = worker[w].event /\ s.applicable = TRUE
  <2>1. ASSUME NEW t \in RoutingState, t = [worker[w] EXCEPT !.applicable = TRUE]
        PROVE  /\ NextEntry(t, TRUE) \in RoutingState /\ NextEntry(t, TRUE).pc = "route"
               /\ NextEntry(t, TRUE).event = t.event /\ NextEntry(t, TRUE).applicable = t.applicable
    BY <1>1, <1>2, <2>1, NextEntryLegal
  <2> QED BY <1>2, <2>1
<1>4. EngineInv' /\ CallInv' /\ \A e \in Events : Known(e)' = Known(e)
  BY <1>3, EngineUntouched DEF InHandler
<1>5. s.event \in Events /\ Entry(w) \in Registrations
  BY <1>1, <1>3, Limits DEF Entry, RoutingState
<1>6. Known(s.event)' /\ Done(s.event)'
  BY <1>3, <1>4, <1>5 DEF SystemInv, DoneInv, Done
<1>7. ~Runs(s) /\ Noted(s)'
  BY <1>3, <1>6 DEF Runs, Noted
<1> QED BY <1>3, <1>4, <1>7, WorkerMoves DEF SystemInv, TypeInv

\* A worker takes a delivery as running: nobody runs it, or its run is overdue.
LEMMA TakeKeeps ==
    ASSUME SystemInv, UNCHANGED engineVars, faults' \in 0 .. MaxFaults, NEW w \in Workers,
           worker[w].pc = "route", AtEntry(w), Current(w) \in Applies,
           UNCHANGED <<outbox, tasks, replay, overran>>,
           delivery[worker[w].event][Entry(w)].status # "completed",
           delivery[worker[w].event][Entry(w)] # [status |-> "running", stale |-> FALSE],
           delivery' = [delivery EXCEPT ![worker[w].event][Entry(w)] =
                          [status |-> "running", stale |-> FALSE]],
           worker' = [worker EXCEPT ![w] =
                        [[worker[w] EXCEPT !.applicable = TRUE] EXCEPT !.pc = "handler"]]
    PROVE  SystemInv'
<1>1. worker[w] \in RoutingState /\ worker[w].next <= Len(Handlers)
  BY RoutedWorker DEF AtEntry, SystemInv
<1>2. PICK s \in RoutingState :
        /\ worker' = [worker EXCEPT ![w] = s]
        /\ s.pc = "handler" /\ s.event = worker[w].event /\ s.next = worker[w].next
        /\ s.handled = worker[w].handled /\ s.applicable = TRUE
  <2>1. [[worker[w] EXCEPT !.applicable = TRUE] EXCEPT !.pc = "handler"] =
          [worker[w] EXCEPT !.applicable = TRUE, !.pc = "handler"]
    BY <1>1 DEF RoutingState
  <2>2. [worker[w] EXCEPT !.applicable = TRUE, !.pc = "handler"] \in RoutingState
    BY <1>1 DEF RoutingState
  <2> QED BY <1>1, <2>1, <2>2 DEF RoutingState
<1>3. PICK e \in Events, h \in Registrations : e = worker[w].event /\ h = Entry(w)
  BY <1>1, Limits DEF Entry, RoutingState
<1>4. EngineInv' /\ CallInv' /\ \A f \in Events : Known(f)' = Known(f)
  BY <1>2, EngineUntouched DEF InHandler
<1>5. worker'[w] = s /\ \A v \in Workers : v # w => worker'[v] = worker[v]
  BY <1>2 DEF SystemInv, TypeInv
<1>6. /\ delivery' \in [Events -> [Registrations -> Attempt]]
      /\ delivery'[e][h] = [status |-> "running", stale |-> FALSE]
      /\ \A f \in Events, g \in Registrations : <<f, g>> # <<e, h>> => delivery'[f][g] = delivery[f][g]
  <2>1. [status |-> "running", stale |-> FALSE] \in Attempt
    BY DEF Attempt
  <2> QED BY <1>3, <2>1 DEF SystemInv, TypeInv
<1>7. TypeInv'
  BY <1>2, <1>6 DEF SystemInv, TypeInv
<1>8. \A f \in Events : Done(f) => Done(f)'
  BY <1>3, <1>6 DEF Done
<1>9. RunInv'
  <2>1. Current(w) = <<e, h>> /\ Current(w)' = <<e, h>> /\ Entry(w)' = h
    BY <1>2, <1>3, <1>5 DEF Current, Entry
  <2>2. ASSUME NEW v \in Workers, v # w, Executing(v)'
        PROVE  /\ Executing(v) /\ Current(v)' = Current(v) /\ Entry(v)' = Entry(v)
               /\ worker'[v] = worker[v] /\ Entry(v) \in Registrations /\ worker[v].event \in Events
               /\ Current(v) = <<worker[v].event, Entry(v)>>
               /\ Current(v) \notin overran => Current(v) # <<e, h>>
    <3>1. Executing(v) /\ worker'[v] = worker[v]
      BY <1>5, <2>2 DEF Executing
    <3>2. worker[v] \in RoutingState /\ worker[v].next <= Len(Handlers)
      BY <3>1, RoutedWorker DEF Executing, SystemInv, RunInv
    <3>3. Current(v) \notin overran => Current(v) # <<e, h>>
      BY <1>3, <3>1 DEF SystemInv, RunInv, Current
    <3> QED BY <3>1, <3>2, <3>3, Limits DEF Current, Entry, RoutingState
  <2>3. ASSUME NEW v \in Workers, v # w, Executing(v)'
        PROVE  /\ worker'[v].next <= Len(Handlers) /\ worker'[v].applicable
               /\ Current(v)' \in Applies
               /\ Current(v)' \notin overran =>
                    /\ delivery'[worker'[v].event][Entry(v)'] =
                         [status |-> "running", stale |-> FALSE]
                    /\ \A u \in Workers : u # v /\ Executing(u)' => Current(u)' # Current(v)'
    <3>1. \A u \in Workers : u # v /\ u # w /\ Executing(u)' => Executing(u) /\ Current(u)' = Current(u)
      BY <2>2
    <3>2. /\ worker[v].next <= Len(Handlers) /\ worker[v].applicable /\ Current(v) \in Applies
          /\ Current(v) \notin overran =>
               /\ delivery[worker[v].event][Entry(v)] = [status |-> "running", stale |-> FALSE]
               /\ \A u \in Workers : u # v /\ Executing(u) => Current(u) # Current(v)
      BY <2>2, <2>3 DEF SystemInv, RunInv
    <3>3. Current(v) \notin overran =>
            delivery'[worker[v].event][Entry(v)] = delivery[worker[v].event][Entry(v)]
      BY <1>6, <2>2, <2>3
    <3> QED BY <2>1, <2>2, <2>3, <3>1, <3>2, <3>3
  <2>4. /\ worker'[w].next <= Len(Handlers) /\ worker'[w].applicable /\ Current(w)' \in Applies
        /\ Current(w)' \notin overran =>
             /\ delivery'[worker'[w].event][Entry(w)'] = [status |-> "running", stale |-> FALSE]
             /\ \A u \in Workers : u # w /\ Executing(u)' => Current(u)' # Current(w)'
    BY <1>1, <1>2, <1>3, <1>5, <1>6, <2>1, <2>2
  <2> QED BY <2>3, <2>4 DEF RunInv
<1>10. LoopInv'
  <2>1. ASSUME NEW v \in Workers, v # w PROVE Noted(worker[v])'
    <3>1. worker[v] \in {Idle} \cup RoutingState /\ Noted(worker[v])
      BY DEF SystemInv, TypeInv, LoopInv
    <3> QED BY <1>4, <1>5, <1>8, <2>1, <3>1 DEF Noted, RoutingState, Idle
  <2>2. Noted(s)'
    <3>1. Noted(worker[w])
      BY DEF SystemInv, LoopInv
    <3> QED BY <1>1, <1>2, <1>4, <1>8, <3>1 DEF Noted, RoutingState
  <2> QED BY <1>5, <2>1, <2>2 DEF LoopInv, Noted
<1>11. DoneInv'
  <2>1. ASSUME NEW f \in Events, NEW g \in Registrations, delivery'[f][g].status = "completed"
        PROVE  Known(f)'
    <3>1. delivery'[e][h].status # "completed"
      BY <1>6
    <3>2. delivery[f][g].status = "completed"
      BY <1>6, <2>1, <3>1
    <3> QED BY <1>4, <3>2 DEF SystemInv, DoneInv
  <2> QED BY <1>4, <1>8, <2>1 DEF SystemInv, DoneInv
<1>12. AttemptsInv'
  BY DEF SystemInv, AttemptsInv
<1> QED BY <1>4, <1>7, <1>9, <1>10, <1>11, <1>12 DEF SystemInv

\* A worker whose handler has ended settles the delivery, if it is still the
\* one that runs, and goes on.
LEMMA SettleKeeps ==
    ASSUME SystemInv, UNCHANGED engineVars, faults' \in 0 .. MaxFaults, NEW w \in Workers,
           worker[w].pc \in {"returned", "raised"},
           UNCHANGED <<outbox, tasks, replay, overran>>,
           NEW status \in {"completed", "failed", "dead_letter"},
           status = "completed" => worker[w].pc = "returned",
           delivery' = SettleDelivery(worker[w].event, Entry(w), status),
           NEW s \in RoutingState, worker' = [worker EXCEPT ![w] = s],
           ~Runs(s), s.event = worker[w].event,
           s.handled => worker[w].handled \/ status = "completed",
           s.applicable = worker[w].applicable, s.next \in {worker[w].next, worker[w].next + 1}
    PROVE  SystemInv'
<1>1. /\ worker[w] \in RoutingState /\ worker[w].next <= Len(Handlers) /\ Executing(w)
      /\ worker[w].applicable
  BY RoutedWorker DEF SystemInv, RunInv, Executing
<1>3. PICK e \in Events, h \in Registrations : e = worker[w].event /\ h = Entry(w)
  BY <1>1, Limits DEF Entry, RoutingState
<1>4. EngineInv' /\ CallInv' /\ \A f \in Events : Known(f)' = Known(f)
  BY EngineUntouched DEF InHandler
<1>5. worker'[w] = s /\ \A v \in Workers : v # w => worker'[v] = worker[v]
  BY DEF SystemInv, TypeInv
<1>6. /\ delivery' \in [Events -> [Registrations -> Attempt]]
      /\ \/ delivery[e][h].status # "running" /\ delivery' = delivery
         \/ delivery[e][h].status = "running" /\ delivery'[e][h].status = status
      /\ \A f \in Events, g \in Registrations : <<f, g>> # <<e, h>> => delivery'[f][g] = delivery[f][g]
  <2>1. [status |-> status, stale |-> FALSE] \in Attempt
    BY DEF Attempt
  <2> QED BY <1>3, <2>1 DEF SystemInv, TypeInv, SettleDelivery
<1>7. TypeInv'
  BY <1>6 DEF SystemInv, TypeInv
<1>8. \A f \in Events : Done(f) => Done(f)'
  <2> SUFFICES ASSUME NEW f \in Events, NEW g \in Registrations,
                      delivery[f][g].status = "completed"
               PROVE  delivery'[f][g].status = "completed"
    BY DEF Done
  <2> QED BY <1>3, <1>6
<1>9. RunInv'
  <2>1. Current(w) = <<e, h>>
    BY <1>3 DEF Current
  <2>2. ASSUME NEW v \in Workers, Executing(v)'
        PROVE  /\ v # w /\ Executing(v) /\ Current(v)' = Current(v) /\ Entry(v)' = Entry(v)
               /\ worker'[v] = worker[v] /\ Entry(v) \in Registrations /\ worker[v].event \in Events
               /\ Current(v) = <<worker[v].event, Entry(v)>>
    <3>1. v # w /\ Executing(v) /\ worker'[v] = worker[v]
      BY <1>5, <2>2 DEF Executing, Runs
    <3>2. worker[v] \in RoutingState /\ worker[v].next <= Len(Handlers)
      BY <3>1, RoutedWorker DEF Executing, SystemInv, RunInv
    <3> QED BY <3>1, <3>2, Limits DEF Current, Entry, RoutingState
  <2>3. ASSUME NEW v \in Workers, Executing(v)'
        PROVE  /\ worker'[v].next <= Len(Handlers) /\ worker'[v].applicable
               /\ Current(v)' \in Applies
               /\ Current(v)' \notin overran =>
                    /\ delivery'[worker'[v].event][Entry(v)'] =
                         [status |-> "running", stale |-> FALSE]
                    /\ \A u \in Workers : u # v /\ Executing(u)' => Current(u)' # Current(v)'
    <3>1. \A u \in Workers : Executing(u)' => Executing(u) /\ Current(u)' = Current(u)
      BY <2>2
    <3>2. /\ worker[v].next <= Len(Handlers) /\ worker[v].applicable /\ Current(v) \in Applies
          /\ Current(v) \notin overran =>
               /\ delivery[worker[v].event][Entry(v)] = [status |-> "running", stale |-> FALSE]
               /\ \A u \in Workers : u # v /\ Executing(u) => Current(u) # Current(v)
      BY <2>2, <2>3 DEF SystemInv, RunInv
    <3>3. Current(v) \notin overran =>
            delivery'[worker[v].event][Entry(v)] = delivery[worker[v].event][Entry(v)]
      BY <1>1, <1>6, <2>1, <2>2, <2>3, <3>2
    <3> QED BY <2>2, <2>3, <3>1, <3>2, <3>3
  <2> QED BY <2>3 DEF RunInv
<1>10. status = "completed" => Known(e)' /\ Done(e)'
  <2>1. Known(e) \/ status # "completed"
    BY <1>1, <1>3 DEF SystemInv, LoopInv, Noted
  <2>2. <<e, h>> \in overran \/ delivery[e][h].status = "running"
    BY <1>1, <1>3 DEF SystemInv, RunInv, Current
  <2> QED BY <1>4, <1>6, <2>1, <2>2 DEF Done
<1>11. LoopInv'
  <2>1. ASSUME NEW v \in Workers, v # w PROVE Noted(worker[v])'
    <3>1. worker[v] \in {Idle} \cup RoutingState /\ Noted(worker[v])
      BY DEF SystemInv, TypeInv, LoopInv
    <3> QED BY <1>4, <1>5, <1>8, <2>1, <3>1 DEF Noted, RoutingState, Idle
  <2>2. Noted(s)'
    <3>1. Noted(worker[w])
      BY DEF SystemInv, LoopInv
    <3>2. s.handled => Known(s.event)' /\ Done(s.event)'
      BY <1>1, <1>3, <1>4, <1>8, <1>10, <3>1 DEF Noted, RoutingState
    <3>3. s.pc # "returned"
      BY DEF Runs
    <3> QED BY <1>1, <3>2, <3>3 DEF Noted
  <2> QED BY <1>5, <2>1, <2>2 DEF LoopInv, Noted
<1>12. DoneInv'
  <2>1. ASSUME NEW f \in Events, NEW g \in Registrations, delivery'[f][g].status = "completed"
        PROVE  Known(f)'
    <3>1. CASE delivery[f][g].status = "completed"
      BY <1>4, <3>1 DEF SystemInv, DoneInv
    <3>2. CASE f = e /\ status = "completed"
      BY <1>10, <3>2
    <3> QED BY <1>6, <2>1, <3>1, <3>2
  <2> QED BY <1>4, <1>8, <2>1 DEF SystemInv, DoneInv
<1>13. AttemptsInv'
  BY DEF SystemInv, AttemptsInv
<1> QED BY <1>4, <1>7, <1>9, <1>11, <1>12, <1>13 DEF SystemInv

LEMMA BeginAttemptKeeps ==
    ASSUME SystemInv, UNCHANGED engineVars, faults' \in 0 .. MaxFaults, NEW w \in Workers,
           BeginAttempt(w)
    PROVE  SystemInv'
<1> DEFINE d == delivery[worker[w].event][Entry(w)]
           marked == [worker[w] EXCEPT !.applicable = TRUE]
<1>1. /\ worker[w].pc = "route" /\ AtEntry(w) /\ Current(w) \in Applies
      /\ UNCHANGED <<outbox, tasks, replay, overran>>
  BY DEF BeginAttempt
<1>2. CASE d.status = "completed" /\ worker' = [worker EXCEPT ![w] = NextEntry(marked, TRUE)]
           /\ UNCHANGED delivery
  BY <1>1, <1>2, SkipDoneKeeps
<1>3. CASE worker' = [worker EXCEPT ![w] = Idle] /\ UNCHANGED delivery
  BY <1>1, <1>3, IdleKeeps DEF InHandler
<1>4. CASE /\ d.status # "completed" /\ ~(d.status = "running" /\ ~d.stale)
           /\ worker' = [worker EXCEPT ![w] = [marked EXCEPT !.pc = "handler"]]
           /\ delivery' = [delivery EXCEPT ![worker[w].event][Entry(w)] =
                              [status |-> "running", stale |-> FALSE]]
  <2>1. d # [status |-> "running", stale |-> FALSE]
    BY <1>4
  <2> QED BY <1>1, <1>4, <2>1, TakeKeeps
<1> HIDE DEF d, marked
<1> QED BY <1>2, <1>3, <1>4 DEF BeginAttempt, d, marked

LEMMA RecordKeeps ==
    ASSUME SystemInv, UNCHANGED engineVars, faults' \in 0 .. MaxFaults, NEW w \in Workers,
           RecordCompleted(w) \/ RecordFailed(w)
    PROVE  SystemInv'
<1>1. worker[w] \in RoutingState /\ worker[w].next <= Len(Handlers)
  BY RoutedWorker DEF SystemInv, RunInv, Executing, RecordCompleted, RecordFailed
<1>2. ASSUME NEW b \in BOOLEAN
      PROVE  /\ NextEntry(worker[w], b) \in RoutingState /\ ~Runs(NextEntry(worker[w], b))
             /\ NextEntry(worker[w], b).event = worker[w].event
             /\ NextEntry(worker[w], b).handled = (worker[w].handled \/ b)
             /\ NextEntry(worker[w], b).applicable = worker[w].applicable
             /\ NextEntry(worker[w], b).next = worker[w].next + 1
  BY <1>1, NextEntryLegal DEF Runs
<1>3. CASE RecordCompleted(w)
  <2>1. /\ worker[w].pc = "returned" /\ UNCHANGED <<outbox, tasks, replay, overran>>
        /\ delivery' = SettleDelivery(worker[w].event, Entry(w), "completed")
        /\ worker' = [worker EXCEPT ![w] = NextEntry(worker[w], TRUE)]
    BY <1>3 DEF RecordCompleted
  <2>2. PICK s \in RoutingState :
          /\ worker' = [worker EXCEPT ![w] = s] /\ ~Runs(s) /\ s.event = worker[w].event
          /\ s.applicable = worker[w].applicable /\ s.next = worker[w].next + 1
    BY <1>2, <2>1
  <2> QED BY <2>1, <2>2, SettleKeeps
<1>4. CASE RecordFailed(w)
  <2>1. /\ worker[w].pc = "raised" /\ UNCHANGED <<outbox, tasks, replay, overran>>
        /\ \/ /\ ~(worker[w].try > HandlerRetries)
              /\ worker' = [worker EXCEPT ![w].pc = "route", ![w].try = @ + 1]
           \/ worker' = [worker EXCEPT ![w] = NextEntry(@, FALSE)]
           \/ worker' = [worker EXCEPT ![w].pc = "broken"]
    BY <1>4 DEF RecordFailed
  <2>2. PICK status \in {"failed", "dead_letter"} :
          delivery' = SettleDelivery(worker[w].event, Entry(w), status)
    BY <1>4 DEF RecordFailed
  <2>3. PICK s \in RoutingState :
          /\ worker' = [worker EXCEPT ![w] = s] /\ ~Runs(s) /\ s.event = worker[w].event
          /\ s.handled = worker[w].handled
          /\ s.applicable = worker[w].applicable /\ s.next \in {worker[w].next, worker[w].next + 1}
    <3>1. CASE ~(worker[w].try > HandlerRetries)
               /\ worker' = [worker EXCEPT ![w].pc = "route", ![w].try = @ + 1]
      <4>1. worker' = [worker EXCEPT ![w] =
                         [worker[w] EXCEPT !.pc = "route", !.try = worker[w].try + 1]]
        BY <3>1 DEF SystemInv, TypeInv
      <4>0. worker[w].try + 1 \in 1 .. HandlerRetries + 1
        BY <1>1, <3>1, Limits DEF RoutingState
      <4>2. [worker[w] EXCEPT !.pc = "route", !.try = worker[w].try + 1] \in RoutingState
        BY <1>1, <4>0 DEF RoutingState
      <4> QED BY <1>1, <4>1, <4>2 DEF RoutingState, Runs
    <3>2. CASE worker' = [worker EXCEPT ![w] = NextEntry(@, FALSE)]
      <4>1. (worker[w].handled \/ FALSE) = worker[w].handled
        BY <1>1 DEF RoutingState
      <4> QED BY <1>2, <3>2, <4>1
    <3>3. CASE worker' = [worker EXCEPT ![w].pc = "broken"]
      <4>1. [worker[w] EXCEPT !.pc = "broken"] \in RoutingState
        BY <1>1 DEF RoutingState
      <4> QED BY <1>1, <3>3, <4>1 DEF RoutingState, Runs
    <3> QED BY <2>1, <3>1, <3>2, <3>3
  <2> QED BY <2>1, <2>2, <2>3, SettleKeeps
<1> QED BY <1>3, <1>4

\* A run outlives its timeout: whoever still executes it is noted.
LEMMA RunExpiresKeeps ==
    ASSUME SystemInv, UNCHANGED engineVars, faults' \in 0 .. MaxFaults,
           NEW e \in Events, NEW h \in Registrations, RunExpires(e, h)
    PROVE  SystemInv'
<1>1. /\ delivery[e][h].status = "running"
      /\ delivery' = [delivery EXCEPT ![e][h].stale = TRUE]
      /\ overran' = IF RunHeld(e, h) THEN overran \cup {<<e, h>>} ELSE overran
      /\ UNCHANGED <<outbox, worker, tasks, replay>>
  BY DEF RunExpires
<1>2. /\ delivery' \in [Events -> [Registrations -> Attempt]]
      /\ delivery'[e][h].status = "running"
      /\ \A f \in Events, g \in Registrations : <<f, g>> # <<e, h>> => delivery'[f][g] = delivery[f][g]
  <2>1. delivery[e][h] \in Attempt
    BY DEF SystemInv, TypeInv
  <2>2. [delivery[e][h] EXCEPT !.stale = TRUE] \in Attempt
        /\ [delivery[e][h] EXCEPT !.stale = TRUE].status = "running"
    BY <1>1, <2>1 DEF Attempt
  <2>3. delivery' = [delivery EXCEPT ![e][h] = [delivery[e][h] EXCEPT !.stale = TRUE]]
    BY <1>1
  <2> QED BY <2>2, <2>3 DEF SystemInv, TypeInv
<1>3. overran \subseteq overran' /\ overran' \subseteq overran \cup {<<e, h>>}
  BY <1>1
<1>4. RunHeld(e, h) => <<e, h>> \in Applies
  BY DEF RunHeld, SystemInv, RunInv
<1>5. TypeInv'
  BY <1>1, <1>2, <1>4 DEF SystemInv, TypeInv
<1>6. EngineInv' /\ CallInv' /\ \A f \in Events : Known(f)' = Known(f)
  <2>1. EngineInv'
    BY DEF SystemInv, engineVars, EngineInv, RowsInv, MessagesInv, CallsInv, BegunInv, Ids,
           UniqueCorrelation
  <2> QED BY <1>1, <2>1 DEF SystemInv, CallInv, InHandler, engineVars, Known, Ids
<1>7. \A f \in Events : Done(f) => Done(f)'
  BY <1>1, <1>2, <1>3 DEF Done
<1>8. RunInv'
  <2> SUFFICES ASSUME NEW v \in Workers, Executing(v)'
               PROVE  /\ worker'[v].next <= Len(Handlers) /\ worker'[v].applicable
                      /\ Current(v)' \in Applies
                      /\ Current(v)' \notin overran' =>
                           /\ delivery'[worker'[v].event][Entry(v)'] =
                                [status |-> "running", stale |-> FALSE]
                           /\ \A u \in Workers :
                                u # v /\ Executing(u)' => Current(u)' # Current(v)'
    BY DEF RunInv
  <2>1. /\ \A u \in Workers : Executing(u)' = Executing(u) /\ Current(u)' = Current(u)
                               /\ Entry(u)' = Entry(u)
    BY <1>1 DEF Executing, Current, Entry
  <2>2. Executing(v)
    BY <2>1
  <2>3. worker[v] \in RoutingState /\ worker[v].next <= Len(Handlers)
    BY <2>2, RoutedWorker DEF Executing, SystemInv, RunInv
  <2>4. worker[v].event \in Events /\ Entry(v) \in Registrations
    BY <2>3, Limits DEF Entry, RoutingState
  <2>5. Current(v) = <<e, h>> => <<e, h>> \in overran'
    BY <1>1, <2>2 DEF RunHeld
  <2>6. Current(v) \notin overran' =>
          delivery'[worker[v].event][Entry(v)] = delivery[worker[v].event][Entry(v)]
    BY <1>2, <2>4, <2>5 DEF Current
  <2> QED BY <1>1, <1>3, <2>1, <2>2, <2>6 DEF SystemInv, RunInv
<1>9. LoopInv'
  <2> SUFFICES ASSUME NEW v \in Workers PROVE Noted(worker[v])'
    BY DEF LoopInv
  <2>1. worker[v] \in {Idle} \cup RoutingState /\ Noted(worker[v])
    BY DEF SystemInv, TypeInv, LoopInv
  <2>2. worker'[v] = worker[v] /\ (worker[v].pc # "idle" => worker[v].event \in Events)
    BY <1>1, <2>1 DEF RoutingState, Idle
  <2> QED BY <1>6, <1>7, <2>1, <2>2 DEF Noted
<1>10. DoneInv'
  <2>1. ASSUME NEW f \in Events, NEW g \in Registrations, delivery'[f][g].status = "completed"
        PROVE  Known(f)'
    <3>1. delivery[f][g].status = "completed"
      BY <1>2, <2>1
    <3> QED BY <1>6, <3>1 DEF SystemInv, DoneInv
  <2> QED BY <1>1, <1>6, <1>7, <2>1 DEF SystemInv, DoneInv
<1>11. AttemptsInv'
  BY <1>1 DEF SystemInv, AttemptsInv
<1> QED BY <1>5, <1>6, <1>8, <1>9, <1>10, <1>11 DEF SystemInv

\* process_outbox_entry ends: a row that is still owned is settled.
LEMMA FinalizeKeeps ==
    ASSUME SystemInv, UNCHANGED engineVars, faults' \in 0 .. MaxFaults, NEW w \in Workers,
           Finalize(w)
    PROVE  SystemInv'
<1>1. /\ worker[w].pc \in {"broken", "route"} /\ (worker[w].pc = "route" => ~AtEntry(w))
      /\ worker' = [worker EXCEPT ![w] = Idle]
      /\ UNCHANGED <<delivery, tasks, replay, overran>>
  BY DEF Finalize
<1>2. worker[w] \in RoutingState
  BY <1>1, RoutedWorker DEF SystemInv
<1>3. PICK e \in Events : e = worker[w].event
  BY <1>2 DEF RoutingState
<1>4. outbox[e] \in Row
  BY DEF SystemInv, TypeInv
<1>5. CASE ~StillOwned(outbox[e], worker[w].token)
  BY <1>1, <1>3, <1>5, IdleKeeps DEF Finalize, InHandler
<1>6. CASE StillOwned(outbox[e], worker[w].token)
  <2>1. outbox[e].status \in {"pending", "failed", "claimed"}
    BY <1>6 DEF StillOwned
  <2>2. PICK r \in Row :
          /\ outbox' = [outbox EXCEPT ![e] = r]
          /\ \/ r = Failed(outbox[e])
             \/ /\ r = Released(outbox[e], "processed")
                /\ worker[w].pc = "route" /\ (worker[w].applicable => worker[w].handled)
    BY <1>1, <1>3, <1>4, <1>6, FailedLegal DEF Finalize
  <2>3. outbox'[e] = r /\ \A f \in Events : f # e => outbox'[f] = outbox[f]
    BY <2>2 DEF SystemInv, TypeInv
  <2>4. CASE r = Failed(outbox[e])
    <3>1. /\ r.status \in {"dead_letter", "failed"} /\ r.attempts = outbox[e].attempts + 1
          /\ DeadLetters => (r.status = "dead_letter" <=> r.attempts >= MaxRetries)
      BY <1>4, <2>4, Limits DEF Failed, Released, Row
    <3>2. DeadLetters => \/ r.attempts < MaxRetries
                         \/ r.status = "dead_letter" /\ r.attempts \in {1, MaxRetries}
      <4>1. DeadLetters => outbox[e].attempts = 0 \/ outbox[e].attempts < MaxRetries
        BY <2>1 DEF SystemInv, AttemptsInv
      <4>2. outbox[e].attempts \in Nat
        BY <1>4 DEF Row
      <4>3. MaxRetries \in Nat /\ r.attempts \in Nat
        BY <3>1, <4>2, Limits
      <4>4. DeadLetters => r.attempts = 1 \/ r.attempts <= MaxRetries
        BY <3>1, <4>1, <4>2, <4>3
      <4>5. r.attempts < MaxRetries \/ r.attempts >= MaxRetries
        BY <4>3
      <4>6. r.attempts <= MaxRetries /\ r.attempts >= MaxRetries => r.attempts = MaxRetries
        BY <4>3
      <4> QED BY <3>1, <4>4, <4>5, <4>6
    <3>3. AttemptsInv'
      BY <2>3, <3>2 DEF SystemInv, AttemptsInv
    <3>4. OutboxKept
      BY <2>2, <2>3, <3>1, <3>3 DEF SystemInv, TypeInv, OutboxKept
    <3> QED BY <1>1, <3>4, IdleKeeps DEF InHandler
  <2>5. CASE /\ r = Released(outbox[e], "processed")
             /\ worker[w].pc = "route" /\ (worker[w].applicable => worker[w].handled)
    <3>1. r.status = "processed" /\ r.attempts = outbox[e].attempts
      BY <1>4, <2>5 DEF Released, Row
    <3>2. AttemptsInv'
      BY <2>1, <2>3, <3>1 DEF SystemInv, AttemptsInv
    <3>3. ASSUME NEW h \in Registrations, <<e, h>> \in Applies PROVE Known(e)' /\ Done(e)'
      <4>1. PICK n \in 1 .. Len(Handlers) : Handlers[n] = h
        BY Limits
      <4>2. n \in 1 .. worker[w].next - 1
        BY <1>1, <1>2, <2>5, Limits DEF AtEntry, Routed, RoutingState
      <4>3. worker[w].applicable
        BY <1>1, <1>3, <3>3, <4>1, <4>2 DEF SystemInv, LoopInv, Noted
      <4>4. Known(e) /\ Done(e)
        BY <1>1, <1>3, <2>5, <4>3 DEF SystemInv, LoopInv, Noted
      <4> QED BY <1>1, <4>4 DEF Known, Done, Ids, engineVars
    <3>4. OutboxKept
      BY <2>2, <2>3, <3>2, <3>3 DEF SystemInv, TypeInv, OutboxKept
    <3> QED BY <1>1, <3>4, IdleKeeps DEF InHandler
  <2> QED BY <2>2, <2>4, <2>5
<1> QED BY <1>5, <1>6

\* The handler body: a start, an error, or the way back to the delivery.
LEMMA HandlerKeeps ==
    ASSUME SystemInv, faults' \in 0 .. MaxFaults, NEW w \in Workers, HandlerStep(w)
    PROVE  SystemInv'
<1>1. /\ worker[w].pc = "handler" /\ worker[w] \in RoutingState /\ Executing(w)
      /\ worker[w].applicable /\ Noted(worker[w])
  BY RoutedWorker DEF SystemInv, RunInv, LoopInv, HandlerStep, HandlerReuses, HandlerLooks, InHandler,
       HandlerStarts, HandlerLosesRace, HandlerFails, HandlerRaises, Executing
<1>2. PICK k \in Keys : k = worker[w].event
  BY <1>1, Limits DEF RoutingState
<1>3. UNCHANGED <<outbox, delivery, tasks, replay, overran>>
  BY DEF HandlerStep, HandlerReuses, HandlerLooks, HandlerStarts, HandlerLosesRace, HandlerFails,
         HandlerReturns, HandlerRaises, deliveryVars
<1>4. StartStep(w) \/ CallEnds(w)
  BY <1>2 DEF HandlerStep, HandlerReuses, HandlerLooks, HandlerStarts, HandlerLosesRace, HandlerFails,
              StartStep
<1>5. EngineInv' /\ \A e \in Events : Known(e) => Known(e)'
  <2>1. CASE StartStep(w)
    BY <2>1, StartKeeps, KnownStays, Limits DEF SystemInv
  <2>2. CASE CallEnds(w)
    BY <2>2, RowsUntouched, Limits
    DEF CallEnds, SystemInv, EngineInv, MessagesInv, CallsInv, Known, Ids
  <2> QED BY <1>4, <2>1, <2>2
<1>6. /\ call \in [Workers -> {NotCalling} \cup ({"insert", "error"} \X Keys)]
      /\ call' \in [Workers -> {NotCalling} \cup ({"insert", "error"} \X Keys)]
  BY <1>5, Limits DEF SystemInv, EngineInv, CallsInv
<1>7. \A v \in Workers : v # w => call'[v] = call[v]
  BY <1>4, <1>6 DEF StartStep, StartReuses, StartFindsNone, StartInserts, StartLosesRace, CallEnds,
                    engineVars
<1>8. PICK s \in RoutingState :
        /\ worker' = [worker EXCEPT ![w] = s]
        /\ s.event = worker[w].event /\ s.next = worker[w].next /\ s.applicable = worker[w].applicable
        /\ s.handled = worker[w].handled
        /\ \/ s.pc = "handler" /\ (HandlerLooks(w) \/ HandlerLosesRace(w))
           \/ s.pc = "returned" /\ (HandlerReuses(w) \/ StartInserts(w))
           \/ s.pc = "raised" /\ (CallEnds(w) \/ StartInserts(w))
  <2>1. CASE HandlerLooks(w) \/ HandlerLosesRace(w)
    <3>1. worker' = worker /\ worker = [worker EXCEPT ![w] = worker[w]]
      BY <2>1 DEF HandlerLooks, HandlerLosesRace, deliveryVars, SystemInv, TypeInv
    <3> QED BY <1>1, <2>1, <3>1
  <2>2. [worker[w] EXCEPT !.pc = "returned"] \in RoutingState
        /\ [worker[w] EXCEPT !.pc = "raised"] \in RoutingState
    BY <1>1 DEF RoutingState
  <2>3. CASE HandlerReturns(w) /\ (HandlerReuses(w) \/ StartInserts(w))
    <3>1. worker' = [worker EXCEPT ![w] = [worker[w] EXCEPT !.pc = "returned"]]
      BY <2>3 DEF HandlerReturns
    <3> QED BY <1>1, <2>2, <2>3, <3>1 DEF RoutingState
  <2>4. CASE HandlerRaises(w) /\ (CallEnds(w) \/ StartInserts(w))
    <3>1. worker' = [worker EXCEPT ![w] = [worker[w] EXCEPT !.pc = "raised"]]
      BY <2>4 DEF HandlerRaises
    <3> QED BY <1>1, <2>2, <2>4, <3>1 DEF RoutingState
  <2> QED BY <2>1, <2>3, <2>4 DEF HandlerStep, HandlerReuses, HandlerStarts, HandlerFails
<1>9. worker'[w] = s /\ \A v \in Workers : v # w => worker'[v] = worker[v]
  BY <1>8 DEF SystemInv, TypeInv
<1>10. CallInv'
  <2>1. ASSUME NEW v \in Workers, v # w, call'[v] # NotCalling
        PROVE  InHandler(v)' /\ call'[v][2] = worker'[v].event
    BY <1>7, <1>9, <2>1 DEF SystemInv, CallInv, InHandler
  <2>2. s.pc # "handler" => call'[w] = NotCalling
    BY <1>6, <1>8 DEF HandlerReuses, StartReuses, StartInserts, CallEnds, engineVars
  <2>3. s.pc = "handler" => call'[w][2] = worker[w].event
    <3>1. CASE HandlerLooks(w)
      BY <1>6, <3>1 DEF HandlerLooks, StartFindsNone
    <3>2. CASE HandlerLosesRace(w)
      <4>1. call[w][1] = "insert" /\ call' = [call EXCEPT ![w][1] = "error"]
        BY <3>2 DEF HandlerLosesRace, StartLosesRace
      <4>2. call[w] # NotCalling /\ call[w] \in {"insert", "error"} \X Keys
        BY <1>6, <4>1 DEF NotCalling
      <4>3. call'[w][2] = call[w][2]
        BY <1>6, <4>1, <4>2
      <4> QED BY <4>2, <4>3 DEF SystemInv, CallInv
    <3> QED BY <1>8, <3>1, <3>2
  <2> QED BY <1>8, <1>9, <2>1, <2>2, <2>3 DEF CallInv, InHandler
<1>11. s.pc = "returned" => Known(s.event)'
  <2>1. CASE HandlerReuses(w)
    <3>1. Known(s.event) /\ UNCHANGED engineVars
      BY <1>8, <2>1 DEF HandlerReuses, StartReuses, Reusable, Known
    <3> QED BY <3>1 DEF Known, Ids, engineVars
  <2>2. CASE StartInserts(w)
    <3>1. PICK d \in Definitions : \E state \in InsertedStates(d) :
            /\ ~Conflicts(call[w][2], state)
            /\ execs' = Append(execs, [key |-> call[w][2], state |-> state, begun |-> 0])
      BY <2>2 DEF StartInserts
    <3>2. PICK state \in InsertedStates(d) :
            /\ ~Conflicts(call[w][2], state)
            /\ execs' = Append(execs, [key |-> call[w][2], state |-> state, begun |-> 0])
      BY <3>1
    <3>3. call[w] # NotCalling /\ call[w] \in {"insert", "error"} \X Keys
      BY <1>6, <2>2 DEF StartInserts, NotCalling
    <3>4. call[w][2] = s.event
      BY <1>8, <3>3 DEF SystemInv, CallInv
    <3>5. [key |-> call[w][2], state |-> state, begun |-> 0] \in Execution
      BY <3>3, InsertedStatesLegal DEF Execution, Active, Terminal
    <3>6. /\ execs \in Seq(Execution) /\ Len(execs) \in Nat /\ Len(execs') = Len(execs) + 1
          /\ execs'[Len(execs) + 1] = [key |-> call[w][2], state |-> state, begun |-> 0]
          /\ execs' \in Seq(Execution)
      BY <3>2, <3>5, RowsTyped, AppendProperties DEF SystemInv, EngineInv, RowsInv
    <3>7. Len(execs) + 1 \in Ids'
      BY <3>6, LenProperties DEF Ids
    <3>8. execs'[Len(execs) + 1].key = s.event
      BY <3>4, <3>6
    <3> QED BY <3>7, <3>8 DEF Known
  <2> QED BY <1>8, <2>1, <2>2
<1>12. Noted(s)'
  <2>1. \A n \in 1 .. s.next - 1 : <<s.event, Handlers[n]>> \in Applies => s.applicable
    BY <1>1, <1>8
  <2>2. s.handled => Known(s.event)' /\ Done(s.event)'
    BY <1>1, <1>3, <1>5, <1>8 DEF Noted, Done, RoutingState
  <2> QED BY <1>11, <2>1, <2>2 DEF Noted
<1> QED BY <1>1, <1>3, <1>5, <1>8, <1>10, <1>12, WorkerMoves DEF SystemInv, TypeInv

-----------------------------------------------------------------------------
(* The inductive invariant, and what follows. *)

LEMMA SystemInit == Init => SystemInv
<1> SUFFICES ASSUME Init PROVE SystemInv
  OBVIOUS
<1> USE DEF Init, DeliveryInit
<1>1. TypeInv
  <2>1. NoRow \in Row /\ [status |-> "none", stale |-> FALSE] \in Attempt
    BY DEF NoRow, Row, Attempt
  <2> QED BY <2>1, Limits DEF TypeInv
<1>2. EngineInv
  <2>1. RowsInv /\ Ids = {}
    BY EmptySeq DEF EngineInit, RowsInv, Ids
  <2> QED BY <2>1 DEF EngineInit, EngineInv, MessagesInv, CallsInv, BegunInv, UniqueCorrelation
<1>3. RunInv /\ CallInv /\ LoopInv
  BY Limits DEF RunInv, CallInv, LoopInv, Noted, Executing, Idle, EngineInit
<1>4. DoneInv /\ AttemptsInv
  BY DEF DoneInv, AttemptsInv, NoRow
<1> QED BY <1>1, <1>2, <1>3, <1>4 DEF SystemInv

LEMMA SystemStep == SystemInv /\ [Next]_vars => SystemInv'
<1> SUFFICES ASSUME SystemInv, [Next]_vars PROVE SystemInv'
  OBVIOUS
<1>0. faults' \in 0 .. MaxFaults
  BY Limits DEF Next, WorkerStep, TakeTask, Drain, Passes, Operator, DeliveryFault, Fault, NoFault,
                vars, SystemInv, TypeInv
<1>1. CASE UNCHANGED vars
  <2>1. /\ EngineInv' /\ RunInv' /\ CallInv' /\ LoopInv'
        /\ \A e \in Events : Known(e)' = Known(e) /\ Done(e)' = Done(e)
    BY <1>1, RestUntouched DEF vars, deliveryVars
  <2> QED BY <1>0, <1>1, <2>1 DEF vars, deliveryVars, SystemInv, TypeInv, DoneInv, AttemptsInv
<1>2. ASSUME NEW w \in Workers, WorkerStep(w) PROVE SystemInv'
  BY <1>0, <1>2, PassKeeps, BeginAttemptKeeps, RecordKeeps, FinalizeKeeps, HandlerKeeps
  DEF WorkerStep, RouteStep
<1>3. CASE TakeTask
  BY <1>0, <1>3, PassKeeps DEF TakeTask
<1>4. ASSUME NEW e \in Events, Drain(e) PROVE SystemInv'
  BY <1>0, <1>4, OutboxStepKeeps DEF Drain
<1>5. ASSUME NEW e \in Events, NEW timeout \in Timeouts, Passes(e, timeout) PROVE SystemInv'
  BY <1>0, <1>5, OutboxStepKeeps, RunExpiresKeeps DEF Passes
<1>6. CASE Operator
  BY <1>0, <1>6, OutboxStepKeeps DEF Operator
<1>7. CASE DeliveryFault
  <2>1. ASSUME NEW w \in Workers, WorkerDies(w), CallEnds(w) PROVE SystemInv'
    BY <1>0, <2>1, IdleKeeps DEF WorkerDies
  <2>2. ASSUME UNCHANGED engineVars, \E t \in tasks : LoseTask(t) PROVE SystemInv'
    BY <1>0, <2>2, OutboxStepKeeps
  <2>3. ASSUME UNCHANGED engineVars, NEW w \in Workers, \E t \in tasks : RedeliverTask(w, t)
        PROVE  SystemInv'
    BY <1>0, <2>3, PassKeeps
  <2>4. ASSUME UNCHANGED engineVars, NEW e \in Events, ClaimExpires(e) PROVE SystemInv'
    BY <1>0, <2>4, OutboxStepKeeps
  <2>5. ASSUME UNCHANGED engineVars, NEW e \in Events, NEW h \in Registrations, RunExpires(e, h)
        PROVE  SystemInv'
    BY <1>0, <2>5, RunExpiresKeeps
  <2> QED BY <1>7, <2>1, <2>2, <2>3, <2>4, <2>5 DEF DeliveryFault
<1> QED BY <1>1, <1>2, <1>3, <1>4, <1>5, <1>6, <1>7 DEF Next

THEOREM SystemInvariant == Spec => []SystemInv
BY SystemInit, SystemStep, PTL DEF Spec

\* Types, one run at a time of a handler for an event, and failures counted to
\* the limit, for any settings and any number of events, workers and faults.
THEOREM DeliverySoundCorrect == Spec => []DeliverySound
<1>1. SystemInv => DeliverySound
  <2> SUFFICES ASSUME SystemInv PROVE DeliverySound
    OBVIOUS
  <2>1. EngineTypeOK
    BY RowsTyped DEF SystemInv, EngineInv, EngineTypeOK, Execution, MessagesInv, CallsInv
  <2>2. TypeOK
    BY <2>1 DEF SystemInv, TypeInv, TypeOK, Row, Attempt, RoutingState
  <2>3. ExclusiveRun
    BY DEF SystemInv, RunInv, ExclusiveRun
  <2>4. AttemptsBounded
    <3> SUFFICES ASSUME DeadLetters, NEW e \in Events
                 PROVE  outbox[e].attempts \in 0 .. MaxRetries \/ outbox[e].attempts = 1
      BY DEF AttemptsBounded
    <3>1. outbox[e].attempts \in Nat
      BY DEF SystemInv, TypeInv, Row
    <3> QED BY <3>1, Limits DEF SystemInv, AttemptsInv
  <2> QED BY <2>2, <2>3, <2>4 DEF DeliverySound
<1> QED BY <1>1, SystemInvariant, PTL

\* An event that is processed and has a matching handler has an execution, and
\* a delivery that is recorded as completed or was overrun.
THEOREM ProcessedBackedCorrect == Spec => []ProcessedBacked
<1>1. SystemInv => ProcessedBacked
  BY DEF SystemInv, DoneInv, ProcessedBacked, Known, Done
<1> QED BY <1>1, SystemInvariant, PTL

-----------------------------------------------------------------------------
(* What a step may not take back. *)

Unsettles(e) == outbox[e].status = "processed" /\ outbox'[e].status # "processed"

\* A row that is processed is only rewritten by a replay that selected it.
LEMMA RowStays ==
    ASSUME SystemInv, [Next]_vars, NEW e \in Events, Unsettles(e)
    PROVE  \E r \in 1 .. MaxReplays : e \in replay[r].rows
<1>0. outbox \in [Events -> Row] /\ outbox[e].status = "processed" /\ outbox' # outbox
  BY DEF SystemInv, TypeInv, Unsettles
<1>1. ASSUME NEW f \in Events, publish(f) PROVE FALSE
  BY <1>0, <1>1 DEF publish, Unsettles
<1>2. ASSUME NEW f \in Events, BackoffElapses(f) \/ ClaimExpires(f) PROVE FALSE
  <2>1. [outbox[f] EXCEPT !.due = TRUE].status = outbox[f].status
        /\ [outbox[f] EXCEPT !.stale = TRUE].status = outbox[f].status
    BY <1>0 DEF Row
  <2>2. \/ outbox' = [outbox EXCEPT ![f] = [outbox[f] EXCEPT !.due = TRUE]]
        \/ outbox' = [outbox EXCEPT ![f] = [outbox[f] EXCEPT !.stale = TRUE]]
    BY <1>2 DEF BackoffElapses, ClaimExpires
  <2>3. outbox'[e].status = outbox[e].status
    BY <1>0, <2>1, <2>2
  <2> QED BY <2>3 DEF Unsettles
<1>3. ASSUME NEW S \in SUBSET Events, publish_outbox_batch(S) PROVE FALSE
  <2>1. e \notin S
    BY <1>0, <1>3 DEF publish_outbox_batch, Claimable
  <2>2. outbox'[e] = outbox[e]
    BY <1>3, <2>1 DEF publish_outbox_batch, claim_outbox_batch
  <2> QED BY <2>2 DEF Unsettles
<1>4. ASSUME NEW r \in 1 .. MaxReplays, ReplayUpdate(r)
      PROVE  \E q \in 1 .. MaxReplays : e \in replay[q].rows
  <2>1. e \notin replay[r].rows => outbox'[e] = outbox[e]
    BY <1>4 DEF ReplayUpdate
  <2> QED BY <2>1 DEF Unsettles
<1>5. ASSUME NEW w \in Workers, Finalize(w) PROVE FALSE
  <2>1. ~StillOwned(outbox[e], worker[w].token)
    BY <1>0 DEF StillOwned
  <2>2. outbox'[e] = outbox[e]
    BY <1>0, <1>5, <2>1 DEF Finalize
  <2> QED BY <2>2 DEF Unsettles
<1>6. ASSUME NEW w \in Workers, WorkerStep(w) PROVE FALSE
  BY <1>0, <1>5, <1>6
  DEF WorkerStep, RouteStep, SkipEntry, PredicateRaises, BeginAttempt, RecordCompleted, RecordFailed,
      HandlerStep, HandlerReuses, HandlerLooks, HandlerStarts, HandlerLosesRace, HandlerFails,
      HandlerReturns, HandlerRaises, deliveryVars
<1> QED
  BY <1>0, <1>1, <1>2, <1>3, <1>4, <1>6
  DEF Next, vars, deliveryVars, TakeTask, process_outbox_entry, Drain, Operator, ReplaySelect, Passes,
      RunExpires, DeliveryFault, WorkerDies, LoseTask, RedeliverTask

\* A delivery that is completed stays completed.
LEMMA DeliveryStays ==
    ASSUME SystemInv, [Next]_vars, NEW e \in Events, NEW h \in Registrations,
           delivery[e][h].status = "completed"
    PROVE  delivery'[e][h].status = "completed"
<1>0. delivery \in [Events -> [Registrations -> Attempt]]
  BY DEF SystemInv, TypeInv
<1>1. ASSUME UNCHANGED delivery PROVE delivery'[e][h].status = "completed"
  BY <1>1
<1>2. ASSUME NEW f, NEW g, NEW status, delivery' = SettleDelivery(f, g, status)
      PROVE  delivery'[e][h].status = "completed"
  BY <1>0, <1>2 DEF SettleDelivery
<1>3. ASSUME NEW w \in Workers, BeginAttempt(w)
      PROVE  delivery'[e][h].status = "completed"
  <2>1. \/ UNCHANGED delivery
        \/ /\ delivery[worker[w].event][Entry(w)].status # "completed"
           /\ delivery' = [delivery EXCEPT ![worker[w].event][Entry(w)] =
                             [status |-> "running", stale |-> FALSE]]
    BY <1>3 DEF BeginAttempt
  <2> QED BY <1>0, <2>1
<1>4. ASSUME NEW f \in Events, NEW g \in Registrations, RunExpires(f, g)
      PROVE  delivery'[e][h].status = "completed"
  <2>1. delivery[f][g].status # "completed"
        /\ delivery' = [delivery EXCEPT ![f][g].stale = TRUE]
    BY <1>4 DEF RunExpires
  <2> QED BY <1>0, <2>1
<1>5. ASSUME NEW w \in Workers, WorkerStep(w) PROVE delivery'[e][h].status = "completed"
  <2>1. CASE BeginAttempt(w)
    BY <1>3, <2>1
  <2>2. CASE RecordCompleted(w) \/ RecordFailed(w)
    <3>1. PICK status \in {"completed", "dead_letter", "failed"} :
            delivery' = SettleDelivery(worker[w].event, Entry(w), status)
      BY <2>2 DEF RecordCompleted, RecordFailed
    <3> QED BY <1>2, <3>1
  <2> QED
    BY <1>1, <1>5, <2>1, <2>2
    DEF WorkerStep, RouteStep, SkipEntry, PredicateRaises, Finalize, HandlerStep, HandlerReuses,
        HandlerLooks, HandlerStarts, HandlerLosesRace, HandlerFails, HandlerReturns, HandlerRaises,
        deliveryVars
<1> QED
  BY <1>1, <1>4, <1>5
  DEF Next, vars, deliveryVars, TakeTask, process_outbox_entry, Drain, publish_outbox_batch, Operator,
      publish, ReplaySelect, ReplayUpdate, Passes, BackoffElapses, ClaimExpires, DeliveryFault,
      WorkerDies, LoseTask, RedeliverTask

\* Late workers, redelivered tasks and replays do not take up again what has
\* been completed or processed.
THEOREM SettledStaysCorrect == Spec => SettledStays
<1>1. SystemInv /\ [Next]_vars => CompletedStays /\ ProcessedStays
  BY RowStays, DeliveryStays DEF CompletedStays, ProcessedStays, Unsettles
<1> QED BY <1>1, SystemInvariant, PTL DEF Spec, SettledStays

-----------------------------------------------------------------------------
(* The composition uses the engine as the engine's specification allows. *)

LEMMA EngineStep ==
    ASSUME SystemInv, [Next]_vars
    PROVE  [EngineNext]_engineVars
<1>1. ASSUME NEW w \in Workers, CallEnds(w) PROVE [EngineNext]_engineVars
  <2>1. CASE call[w] # NotCalling
    BY <1>1, <2>1, Limits DEF EngineNext, StartStep
  <2>2. CASE call[w] = NotCalling
    <3>1. call \in [Callers -> {NotCalling} \cup ({"insert", "error"} \X Keys)]
      BY DEF SystemInv, EngineInv, CallsInv
    <3>2. call' = call
      BY <1>1, <2>2, <3>1 DEF CallEnds
    <3> QED BY <1>1, <3>2 DEF CallEnds, engineVars
  <2> QED BY <2>1, <2>2
<1>2. ASSUME NEW w \in Workers, HandlerStep(w) PROVE [EngineNext]_engineVars
  <2>1. worker[w].event \in Keys
    <3>1. worker[w] \in RoutingState
      BY <1>2, RoutedWorker DEF SystemInv, HandlerStep, HandlerReuses, HandlerLooks, InHandler,
           HandlerStarts, HandlerLosesRace, HandlerFails, HandlerRaises
    <3> QED BY <3>1, Limits DEF RoutingState
  <2>2. CASE HandlerFails(w)
    BY <1>1, <2>2 DEF HandlerFails
  <2> QED
    BY <1>2, <2>1, <2>2, Limits
    DEF HandlerStep, HandlerReuses, HandlerLooks, HandlerStarts, HandlerLosesRace, EngineNext, StartStep
<1> QED
  BY <1>1, <1>2
  DEF Next, vars, WorkerStep, RouteStep, TakeTask, Drain, Operator, Passes, DeliveryFault

\* Every behaviour of the composition is one of the engine: handlers start
\* workflows only the way callers may.
THEOREM SystemImplementsEngine == Spec => EngineSafety
<1>1. Init => EngineInit
  BY DEF Init
<1>2. SystemInv /\ [Next]_vars => [EngineNext]_engineVars
  BY EngineStep
<1> QED BY <1>1, <1>2, SystemInvariant, PTL DEF Spec, EngineSafety

\* Whatever happens to deliveries, one execution is seen for an event, that
\* moves along its life and, once completed, stays.
THEOREM SystemKeepsContract == Spec => KeepsContract
BY SystemImplementsEngine, ContractKept, PTL

=============================================================================
