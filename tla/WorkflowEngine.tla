--------------------------- MODULE WorkflowEngine ---------------------------
(***************************************************************************)
(* Durable workflow executions: CeleryWorkflowEngine                       *)
(* (workflow/backends/celery.py), the execution tasks of workflow/tasks.py *)
(* and the uniqueness constraint of WorkflowExecutionRecord                *)
(* (workflow/models.py).                                                   *)
(*                                                                         *)
(* All executions are of one workflow; a correlation id is an opaque key.  *)
(* An execution id is the position of its row in execs.  start() is two    *)
(* steps because the read and the insert of its transaction do not lock    *)
(* each other out: under READ COMMITTED two callers may both find nothing. *)
(***************************************************************************)
EXTENDS Naturals, Sequences

CONSTANTS
    Callers,        \* processes that call start()
    Keys,           \* correlation ids
    Definitions,    \* kinds of WorkflowDefinition started: see InsertedStates
    EngineAsync,    \* workflow_async_enabled() in the engine's process
    MaxExecutions   \* bound: execution rows

ASSUME EngineAssumption ==
    /\ Definitions \subseteq {"importable", "unresolvable", "handlerless"}
    /\ EngineAsync \in BOOLEAN
    /\ MaxExecutions \in Nat

VARIABLES
    execs,       \* execution rows: key, state, and how often its handler began
    dispatched,  \* ids with an execute_workflow_handler message queued
    running,     \* ids whose handler a live worker is executing
    call,        \* caller -> where it is in start(), with which key
    lost         \* history: ids whose message or whose worker was lost

engineVars == <<execs, dispatched, running, call, lost>>

NotCalling == <<"idle">>

Active == {"pending", "running", "waiting"}
Terminal == {"completed", "failed", "cancelled"}
ActivePlusCompleted == Active \cup {"completed"}
Ids == DOMAIN execs

EngineInit ==
    /\ execs = <<>>
    /\ dispatched = {}
    /\ running = {}
    /\ call = [c \in Callers |-> NotCalling]
    /\ lost = {}

-----------------------------------------------------------------------------
(* start() *)

\* _get_existing_correlation_execution finds a row to reuse.
Reusable(k) == \E i \in Ids : execs[i].key = k /\ execs[i].state \in ActivePlusCompleted

\* The state the row has when start() commits: asynchronously a definition
\* with an importable handler waits for its task, one that cannot be resolved
\* fails; synchronously the handler has run inside the transaction.  A
\* definition without any handler completes at once.
InsertedStates(d) ==
    CASE d = "handlerless"  -> {"completed"}
      [] d = "unresolvable" -> {"failed"}
      [] d = "importable"   -> IF EngineAsync THEN {"pending"}
                               ELSE {"completed", "failed"}

StartReuses(c, k) ==
    /\ call[c] = NotCalling /\ Reusable(k)
    /\ UNCHANGED engineVars

StartFindsNone(c, k) ==
    /\ call[c] = NotCalling /\ ~Reusable(k)
    /\ call' = [call EXCEPT ![c] = <<"insert", k>>]
    /\ UNCHANGED <<execs, dispatched, running, lost>>

\* Mutant: the constraint does not cover completed executions.
ConflictsActive(k, state) ==
    state \in Active /\ \E i \in Ids : execs[i].key = k /\ execs[i].state \in Active

\* The partial unique constraint on (workflow_id, correlation_id) covers the
\* active and the completed states: a row inserted as failed never conflicts.
Conflicts(k, state) == state \in ActivePlusCompleted /\ Reusable(k)

\* Mutant: nobody queues the handler of a pending row.
StartInsertsQuietly(c) ==
    /\ call[c][1] = "insert" /\ Len(execs) < MaxExecutions
    /\ \E d \in Definitions : \E state \in InsertedStates(d) :
         /\ ~Conflicts(call[c][2], state)
         /\ execs' = Append(execs, [key |-> call[c][2], state |-> state, begun |-> 0])
         /\ UNCHANGED dispatched
    /\ call' = [call EXCEPT ![c] = NotCalling]
    /\ UNCHANGED <<running, lost>>

\* Mutant: the message names the row before the new one.
StartInsertsWrongId(c) ==
    /\ call[c][1] = "insert" /\ Len(execs) < MaxExecutions
    /\ \E d \in Definitions : \E state \in InsertedStates(d) :
         /\ ~Conflicts(call[c][2], state)
         /\ execs' = Append(execs, [key |-> call[c][2], state |-> state, begun |-> 0])
         /\ dispatched' = IF state = "pending" THEN dispatched \cup {Len(execs)}
                          ELSE dispatched
    /\ call' = [call EXCEPT ![c] = NotCalling]
    /\ UNCHANGED <<running, lost>>

\* The insert commits and, for a pending row, on_commit queues the handler.
StartInserts(c) ==
    /\ call[c][1] = "insert" /\ Len(execs) < MaxExecutions
    /\ \E d \in Definitions : \E state \in InsertedStates(d) :
         /\ ~Conflicts(call[c][2], state)
         /\ execs' = Append(execs, [key |-> call[c][2], state |-> state, begun |-> 0])
         /\ dispatched' = IF state = "pending" THEN dispatched \cup {Len(execs')}
                          ELSE dispatched
    /\ call' = [call EXCEPT ![c] = NotCalling]
    /\ UNCHANGED <<running, lost>>

\* The insert hits the constraint.  The reload in the except clause runs in
\* the same atomic block, which the failed insert has marked for rollback, so
\* it raises instead of returning the winner's row.
StartLosesRace(c) ==
    /\ call[c][1] = "insert"
    /\ \E d \in Definitions : \E state \in InsertedStates(d) :
         Conflicts(call[c][2], state)
    /\ call' = [call EXCEPT ![c][1] = "error"]
    /\ UNCHANGED <<execs, dispatched, running, lost>>

\* start() is left by an exception, or with its process: the transaction is
\* rolled back.
CallEnds(c) ==
    /\ call' = [call EXCEPT ![c] = NotCalling]
    /\ UNCHANGED <<execs, dispatched, running, lost>>

-----------------------------------------------------------------------------
(* execute_workflow_handler *)

SetState(i, state) == execs' = [execs EXCEPT ![i].state = state]

\* Mutant: a second message finds the execution running and runs it too.
BeginExecutionAgain(i, keep) ==
    /\ i \in dispatched
    /\ dispatched' = IF keep THEN dispatched ELSE dispatched \ {i}
    /\ IF execs[i].state \in {"pending", "running"}
       THEN /\ execs' = [execs EXCEPT ![i].state = "running", ![i].begun = @ + 1]
            /\ running' = running \cup {i}
       ELSE UNCHANGED <<execs, running>>
    /\ UNCHANGED <<call, lost>>

\* Under the row lock a message finds its row pending, or does nothing.
\* keep: the broker will deliver the message again.
BeginExecution(i, keep) ==
    /\ i \in dispatched
    /\ dispatched' = IF keep THEN dispatched ELSE dispatched \ {i}
    /\ IF execs[i].state = "pending"
       THEN /\ execs' = [execs EXCEPT ![i].state = "running", ![i].begun = @ + 1]
            /\ running' = running \cup {i}
       ELSE UNCHANGED <<execs, running>>
    /\ UNCHANGED <<call, lost>>

\* Mutant: the outcome is stored whatever has become of the execution.
EndExecutionUnfiltered(i) ==
    /\ i \in running
    /\ running' = running \ {i}
    /\ \E state \in {"completed", "failed"} : SetState(i, state)
    /\ UNCHANGED <<dispatched, call, lost>>

\* The handler returned or raised; the update is filtered on state running.
EndExecution(i) ==
    /\ i \in running
    /\ running' = running \ {i}
    /\ IF execs[i].state = "running"
       THEN \E state \in {"completed", "failed"} : SetState(i, state)
       ELSE UNCHANGED execs
    /\ UNCHANGED <<dispatched, call, lost>>

-----------------------------------------------------------------------------
(* cancel, resume and their tasks; waiting is set by project code only. *)

cancel(i) ==
    /\ i \in Ids /\ execs[i].state \in Active
    /\ SetState(i, "cancelled")
    /\ UNCHANGED <<dispatched, running, call, lost>>

resume(i) ==
    /\ i \in Ids /\ execs[i].state = "waiting"
    /\ SetState(i, "completed")
    /\ UNCHANGED <<dispatched, running, call, lost>>

\* A handler parks its own execution to wait for a signal.
Park(i) ==
    /\ i \in running /\ execs[i].state = "running"
    /\ SetState(i, "waiting")
    /\ UNCHANGED <<dispatched, running, call, lost>>

-----------------------------------------------------------------------------
(* Failures of the environment. *)

LoseDispatch(i) ==
    /\ i \in dispatched
    /\ dispatched' = dispatched \ {i}
    /\ lost' = lost \cup {i}
    /\ UNCHANGED <<execs, running, call>>

ExecutorDies(i) ==
    /\ i \in running
    /\ running' = running \ {i}
    /\ lost' = lost \cup {i}
    /\ UNCHANGED <<execs, dispatched, call>>

-----------------------------------------------------------------------------
(* The engine on its own: callers start and control executions at will. *)

StartStep(c) ==
    \/ \E k \in Keys : StartReuses(c, k) \/ StartFindsNone(c, k)
    \/ StartInserts(c)
    \/ StartLosesRace(c)
    \/ call[c] # NotCalling /\ CallEnds(c)

ExecutionStep(i) == BeginExecution(i, FALSE) \/ EndExecution(i)
ExecutionControl(i) == cancel(i) \/ resume(i) \/ Park(i)
EngineFault(i) == LoseDispatch(i) \/ ExecutorDies(i) \/ BeginExecution(i, TRUE)

EngineNext ==
    \/ \E c \in Callers : StartStep(c)
    \/ \E i \in Ids : ExecutionStep(i) \/ ExecutionControl(i) \/ EngineFault(i)

EngineSafety == EngineInit /\ [][EngineNext]_engineVars

\* Celery workers take queued messages and bring handlers to an end; losing a
\* message or a worker is a fault.
EngineFairness ==
    \A i \in 1 .. MaxExecutions : WF_engineVars(i \in Ids /\ ExecutionStep(i))

EngineSpec == EngineSafety /\ EngineFairness

-----------------------------------------------------------------------------
(* Properties. *)

\* Rows, messages and callers keep their types; a message or a running
\* handler belongs to a row.
EngineTypeOK ==
    /\ \A i \in Ids : execs[i] \in [key : Keys, state : Active \cup Terminal, begun : Nat]
    /\ dispatched \cup running \cup lost \subseteq Ids
    /\ call \in [Callers -> {NotCalling} \cup {"insert", "error"} \X Keys]

\* However start() calls interleave with each other and with executions that
\* end, at most one execution of a correlation id is active or completed
\* (start() and the partial unique constraint).
UniqueCorrelation ==
    \A i, j \in Ids :
      i # j /\ execs[i].key = execs[j].key
        => ~({execs[i].state, execs[j].state} \subseteq ActivePlusCompleted)

\* A terminal state is final: a handler that ends after its execution was
\* cancelled, or parked and resumed, does not overwrite the outcome
\* (execute_workflow_handler's docstring).
TerminalFinal ==
    [][\A i \in Ids : execs[i].state \in Terminal => execs'[i].state = execs[i].state]_engineVars

\* A redelivered execute_workflow_handler message never runs the handler of an
\* execution a second time.
HandlerRunsOnce == \A i \in Ids : execs[i].begun <= 1

\* Every execution start() leaves active ends, or waits for a signal, unless
\* its message or its worker was lost, which nothing in the code repairs.  A row
\* that is there stays.
ExecutionsEnd ==
    \A i \in 1 .. MaxExecutions :
      []<>(i \in Ids => execs[i].state \in Terminal \cup {"waiting"} \/ i \in lost)

\* The state of the execution a correlation id has: of the row start() would reuse.
Holders(rows, k) == {i \in DOMAIN rows : rows[i].key = k /\ rows[i].state \in ActivePlusCompleted}
SlotIn(rows) ==
    [k \in Keys |-> IF Holders(rows, k) = {} THEN "free"
                    ELSE rows[CHOOSE i \in Holders(rows, k) : TRUE].state]
SlotOf == SlotIn(execs)

Contract == INSTANCE WorkflowContract WITH slot <- SlotOf

\* Whatever is redelivered, cancelled, parked or started concurrently, a caller
\* sees one execution for a correlation id that moves along its life, and never
\* loses a completed one (start(), the execution tasks, cancel and resume).
KeepsContract == Contract!ContractSpec

=============================================================================
