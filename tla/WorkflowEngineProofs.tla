------------------------ MODULE WorkflowEngineProofs ------------------------
(***************************************************************************)
(* Safety of the execution engine for any number of callers, correlation   *)
(* ids and executions.  Every action leaves the rows alone, appends one    *)
(* (start) or gives one another state: the two lemmas RowAppended and      *)
(* RowReplaced say when the last two keep the inductive invariant.         *)
(***************************************************************************)
EXTENDS WorkflowEngine, SequenceTheorems, TLAPS

Execution == [key : Keys, state : Active \cup Terminal, begun : Nat]

\* The types, with the rows as a sequence rather than one by one.
RowsInv == execs \in Seq(Execution)
MessagesInv == dispatched \cup running \cup lost \subseteq Ids
CallsInv == call \in [Callers -> {NotCalling} \cup ({"insert", "error"} \X Keys)]

\* The handler of a pending row has not begun, so that starting it is its
\* first and, the row being no longer pending, only run.
BegunInv ==
    \A i \in Ids :
      execs[i].begun <= 1 /\ (execs[i].state = "pending" => execs[i].begun = 0)

EngineInv == RowsInv /\ MessagesInv /\ CallsInv /\ BegunInv /\ UniqueCorrelation

-----------------------------------------------------------------------------
(* Rows. *)

\* The states start() can insert a row in.
LEMMA InsertedStatesLegal ==
    ASSUME NEW d \in Definitions, NEW state \in InsertedStates(d)
    PROVE  state \in {"pending", "completed", "failed"}
BY EngineAssumption DEF InsertedStates

\* The rows are numbered from 1 and each is an execution.
LEMMA RowsTyped ==
    ASSUME RowsInv
    PROVE  Len(execs) \in Nat /\ Ids = 1 .. Len(execs) /\ \A i \in Ids : execs[i] \in Execution
BY LenProperties, ElementOfSeq DEF RowsInv, Ids

\* A row that takes another state keeps the invariant if it does not come back
\* among the active and completed ones, and if its handler begins from pending.
LEMMA RowReplaced ==
    ASSUME EngineInv, NEW i \in Ids, NEW r \in Execution,
           execs' = [execs EXCEPT ![i] = r],
           r.key = execs[i].key, r.begun <= 1, r.state = "pending" => r.begun = 0,
           r.state \in ActivePlusCompleted => execs[i].state \in ActivePlusCompleted
    PROVE  RowsInv' /\ Ids' = Ids /\ BegunInv' /\ UniqueCorrelation'
<1>1. Len(execs) \in Nat /\ Ids = 1 .. Len(execs)
  BY RowsTyped DEF EngineInv
<1>2. /\ execs' \in Seq(Execution) /\ Len(execs') = Len(execs)
      /\ \A j \in Ids : execs'[j] = IF j = i THEN r ELSE execs[j]
  BY <1>1, ExceptSeq DEF EngineInv, RowsInv
<1>3. RowsInv' /\ Ids' = Ids
  BY <1>1, <1>2, LenProperties DEF RowsInv, Ids
<1>4. BegunInv'
  BY <1>2, <1>3 DEF EngineInv, BegunInv
<1>5. UniqueCorrelation'
  BY <1>2, <1>3 DEF EngineInv, UniqueCorrelation
<1> QED BY <1>3, <1>4, <1>5

\* A new row keeps the invariant if the constraint accepts it.
LEMMA RowAppended ==
    ASSUME EngineInv, NEW k \in Keys, NEW state \in {"pending", "completed", "failed"},
           ~Conflicts(k, state),
           execs' = Append(execs, [key |-> k, state |-> state, begun |-> 0])
    PROVE  /\ RowsInv' /\ Ids' = Ids \cup {Len(execs')}
           /\ BegunInv' /\ UniqueCorrelation'
<1> DEFINE r == [key |-> k, state |-> state, begun |-> 0]
<1>1. Len(execs) \in Nat /\ Ids = 1 .. Len(execs) /\ r \in Execution
  BY RowsTyped DEF EngineInv, Execution, Active, Terminal
<1>2. /\ execs' \in Seq(Execution) /\ Len(execs') = Len(execs) + 1
      /\ \A j \in Ids : execs'[j] = execs[j]
      /\ execs'[Len(execs) + 1] = r
  BY <1>1, AppendProperties DEF EngineInv, RowsInv
<1>a. /\ execs'[Len(execs) + 1].key = k /\ execs'[Len(execs) + 1].state = state
      /\ execs'[Len(execs) + 1].begun = 0
  BY <1>2
<1> HIDE DEF r
<1>3. /\ RowsInv' /\ Ids' = Ids \cup {Len(execs')}
      /\ Ids' = Ids \cup {Len(execs) + 1}
  BY <1>1, <1>2, LenProperties DEF RowsInv, Ids
<1>4. BegunInv'
  <2> SUFFICES ASSUME NEW i \in Ids'
               PROVE  /\ execs'[i].begun <= 1
                      /\ execs'[i].state = "pending" => execs'[i].begun = 0
    BY DEF BegunInv
  <2>1. CASE i \in Ids
    BY <1>2, <2>1 DEF EngineInv, BegunInv
  <2>2. CASE i = Len(execs) + 1
    BY <1>a, <2>2
  <2> QED BY <1>3, <2>1, <2>2
<1>5. UniqueCorrelation'
  <2>1. \A i \in Ids : execs[i].key = k /\ execs[i].state \in ActivePlusCompleted
                          => state \notin ActivePlusCompleted
    BY DEF Conflicts, Reusable
  <2>2. Len(execs) + 1 \notin Ids
    BY <1>1
  <2>3. SUFFICES ASSUME NEW i \in Ids', NEW j \in Ids', i # j,
                        execs'[i].key = execs'[j].key,
                        execs'[i].state \in ActivePlusCompleted,
                        execs'[j].state \in ActivePlusCompleted
                 PROVE  FALSE
    BY DEF UniqueCorrelation
  <2>4. CASE i \in Ids /\ j \in Ids
    BY <1>2, <2>3, <2>4 DEF EngineInv, UniqueCorrelation
  <2>5. CASE i \in Ids /\ j = Len(execs) + 1
    BY <1>2, <1>a, <2>1, <2>3, <2>5
  <2>6. CASE j \in Ids /\ i = Len(execs) + 1
    BY <1>2, <1>a, <2>1, <2>3, <2>6
  <2> QED BY <1>3, <2>3, <2>4, <2>5, <2>6
<1> QED BY <1>3, <1>4, <1>5

-----------------------------------------------------------------------------
(* The inductive invariant. *)

\* A step that leaves the rows alone keeps what is said about them.
LEMMA RowsUntouched ==
    ASSUME EngineInv, UNCHANGED execs
    PROVE  RowsInv' /\ Ids' = Ids /\ BegunInv' /\ UniqueCorrelation'
BY DEF EngineInv, RowsInv, BegunInv, UniqueCorrelation, Ids

\* start(), whatever it finds, keeps the invariant.
LEMMA StartKeeps ==
    ASSUME EngineInv, NEW c \in Callers, StartStep(c)
    PROVE  EngineInv'
<1> USE DEF MessagesInv, CallsInv
<1>1. ASSUME NEW k \in Keys, StartReuses(c, k) PROVE EngineInv'
  BY <1>1, RowsUntouched DEF StartReuses, engineVars, EngineInv
<1>2. ASSUME NEW k \in Keys, StartFindsNone(c, k) PROVE EngineInv'
  BY <1>2, RowsUntouched DEF StartFindsNone, EngineInv
<1>3. CASE StartInserts(c)
  <2> SUFFICES ASSUME NEW d \in Definitions, NEW state \in InsertedStates(d),
                      ~Conflicts(call[c][2], state),
                      execs' = Append(execs, [key |-> call[c][2], state |-> state, begun |-> 0]),
                      dispatched' = IF state = "pending" THEN dispatched \cup {Len(execs')}
                                    ELSE dispatched
               PROVE  EngineInv'
    BY <1>3 DEF StartInserts
  <2>1. call[c] \in {"insert", "error"} \X Keys
    BY <1>3 DEF StartInserts, EngineInv, NotCalling
  <2>2. /\ RowsInv' /\ Ids' = Ids \cup {Len(execs')}
        /\ BegunInv' /\ UniqueCorrelation'
    BY <2>1, InsertedStatesLegal, RowAppended
  <2>3. MessagesInv'
    BY <1>3, <2>2 DEF StartInserts, EngineInv
  <2>4. CallsInv'
    BY <1>3 DEF StartInserts, EngineInv
  <2> QED BY <2>2, <2>3, <2>4 DEF EngineInv
<1>4. CASE StartLosesRace(c)
  <2>1. call[c] \in {"insert", "error"} \X Keys
    BY <1>4 DEF StartLosesRace, EngineInv, NotCalling
  <2>2. [call[c] EXCEPT ![1] = "error"] \in {"insert", "error"} \X Keys
    BY <2>1
  <2>3. CallsInv'
    BY <1>4, <2>2 DEF StartLosesRace, EngineInv
  <2> QED BY <1>4, <2>3, RowsUntouched DEF StartLosesRace, EngineInv
<1>5. CASE CallEnds(c)
  BY <1>5, RowsUntouched DEF CallEnds, EngineInv
<1> QED BY <1>1, <1>2, <1>3, <1>4, <1>5 DEF StartStep

\* The row whose handler begins.
LEMMA RowBegins ==
    ASSUME NEW row \in Execution, row.begun = 0
    PROVE  LET r == [row EXCEPT !.state = "running", !.begun = @ + 1]
           IN  r \in Execution /\ r.key = row.key /\ r.state = "running" /\ r.begun = 1
<1> DEFINE s == [row EXCEPT !.state = "running"]
<1>1. s \in Execution /\ s.key = row.key /\ s.state = "running" /\ s.begun = 0
  BY DEF Execution, Active
<1>2. [row EXCEPT !.state = "running", !.begun = @ + 1] = [s EXCEPT !.begun = 1]
  BY DEF Execution
<1> HIDE DEF s
<1>3. LET t == [s EXCEPT !.begun = 1]
      IN  t \in Execution /\ t.key = s.key /\ t.state = s.state /\ t.begun = 1
  BY <1>1 DEF Execution
<1> QED BY <1>1, <1>2, <1>3

\* A message, whether it is delivered once or will be again, keeps it.
LEMMA BeginKeeps ==
    ASSUME EngineInv, NEW i \in Ids, NEW keep \in BOOLEAN, BeginExecution(i, keep)
    PROVE  EngineInv'
<1> USE DEF MessagesInv, CallsInv
<1>1. CASE execs[i].state = "pending"
  <2> DEFINE r == [execs[i] EXCEPT !.state = "running", !.begun = @ + 1]
  <2>1. execs[i] \in Execution /\ execs[i].begun = 0
    BY <1>1, RowsTyped DEF EngineInv, BegunInv
  <2>2. r \in Execution /\ r.key = execs[i].key /\ r.state = "running" /\ r.begun = 1
    BY <2>1, RowBegins
  <2>3. execs' = [execs EXCEPT ![i] = r] /\ running' = running \cup {i}
    BY <1>1 DEF BeginExecution
  <2> HIDE DEF r
  <2>4. RowsInv' /\ Ids' = Ids /\ BegunInv' /\ UniqueCorrelation'
    <3>1. r.begun <= 1 /\ (r.state = "pending" => r.begun = 0)
      BY <2>2
    <3>2. execs[i].state \in ActivePlusCompleted
      BY <1>1 DEF ActivePlusCompleted, Active
    <3> QED BY <2>2, <2>3, <3>1, <3>2, RowReplaced
  <2> QED BY <2>3, <2>4 DEF BeginExecution, EngineInv
<1>2. CASE execs[i].state # "pending"
  BY <1>2, RowsUntouched DEF BeginExecution, EngineInv
<1> QED BY <1>1, <1>2

\* A row that is set to another state by SetState.
LEMMA SetStateKeeps ==
    ASSUME EngineInv, NEW i \in Ids, NEW state \in {"completed", "failed", "cancelled", "waiting"},
           SetState(i, state),
           state \in ActivePlusCompleted => execs[i].state \in ActivePlusCompleted
    PROVE  RowsInv' /\ Ids' = Ids /\ BegunInv' /\ UniqueCorrelation'
<1> DEFINE r == [execs[i] EXCEPT !.state = state]
<1>1. execs[i] \in Execution /\ execs[i].begun <= 1
  BY RowsTyped DEF EngineInv, BegunInv
<1>2. /\ r \in Execution /\ r.key = execs[i].key /\ r.state = state
      /\ r.begun = execs[i].begun
  BY <1>1 DEF Execution, Active, Terminal
<1>3. execs' = [execs EXCEPT ![i] = r]
  BY DEF SetState
<1> QED BY <1>1, <1>2, <1>3, RowReplaced

\* Ends, cancellations, resumptions and parkings keep it.
LEMMA ControlKeeps ==
    ASSUME EngineInv, NEW i \in Ids, EndExecution(i) \/ ExecutionControl(i)
    PROVE  EngineInv'
<1> USE DEF MessagesInv, CallsInv
<1> USE DEF ActivePlusCompleted, Active
<1>1. CASE EndExecution(i)
  <2>1. CASE execs[i].state = "running"
    <3>1. PICK state \in {"completed", "failed"} : SetState(i, state)
      BY <1>1, <2>1 DEF EndExecution
    <3>2. RowsInv' /\ Ids' = Ids /\ BegunInv' /\ UniqueCorrelation'
      BY <2>1, <3>1, SetStateKeeps
    <3> QED BY <1>1, <3>2 DEF EndExecution, EngineInv
  <2>2. CASE execs[i].state # "running"
    BY <1>1, <2>2, RowsUntouched DEF EndExecution, EngineInv
  <2> QED BY <2>1, <2>2
<1>2. CASE cancel(i)
  <2>1. RowsInv' /\ Ids' = Ids /\ BegunInv' /\ UniqueCorrelation'
    BY <1>2, SetStateKeeps DEF cancel
  <2> QED BY <1>2, <2>1 DEF cancel, EngineInv
<1>3. CASE resume(i)
  <2>1. RowsInv' /\ Ids' = Ids /\ BegunInv' /\ UniqueCorrelation'
    BY <1>3, SetStateKeeps DEF resume
  <2> QED BY <1>3, <2>1 DEF resume, EngineInv
<1>4. CASE Park(i)
  <2>1. RowsInv' /\ Ids' = Ids /\ BegunInv' /\ UniqueCorrelation'
    BY <1>4, SetStateKeeps DEF Park
  <2> QED BY <1>4, <2>1 DEF Park, EngineInv
<1> QED BY <1>1, <1>2, <1>3, <1>4 DEF ExecutionControl

\* Losing a message or a worker keeps it.
LEMMA LossKeeps ==
    ASSUME EngineInv, NEW i \in Ids, LoseDispatch(i) \/ ExecutorDies(i)
    PROVE  EngineInv'
BY RowsUntouched DEF LoseDispatch, ExecutorDies, EngineInv, MessagesInv, CallsInv

\* The invariant holds initially and is kept by every step of the engine.
THEOREM EngineInvariant == EngineSafety => []EngineInv
<1>1. EngineInit => EngineInv
  <2> SUFFICES ASSUME EngineInit PROVE EngineInv
    OBVIOUS
  <2>1. RowsInv /\ Ids = {}
    BY EmptySeq DEF EngineInit, RowsInv, Ids
  <2> QED BY <2>1 DEF EngineInit, EngineInv, MessagesInv, CallsInv, BegunInv, UniqueCorrelation
<1>2. EngineInv /\ [EngineNext]_engineVars => EngineInv'
  <2> SUFFICES ASSUME EngineInv, [EngineNext]_engineVars PROVE EngineInv'
    OBVIOUS
  <2>1. ASSUME NEW c \in Callers, StartStep(c) PROVE EngineInv'
    BY <2>1, StartKeeps
  <2>2. ASSUME NEW i \in Ids, ExecutionStep(i) PROVE EngineInv'
    BY <2>2, BeginKeeps, ControlKeeps DEF ExecutionStep
  <2>3. ASSUME NEW i \in Ids, ExecutionControl(i) PROVE EngineInv'
    BY <2>3, ControlKeeps
  <2>4. ASSUME NEW i \in Ids, EngineFault(i) PROVE EngineInv'
    BY <2>4, BeginKeeps, LossKeeps DEF EngineFault
  <2>5. CASE UNCHANGED engineVars
    BY <2>5, RowsUntouched DEF engineVars, EngineInv, MessagesInv, CallsInv
  <2> QED BY <2>1, <2>2, <2>3, <2>4, <2>5 DEF EngineNext
<1> QED BY <1>1, <1>2, PTL DEF EngineSafety

-----------------------------------------------------------------------------
(* What follows. *)

\* The types of rows, messages and callers hold for every engine.
THEOREM EngineTypeCorrect == EngineSpec => []EngineTypeOK
<1>1. EngineInv => EngineTypeOK
  BY RowsTyped DEF EngineInv, EngineTypeOK, Execution, MessagesInv, CallsInv
<1> QED BY <1>1, EngineInvariant, PTL DEF EngineSpec

\* However many callers race in start(), a correlation id never has two
\* executions that are active or completed.
THEOREM UniqueCorrelationCorrect == EngineSpec => []UniqueCorrelation
<1>1. EngineInv => UniqueCorrelation
  BY DEF EngineInv
<1> QED BY <1>1, EngineInvariant, PTL DEF EngineSpec

\* However often a message is delivered, the handler of an execution begins at
\* most once.
THEOREM HandlerRunsOnceCorrect == EngineSpec => []HandlerRunsOnce
<1>1. EngineInv => HandlerRunsOnce
  BY DEF EngineInv, BegunInv, HandlerRunsOnce
<1> QED BY <1>1, EngineInvariant, PTL DEF EngineSpec

\* No step of anyone changes the state of an execution that has ended.
THEOREM TerminalFinalCorrect == EngineSpec => TerminalFinal
<1> DEFINE Final == \A i \in Ids : execs[i].state \in Terminal => execs'[i].state = execs[i].state
<1>1. EngineInv /\ [EngineNext]_engineVars => [Final]_engineVars
  <2> SUFFICES ASSUME EngineInv, EngineNext, NEW j \in Ids, execs[j].state \in Terminal
               PROVE  execs'[j].state = execs[j].state
    BY DEF engineVars
  <2> USE DEF Terminal, Active
  <2>1. execs \in Seq(Execution) /\ Len(execs) \in Nat /\ Ids = 1 .. Len(execs)
    BY RowsTyped DEF EngineInv, RowsInv
  <2>2. ASSUME NEW c \in Callers, StartStep(c) PROVE execs'[j] = execs[j]
    <3>1. CASE UNCHANGED execs
      BY <3>1
    <3>2. CASE StartInserts(c)
      <4>1. PICK d \in Definitions : \E state \in InsertedStates(d) :
              execs' = Append(execs, [key |-> call[c][2], state |-> state, begun |-> 0])
        BY <3>2 DEF StartInserts
      <4>2. PICK state \in InsertedStates(d) :
              execs' = Append(execs, [key |-> call[c][2], state |-> state, begun |-> 0])
        BY <4>1
      <4>3. call[c] \in {"insert", "error"} \X Keys
        BY <3>2 DEF StartInserts, EngineInv, CallsInv, NotCalling
      <4>4. [key |-> call[c][2], state |-> state, begun |-> 0] \in Execution
        BY <4>3, InsertedStatesLegal DEF Execution
      <4> QED BY <2>1, <4>2, <4>4, AppendProperties
    <3> QED BY <2>2, <3>1, <3>2
            DEF StartStep, StartReuses, StartFindsNone, StartLosesRace, CallEnds, engineVars
  <2>3. ASSUME NEW i \in Ids, ExecutionStep(i) \/ ExecutionControl(i) \/ EngineFault(i)
        PROVE  execs'[j].state = execs[j].state
    BY <2>1, <2>3
    DEF ExecutionStep, ExecutionControl, EngineFault, BeginExecution, EndExecution, SetState,
        cancel, resume, Park, LoseDispatch, ExecutorDies, Ids
  <2> QED BY <2>2, <2>3 DEF EngineNext
<1> QED BY <1>1, EngineInvariant, PTL DEF EngineSpec, EngineSafety, TerminalFinal


-----------------------------------------------------------------------------
(* The engine keeps the contract of WorkflowContract. *)

\* Of two rows of a correlation id at most one is active or completed.
Unique(rows) ==
    \A i, j \in DOMAIN rows :
      i # j /\ rows[i].key = rows[j].key
        => ~({rows[i].state, rows[j].state} \subseteq ActivePlusCompleted)

\* What a caller sees of a correlation id is the one row that holds it.
LEMMA SlotLookup ==
    ASSUME NEW rows, Unique(rows), NEW k \in Keys
    PROVE  /\ \A i \in Holders(rows, k) : SlotIn(rows)[k] = rows[i].state
           /\ Holders(rows, k) = {} => SlotIn(rows)[k] = "free"
<1> DEFINE h == CHOOSE i \in Holders(rows, k) : TRUE
<1>1. ASSUME NEW i \in Holders(rows, k) PROVE SlotIn(rows)[k] = rows[i].state
  <2>1. h \in Holders(rows, k)
    BY <1>1
  <2>2. h = i
    BY <2>1 DEF Holders, Unique
  <2> QED BY <1>1, <2>2 DEF SlotIn
<1> QED BY <1>1 DEF SlotIn

\* Row i, which holds its correlation id, becomes r.
Replaces(rows, new, i, r) ==
    /\ i \in DOMAIN rows /\ DOMAIN new = DOMAIN rows
    /\ \A j \in DOMAIN rows : new[j] = IF j = i THEN r ELSE rows[j]
    /\ r.key = rows[i].key /\ r.key \in Keys
    /\ rows[i].state \in ActivePlusCompleted

\* What callers see moves in one slot, to the state of r if it still holds it.
SlotMoves(rows, new, i, r) ==
    /\ SlotIn(rows)[r.key] = rows[i].state
    /\ SlotIn(new) =
         [SlotIn(rows) EXCEPT
            ![r.key] = IF r.state \in ActivePlusCompleted THEN r.state ELSE "free"]

\* A row that holds its correlation id and changes moves that one slot.
LEMMA HolderReplaced ==
    ASSUME NEW rows, NEW new, NEW i, NEW r, Unique(rows), Unique(new),
           Replaces(rows, new, i, r)
    PROVE  SlotMoves(rows, new, i, r)
<1> USE DEF Replaces
<1> DEFINE to == IF r.state \in ActivePlusCompleted THEN r.state ELSE "free"
<1>1. i \in Holders(rows, r.key) /\ SlotIn(rows)[r.key] = rows[i].state
  BY SlotLookup DEF Holders
<1>2. \A j \in Holders(rows, r.key) : j = i
  BY DEF Holders, Unique
<1>3. SlotIn(new)[r.key] = to
  <2>1. CASE r.state \in ActivePlusCompleted
    <3>1. i \in Holders(new, r.key)
      BY <2>1 DEF Holders
    <3> QED BY <2>1, <3>1, SlotLookup
  <2>2. CASE r.state \notin ActivePlusCompleted
    <3>1. Holders(new, r.key) = {}
      BY <1>2, <2>2 DEF Holders
    <3> QED BY <2>2, <3>1, SlotLookup
  <2> QED BY <2>1, <2>2
<1>4. ASSUME NEW k \in Keys, k # r.key PROVE SlotIn(new)[k] = SlotIn(rows)[k]
  <2>1. Holders(new, k) = Holders(rows, k) /\ i \notin Holders(rows, k)
    BY <1>4 DEF Holders
  <2>2. CASE Holders(rows, k) = {}
    BY <2>1, <2>2, SlotLookup
  <2>3. CASE Holders(rows, k) # {}
    <3>1. PICK j \in Holders(rows, k) : TRUE
      BY <2>3
    <3>2. j \in DOMAIN rows /\ new[j] = rows[j]
      BY <2>1, <3>1 DEF Holders
    <3> QED BY <2>1, <3>1, <3>2, SlotLookup
  <2> QED BY <2>2, <2>3
<1> HIDE DEF to
<1>5. /\ SlotIn(new) = [k \in Keys |-> SlotIn(new)[k]]
      /\ SlotIn(rows) = [k \in Keys |-> SlotIn(rows)[k]]
  BY DEF SlotIn
<1>6. SlotIn(new) = [SlotIn(rows) EXCEPT ![r.key] = to]
  BY <1>3, <1>4, <1>5
<1> QED BY <1>1, <1>6 DEF to, SlotMoves

\* So a step on row i that finds it in state from and leaves it in state to, is
\* one of the contract's moves.
LEMMA RowMoves ==
    ASSUME EngineInv, EngineInv', NEW i \in Ids, NEW r \in Execution,
           execs' = [execs EXCEPT ![i] = r],
           r.key = execs[i].key, execs[i].state \in ActivePlusCompleted
    PROVE  /\ r.key \in Keys
           /\ SlotOf[r.key] = execs[i].state
           /\ SlotOf' =
                [SlotOf EXCEPT
                   ![r.key] = IF r.state \in ActivePlusCompleted THEN r.state ELSE "free"]
<1>1. r.key \in Keys
  BY DEF Execution
<1>2. Unique(execs) /\ Unique(execs')
  BY DEF EngineInv, UniqueCorrelation, Unique, Ids
<1>3. Replaces(execs, execs', i, r)
  BY <1>1 DEF Replaces, Ids
<1>4. SlotMoves(execs, execs', i, r)
  BY <1>2, <1>3, HolderReplaced
<1> QED BY <1>1, <1>4 DEF SlotMoves, SlotOf

\* One row more, which the constraint accepts, takes its slot or leaves all alone.
LEMMA SlotTaken ==
    ASSUME NEW rows, NEW new, NEW n, NEW r, Unique(rows), Unique(new),
           n \notin DOMAIN rows, DOMAIN new = DOMAIN rows \cup {n},
           \A j \in DOMAIN rows : new[j] = rows[j],
           new[n] = r, r.key \in Keys,
           r.state \in ActivePlusCompleted => Holders(rows, r.key) = {}
    PROVE  IF r.state \in ActivePlusCompleted
           THEN /\ SlotIn(rows)[r.key] = "free"
                /\ SlotIn(new) = [SlotIn(rows) EXCEPT ![r.key] = r.state]
           ELSE SlotIn(new) = SlotIn(rows)
<1>1. ASSUME NEW k \in Keys, k # r.key \/ r.state \notin ActivePlusCompleted
      PROVE  SlotIn(new)[k] = SlotIn(rows)[k]
  <2>1. Holders(new, k) = Holders(rows, k)
    BY <1>1 DEF Holders
  <2>2. CASE Holders(rows, k) = {}
    BY <2>1, <2>2, SlotLookup
  <2>3. CASE Holders(rows, k) # {}
    <3>1. PICK j \in Holders(rows, k) : TRUE
      BY <2>3
    <3>2. j \in DOMAIN rows /\ new[j] = rows[j]
      BY <3>1 DEF Holders
    <3> QED BY <2>1, <3>1, <3>2, SlotLookup
  <2> QED BY <2>2, <2>3
<1>2. /\ SlotIn(new) = [k \in Keys |-> SlotIn(new)[k]]
      /\ SlotIn(rows) = [k \in Keys |-> SlotIn(rows)[k]]
  BY DEF SlotIn
<1>3. CASE r.state \in ActivePlusCompleted
  <2>1. SlotIn(rows)[r.key] = "free"
    BY <1>3, SlotLookup
  <2>2. n \in Holders(new, r.key)
    BY <1>3 DEF Holders
  <2>3. SlotIn(new)[r.key] = r.state
    BY <2>2, SlotLookup
  <2>4. SlotIn(new) = [SlotIn(rows) EXCEPT ![r.key] = r.state]
    BY <1>1, <1>2, <2>3
  <2> QED BY <1>3, <2>1, <2>4
<1>4. CASE r.state \notin ActivePlusCompleted
  <2>1. SlotIn(new) = SlotIn(rows)
    BY <1>1, <1>2, <1>4
  <2> QED BY <1>4, <2>1
<1> QED BY <1>3, <1>4

\* A row that is set to another state by SetState makes one of the contract's moves.
LEMMA SetStateMoves ==
    ASSUME EngineInv, EngineInv', NEW i \in Ids,
           NEW state \in {"completed", "failed", "cancelled", "waiting"},
           SetState(i, state), execs[i].state \in ActivePlusCompleted
    PROVE  LET k == execs[i].key
               to == IF state \in ActivePlusCompleted THEN state ELSE "free"
           IN  k \in Keys /\ SlotOf[k] = execs[i].state /\ SlotOf' = [SlotOf EXCEPT ![k] = to]
<1> DEFINE r == [execs[i] EXCEPT !.state = state]
<1>1. execs[i] \in Execution
  BY RowsTyped DEF EngineInv
<1>2. r \in Execution /\ r.key = execs[i].key /\ r.state = state
  BY <1>1 DEF Execution, Active, Terminal
<1>3. execs' = [execs EXCEPT ![i] = r]
  BY DEF SetState
<1> HIDE DEF r
<1>4. /\ r.key \in Keys
      /\ SlotOf[r.key] = execs[i].state
      /\ SlotOf' =
           [SlotOf EXCEPT
              ![r.key] = IF r.state \in ActivePlusCompleted THEN r.state ELSE "free"]
  BY <1>2, <1>3, RowMoves
<1> QED BY <1>2, <1>4

\* start() takes a free slot, or changes nothing that a caller sees.
LEMMA StartMoves ==
    ASSUME EngineInv, EngineInv', NEW c \in Callers, StartStep(c)
    PROVE  [Contract!ContractNext]_SlotOf
<1>1. CASE UNCHANGED execs
  BY <1>1 DEF SlotOf, SlotIn, Holders
<1>2. CASE StartInserts(c)
  <2>1. PICK d \in Definitions : \E state \in InsertedStates(d) :
          /\ ~Conflicts(call[c][2], state)
          /\ execs' = Append(execs, [key |-> call[c][2], state |-> state, begun |-> 0])
    BY <1>2 DEF StartInserts
  <2>2. PICK state \in InsertedStates(d) :
          /\ ~Conflicts(call[c][2], state)
          /\ execs' = Append(execs, [key |-> call[c][2], state |-> state, begun |-> 0])
    BY <2>1
  <2> DEFINE k == call[c][2]
             r == [key |-> k, state |-> state, begun |-> 0]
             n == Len(execs) + 1
  <2>3. k \in Keys /\ state \in {"pending", "completed", "failed"}
    BY <1>2, InsertedStatesLegal DEF StartInserts, EngineInv, CallsInv, NotCalling
  <2>4. Len(execs) \in Nat /\ DOMAIN execs = 1 .. Len(execs) /\ r \in Execution
    BY <2>3, RowsTyped DEF EngineInv, Execution, Active, Terminal, Ids
  <2>5. /\ DOMAIN execs' = DOMAIN execs \cup {n} /\ n \notin DOMAIN execs
        /\ \A j \in DOMAIN execs : execs'[j] = execs[j]
        /\ execs'[n] = r
    <3>1. execs \in Seq(Execution) /\ execs' = Append(execs, r)
      BY <2>2 DEF EngineInv, RowsInv
    <3>2. /\ execs' \in Seq(Execution) /\ Len(execs') = n
          /\ \A j \in 1 .. Len(execs) : execs'[j] = execs[j]
          /\ execs'[n] = r
      BY <2>4, <3>1, AppendProperties
    <3> QED BY <2>4, <3>2, LenProperties
  <2>6. Unique(execs) /\ Unique(execs')
    BY DEF EngineInv, UniqueCorrelation, Unique, Ids
  <2>7. state \in ActivePlusCompleted => Holders(execs, k) = {}
    BY <2>2 DEF Conflicts, Reusable, Holders, Ids
  <2>8. r.key = k /\ r.state = state
    OBVIOUS
  <2> HIDE DEF r, n, k
  <2>9. IF state \in ActivePlusCompleted
        THEN /\ SlotIn(execs)[k] = "free"
             /\ SlotIn(execs') = [SlotIn(execs) EXCEPT ![k] = state]
        ELSE SlotIn(execs') = SlotIn(execs)
    BY <2>3, <2>5, <2>6, <2>7, <2>8, SlotTaken
  <2>10. CASE state \in ActivePlusCompleted
    <3>1. state \in {"pending", "completed"}
      BY <2>3, <2>10 DEF ActivePlusCompleted, Active
    <3>2. Contract!Take(k)
      BY <2>9, <2>10, <3>1 DEF Contract!Take, Contract!Moves, SlotOf
    <3> QED BY <2>3, <3>2 DEF Contract!ContractNext
  <2>11. CASE state \notin ActivePlusCompleted
    BY <2>9, <2>11 DEF SlotOf
  <2> QED BY <2>10, <2>11
<1> QED
  BY <1>1, <1>2 DEF StartStep, StartReuses, StartFindsNone, StartLosesRace, CallEnds, engineVars

\* A handler begins, ends or is controlled: the slot of its row moves.
LEMMA ExecutionMoves ==
    ASSUME EngineInv, EngineInv', NEW i \in Ids,
           ExecutionStep(i) \/ ExecutionControl(i) \/ EngineFault(i)
    PROVE  [Contract!ContractNext]_SlotOf
<1> DEFINE k == execs[i].key
<1> USE DEF ActivePlusCompleted, Active
<1>1. CASE UNCHANGED execs
  BY <1>1 DEF SlotOf, SlotIn, Holders
<1>2. ASSUME NEW keep \in BOOLEAN, BeginExecution(i, keep), execs[i].state = "pending"
      PROVE  Contract!ContractNext
  <2> DEFINE r == [execs[i] EXCEPT !.state = "running", !.begun = @ + 1]
  <2>1. execs[i] \in Execution /\ execs[i].begun = 0
    BY <1>2, RowsTyped DEF EngineInv, BegunInv
  <2>2. r \in Execution /\ r.key = k /\ r.state = "running"
    BY <2>1, RowBegins
  <2>3. execs' = [execs EXCEPT ![i] = r]
    BY <1>2 DEF BeginExecution
  <2> HIDE DEF r
  <2>4. /\ r.key \in Keys
        /\ SlotOf[r.key] = execs[i].state
        /\ SlotOf' =
             [SlotOf EXCEPT
                ![r.key] = IF r.state \in ActivePlusCompleted THEN r.state ELSE "free"]
    BY <1>2, <2>2, <2>3, RowMoves
  <2>5. Contract!Begin(r.key)
    BY <1>2, <2>2, <2>4 DEF Contract!Begin, Contract!Moves
  <2> QED BY <2>4, <2>5 DEF Contract!ContractNext
<1>3. ASSUME NEW state \in {"completed", "failed", "cancelled", "waiting"},
             SetState(i, state), execs[i].state \in Active,
             state = "completed" => execs[i].state \in {"running", "waiting"},
             state = "waiting" => execs[i].state = "running"
      PROVE  Contract!ContractNext
  <2>1. /\ k \in Keys /\ SlotOf[k] = execs[i].state
        /\ SlotOf' =
             [SlotOf EXCEPT ![k] = IF state \in ActivePlusCompleted THEN state ELSE "free"]
    BY <1>3, SetStateMoves
  <2> HIDE DEF k
  <2>2. Contract!Wait(k) \/ Contract!Complete(k) \/ Contract!Release(k)
    BY <1>3, <2>1
    DEF Contract!Wait, Contract!Complete, Contract!Release, Contract!Moves
  <2> QED BY <2>1, <2>2 DEF Contract!ContractNext
<1>4. ASSUME NEW keep \in BOOLEAN, BeginExecution(i, keep)
      PROVE  UNCHANGED execs \/ execs[i].state = "pending"
  BY <1>4 DEF BeginExecution
<1>5. CASE EndExecution(i)
  BY <1>1, <1>3, <1>5 DEF EndExecution
<1>6. CASE cancel(i)
  BY <1>3, <1>6 DEF cancel
<1>7. CASE resume(i)
  BY <1>3, <1>7 DEF resume
<1>8. CASE Park(i)
  BY <1>3, <1>8 DEF Park
<1>9. ASSUME NEW keep \in BOOLEAN, BeginExecution(i, keep)
      PROVE  [Contract!ContractNext]_SlotOf
  BY <1>1, <1>2, <1>4, <1>9
<1>10. CASE LoseDispatch(i) \/ ExecutorDies(i)
  BY <1>1, <1>10 DEF LoseDispatch, ExecutorDies
<1> QED
  BY <1>5, <1>6, <1>7, <1>8, <1>9, <1>10 DEF ExecutionStep, ExecutionControl, EngineFault

\* The engine implements the contract: a caller sees one execution for a
\* correlation id, that moves along its life and, once completed, stays.
LEMMA ContractKept == EngineSafety => KeepsContract
<1>1. EngineInit => Contract!ContractInit
  <2> SUFFICES ASSUME EngineInit PROVE Contract!ContractInit
    OBVIOUS
  <2>1. \A k \in Keys : Holders(execs, k) = {}
    BY DEF EngineInit, Holders
  <2> QED BY <2>1 DEF Contract!ContractInit, SlotOf, SlotIn
<1>2. EngineInv /\ EngineInv' /\ [EngineNext]_engineVars => [Contract!ContractNext]_SlotOf
  <2> SUFFICES ASSUME EngineInv, EngineInv', [EngineNext]_engineVars
               PROVE  [Contract!ContractNext]_SlotOf
    OBVIOUS
  <2>1. ASSUME NEW c \in Callers, StartStep(c) PROVE [Contract!ContractNext]_SlotOf
    BY <2>1, StartMoves
  <2>2. ASSUME NEW i \in Ids, ExecutionStep(i) \/ ExecutionControl(i) \/ EngineFault(i)
        PROVE  [Contract!ContractNext]_SlotOf
    BY <2>2, ExecutionMoves
  <2>3. CASE UNCHANGED engineVars
    BY <2>3 DEF engineVars, SlotOf, SlotIn, Holders
  <2> QED BY <2>1, <2>2, <2>3 DEF EngineNext
<1> QED
  BY <1>1, <1>2, EngineInvariant, PTL DEF EngineSafety, KeepsContract, Contract!ContractSpec

\* The engine on its own implements the contract, under any load of callers.
THEOREM KeepsContractCorrect == EngineSpec => KeepsContract
BY ContractKept, PTL DEF EngineSpec
=============================================================================
