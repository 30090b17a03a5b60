--------------------------- MODULE WorkflowContract ---------------------------
(***************************************************************************)
(* What callers of a durable workflow engine can rely on for a correlation *)
(* id: there is one execution to look at, or none.  A start puts it there, *)
(* a failure or a cancellation takes it away for a new attempt, and once it *)
(* is completed it stays (docs/concepts/workflow.md; start() and the       *)
(* partial unique constraint of WorkflowExecutionRecord).                  *)
(***************************************************************************)

CONSTANT Keys          \* correlation ids

VARIABLE slot          \* key -> the state of its execution, "free" without one

ContractInit == slot = [k \in Keys |-> "free"]

Moves(k, from, to) == slot[k] \in from /\ \E s \in to : slot' = [slot EXCEPT ![k] = s]

\* A start finds none and leaves one, which may have ended at once.
Take(k) == Moves(k, {"free"}, {"pending", "completed"})

\* Its handler begins from pending, hence once.
Begin(k) == Moves(k, {"pending"}, {"running"})

\* It waits for a signal.
Wait(k) == Moves(k, {"running"}, {"waiting"})

Complete(k) == Moves(k, {"running", "waiting"}, {"completed"})

\* It fails or is cancelled, and may be started again.
Release(k) == Moves(k, {"pending", "running", "waiting"}, {"free"})

ContractNext ==
  \E k \in Keys : Take(k) \/ Begin(k) \/ Wait(k) \/ Complete(k) \/ Release(k)

ContractSpec == ContractInit /\ [][ContractNext]_slot
=============================================================================
