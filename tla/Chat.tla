-------------------------------- MODULE Chat --------------------------------
(***************************************************************************)
(* One chat conversation with several clients: chat/consumer.py (websocket *)
(* connections), chat/views.py (SSE requests) and the durable confirmation *)
(* rows of chat/models.py.                                                 *)
(*                                                                         *)
(* A connection handles one received event at a time; the tasks that wait  *)
(* for a confirmation time-out run beside it.  Job 0 of a client is the    *)
(* event it handles, job n the time-out task of row n.  A step ends where  *)
(* the code awaits the database, a tool or the provider.  Texts are left   *)
(* out: a tool call is a read or a mutation that needs a confirmation.     *)
(***************************************************************************)
EXTENDS Naturals, Sequences, FiniteSets

CONSTANTS
    Conns,          \* websocket connections
    SseClients,     \* clients of the SSE and confirm views
    ToolIds,        \* ids a provider gives to its tool calls
    StableToolIds,  \* TRUE: the provider numbers the calls of each turn anew
    MaxToolRetries, \* max_retries_per_message
    MaxRows,        \* bound: confirmations asked for
    MaxChatMessages, \* bound: user messages
    MaxChatFaults   \* bound: failing database calls and tools

ASSUME ChatAssumption == MaxRows \in Nat

VARIABLES
    rows,   \* the ChatPendingConfirmation rows, oldest first
    conn,   \* client -> [up, pending, task, stuck]: its consumer's fields (0: None)
    job,    \* client -> job number -> [pc, id, row, yes, retries]
    said,   \* bound: messages so far
    broken  \* bound: faults so far

chatVars == <<rows, conn, job, said, broken>>

Clients == Conns \cup SseClients
Jobs == 0 .. MaxRows
Off == [pc |-> "off", id |-> 0, row |-> 0, yes |-> FALSE, retries |-> 0]
NewConsumer == [up |-> TRUE, pending |-> 0, task |-> 0, stuck |-> FALSE]

ChatInit ==
    /\ rows = << >>
    /\ conn = [c \in Clients |-> NewConsumer]
    /\ job = [c \in Clients |-> [j \in Jobs |-> Off]]
    /\ said = 0 /\ broken = 0

ChatFault == broken < MaxChatFaults /\ broken' = broken + 1
At(c, j, pc) == conn[c].up /\ job[c][j].pc = pc
Goto(c, j, pc) == job' = [job EXCEPT ![c][j].pc = pc]
Finish(c, j) == job' = [job EXCEPT ![c][j] = Off]

-----------------------------------------------------------------------------
(* The durable confirmation *)

Open(id) == {n \in DOMAIN rows : rows[n].id = id /\ rows[n].open}

\* claim_for_conversation: the open row of the id, an expired one only for who
\* allows that; 0 when there is none.
claim_for_conversation(id, allowExpired) ==
    LET found == {n \in Open(id) : allowExpired \/ ~rows[n].due}
    IN  IF found = {} THEN 0 ELSE CHOOSE n \in found : \A m \in found : m <= n

\* Mutant: the claim leaves the row open.
ResolvedLate(n, by) == [rows EXCEPT ![n].by = by]

\* The claim's update, under the row lock.
Resolved(n, by) == [rows EXCEPT ![n].open = FALSE, ![n].by = by]

\* Mutant: no time-out task is started for the second confirmation.
AskFirstOnly(c, n) ==
    IF n > 1 THEN [conn EXCEPT ![c].pending = n]
    ELSE [conn EXCEPT ![c].pending = n, ![c].task = n]

\* The consumer's fields after a confirmation was asked for.
Asked(c, n) == [conn EXCEPT ![c].pending = n, ![c].task = n]

\* create_pending_confirmation: expired rows of the id are closed; a row that is
\* still open is a duplicate and refused.
create_pending_confirmation(id) ==
    /\ \A n \in Open(id) : rows[n].due
    /\ rows' = Append([n \in DOMAIN rows |->
                          IF n \in Open(id) THEN [rows[n] EXCEPT !.open = FALSE, !.by = "expiry"] ELSE rows[n]],
                      [id |-> id, open |-> TRUE, due |-> FALSE, by |-> "nobody", ran |-> 0])

\* expires_at passes.
RowExpires ==
    /\ \E n \in DOMAIN rows : ~rows[n].due /\ rows' = [rows EXCEPT ![n].due = TRUE]
    /\ UNCHANGED <<conn, job, said, broken>>

-----------------------------------------------------------------------------
(* A turn *)

\* receive_json with a message: refused while a confirmation is pending or the
\* turn that follows a time-out is streaming.  Job 0 is idle, so no other turn runs.
receive_json(c) ==
    /\ At(c, 0, "off")
    /\ conn[c].pending = 0
    /\ \A j \in Jobs : job[c][j].pc # "stream"
    /\ said < MaxChatMessages
    /\ said' = said + 1
    /\ job' = [job EXCEPT ![c][0] = [Off EXCEPT !.pc = "stream"]]
    /\ UNCHANGED <<rows, conn, broken>>

\* _stream_provider_turn reaches DoneEvent, an error or a time-out of the stream:
\* the answer is recorded.  A recovery round is one more round of the same turn.
_stream_provider_turn(c, j) ==
    /\ At(c, j, "stream")
    /\ Finish(c, j)
    /\ UNCHANGED <<rows, conn, said, broken>>

\* _handle_tool_call of a read: counted, and the turn ends at the limit.
ReadTool(c, j) ==
    /\ At(c, j, "stream")
    /\ IF job[c][j].retries + 1 >= MaxToolRetries THEN Finish(c, j)
       ELSE job' = [job EXCEPT ![c][j].retries = @ + 1]
    /\ UNCHANGED <<rows, conn, said, broken>>

FreshId(id) == StableToolIds \/ \A n \in DOMAIN rows : rows[n].id # id

\* _handle_tool_call of a mutation that must be confirmed: the row first, then
\* the consumer's fields and the time-out task; the turn ends.
_handle_tool_call(c, j, id) ==
    /\ At(c, j, "stream") /\ c \in Conns
    /\ Len(rows) < MaxRows /\ FreshId(id)
    /\ create_pending_confirmation(id)
    /\ LET n == Len(rows) + 1
       IN  /\ conn' = Asked(c, n)
           /\ job' = [job EXCEPT ![c][j] = Off,
                                 ![c][n] = [Off EXCEPT !.pc = IF conn'[c].task = n THEN "wait" ELSE "off", !.id = id]]
    /\ UNCHANGED <<said, broken>>

\* The row cannot be stored (a duplicate, or the database fails): an error event
\* and no question.
AskFails(c, j, id) ==
    /\ At(c, j, "stream") /\ FreshId(id)
    /\ \/ (\E n \in Open(id) : ~rows[n].due) /\ UNCHANGED broken
       \/ ChatFault
    /\ Finish(c, j)
    /\ UNCHANGED <<rows, conn, said>>

\* _iter_provider_turn_events on the SSE transport: only the row remembers.
_iter_provider_turn_events(c, id) ==
    /\ At(c, 0, "stream") /\ c \in SseClients
    /\ Len(rows) < MaxRows /\ FreshId(id)
    /\ create_pending_confirmation(id)
    /\ Finish(c, 0)
    /\ UNCHANGED <<conn, said, broken>>

-----------------------------------------------------------------------------
(* The answer *)

\* _handle_confirmation_response: for the pending confirmation its row is claimed,
\* without one the row is looked up (the question may be another client's).
_handle_confirmation_response(c, id, yes) ==
    /\ c \in Conns /\ At(c, 0, "off")
    /\ rows # << >>
    /\ LET p == conn[c].pending
       IN  /\ p # 0 => rows[p].id = id
           /\ job' = [job EXCEPT ![c][0] = [pc |-> IF p = 0 THEN "lookup" ELSE "claim", id |-> id,
                                            row |-> p, yes |-> yes, retries |-> 0]]
    /\ UNCHANGED <<rows, conn, said, broken>>

\* _execute_confirmation_request: always a lookup.
_execute_confirmation_request(c, id, yes) ==
    /\ c \in SseClients /\ At(c, 0, "off")
    /\ rows # << >>
    /\ job' = [job EXCEPT ![c][0] = [pc |-> "lookup", id |-> id, row |-> 0, yes |-> yes, retries |-> 0]]
    /\ UNCHANGED <<rows, conn, said, broken>>

\* The claim of a pending confirmation commits.  What will be executed is the
\* mutation remembered by the consumer, not the claimed row's.
_claim_durable_pending_confirmation(c, j) ==
    /\ At(c, j, "claim")
    /\ LET n == claim_for_conversation(job[c][j].id, j # 0)
       IN  IF n = 0 THEN Goto(c, j, "lost") /\ UNCHANGED rows
           ELSE /\ rows' = Resolved(n, IF j # 0 THEN "timer" ELSE IF job[c][j].yes THEN "yes" ELSE "no")
                /\ Goto(c, j, "won")
    /\ UNCHANGED <<conn, said, broken>>

\* The lookup commits: the row found is what will be executed.
LookupConfirmation(c) ==
    /\ At(c, 0, "lookup")
    /\ LET n == claim_for_conversation(job[c][0].id, FALSE)
       IN  IF n = 0 THEN Finish(c, 0) /\ UNCHANGED rows
           ELSE /\ rows' = Resolved(n, IF job[c][0].yes THEN "yes" ELSE "no")
                /\ job' = [job EXCEPT ![c][0].pc = "won", ![c][0].row = n]
    /\ UNCHANGED <<conn, said, broken>>

\* The claim raises: an error event; the consumer keeps its pending confirmation.
\* The time-out task ends, and nobody else will end the wait.
ClaimFails(c, j) ==
    /\ At(c, j, "claim") \/ At(c, j, "lookup")
    /\ ChatFault
    /\ Finish(c, j)
    /\ conn' = IF j = 0 THEN conn
               ELSE [conn EXCEPT ![c].stuck = TRUE, ![c].task = IF @ = j THEN 0 ELSE @]
    /\ UNCHANGED <<rows, said>>

\* _cancel_confirmation_timeout by job j: the task is cancelled where it waits,
\* unless it is the caller.
Cancelled(c, j, jobs) ==
    LET t == conn[c].task
    IN  IF t \notin {0, j} THEN [jobs EXCEPT ![c][t] = Off] ELSE jobs
Dropped(c) == [conn EXCEPT ![c].task = 0]

\* _resolve_pending_confirmation after the claim: the time-out task is cancelled,
\* the pending confirmation dropped, and the mutation executed if it was confirmed
\* and has not expired by the consumer's clock; otherwise the turn goes on with a
\* cancelled result.
_resolve_pending_confirmation(c, j) ==
    /\ At(c, j, "won")
    /\ \E inTime \in BOOLEAN :
         /\ c \in SseClients \/ ~job[c][j].yes => inTime
         /\ job' = [Cancelled(c, j, job) EXCEPT
                       ![c][j].pc = IF job[c][j].yes /\ inTime THEN "execute" ELSE "stream"]
    /\ conn' = [Dropped(c) EXCEPT ![c].pending = 0]
    /\ UNCHANGED <<rows, said, broken>>

\* The claim found nothing: confirmation_unavailable, then the pending
\* confirmation is dropped.  The send in between is a step of its own.
ConfirmationUnavailable(c, j) ==
    /\ At(c, j, "lost")
    /\ conn' = Dropped(c)
    /\ job' = [Cancelled(c, j, job) EXCEPT ![c][j].pc = "sent"]
    /\ UNCHANGED <<rows, said, broken>>

\* Mutant: the pending confirmation is kept when it is not available any more.
KeepUnavailable(c, j) ==
    /\ At(c, j, "sent")
    /\ Finish(c, j)
    /\ UNCHANGED <<rows, conn, said, broken>>

DropUnavailable(c, j) ==
    /\ At(c, j, "sent")
    /\ conn' = [conn EXCEPT ![c].pending = 0]
    /\ Finish(c, j)
    /\ UNCHANGED <<rows, said, broken>>

\* execute_chat_tool with confirmed, then the record and the follow-up turn.
execute_confirmed(c) ==
    /\ At(c, 0, "execute")
    /\ \/ rows' = [rows EXCEPT ![job[c][0].row].ran = @ + 1] /\ Goto(c, 0, "stream") /\ UNCHANGED broken
       \/ ChatFault /\ Finish(c, 0) /\ UNCHANGED rows
    /\ UNCHANGED <<conn, said>>

-----------------------------------------------------------------------------
(* Time-outs, disconnects, crashes *)

\* _await_confirmation_timeout of row n runs out of time.
_await_confirmation_timeout(c, n) ==
    /\ n # 0 /\ At(c, n, "wait")
    /\ rows[n].due
    /\ LET p == conn[c].pending
       IN  IF p # 0 /\ rows[p].id = job[c][n].id
           THEN job' = [job EXCEPT ![c][n].pc = "claim", ![c][n].row = p] /\ UNCHANGED conn
           ELSE Finish(c, n) /\ conn' = [conn EXCEPT ![c].task = IF @ = n THEN 0 ELSE @]
    /\ UNCHANGED <<rows, said, broken>>

\* disconnect: the streaming follow-up and the time-out task are cancelled.  A
\* claim on its way may still commit.
disconnect(c) ==
    /\ c \in Conns /\ At(c, 0, "off")
    /\ \/ UNCHANGED rows
       \/ \E n \in Jobs \ {0} :
            /\ job[c][n].pc = "claim"
            /\ LET m == claim_for_conversation(job[c][n].id, TRUE)
               IN  m # 0 /\ rows' = Resolved(m, "timer")
    /\ conn' = [conn EXCEPT ![c] = [NewConsumer EXCEPT !.up = FALSE]]
    /\ job' = [job EXCEPT ![c] = [j \in Jobs |-> Off]]
    /\ UNCHANGED <<said, broken>>

\* The server process dies in the middle of whatever it does.
ServerCrash(c) ==
    /\ conn[c].up
    /\ ChatFault
    /\ conn' = [conn EXCEPT ![c] = [NewConsumer EXCEPT !.up = FALSE]]
    /\ job' = [job EXCEPT ![c] = [j \in Jobs |-> Off]]
    /\ UNCHANGED <<rows, said>>

\* connect: a fresh consumer.
connect(c) ==
    /\ ~conn[c].up
    /\ conn' = [conn EXCEPT ![c] = NewConsumer]
    /\ UNCHANGED <<rows, job, said, broken>>

JobStep(c, j) ==
    \/ _stream_provider_turn(c, j)
    \/ _claim_durable_pending_confirmation(c, j)
    \/ _resolve_pending_confirmation(c, j)
    \/ ConfirmationUnavailable(c, j)
    \/ DropUnavailable(c, j)
    \/ _await_confirmation_timeout(c, j)
    \/ j = 0 /\ (LookupConfirmation(c) \/ execute_confirmed(c))

ChatNext ==
    \/ RowExpires
    \/ \E c \in Clients :
         \/ receive_json(c)
         \/ disconnect(c) \/ ServerCrash(c) \/ connect(c)
         \/ \E id \in ToolIds :
              \/ _iter_provider_turn_events(c, id)
              \/ \E yes \in BOOLEAN :
                   _handle_confirmation_response(c, id, yes) \/ _execute_confirmation_request(c, id, yes)
         \/ \E j \in Jobs :
              \/ JobStep(c, j)
              \/ ReadTool(c, j) \/ ClaimFails(c, j)
              \/ \E id \in ToolIds : _handle_tool_call(c, j, id) \/ AskFails(c, j, id)

ChatSpec == ChatInit /\ [][ChatNext]_chatVars

-----------------------------------------------------------------------------
(* Properties *)

\* A mutation that needs a confirmation runs at most once, and only when the one
\* answer that claimed its row was a yes: not after a rejection, a time-out or an
\* expiry, whatever answers, time-outs, clients and crashes race.
RunsOnlyWhenConfirmed ==
    \A n \in DOMAIN rows : rows[n].ran > 0 => rows[n].ran = 1 /\ rows[n].by = "yes"

\* While a consumer waits for an answer, the time-out task of that question is
\* alive or some job is about to drop it: a user is never locked out of the
\* conversation (unless the time-out task itself failed at the database).
NeverLockedOut ==
    \A c \in Conns : LET p == conn[c].pending IN
        (p # 0 /\ ~conn[c].stuck) =>
            job[c][p].pc # "off" \/ \E j \in Jobs : job[c][j].pc \in {"claim", "won", "lost", "sent"}

\* Chat: a mutation runs once, after its own confirmation, and an answered
\* question never locks its conversation (chat/consumer.py, chat/views.py).
ChatSound == RunsOnlyWhenConfirmed /\ NeverLockedOut
=============================================================================
