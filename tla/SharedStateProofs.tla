------------------------- MODULE SharedStateProofs -------------------------
(***************************************************************************)
(* What clients, processes and workers that share rows or a cache keep,    *)
(* for any number of them and any bounds.                                  *)
(*                                                                         *)
(* A chat conversation (Chat.tla): ChatSound, when the ids of tool calls   *)
(* are never used again.  (Where they are, StableToolIds, an answer to an  *)
(* old question can claim the row of a new one.)  ChatInvariant is         *)
(* inductive.  It ties the three places where a question is remembered:    *)
(* the durable row, the consumer's fields and the jobs.  Every step is the *)
(* step of one client, so that a proof about it only looks at that client  *)
(* (ClientFine) and at the rows others hold (Alone).                       *)
(*                                                                         *)
(* Declared rows (ReadOnlySync.tla): SyncedStaysDeclared.  SyncInvariant   *)
(* is inductive.  The rows a process has gone through are as declared in   *)
(* what it sees (Passed), a copy it read is what it sees or was replaced   *)
(* by declared values (Copied), and a commit can only bring the rows of a  *)
(* table closer to what is declared, so that a table stays settled for the *)
(* processes that found it so (Settled, Swept).                            *)
(*                                                                         *)
(* Warm-up recipes (GraphQLWarmup.tla): WarmSound.                         *)
(* WarmInvariant is inductive.  While nothing failed, a worker between the *)
(* read and the write of an index owns its lock, so what it read is still  *)
(* the index (Undisturbed), and a recipe missing from an index has an      *)
(* update of that index ahead of it (Indexed).                             *)
(*                                                                         *)
(* S3 adapters (S3Adapters.tla): S3Sound.  S3Invariant is inductive.  Its  *)
(* core is that a recorded version names one object for good (Named): by   *)
(* its number where the bucket has versions, and by its bytes where a key  *)
(* has one object that anyone may replace.  So what an operation that      *)
(* deletes knows (S3JobFine) is still what the record allows when the      *)
(* DELETE arrives, and the final object is the only one its key ever has.  *)
(***************************************************************************)
EXTENDS Chat, ReadOnlySync, GraphQLWarmup, S3Adapters, SequenceTheorems,
        FiniteSetTheorems, WellFoundedInduction, TLAPS

-----------------------------------------------------------------------------
(* A chat conversation *)

Stages == {"off", "stream", "wait", "claim", "lookup", "won", "lost", "sent", "execute"}
Answers == {"nobody", "expiry", "timer", "yes", "no"}
Row == [id : ToolIds, open : BOOLEAN, due : BOOLEAN, by : Answers, ran : Nat]
Job == [pc : Stages, id : ToolIds \cup {0}, row : Jobs, yes : BOOLEAN, retries : Nat]
Consumer == [up : BOOLEAN, pending : Jobs, task : Jobs, stuck : BOOLEAN]

\* Ids are unique, nothing has run for an open row, and what ran, ran once and
\* after a yes.
RowsFine(R) ==
    /\ R \in Seq(Row) /\ Len(R) <= MaxRows
    /\ \A m, n \in 1 .. Len(R) : R[m].id = R[n].id => m = n
    /\ \A n \in 1 .. Len(R) : /\ R[n].open = TRUE => R[n].ran = 0
                              /\ R[n].ran > 0 => R[n].ran = 1 /\ R[n].by = "yes"

\* A job that executes its row, or is about to.
Holding(b) == b.pc = "execute" \/ (b.pc = "won" /\ b.yes = TRUE)

\* Job j of a client is b: it knows the row it is about, a time-out task is never
\* on its way to execute, and a row that is held was confirmed and has not run.
JobFine(b, j, R) ==
    /\ b \in Job
    /\ b.pc # "off" => j <= Len(R)
    /\ b.pc = "wait" => j # 0 /\ b.id = R[j].id
    /\ b.pc \in {"claim", "won", "execute"} => b.row \in 1 .. Len(R) /\ R[b.row].id = b.id
    /\ j # 0 => b.yes = FALSE /\ b.pc \notin {"lookup", "execute"}
    /\ Holding(b) => R[b.row].by = "yes" /\ R[b.row].ran = 0 /\ R[b.row].open = FALSE
JobsFine(J, R) == J \in [Jobs -> Job] /\ \A j \in Jobs : JobFine(J[j], j, R)

\* Who waits for an answer has a time-out task that can end the wait, or a job
\* that is one step from ending it.
Ending == {"wait", "claim", "won", "lost", "sent"}
Waits(J, K) ==
    (K.pending # 0 /\ K.stuck = FALSE) =>
        J[K.pending].pc \in Ending \/ \E j \in Jobs : J[j].pc = "sent"

ClientFine(J, K, R) == JobsFine(J, R) /\ K \in Consumer /\ K.pending <= Len(R) /\ Waits(J, K)

\* Two clients never hold the same row.
Apart(a, b) == Holding(a) /\ Holding(b) => a.row # b.row

ChatInvariant ==
    /\ RowsFine(rows)
    /\ job \in [Clients -> [Jobs -> Job]] /\ conn \in [Clients -> Consumer]
    /\ \A c \in Clients : ClientFine(job[c], conn[c], rows)
    /\ \A c, d \in Clients : c # d => Apart(job[c][0], job[d][0])

-----------------------------------------------------------------------------
(* Rows *)

LEMMA JobNumbers == Jobs = 0 .. MaxRows /\ 0 \in Jobs /\ Jobs \subseteq Nat
BY ChatAssumption DEF Jobs

LEMMA OffFine == ASSUME NEW R, NEW j PROVE JobFine(Off, j, R) /\ ~Holding(Off) /\ Off \in Job
<1>1. Off \in Job
  BY JobNumbers DEF Off, Job, Stages
<1>2. Off.pc = "off" /\ Off.yes = FALSE
  BY DEF Off
<1> QED BY <1>1, <1>2 DEF JobFine, Holding

\* A row changes in place and keeps its id.
LEMMA RowEdit ==
    ASSUME NEW R, RowsFine(R), NEW n \in 1 .. Len(R), NEW b \in Row, b.id = R[n].id,
           b.open = TRUE => b.ran = 0, b.ran > 0 => b.ran = 1 /\ b.by = "yes",
           NEW S \in Seq(Row), Len(S) = Len(R), \A m \in 1 .. Len(R) : S[m] = IF m = n THEN b ELSE R[m]
    PROVE  RowsFine(S)
<1>1. R \in Seq(Row) /\ Len(R) \in Nat
  BY DEF RowsFine
<1>2. \A m \in 1 .. Len(R) : S[m].id = R[m].id
  OBVIOUS
<1> QED BY <1>1, <1>2 DEF RowsFine

\* A claimed row is closed, by whom it says.
LEMMA ResolvedRow ==
    ASSUME RowsFine(rows), NEW n \in 1 .. Len(rows), rows[n].open = TRUE, NEW by \in Answers
    PROVE  /\ RowsFine(Resolved(n, by)) /\ Len(Resolved(n, by)) = Len(rows)
           /\ \A m \in 1 .. Len(rows) : m # n => Resolved(n, by)[m] = rows[m]
           /\ Resolved(n, by)[n].id = rows[n].id /\ Resolved(n, by)[n].by = by
           /\ Resolved(n, by)[n].ran = 0 /\ Resolved(n, by)[n].open = FALSE
<1>1. rows \in Seq(Row) /\ rows[n] \in Row /\ rows[n].ran = 0
  BY DEF RowsFine
<1>2. PICK b : b = [rows[n] EXCEPT !.open = FALSE, !.by = by]
  OBVIOUS
<1>3. b \in Row /\ b.id = rows[n].id /\ b.ran = 0 /\ b.open = FALSE /\ b.by = by
  BY <1>1, <1>2 DEF Row
<1>4. Resolved(n, by) = [rows EXCEPT ![n] = b]
  BY <1>1, <1>2 DEF Resolved
<1>5. /\ Resolved(n, by) \in Seq(Row) /\ Len(Resolved(n, by)) = Len(rows)
      /\ \A m \in 1 .. Len(rows) : Resolved(n, by)[m] = IF m = n THEN b ELSE rows[m]
  BY <1>1, <1>3, <1>4, ExceptSeq
<1>6. RowsFine(Resolved(n, by))
  <2>1. (b.open = TRUE => b.ran = 0) /\ (b.ran > 0 => b.ran = 1 /\ b.by = "yes")
    BY <1>3
  <2> QED BY <1>3, <1>5, <2>1, RowEdit
<1> QED BY <1>3, <1>5, <1>6

\* claim_for_conversation finds an open row of the id.
LEMMA ClaimFinds ==
    ASSUME RowsFine(rows), NEW id, NEW a, claim_for_conversation(id, a) # 0
    PROVE  /\ claim_for_conversation(id, a) \in 1 .. Len(rows)
           /\ rows[claim_for_conversation(id, a)].id = id
           /\ rows[claim_for_conversation(id, a)].open = TRUE
<1> DEFINE found == {n \in Open(id) : a \/ ~rows[n].due}
           Latest(n) == \A m \in found : m <= n
<1>1. found \subseteq 1 .. Len(rows) /\ \A n \in found : rows[n].id = id /\ rows[n].open = TRUE
  BY DEF Open, RowsFine, Row
<1>2. found # {} /\ claim_for_conversation(id, a) = CHOOSE n \in found : Latest(n)
  BY DEF claim_for_conversation
<1>3. \A m, n \in found : m = n
  BY <1>1 DEF RowsFine
<1>4. \E n \in found : Latest(n)
  <2>1. PICK n \in found : TRUE
    BY <1>2
  <2>2. Latest(n)
    BY <1>1, <1>3, <2>1
  <2> QED BY <2>2
<1> QED BY <1>1, <1>2, <1>4

-----------------------------------------------------------------------------
(* One client's step *)

LEMMA JobsMove ==
    ASSUME NEW J, NEW R, JobsFine(J, R), NEW j \in Jobs, NEW b, JobFine(b, j, R)
    PROVE  /\ JobsFine([J EXCEPT ![j] = b], R)
           /\ \A i \in Jobs : [J EXCEPT ![j] = b][i] = IF i = j THEN b ELSE J[i]
<1>1. J \in [Jobs -> Job] /\ b \in Job
  BY DEF JobsFine, JobFine
<1>2. [J EXCEPT ![j] = b] \in [Jobs -> Job]
  BY <1>1
<1>3. \A i \in Jobs : [J EXCEPT ![j] = b][i] = IF i = j THEN b ELSE J[i]
  BY <1>1
<1>4. \A i \in Jobs : JobFine([J EXCEPT ![j] = b][i], i, R)
  BY <1>3 DEF JobsFine
<1> QED BY <1>2, <1>3, <1>4 DEF JobsFine

\* The rows keep their ids, and their own the ones that a client holds.
Kept(J, R, S) ==
    /\ Len(R) \in Nat /\ Len(S) \in Nat /\ Len(R) <= Len(S)
    /\ \A n \in 1 .. Len(R) : S[n].id = R[n].id
    /\ \A n \in 1 .. Len(R) : Holding(J[0]) /\ J[0].row = n =>
         S[n].by = R[n].by /\ S[n].ran = R[n].ran /\ S[n].open = R[n].open

LEMMA KeptFine == ASSUME NEW J, NEW R, NEW S, JobsFine(J, R), Kept(J, R, S) PROVE JobsFine(J, S)
<1>1. SUFFICES ASSUME NEW j \in Jobs PROVE JobFine(J[j], j, S)
  BY DEF JobsFine
<1>2. JobFine(J[j], j, R) /\ j \in Nat
  BY JobNumbers DEF JobsFine
<1>3. J[j].pc # "off" => j <= Len(S)
  BY <1>2 DEF JobFine, Kept
<1>4. J[j].pc = "wait" => j # 0 /\ J[j].id = S[j].id
  <2>1. J[j].pc = "wait" => j # 0 /\ j \in 1 .. Len(R) /\ J[j].id = R[j].id
    BY <1>2 DEF JobFine, Kept
  <2> QED BY <2>1 DEF Kept
<1>5. J[j].pc \in {"claim", "won", "execute"} => J[j].row \in 1 .. Len(S) /\ S[J[j].row].id = J[j].id
  BY <1>2 DEF JobFine, Kept
<1>6. Holding(J[j]) => j = 0 /\ J[j].row \in 1 .. Len(R)
  BY <1>2 DEF JobFine, Holding
<1>7. Holding(J[j]) => S[J[j].row].by = "yes" /\ S[J[j].row].ran = 0 /\ S[J[j].row].open = FALSE
  BY <1>2, <1>6 DEF JobFine, Kept
<1> QED BY <1>2, <1>3, <1>4, <1>5, <1>7 DEF JobFine

LEMMA StepKeeps ==
    ASSUME ChatInvariant, NEW c \in Clients, NEW J, NEW K, NEW R,
           job' = [job EXCEPT ![c] = J], conn' = [conn EXCEPT ![c] = K], rows' = R,
           RowsFine(R), ClientFine(J, K, R),
           \A d \in Clients \ {c} : Kept(job[d], rows, R) /\ Apart(J[0], job[d][0])
    PROVE  ChatInvariant'
<1>1. J \in [Jobs -> Job] /\ K \in Consumer
  BY DEF ClientFine, JobsFine
<1>2. /\ job' \in [Clients -> [Jobs -> Job]] /\ conn' \in [Clients -> Consumer]
      /\ job'[c] = J /\ conn'[c] = K
      /\ \A d \in Clients \ {c} : job'[d] = job[d] /\ conn'[d] = conn[d]
  BY <1>1 DEF ChatInvariant
<1>3. \A d \in Clients \ {c} : ClientFine(job[d], conn[d], R)
  <2> TAKE d \in Clients \ {c}
  <2>1. ClientFine(job[d], conn[d], rows) /\ Kept(job[d], rows, R)
    BY DEF ChatInvariant
  <2>2. JobsFine(job[d], R)
    BY <2>1, KeptFine DEF ClientFine
  <2>3. conn[d].pending <= Len(R)
    BY <2>1, JobNumbers DEF ClientFine, Kept, Consumer
  <2> QED BY <2>1, <2>2, <2>3 DEF ClientFine
<1>4. \A d \in Clients : ClientFine(job'[d], conn'[d], R)
  BY <1>2, <1>3
<1>5. \A d, e \in Clients : d # e => Apart(job'[d][0], job'[e][0])
  <2> TAKE d, e \in Clients
  <2>1. d # e => Apart(job[d][0], job[e][0])
    BY DEF ChatInvariant
  <2>2. CASE d = c
    BY <1>2, <2>2
  <2>3. CASE e = c
    BY <1>2, <2>3 DEF Apart
  <2> QED BY <1>2, <2>1, <2>2, <2>3
<1> QED BY <1>2, <1>4, <1>5 DEF ChatInvariant

\* A step that leaves the rows alone and lays no hold on one.
LEMMA QuietStep ==
    ASSUME ChatInvariant, NEW c \in Clients, NEW J, NEW K,
           job' = [job EXCEPT ![c] = J], conn' = [conn EXCEPT ![c] = K], rows' = rows,
           JobsFine(J, rows), K \in Consumer, K.pending <= Len(rows), Waits(J, K),
           Holding(J[0]) => Holding(job[c][0]) /\ J[0].row = job[c][0].row
    PROVE  ChatInvariant'
<1>1. RowsFine(rows) /\ Len(rows) \in Nat
  BY DEF ChatInvariant, RowsFine
<1>2. ClientFine(J, K, rows)
  BY DEF ClientFine
<1>3. \A d \in Clients \ {c} : Kept(job[d], rows, rows)
  BY <1>1 DEF Kept
<1>4. \A d \in Clients \ {c} : Apart(J[0], job[d][0])
  BY DEF ChatInvariant, Apart
<1> QED BY <1>1, <1>2, <1>3, <1>4, StepKeeps

\* What the invariant says of a client.
LEMMA ClientFacts ==
    ASSUME ChatInvariant, NEW c \in Clients
    PROVE  /\ RowsFine(rows) /\ rows \in Seq(Row) /\ Len(rows) \in Nat /\ DOMAIN rows = 1 .. Len(rows)
           /\ JobsFine(job[c], rows) /\ job[c] \in [Jobs -> Job] /\ conn[c] \in Consumer
           /\ conn[c].pending <= Len(rows) /\ conn[c].pending \in Jobs /\ Waits(job[c], conn[c])
           /\ \A j \in Jobs : JobFine(job[c][j], j, rows) /\ job[c][j] \in Job
           /\ job \in [Clients -> [Jobs -> Job]] /\ conn \in [Clients -> Consumer]
<1>1. RowsFine(rows) /\ ClientFine(job[c], conn[c], rows)
  BY DEF ChatInvariant
<1>2. rows \in Seq(Row) /\ Len(rows) \in Nat /\ DOMAIN rows = 1 .. Len(rows)
  BY <1>1 DEF RowsFine
<1> QED BY <1>1, <1>2 DEF ClientFine, JobsFine, Consumer, ChatInvariant

\* Job j becomes b and the consumer's fields K become L: nobody waits in vain.
StillWaits(J, K, L, j, b) ==
    \/ L.pending = 0 \/ L.stuck = TRUE \/ b.pc = "sent"
    \/ /\ L.pending = K.pending /\ L.stuck = K.stuck
       /\ \/ J[j].pc \notin Ending
          \/ J[j].pc # "sent" /\ (b.pc \in Ending \/ j # L.pending)

LEMMA WaitsKept ==
    ASSUME NEW J \in [Jobs -> Job], NEW K \in Consumer, NEW L \in Consumer, Waits(J, K),
           NEW j \in Jobs, NEW b \in Job, NEW I,
           \A i \in Jobs : I[i] = IF i = j THEN b ELSE J[i],
           StillWaits(J, K, L, j, b)
    PROVE  Waits(I, L)
<1> SUFFICES ASSUME L.pending # 0, L.stuck = FALSE
    PROVE I[L.pending].pc \in Ending \/ \E i \in Jobs : I[i].pc = "sent"
  BY DEF Waits
<1>1. CASE b.pc = "sent"
  BY <1>1
<1>2. CASE b.pc # "sent"
  <2>1. /\ L.pending = K.pending /\ L.stuck = K.stuck /\ L.pending \in Jobs
        /\ \/ J[j].pc \notin Ending
           \/ J[j].pc # "sent" /\ (b.pc \in Ending \/ j # L.pending)
    BY <1>2 DEF Consumer, StillWaits
  <2>2. J[L.pending].pc \in Ending \/ \E i \in Jobs : J[i].pc = "sent"
    BY <2>1 DEF Waits
  <2>3. CASE \E i \in Jobs : J[i].pc = "sent"
    BY <2>1, <2>3 DEF Ending
  <2>4. CASE J[L.pending].pc \in Ending
    BY <2>1, <2>4
  <2> QED BY <2>2, <2>3, <2>4
<1> QED BY <1>1, <1>2

LEMMA OneJob ==
    ASSUME ChatInvariant, NEW c \in Clients, NEW j \in Jobs, NEW b, NEW K \in Consumer,
           job' = [job EXCEPT ![c] = [job[c] EXCEPT ![j] = b]],
           conn' = [conn EXCEPT ![c] = K], rows' = rows,
           JobFine(b, j, rows), ~Holding(b), K.pending <= Len(rows),
           StillWaits(job[c], conn[c], K, j, b)
    PROVE  ChatInvariant'
<1>1. PICK J : J = [job[c] EXCEPT ![j] = b]
  OBVIOUS
<1>2. JobsFine(J, rows) /\ \A i \in Jobs : J[i] = IF i = j THEN b ELSE job[c][i]
  BY <1>1, ClientFacts, JobsMove
<1>3. b \in Job /\ job' = [job EXCEPT ![c] = J]
  BY <1>1 DEF JobFine
<1>4. Waits(J, K)
  <2>1. job[c] \in [Jobs -> Job] /\ conn[c] \in Consumer /\ Waits(job[c], conn[c])
    BY ClientFacts
  <2> QED BY <1>2, <1>3, <2>1, WaitsKept
<1>5. Holding(J[0]) => Holding(job[c][0]) /\ J[0].row = job[c][0].row
  BY <1>2, JobNumbers
<1> QED BY <1>2, <1>3, <1>4, <1>5, QuietStep

\* A job ends, or another event begins.
LEMMA JobEnds ==
    ASSUME ChatInvariant, NEW c \in Clients, NEW j \in Jobs, Finish(c, j), conn' = conn, rows' = rows,
           \/ job[c][j].pc \notin Ending
           \/ job[c][j].pc # "sent" /\ (conn[c].pending = 0 \/ j # conn[c].pending)
    PROVE  ChatInvariant'
<1>1. job' = [job EXCEPT ![c] = [job[c] EXCEPT ![j] = Off]]
  BY DEF Finish
<1>2. conn' = [conn EXCEPT ![c] = conn[c]]
  BY ClientFacts
<1> QED BY <1>1, <1>2, OffFine, ClientFacts, OneJob DEF StillWaits

LEMMA ReceiveKeeps ==
    ASSUME ChatInvariant, NEW c \in Clients, receive_json(c) PROVE ChatInvariant'
<1>1. PICK b : b = [Off EXCEPT !.pc = "stream"]
  OBVIOUS
<1>2. JobFine(b, 0, rows) /\ ~Holding(b)
  <2>1. b \in Job /\ b.pc = "stream"
    BY <1>1, JobNumbers DEF Off, Job, Stages
  <2> QED BY <2>1, ClientFacts DEF JobFine, Holding
<1>3. /\ job' = [job EXCEPT ![c] = [job[c] EXCEPT ![0] = b]]
      /\ conn' = [conn EXCEPT ![c] = conn[c]] /\ rows' = rows /\ job[c][0].pc = "off"
  BY <1>1, ClientFacts DEF receive_json, At
<1> QED BY <1>2, <1>3, ClientFacts, JobNumbers, OneJob DEF StillWaits, Ending

LEMMA StreamKeeps ==
    ASSUME ChatInvariant, NEW c \in Clients, NEW j \in Jobs, _stream_provider_turn(c, j)
    PROVE  ChatInvariant'
BY JobEnds DEF _stream_provider_turn, At, Ending

LEMMA ReadToolKeeps ==
    ASSUME ChatInvariant, NEW c \in Clients, NEW j \in Jobs, ReadTool(c, j) PROVE ChatInvariant'
<1>1. job[c][j].pc = "stream" /\ conn' = conn /\ rows' = rows
  BY DEF ReadTool, At
<1>2. CASE Finish(c, j)
  BY <1>1, <1>2, JobEnds DEF Ending
<1>3. CASE ~Finish(c, j)
  <2>1. PICK b : b = [job[c][j] EXCEPT !.retries = @ + 1]
    OBVIOUS
  <2>2. JobFine(job[c][j], j, rows) /\ job[c][j] \in Job
    BY ClientFacts
  <2>3. /\ b \in Job /\ b.pc = "stream" /\ b.yes = job[c][j].yes /\ b.id = job[c][j].id
        /\ b.row = job[c][j].row
    BY <1>1, <2>1, <2>2 DEF Job
  <2>4. JobFine(b, j, rows) /\ ~Holding(b)
    BY <1>1, <2>2, <2>3 DEF JobFine, Holding
  <2>5. job' = [job EXCEPT ![c] = [job[c] EXCEPT ![j] = b]] /\ conn' = [conn EXCEPT ![c] = conn[c]]
    BY <1>1, <1>3, <2>1, ClientFacts DEF ReadTool
  <2> QED BY <1>1, <2>3, <2>4, <2>5, ClientFacts, OneJob DEF StillWaits, Ending
<1> QED BY <1>2, <1>3

LEMMA AskFailsKeeps ==
    ASSUME ChatInvariant, NEW c \in Clients, NEW j \in Jobs, NEW id \in ToolIds, AskFails(c, j, id)
    PROVE  ChatInvariant'
BY JobEnds DEF AskFails, At, Ending

LEMMA AnswerKeeps ==
    ASSUME ChatInvariant, NEW c \in Clients, NEW id \in ToolIds, NEW yes \in BOOLEAN,
           _handle_confirmation_response(c, id, yes) \/ _execute_confirmation_request(c, id, yes)
    PROVE  ChatInvariant'
<1>1. PICK b : /\ job' = [job EXCEPT ![c] = [job[c] EXCEPT ![0] = b]]
               /\ conn' = conn /\ rows' = rows /\ job[c][0].pc = "off"
               /\ \/ b = [pc |-> "lookup", id |-> id, row |-> 0, yes |-> yes, retries |-> 0]
                  \/ /\ b = [pc |-> "claim", id |-> id, row |-> conn[c].pending, yes |-> yes, retries |-> 0]
                     /\ conn[c].pending # 0 /\ rows[conn[c].pending].id = id
  <2>1. CASE _execute_confirmation_request(c, id, yes)
    BY <2>1 DEF _execute_confirmation_request, At
  <2>2. CASE _handle_confirmation_response(c, id, yes) /\ conn[c].pending = 0
    BY <2>2 DEF _handle_confirmation_response, At
  <2>3. CASE _handle_confirmation_response(c, id, yes) /\ conn[c].pending # 0
    BY <2>3 DEF _handle_confirmation_response, At
  <2> QED BY <2>1, <2>2, <2>3
<1>2. conn[c].pending \in 0 .. Len(rows) /\ conn[c].pending \in Jobs
  BY ClientFacts, JobNumbers
<1>3. b \in Job /\ ~Holding(b)
  BY <1>1, <1>2, JobNumbers DEF Job, Stages, Holding
<1>4. JobFine(b, 0, rows)
  BY <1>1, <1>2, <1>3, ClientFacts DEF JobFine
<1>5. conn' = [conn EXCEPT ![c] = conn[c]]
  BY <1>1, ClientFacts
<1> QED BY <1>1, <1>3, <1>4, <1>5, ClientFacts, JobNumbers, OneJob DEF StillWaits, Ending

LEMMA ClaimFailsKeeps ==
    ASSUME ChatInvariant, NEW c \in Clients, NEW j \in Jobs, ClaimFails(c, j) PROVE ChatInvariant'
<1>1. job[c][j].pc \in {"claim", "lookup"} /\ Finish(c, j) /\ rows' = rows
  BY DEF ClaimFails, At
<1>2. CASE j = 0
  <2>1. conn' = conn
    BY <1>2 DEF ClaimFails
  <2>2. job[c][j].pc # "sent" /\ (conn[c].pending = 0 \/ j # conn[c].pending)
    BY <1>1, <1>2
  <2> QED BY <1>1, <2>1, <2>2, JobEnds
<1>3. CASE j # 0
  <2>1. PICK K : K = [conn[c] EXCEPT !.stuck = TRUE, !.task = IF @ = j THEN 0 ELSE @]
    OBVIOUS
  <2>2. K \in Consumer /\ K.stuck = TRUE /\ K.pending = conn[c].pending
    BY <2>1, ClientFacts, JobNumbers DEF Consumer
  <2>3. job' = [job EXCEPT ![c] = [job[c] EXCEPT ![j] = Off]] /\ conn' = [conn EXCEPT ![c] = K]
    BY <1>1, <1>3, <2>1 DEF Finish, ClaimFails
  <2> QED BY <1>1, <2>2, <2>3, OffFine, ClientFacts, OneJob DEF StillWaits
<1> QED BY <1>2, <1>3

LEMMA DropKeeps ==
    ASSUME ChatInvariant, NEW c \in Clients, NEW j \in Jobs, DropUnavailable(c, j) PROVE ChatInvariant'
<1>1. PICK K : K = [conn[c] EXCEPT !.pending = 0]
  OBVIOUS
<1>2. K \in Consumer /\ K.pending = 0
  BY <1>1, ClientFacts, JobNumbers DEF Consumer
<1>3. /\ job' = [job EXCEPT ![c] = [job[c] EXCEPT ![j] = Off]] /\ conn' = [conn EXCEPT ![c] = K]
      /\ rows' = rows
  BY <1>1 DEF DropUnavailable, Finish
<1>4. JobFine(Off, j, rows) /\ ~Holding(Off)
  BY OffFine
<1>5. K.pending <= Len(rows)
  BY <1>2, ClientFacts
<1>6. StillWaits(job[c], conn[c], K, j, Off)
  BY <1>2 DEF StillWaits
<1> QED BY <1>2, <1>3, <1>4, <1>5, <1>6, OneJob

LEMMA AwaitKeeps ==
    ASSUME ChatInvariant, NEW c \in Clients, NEW n \in Jobs, _await_confirmation_timeout(c, n)
    PROVE  ChatInvariant'
<1> DEFINE p == conn[c].pending
<1>1. n # 0 /\ job[c][n].pc = "wait" /\ rows' = rows /\ p \in Jobs /\ p <= Len(rows)
  BY ClientFacts DEF _await_confirmation_timeout, At
<1>2. JobFine(job[c][n], n, rows) /\ job[c][n] \in Job /\ n \in 1 .. Len(rows) /\ job[c][n].id = rows[n].id
  <2>1. JobFine(job[c][n], n, rows) /\ job[c][n] \in Job
    BY ClientFacts
  <2>2. n <= Len(rows) /\ job[c][n].id = rows[n].id
    BY <1>1, <2>1 DEF JobFine
  <2> QED BY <1>1, <2>1, <2>2, JobNumbers, ClientFacts
<1>3. CASE p # 0 /\ rows[p].id = job[c][n].id
  <2>1. PICK b : b = [job[c][n] EXCEPT !.pc = "claim", !.row = p]
    OBVIOUS
  <2>2. /\ b \in Job /\ b.pc = "claim" /\ b.row = p /\ b.id = job[c][n].id /\ b.yes = job[c][n].yes
    BY <1>1, <1>2, <2>1 DEF Job, Stages
  <2>3. p \in 1 .. Len(rows)
    BY <1>1, <1>3, JobNumbers
  <2>4. JobFine(b, n, rows) /\ ~Holding(b)
    BY <1>1, <1>2, <1>3, <2>2, <2>3 DEF JobFine, Holding
  <2>5. job' = [job EXCEPT ![c] = [job[c] EXCEPT ![n] = b]] /\ conn' = [conn EXCEPT ![c] = conn[c]]
    BY <1>3, <2>1, ClientFacts DEF _await_confirmation_timeout
  <2> QED BY <1>1, <2>2, <2>4, <2>5, ClientFacts, OneJob DEF StillWaits, Ending
<1>4. CASE ~(p # 0 /\ rows[p].id = job[c][n].id)
  <2>1. PICK K : K = [conn[c] EXCEPT !.task = IF @ = n THEN 0 ELSE @]
    OBVIOUS
  <2>2. K \in Consumer /\ K.stuck = conn[c].stuck /\ K.pending = p
    BY <2>1, ClientFacts, JobNumbers DEF Consumer
  <2>3. job' = [job EXCEPT ![c] = [job[c] EXCEPT ![n] = Off]] /\ conn' = [conn EXCEPT ![c] = K]
    BY <1>4, <2>1 DEF Finish, _await_confirmation_timeout
  <2>4. n # p
    BY <1>2, <1>4
  <2> QED BY <1>1, <2>2, <2>3, <2>4, OffFine, ClientFacts, OneJob DEF StillWaits
<1> QED BY <1>3, <1>4

-----------------------------------------------------------------------------
(* Two jobs at once *)

\* The time-out task is cancelled and job j becomes b.
Turned(c, j, b) == [Cancelled(c, j, job) EXCEPT ![c][j] = b]

\* _cancel_confirmation_timeout leaves the caller's job and the event's alone.
LEMMA CancelledJobs ==
    ASSUME ChatInvariant, NEW c \in Clients, NEW j \in Jobs, NEW b, JobFine(b, j, rows)
    PROVE  \E J : /\ Turned(c, j, b) = [job EXCEPT ![c] = J] /\ JobsFine(J, rows) /\ J[j] = b
                  /\ j # 0 => J[0] = job[c][0]
<1> DEFINE t == conn[c].task
<1>1. /\ job \in [Clients -> [Jobs -> Job]] /\ JobsFine(job[c], rows) /\ job[c] \in [Jobs -> Job]
      /\ t \in Jobs
  BY ClientFacts DEF Consumer
<1>2. CASE t \in {0, j}
  <2>1. Turned(c, j, b) = [job EXCEPT ![c] = [job[c] EXCEPT ![j] = b]]
    BY <1>2 DEF Cancelled, Turned
  <2>2. /\ JobsFine([job[c] EXCEPT ![j] = b], rows)
        /\ \A i \in Jobs : [job[c] EXCEPT ![j] = b][i] = IF i = j THEN b ELSE job[c][i]
    BY <1>1, JobsMove
  <2>3. [job[c] EXCEPT ![j] = b][j] = b /\ (j # 0 => [job[c] EXCEPT ![j] = b][0] = job[c][0])
    BY <2>2, JobNumbers
  <2> QED BY <2>1, <2>2, <2>3
<1>3. CASE t \notin {0, j}
  <2> DEFINE I == [job[c] EXCEPT ![t] = Off]
  <2>1. JobFine(Off, t, rows)
    BY OffFine
  <2>2. JobsFine(I, rows) /\ \A i \in Jobs : I[i] = IF i = t THEN Off ELSE job[c][i]
    BY <1>1, <2>1, JobsMove
  <2>3. Cancelled(c, j, job) = [job EXCEPT ![c] = I]
    BY <1>3 DEF Cancelled
  <2>4. Turned(c, j, b) = [job EXCEPT ![c] = [I EXCEPT ![j] = b]]
    BY <1>1, <2>3 DEF Turned
  <2> HIDE DEF I
  <2>5. /\ JobsFine([I EXCEPT ![j] = b], rows)
        /\ \A i \in Jobs : [I EXCEPT ![j] = b][i] = IF i = j THEN b ELSE I[i]
    BY <2>2, JobsMove
  <2>6. [I EXCEPT ![j] = b][j] = b /\ (j # 0 => [I EXCEPT ![j] = b][0] = job[c][0])
    BY <1>3, <2>2, <2>5, JobNumbers
  <2> QED BY <2>4, <2>5, <2>6
<1> QED BY <1>2, <1>3

LEMMA ResolveKeeps ==
    ASSUME ChatInvariant, NEW c \in Clients, NEW j \in Jobs, _resolve_pending_confirmation(c, j)
    PROVE  ChatInvariant'
<1>1. PICK K : K = [conn[c] EXCEPT !.task = 0, !.pending = 0]
  OBVIOUS
<1>2. K \in Consumer /\ K.pending = 0
  BY <1>1, ClientFacts, JobNumbers DEF Consumer
<1>3. conn' = [conn EXCEPT ![c] = K] /\ rows' = rows /\ job[c][j].pc = "won"
  BY <1>1, ClientFacts DEF _resolve_pending_confirmation, Dropped, At
<1>4. PICK inTime \in BOOLEAN :
        job' = [Cancelled(c, j, job) EXCEPT
                  ![c][j].pc = IF job[c][j].yes /\ inTime THEN "execute" ELSE "stream"]
  BY DEF _resolve_pending_confirmation
<1>5. Cancelled(c, j, job)[c][j] = job[c][j]
  BY ClientFacts DEF Cancelled
<1>6. PICK b : b = [job[c][j] EXCEPT !.pc = IF job[c][j].yes /\ inTime THEN "execute" ELSE "stream"]
  OBVIOUS
<1>7. job' = Turned(c, j, b)
  BY <1>4, <1>5, <1>6 DEF Turned
<1>8. JobFine(job[c][j], j, rows) /\ job[c][j] \in Job /\ job[c][j].yes \in BOOLEAN
  BY ClientFacts DEF Job
<1>9. /\ b \in Job /\ b.row = job[c][j].row /\ b.id = job[c][j].id /\ b.yes = job[c][j].yes
      /\ b.pc = "stream" \/ (b.pc = "execute" /\ job[c][j].yes = TRUE)
  BY <1>6, <1>8 DEF Job, Stages
<1>10. JobFine(b, j, rows) /\ (Holding(b) => Holding(job[c][j]) /\ b.row = job[c][j].row)
  BY <1>3, <1>8, <1>9 DEF JobFine, Holding
<1>11. PICK J : /\ Turned(c, j, b) = [job EXCEPT ![c] = J] /\ JobsFine(J, rows) /\ J[j] = b
                /\ j # 0 => J[0] = job[c][0]
  BY <1>10, CancelledJobs
<1>12. Waits(J, K)
  BY <1>2 DEF Waits
<1>13. job' = [job EXCEPT ![c] = J] /\ K.pending <= Len(rows)
  BY <1>2, <1>7, <1>11, ClientFacts
<1>14. Holding(J[0]) => Holding(job[c][0]) /\ J[0].row = job[c][0].row
  BY <1>10, <1>11
<1> QED BY <1>2, <1>3, <1>11, <1>12, <1>13, <1>14, QuietStep

LEMMA UnavailableKeeps ==
    ASSUME ChatInvariant, NEW c \in Clients, NEW j \in Jobs, ConfirmationUnavailable(c, j)
    PROVE  ChatInvariant'
<1>1. PICK K : K = [conn[c] EXCEPT !.task = 0]
  OBVIOUS
<1>2. K \in Consumer /\ K.pending = conn[c].pending
  BY <1>1, ClientFacts, JobNumbers DEF Consumer
<1>3. conn' = [conn EXCEPT ![c] = K] /\ rows' = rows /\ job[c][j].pc = "lost"
  BY <1>1 DEF ConfirmationUnavailable, Dropped, At
<1>4. Cancelled(c, j, job)[c][j] = job[c][j]
  BY ClientFacts DEF Cancelled
<1>5. PICK b : b = [job[c][j] EXCEPT !.pc = "sent"]
  OBVIOUS
<1>6. job' = Turned(c, j, b)
  BY <1>4, <1>5 DEF Turned, ConfirmationUnavailable
<1>7. JobFine(job[c][j], j, rows) /\ job[c][j] \in Job
  BY ClientFacts
<1>8. b \in Job /\ b.pc = "sent" /\ b.yes = job[c][j].yes
  BY <1>5, <1>7 DEF Job, Stages
<1>9. JobFine(b, j, rows) /\ ~Holding(b)
  BY <1>3, <1>7, <1>8 DEF JobFine, Holding
<1>10. PICK J : /\ Turned(c, j, b) = [job EXCEPT ![c] = J] /\ JobsFine(J, rows) /\ J[j] = b
                /\ j # 0 => J[0] = job[c][0]
  BY <1>9, CancelledJobs
<1>11. Waits(J, K)
  BY <1>8, <1>10 DEF Waits
<1>12. Holding(J[0]) => Holding(job[c][0]) /\ J[0].row = job[c][0].row
  BY <1>9, <1>10
<1>13. job' = [job EXCEPT ![c] = J] /\ K.pending <= Len(rows)
  BY <1>2, <1>6, <1>10, ClientFacts
<1> QED BY <1>2, <1>3, <1>10, <1>11, <1>12, <1>13, QuietStep

-----------------------------------------------------------------------------
(* Steps that change rows *)

\* A claim closes a row that nobody holds: a row that is held is not open.
LEMMA ClaimKeepsOthers ==
    ASSUME ChatInvariant, NEW n \in 1 .. Len(rows), rows[n].open = TRUE, NEW by \in Answers, NEW d \in Clients
    PROVE  Kept(job[d], rows, Resolved(n, by)) /\ (Holding(job[d][0]) => job[d][0].row # n)
<1>1. JobFine(job[d][0], 0, rows) /\ RowsFine(rows) /\ Len(rows) \in Nat
  BY ClientFacts, JobNumbers
<1>2. Holding(job[d][0]) => job[d][0].row # n
  BY <1>1 DEF JobFine
<1>3. /\ Len(Resolved(n, by)) = Len(rows)
      /\ \A m \in 1 .. Len(rows) : m # n => Resolved(n, by)[m] = rows[m]
      /\ Resolved(n, by)[n].id = rows[n].id
  BY <1>1, ResolvedRow
<1>4. \A m \in 1 .. Len(rows) : Resolved(n, by)[m].id = rows[m].id
  BY <1>3
<1> QED BY <1>1, <1>2, <1>3, <1>4 DEF Kept

LEMMA ClaimStep ==
    ASSUME ChatInvariant, NEW c \in Clients, NEW j \in Jobs, NEW b, NEW n \in 1 .. Len(rows), NEW by \in Answers,
           rows[n].open = TRUE, job[c][j].pc # "sent", b.pc = "won", Holding(b) => b.row = n,
           JobFine(b, j, Resolved(n, by)), rows' = Resolved(n, by), conn' = conn,
           job' = [job EXCEPT ![c] = [job[c] EXCEPT ![j] = b]]
    PROVE  ChatInvariant'
<1> DEFINE J == [job[c] EXCEPT ![j] = b]
           R == Resolved(n, by)
<1>1. \A d \in Clients : Kept(job[d], rows, R) /\ (Holding(job[d][0]) => job[d][0].row # n)
  BY ClaimKeepsOthers
<1>2. /\ RowsFine(rows) /\ JobsFine(job[c], rows) /\ Waits(job[c], conn[c]) /\ conn[c] \in Consumer
      /\ conn[c].pending <= Len(rows) /\ job[c] \in [Jobs -> Job] /\ conn \in [Clients -> Consumer]
  BY ClientFacts
<1>3. RowsFine(R) /\ Len(R) = Len(rows)
  BY <1>2, ResolvedRow
<1>4. JobsFine(job[c], R)
  BY <1>1, <1>2, KeptFine
<1> HIDE DEF R
<1>5. JobsFine(J, R) /\ \A i \in Jobs : J[i] = IF i = j THEN b ELSE job[c][i]
  BY <1>4, JobsMove DEF R
<1>6. b \in Job /\ StillWaits(job[c], conn[c], conn[c], j, b)
  BY DEF JobFine, StillWaits, Ending
<1> HIDE DEF J
<1>7. Waits(J, conn[c])
  BY <1>2, <1>5, <1>6, WaitsKept
<1>8. ClientFine(J, conn[c], R)
  BY <1>2, <1>3, <1>5, <1>7 DEF ClientFine
<1>9. \A d \in Clients \ {c} : Apart(J[0], job[d][0])
  <2> TAKE d \in Clients \ {c}
  <2>1. CASE j = 0
    BY <1>1, <1>5, <2>1 DEF Apart
  <2>2. CASE j # 0
    BY <1>5, <2>2, JobNumbers DEF ChatInvariant
  <2> QED BY <2>1, <2>2
<1>10. conn' = [conn EXCEPT ![c] = conn[c]] /\ job' = [job EXCEPT ![c] = J] /\ rows' = R
  BY <1>2 DEF J, R
<1> QED BY <1>1, <1>3, <1>8, <1>9, <1>10, StepKeeps

LEMMA ClaimKeeps ==
    ASSUME ChatInvariant, NEW c \in Clients, NEW j \in Jobs, _claim_durable_pending_confirmation(c, j)
    PROVE  ChatInvariant'
<1> DEFINE n == claim_for_conversation(job[c][j].id, j # 0)
           by == IF j # 0 THEN "timer" ELSE IF job[c][j].yes THEN "yes" ELSE "no"
<1>1. job[c][j].pc = "claim" /\ conn' = conn
  BY DEF _claim_durable_pending_confirmation, At
<1>2. /\ JobFine(job[c][j], j, rows) /\ job[c][j] \in Job /\ RowsFine(rows) /\ job \in [Clients -> [Jobs -> Job]]
      /\ conn' = [conn EXCEPT ![c] = conn[c]] /\ conn[c] \in Consumer /\ conn[c].pending <= Len(rows)
  BY <1>1, ClientFacts
<1>3. CASE n = 0
  <2>1. PICK b : b = [job[c][j] EXCEPT !.pc = "lost"]
    OBVIOUS
  <2>2. b \in Job /\ b.pc = "lost" /\ b.yes = job[c][j].yes
    BY <1>2, <2>1 DEF Job, Stages
  <2>3. JobFine(b, j, rows) /\ ~Holding(b) /\ StillWaits(job[c], conn[c], conn[c], j, b)
    BY <1>1, <1>2, <2>2 DEF JobFine, Holding, StillWaits, Ending
  <2>4. job' = [job EXCEPT ![c] = [job[c] EXCEPT ![j] = b]] /\ rows' = rows
    BY <1>3, <2>1 DEF _claim_durable_pending_confirmation, Goto
  <2> QED BY <1>2, <2>3, <2>4, OneJob
<1>4. CASE n # 0
  <2>1. n \in 1 .. Len(rows) /\ rows[n].id = job[c][j].id /\ rows[n].open = TRUE
    BY <1>2, <1>4, ClaimFinds
  <2>2. by \in Answers
    BY DEF Answers
  <2>3. PICK b : b = [job[c][j] EXCEPT !.pc = "won"]
    OBVIOUS
  <2>4. b \in Job /\ b.pc = "won" /\ b.yes = job[c][j].yes /\ b.row = job[c][j].row /\ b.id = job[c][j].id
    BY <1>2, <2>3 DEF Job, Stages
  <2>5. job' = [job EXCEPT ![c] = [job[c] EXCEPT ![j] = b]] /\ rows' = Resolved(n, by)
    BY <1>4, <2>3 DEF _claim_durable_pending_confirmation, Goto
  <2> HIDE DEF n, by
  <2>6. b.row = n
    <3>1. b.row \in 1 .. Len(rows) /\ rows[b.row].id = rows[n].id
      BY <1>1, <1>2, <2>1, <2>4 DEF JobFine
    <3> QED BY <1>2, <2>1, <3>1 DEF RowsFine
  <2>7. Holding(b) => by = "yes"
    BY <1>2, <2>4 DEF Holding, by, JobFine
  <2>8. /\ Len(Resolved(n, by)) = Len(rows) /\ Resolved(n, by)[n].id = rows[n].id
        /\ Resolved(n, by)[n].by = by /\ Resolved(n, by)[n].ran = 0 /\ Resolved(n, by)[n].open = FALSE
    BY <1>2, <2>1, <2>2, ResolvedRow
  <2>9. JobFine(b, j, Resolved(n, by))
    BY <1>1, <1>2, <2>1, <2>4, <2>6, <2>7, <2>8 DEF JobFine
  <2> QED BY <1>1, <2>1, <2>2, <2>4, <2>5, <2>6, <2>9, ClaimStep
<1> QED BY <1>3, <1>4

LEMMA LookupKeeps ==
    ASSUME ChatInvariant, NEW c \in Clients, LookupConfirmation(c) PROVE ChatInvariant'
<1> DEFINE n == claim_for_conversation(job[c][0].id, FALSE)
           by == IF job[c][0].yes THEN "yes" ELSE "no"
<1>1. job[c][0].pc = "lookup" /\ conn' = conn /\ 0 \in Jobs
  BY JobNumbers DEF LookupConfirmation, At
<1>2. /\ JobFine(job[c][0], 0, rows) /\ job[c][0] \in Job /\ RowsFine(rows) /\ Len(rows) \in Nat
      /\ job \in [Clients -> [Jobs -> Job]] /\ Len(rows) <= MaxRows
  BY <1>1, ClientFacts DEF RowsFine
<1>3. CASE n = 0
  BY <1>1, <1>3, JobEnds DEF LookupConfirmation, Ending
<1>4. CASE n # 0
  <2>1. n \in 1 .. Len(rows) /\ rows[n].id = job[c][0].id /\ rows[n].open = TRUE
    BY <1>2, <1>4, ClaimFinds
  <2>2. by \in Answers
    BY DEF Answers
  <2>3. PICK b : b = [job[c][0] EXCEPT !.pc = "won", !.row = n]
    OBVIOUS
  <2>5. /\ job' = [job EXCEPT ![c] = [job[c] EXCEPT ![0] = [job[c][0] EXCEPT !.pc = "won", !.row = n]]]
        /\ rows' = Resolved(n, by)
    <3>1. job' = [job EXCEPT ![c][0].pc = "won", ![c][0].row = n] /\ rows' = Resolved(n, by)
      BY <1>4 DEF LookupConfirmation
    <3> HIDE DEF n, by
    <3> QED BY <1>1, <1>2, <3>1
  <2> HIDE DEF n, by
  <2>4. n \in Jobs
    BY <1>2, <2>1, JobNumbers, ChatAssumption
  <2>6. b \in Job /\ b.pc = "won" /\ b.yes = job[c][0].yes /\ b.row = n /\ b.id = job[c][0].id
    BY <1>2, <2>3, <2>4 DEF Job, Stages
  <2>7. Holding(b) => by = "yes"
    BY <2>6 DEF Holding, by
  <2>8. /\ Len(Resolved(n, by)) = Len(rows) /\ Resolved(n, by)[n].id = rows[n].id
        /\ Resolved(n, by)[n].by = by /\ Resolved(n, by)[n].ran = 0 /\ Resolved(n, by)[n].open = FALSE
    BY <1>2, <2>1, <2>2, ResolvedRow
  <2>9. JobFine(b, 0, Resolved(n, by))
    BY <1>2, <2>1, <2>6, <2>7, <2>8 DEF JobFine
  <2> QED BY <1>1, <2>1, <2>2, <2>3, <2>5, <2>6, <2>9, ClaimStep
<1> QED BY <1>3, <1>4

\* The executed mutation leaves its mark on the row that this client alone holds.
LEMMA ExecuteKeeps == ASSUME ChatInvariant, NEW c \in Clients, execute_confirmed(c) PROVE ChatInvariant'
<1> DEFINE n == job[c][0].row
<1>1. job[c][0].pc = "execute" /\ conn' = conn /\ 0 \in Jobs
  BY JobNumbers DEF execute_confirmed, At
<1>2. /\ JobFine(job[c][0], 0, rows) /\ job[c][0] \in Job /\ RowsFine(rows) /\ rows \in Seq(Row)
      /\ job \in [Clients -> [Jobs -> Job]] /\ JobsFine(job[c], rows)
      /\ conn[c] \in Consumer /\ conn[c].pending <= Len(rows) /\ Waits(job[c], conn[c])
      /\ conn' = [conn EXCEPT ![c] = conn[c]] /\ Len(rows) \in Nat
  BY <1>1, ClientFacts
<1>3. n \in 1 .. Len(rows) /\ rows[n].by = "yes" /\ rows[n].ran = 0 /\ rows[n].open = FALSE /\ rows[n] \in Row
  BY <1>1, <1>2 DEF JobFine, Holding
<1>4. CASE Finish(c, 0) /\ rows' = rows
  BY <1>1, <1>4, JobEnds DEF Ending
<1>5. CASE rows' = [rows EXCEPT ![n].ran = @ + 1] /\ Goto(c, 0, "stream")
  <2>1. PICK e : e = [rows[n] EXCEPT !.ran = @ + 1]
    OBVIOUS
  <2>2. /\ e \in Row /\ e.id = rows[n].id /\ e.by = "yes" /\ e.ran = 1 /\ e.open = FALSE
    BY <1>3, <2>1 DEF Row
  <2>3. rows' = [rows EXCEPT ![n] = e]
    BY <1>5, <2>1
  <2>4. /\ rows' \in Seq(Row) /\ Len(rows') = Len(rows)
        /\ \A m \in 1 .. Len(rows) : rows'[m] = IF m = n THEN e ELSE rows[m]
    BY <1>2, <1>3, <2>2, <2>3, ExceptSeq
  <2>5. PICK R : R = rows'
    OBVIOUS
  <2>6. /\ R \in Seq(Row) /\ Len(R) = Len(rows)
        /\ \A m \in 1 .. Len(rows) : R[m] = IF m = n THEN e ELSE rows[m]
    BY <2>4, <2>5
  <2>7. (e.open = TRUE => e.ran = 0) /\ (e.ran > 0 => e.ran = 1 /\ e.by = "yes")
    BY <2>2
  <2> HIDE DEF n
  <2>8. RowsFine(R)
    BY <1>2, <1>3, <2>2, <2>6, <2>7, RowEdit
  <2>9. PICK b : b = [job[c][0] EXCEPT !.pc = "stream"]
    OBVIOUS
  <2>10. b \in Job /\ b.pc = "stream" /\ job' = [job EXCEPT ![c] = [job[c] EXCEPT ![0] = b]]
    BY <1>2, <1>5, <2>9 DEF Job, Stages, Goto
  <2>11. JobFine(b, 0, rows) /\ JobFine(b, 0, R) /\ ~Holding(b) /\ StillWaits(job[c], conn[c], conn[c], 0, b)
    BY <1>1, <1>2, <2>6, <2>10 DEF JobFine, Holding, StillWaits, Ending
  <2>12. PICK J : J = [job[c] EXCEPT ![0] = b]
    OBVIOUS
  <2>13. JobsFine(J, rows) /\ \A i \in Jobs : J[i] = IF i = 0 THEN b ELSE job[c][i]
    <3>1. JobsFine(job[c], rows) /\ 0 \in Jobs /\ JobFine(b, 0, rows)
      BY <1>1, <1>2, <2>11
    <3>2. /\ JobsFine([job[c] EXCEPT ![0] = b], rows)
          /\ \A i \in Jobs : [job[c] EXCEPT ![0] = b][i] = IF i = 0 THEN b ELSE job[c][i]
      BY <3>1, JobsMove
    <3> QED BY <2>12, <3>2
  <2>14. \A m \in 1 .. Len(rows) : R[m].id = rows[m].id
    BY <2>2, <2>6
  <2>15. Kept(J, rows, R)
    BY <1>1, <1>2, <2>6, <2>11, <2>13, <2>14 DEF Kept
  <2>16. \A d \in Clients \ {c} : Kept(job[d], rows, R)
    <3> TAKE d \in Clients \ {c}
    <3>1. Apart(job[c][0], job[d][0])
      BY DEF ChatInvariant
    <3>2. Holding(job[d][0]) => job[d][0].row # n
      BY <1>1, <3>1 DEF Apart, Holding, n
    <3> QED BY <1>2, <2>6, <2>14, <3>2 DEF Kept
  <2>17. Waits(J, conn[c])
    <3>1. job[c] \in [Jobs -> Job] /\ conn[c] \in Consumer /\ Waits(job[c], conn[c]) /\ 0 \in Jobs /\ b \in Job
      BY <1>1, <1>2, <2>10 DEF JobsFine
    <3>2. StillWaits(job[c], conn[c], conn[c], 0, b) /\ \A i \in Jobs : J[i] = IF i = 0 THEN b ELSE job[c][i]
      BY <2>11, <2>13
    <3> QED BY <3>1, <3>2, WaitsKept
  <2>18. ClientFine(J, conn[c], R)
    BY <1>2, <2>6, <2>13, <2>15, <2>17, KeptFine DEF ClientFine
  <2>19. \A d \in Clients \ {c} : Apart(J[0], job[d][0])
    BY <1>1, <2>11, <2>13 DEF Apart
  <2>20. job' = [job EXCEPT ![c] = J] /\ rows' = R
    BY <2>5, <2>10, <2>12
  <2> QED BY <1>2, <2>8, <2>16, <2>18, <2>19, <2>20, StepKeeps
<1> QED BY <1>4, <1>5 DEF execute_confirmed

\* A connection that goes: all its jobs end, and a claim on its way may commit.
LEMMA GoneKeeps ==
    ASSUME ChatInvariant, NEW c \in Clients, NEW u \in BOOLEAN, NEW R,
           rows' = R, RowsFine(R), \A d \in Clients : Kept(job[d], rows, R),
           conn' = [conn EXCEPT ![c] = [NewConsumer EXCEPT !.up = u]],
           job' = [job EXCEPT ![c] = [j \in Jobs |-> Off]]
    PROVE  ChatInvariant'
<1>1. PICK K : K = [NewConsumer EXCEPT !.up = u]
  OBVIOUS
<1>2. K \in Consumer /\ K.pending = 0
  BY <1>1, JobNumbers DEF NewConsumer, Consumer
<1>3. PICK J : J = [j \in Jobs |-> Off]
  OBVIOUS
<1>4. JobsFine(J, R) /\ J[0] = Off
  <2>1. Off \in Job /\ \A j \in Jobs : JobFine(Off, j, R)
    BY OffFine
  <2> QED BY <1>3, <2>1, JobNumbers DEF JobsFine
<1>5. Waits(J, K) /\ K.pending <= Len(R)
  BY <1>2 DEF Waits, RowsFine
<1>6. \A d \in Clients \ {c} : Apart(J[0], job[d][0])
  BY <1>4, OffFine DEF Apart
<1>7. ClientFine(J, K, R)
  BY <1>2, <1>4, <1>5 DEF ClientFine
<1>8. job' = [job EXCEPT ![c] = J] /\ conn' = [conn EXCEPT ![c] = K]
  BY <1>1, <1>3
<1> QED BY <1>6, <1>7, <1>8, StepKeeps

LEMMA RowsStill == ASSUME ChatInvariant, NEW d \in Clients PROVE Kept(job[d], rows, rows)
BY ClientFacts DEF Kept

LEMMA DisconnectKeeps == ASSUME ChatInvariant, NEW c \in Clients, disconnect(c) PROVE ChatInvariant'
<1>1. /\ conn' = [conn EXCEPT ![c] = [NewConsumer EXCEPT !.up = FALSE]]
      /\ job' = [job EXCEPT ![c] = [j \in Jobs |-> Off]]
  BY DEF disconnect
<1>2. RowsFine(rows)
  BY DEF ChatInvariant
<1>3. CASE rows' = rows
  BY <1>1, <1>2, <1>3, RowsStill, GoneKeeps
<1>4. CASE rows' # rows
  <2>1. PICK n \in Jobs \ {0} :
          /\ claim_for_conversation(job[c][n].id, TRUE) # 0
          /\ rows' = Resolved(claim_for_conversation(job[c][n].id, TRUE), "timer")
    BY <1>4 DEF disconnect
  <2>2. PICK m : m = claim_for_conversation(job[c][n].id, TRUE)
    OBVIOUS
  <2>3. m \in 1 .. Len(rows) /\ rows[m].open = TRUE
    BY <1>2, <2>1, <2>2, ClaimFinds
  <2>4. "timer" \in Answers
    BY DEF Answers
  <2>5. PICK R : R = Resolved(m, "timer")
    OBVIOUS
  <2>6. RowsFine(R) /\ \A d \in Clients : Kept(job[d], rows, R)
    BY <1>2, <2>3, <2>4, <2>5, ResolvedRow, ClaimKeepsOthers
  <2> QED BY <1>1, <2>1, <2>2, <2>5, <2>6, GoneKeeps
<1> QED BY <1>3, <1>4

LEMMA CrashKeeps == ASSUME ChatInvariant, NEW c \in Clients, ServerCrash(c) PROVE ChatInvariant'
<1>1. RowsFine(rows) /\ rows' = rows
  BY DEF ChatInvariant, ServerCrash
<1>2. /\ conn' = [conn EXCEPT ![c] = [NewConsumer EXCEPT !.up = FALSE]]
      /\ job' = [job EXCEPT ![c] = [j \in Jobs |-> Off]]
  BY DEF ServerCrash
<1> QED BY <1>1, <1>2, RowsStill, GoneKeeps

LEMMA ConnectKeeps == ASSUME ChatInvariant, NEW c \in Clients, connect(c) PROVE ChatInvariant'
<1>1. PICK K : K = NewConsumer
  OBVIOUS
<1>2. K \in Consumer /\ K.pending = 0
  BY <1>1, JobNumbers DEF NewConsumer, Consumer
<1>3. /\ conn' = [conn EXCEPT ![c] = K] /\ job' = [job EXCEPT ![c] = job[c]] /\ rows' = rows
      /\ JobsFine(job[c], rows) /\ K.pending <= Len(rows)
  BY <1>1, <1>2, ClientFacts DEF connect
<1>4. Waits(job[c], K)
  BY <1>2 DEF Waits
<1> QED BY <1>2, <1>3, <1>4, QuietStep

\* A fresh id: create_pending_confirmation only appends an open row.
LEMMA AskAppends ==
    ASSUME ChatInvariant, ~StableToolIds, NEW id \in ToolIds, FreshId(id), Len(rows) < MaxRows,
           create_pending_confirmation(id)
    PROVE  /\ RowsFine(rows') /\ Len(rows') = Len(rows) + 1 /\ rows'[Len(rows) + 1].id = id
           /\ \A n \in 1 .. Len(rows) : rows'[n] = rows[n]
<1> DEFINE new == [id |-> id, open |-> TRUE, due |-> FALSE, by |-> "nobody", ran |-> 0]
           old == [n \in DOMAIN rows |->
                     IF n \in Open(id) THEN [rows[n] EXCEPT !.open = FALSE, !.by = "expiry"] ELSE rows[n]]
<1>1. RowsFine(rows) /\ rows \in Seq(Row) /\ Len(rows) \in Nat /\ DOMAIN rows = 1 .. Len(rows)
  BY DEF ChatInvariant, RowsFine
<1>2. \A n \in 1 .. Len(rows) : rows[n].id # id
  BY <1>1 DEF FreshId
<1>3. old = rows
  <2>1. \A n \in DOMAIN rows : n \notin Open(id)
    BY <1>1, <1>2 DEF Open
  <2>2. old = [n \in DOMAIN rows |-> rows[n]]
    BY <2>1
  <2>3. rows = [n \in DOMAIN rows |-> rows[n]]
    BY <1>1, LenProperties
  <2> QED BY <2>2, <2>3
<1>4. rows' = Append(rows, new)
  BY <1>3 DEF create_pending_confirmation
<1>5. new \in Row /\ new.id = id /\ new.ran = 0
  BY DEF Row, Answers
<1> HIDE DEF new, old
<1>6. /\ rows' \in Seq(Row) /\ Len(rows') = Len(rows) + 1 /\ rows'[Len(rows) + 1] = new
      /\ \A n \in 1 .. Len(rows) : rows'[n] = rows[n]
  BY <1>1, <1>4, <1>5, AppendProperties
<1>7. \A n \in 1 .. Len(rows') : rows'[n] = IF n = Len(rows) + 1 THEN new ELSE rows[n]
  BY <1>1, <1>6
<1>8. Len(rows') <= MaxRows
  BY <1>1, <1>6, ChatAssumption
<1>9. \A m, n \in 1 .. Len(rows') : rows'[m].id = rows'[n].id => m = n
  <2> TAKE m, n \in 1 .. Len(rows')
  <2>1. m = Len(rows) + 1 \/ (m \in 1 .. Len(rows) /\ rows'[m] = rows[m])
    BY <1>1, <1>6
  <2>2. n = Len(rows) + 1 \/ (n \in 1 .. Len(rows) /\ rows'[n] = rows[n])
    BY <1>1, <1>6
  <2> QED BY <1>1, <1>2, <1>5, <1>6, <2>1, <2>2 DEF RowsFine
<1>10. \A n \in 1 .. Len(rows') : /\ rows'[n].open = TRUE => rows'[n].ran = 0
                                  /\ rows'[n].ran > 0 => rows'[n].ran = 1 /\ rows'[n].by = "yes"
  <2> TAKE n \in 1 .. Len(rows')
  <2>1. n = Len(rows) + 1 \/ (n \in 1 .. Len(rows) /\ rows'[n] = rows[n])
    BY <1>1, <1>6
  <2> QED BY <1>1, <1>5, <1>6, <2>1 DEF RowsFine
<1> QED BY <1>5, <1>6, <1>8, <1>9, <1>10 DEF RowsFine

LEMMA AskKeepsRows ==
    ASSUME ChatInvariant, ~StableToolIds, NEW id \in ToolIds, FreshId(id), Len(rows) < MaxRows,
           create_pending_confirmation(id)
    PROVE  \E R : /\ rows' = R /\ RowsFine(R) /\ Len(R) = Len(rows) + 1 /\ R[Len(rows) + 1].id = id
                  /\ \A d \in Clients : Kept(job[d], rows, R)
<1>1. PICK R : R = rows'
  OBVIOUS
<1>2. /\ RowsFine(R) /\ Len(R) = Len(rows) + 1 /\ R[Len(rows) + 1].id = id
      /\ \A n \in 1 .. Len(rows) : R[n] = rows[n]
  BY <1>1, AskAppends DEF RowsFine
<1>3. Len(rows) \in Nat
  BY DEF ChatInvariant, RowsFine
<1>4. \A d \in Clients : Kept(job[d], rows, R)
  BY <1>2, <1>3 DEF Kept
<1> QED BY <1>1, <1>2, <1>4

LEMMA SseAskKeeps ==
    ASSUME ChatInvariant, ~StableToolIds, NEW c \in Clients, NEW id \in ToolIds, _iter_provider_turn_events(c, id)
    PROVE  ChatInvariant'
<1>1. job[c][0].pc = "stream" /\ conn' = conn /\ 0 \in Jobs
  BY JobNumbers DEF _iter_provider_turn_events, At
<1>2. PICK R : /\ rows' = R /\ RowsFine(R) /\ Len(R) = Len(rows) + 1
               /\ \A d \in Clients : Kept(job[d], rows, R)
  BY AskKeepsRows DEF _iter_provider_turn_events
<1>3. PICK J : J = [job[c] EXCEPT ![0] = Off]
  OBVIOUS
<1>4. job' = [job EXCEPT ![c] = J] /\ conn' = [conn EXCEPT ![c] = conn[c]]
  BY <1>1, <1>3, ClientFacts DEF _iter_provider_turn_events, Finish
<1>5. /\ JobsFine(job[c], rows) /\ conn[c] \in Consumer /\ conn[c].pending <= Len(rows)
      /\ Waits(job[c], conn[c]) /\ job[c] \in [Jobs -> Job] /\ Len(rows) \in Nat /\ conn[c].pending \in Nat
  BY ClientFacts, JobNumbers
<1>6. JobsFine(J, R) /\ \A i \in Jobs : J[i] = IF i = 0 THEN Off ELSE job[c][i]
  <2>1. JobsFine(job[c], R) /\ JobFine(Off, 0, R)
    BY <1>2, <1>5, KeptFine, OffFine
  <2>2. /\ JobsFine([job[c] EXCEPT ![0] = Off], R)
        /\ \A i \in Jobs : [job[c] EXCEPT ![0] = Off][i] = IF i = 0 THEN Off ELSE job[c][i]
    BY <1>1, <2>1, JobsMove
  <2> QED BY <1>3, <2>2
<1>7. Waits(J, conn[c])
  <2>1. StillWaits(job[c], conn[c], conn[c], 0, Off) /\ Off \in Job
    BY <1>1, OffFine DEF StillWaits, Ending
  <2> QED BY <1>1, <1>5, <1>6, <2>1, WaitsKept
<1>8. ClientFine(J, conn[c], R)
  BY <1>2, <1>5, <1>6, <1>7 DEF ClientFine
<1>9. \A d \in Clients \ {c} : Kept(job[d], rows, R) /\ Apart(J[0], job[d][0])
  BY <1>1, <1>2, <1>6, OffFine DEF Apart
<1> QED BY <1>2, <1>4, <1>8, <1>9, StepKeeps

LEMMA AskKeeps ==
    ASSUME ChatInvariant, ~StableToolIds, NEW c \in Clients, NEW j \in Jobs, NEW id \in ToolIds,
           _handle_tool_call(c, j, id)
    PROVE  ChatInvariant'
<1> DEFINE n == Len(rows) + 1
<1>1. job[c][j].pc = "stream" /\ Len(rows) < MaxRows
  BY DEF _handle_tool_call, At
<1>2. PICK R : /\ rows' = R /\ RowsFine(R) /\ Len(R) = n /\ R[n].id = id
               /\ \A d \in Clients : Kept(job[d], rows, R)
  BY AskKeepsRows DEF _handle_tool_call
<1>3. /\ JobsFine(job[c], rows) /\ JobFine(job[c][j], j, rows) /\ conn[c] \in Consumer
      /\ job \in [Clients -> [Jobs -> Job]] /\ conn \in [Clients -> Consumer] /\ Len(rows) \in Nat
  BY ClientFacts
<1>4. n \in Jobs /\ n # 0 /\ n # j
  <2>1. j <= Len(rows)
    BY <1>1, <1>3 DEF JobFine
  <2> QED BY <1>1, <1>3, <2>1, ChatAssumption, JobNumbers
<1>5. PICK K : K = [conn[c] EXCEPT !.pending = n, !.task = n]
  OBVIOUS
<1>6. K \in Consumer /\ K.pending = n
  BY <1>3, <1>4, <1>5 DEF Consumer
<1>7. PICK b : b = [Off EXCEPT !.pc = "wait", !.id = id]
  OBVIOUS
<1>8. b \in Job /\ b.pc = "wait" /\ b.id = id /\ b.yes = FALSE
  BY <1>7, JobNumbers DEF Off, Job, Stages
<1>9. conn' = [conn EXCEPT ![c] = K] /\ conn'[c].task = n
  <2>1. conn' = [conn EXCEPT ![c].pending = n, ![c].task = n]
    BY DEF _handle_tool_call, Asked
  <2> HIDE DEF n
  <2>2. conn' = [conn EXCEPT ![c] = [[conn[c] EXCEPT !.pending = n] EXCEPT !.task = n]]
    BY <1>3, <2>1
  <2>3. conn' = [conn EXCEPT ![c] = K]
    BY <1>5, <2>2
  <2>4. K.task = n
    BY <1>3, <1>5 DEF Consumer
  <2> QED BY <1>3, <2>3, <2>4
<1>10. job' = [job EXCEPT ![c] = [[job[c] EXCEPT ![j] = Off] EXCEPT ![n] = b]]
  <2>1. job' = [job EXCEPT ![c][j] = Off,
                           ![c][n] = [Off EXCEPT !.pc = IF conn'[c].task = n THEN "wait" ELSE "off", !.id = id]]
    BY DEF _handle_tool_call
  <2>2. b = [Off EXCEPT !.pc = IF conn'[c].task = n THEN "wait" ELSE "off", !.id = id]
    BY <1>7, <1>9
  <2> HIDE DEF n
  <2>3. job' = [job EXCEPT ![c][j] = Off, ![c][n] = b]
    BY <2>1, <2>2
  <2> QED BY <1>3, <2>3
<1> HIDE DEF n
<1>11. PICK I : I = [job[c] EXCEPT ![j] = Off]
  OBVIOUS
<1>12. PICK J : J = [I EXCEPT ![n] = b]
  OBVIOUS
<1>13. JobsFine(I, R) /\ \A i \in Jobs : I[i] = IF i = j THEN Off ELSE job[c][i]
  <2>1. JobsFine(job[c], R) /\ JobFine(Off, j, R)
    BY <1>2, <1>3, KeptFine, OffFine
  <2>2. /\ JobsFine([job[c] EXCEPT ![j] = Off], R)
        /\ \A i \in Jobs : [job[c] EXCEPT ![j] = Off][i] = IF i = j THEN Off ELSE job[c][i]
    BY <2>1, JobsMove
  <2> QED BY <1>11, <2>2
<1>14. JobsFine(J, R) /\ \A i \in Jobs : J[i] = IF i = n THEN b ELSE I[i]
  <2>1. JobFine(b, n, R)
    BY <1>2, <1>4, <1>8, JobNumbers DEF JobFine, Holding, RowsFine
  <2>2. /\ JobsFine([I EXCEPT ![n] = b], R)
        /\ \A i \in Jobs : [I EXCEPT ![n] = b][i] = IF i = n THEN b ELSE I[i]
    BY <1>4, <1>13, <2>1, JobsMove
  <2> QED BY <1>12, <2>2
<1>15. Waits(J, K)
  BY <1>4, <1>6, <1>8, <1>14 DEF Waits, Ending
<1>16. ClientFine(J, K, R)
  BY <1>2, <1>4, <1>6, <1>14, <1>15, JobNumbers DEF ClientFine
<1>17. \A d \in Clients \ {c} : Kept(job[d], rows, R) /\ Apart(J[0], job[d][0])
  <2> TAKE d \in Clients \ {c}
  <2>1. J[0] = Off \/ J[0] = job[c][0]
    BY <1>4, <1>13, <1>14, JobNumbers
  <2>2. Apart(J[0], job[d][0])
    BY <2>1, OffFine DEF ChatInvariant, Apart
  <2> QED BY <1>2, <2>2
<1>18. job' = [job EXCEPT ![c] = J]
  BY <1>10, <1>11, <1>12
<1> QED BY <1>2, <1>9, <1>16, <1>17, <1>18, StepKeeps

LEMMA ExpireKeeps == ASSUME ChatInvariant, RowExpires PROVE ChatInvariant'
<1>1. PICK n \in DOMAIN rows : rows' = [rows EXCEPT ![n].due = TRUE]
  BY DEF RowExpires
<1>2. RowsFine(rows) /\ rows \in Seq(Row) /\ Len(rows) \in Nat /\ DOMAIN rows = 1 .. Len(rows)
  BY DEF ChatInvariant, RowsFine
<1>3. PICK e : e = [rows[n] EXCEPT !.due = TRUE]
  OBVIOUS
<1>4. rows[n] \in Row
  BY <1>1, <1>2
<1>5. /\ e \in Row /\ e.id = rows[n].id /\ e.open = rows[n].open /\ e.ran = rows[n].ran
      /\ e.by = rows[n].by
  BY <1>3, <1>4 DEF Row
<1>6. rows' = [rows EXCEPT ![n] = e]
  BY <1>1, <1>3
<1>7. PICK R : R = rows'
  OBVIOUS
<1>8. R \in Seq(Row) /\ Len(R) = Len(rows) /\ \A m \in 1 .. Len(rows) : R[m] = IF m = n THEN e ELSE rows[m]
  BY <1>1, <1>2, <1>5, <1>6, <1>7, ExceptSeq
<1>9. (e.open = TRUE => e.ran = 0) /\ (e.ran > 0 => e.ran = 1 /\ e.by = "yes")
  BY <1>1, <1>2, <1>5 DEF RowsFine
<1>10. RowsFine(R)
  BY <1>1, <1>2, <1>5, <1>8, <1>9, RowEdit
<1>11. \A d \in Clients : Kept(job[d], rows, R)
  <2>1. \A m \in 1 .. Len(rows) : R[m].id = rows[m].id /\ R[m].by = rows[m].by /\ R[m].ran = rows[m].ran /\ R[m].open = rows[m].open
    BY <1>5, <1>8
  <2> QED BY <1>2, <1>8, <2>1 DEF Kept
<1>12. \A d \in Clients : ClientFine(job[d], conn[d], R)
  <2> TAKE d \in Clients
  <2>1. ClientFine(job[d], conn[d], rows)
    BY DEF ChatInvariant
  <2>2. JobsFine(job[d], R)
    BY <1>11, <2>1, KeptFine DEF ClientFine
  <2> QED BY <1>8, <2>1, <2>2 DEF ClientFine
<1>13. UNCHANGED <<job, conn>>
  BY DEF RowExpires
<1> QED BY <1>7, <1>10, <1>12, <1>13 DEF ChatInvariant

-----------------------------------------------------------------------------
(* The theorems *)

LEMMA ChatStep == ASSUME ChatInvariant, ~StableToolIds, [ChatNext]_chatVars PROVE ChatInvariant'
<1>1. CASE RowExpires
  BY <1>1, ExpireKeeps
<1>2. ASSUME NEW c \in Clients, receive_json(c) \/ disconnect(c) \/ ServerCrash(c) \/ connect(c)
      PROVE  ChatInvariant'
  BY <1>2, ReceiveKeeps, DisconnectKeeps, CrashKeeps, ConnectKeeps
<1>3. ASSUME NEW c \in Clients, NEW id \in ToolIds, _iter_provider_turn_events(c, id) PROVE ChatInvariant'
  BY <1>3, SseAskKeeps
<1>4. ASSUME NEW c \in Clients, NEW id \in ToolIds, NEW yes \in BOOLEAN,
             _handle_confirmation_response(c, id, yes) \/ _execute_confirmation_request(c, id, yes)
      PROVE  ChatInvariant'
  BY <1>4, AnswerKeeps
<1>5. ASSUME NEW c \in Clients, NEW j \in Jobs, JobStep(c, j) PROVE ChatInvariant'
  BY <1>5, StreamKeeps, ClaimKeeps, ResolveKeeps, UnavailableKeeps, DropKeeps, AwaitKeeps, LookupKeeps,
     ExecuteKeeps DEF JobStep
<1>6. ASSUME NEW c \in Clients, NEW j \in Jobs, ReadTool(c, j) \/ ClaimFails(c, j) PROVE ChatInvariant'
  BY <1>6, ReadToolKeeps, ClaimFailsKeeps
<1>7. ASSUME NEW c \in Clients, NEW j \in Jobs, NEW id \in ToolIds,
             _handle_tool_call(c, j, id) \/ AskFails(c, j, id)
      PROVE  ChatInvariant'
  BY <1>7, AskKeeps, AskFailsKeeps
<1>8. CASE UNCHANGED chatVars
  BY <1>8 DEF chatVars, ChatInvariant
<1> QED BY <1>1, <1>2, <1>3, <1>4, <1>5, <1>6, <1>7, <1>8 DEF ChatNext

LEMMA ChatStart == ChatInit => ChatInvariant
<1> SUFFICES ASSUME ChatInit PROVE ChatInvariant
  OBVIOUS
<1>1. rows = << >> /\ rows \in Seq(Row) /\ Len(rows) = 0
  BY DEF ChatInit
<1>2. RowsFine(rows)
  BY <1>1, ChatAssumption DEF RowsFine
<1>3. NewConsumer \in Consumer /\ NewConsumer.pending = 0
  BY JobNumbers DEF NewConsumer, Consumer
<1>4. Off \in Job /\ \A j \in Jobs : JobFine(Off, j, rows)
  BY OffFine
<1>5. /\ conn \in [Clients -> Consumer] /\ job \in [Clients -> [Jobs -> Job]]
      /\ \A c \in Clients : conn[c] = NewConsumer /\ \A j \in Jobs : job[c][j] = Off
  BY <1>3, <1>4 DEF ChatInit
<1>6. \A c \in Clients : ClientFine(job[c], conn[c], rows)
  BY <1>1, <1>3, <1>4, <1>5 DEF ClientFine, JobsFine, Waits
<1>7. \A c, d \in Clients : Apart(job[c][0], job[d][0])
  BY <1>5, OffFine, JobNumbers DEF Apart
<1> QED BY <1>2, <1>5, <1>6, <1>7 DEF ChatInvariant

LEMMA ChatInvariantSound == ChatInvariant => ChatSound
<1> SUFFICES ASSUME ChatInvariant PROVE ChatSound
  OBVIOUS
<1>1. RunsOnlyWhenConfirmed
  BY DEF ChatInvariant, RowsFine, RunsOnlyWhenConfirmed
<1>2. ASSUME NEW c \in Conns, conn[c].pending # 0, ~conn[c].stuck
      PROVE  \/ job[c][conn[c].pending].pc # "off"
             \/ \E j \in Jobs : job[c][j].pc \in {"claim", "won", "lost", "sent"}
  <2>1. c \in Clients
    BY DEF Clients
  <2>2. Waits(job[c], conn[c]) /\ conn[c].stuck \in BOOLEAN
    BY <2>1, ClientFacts DEF Consumer
  <2> QED BY <1>2, <2>2 DEF Waits, Ending
<1> QED BY <1>1, <1>2 DEF ChatSound, NeverLockedOut

\* A mutation that needs a confirmation runs at most once and only after the one
\* answer that claimed its row said yes, and a conversation whose time-out task
\* did not fail is never locked, for any clients of both transports, whatever
\* answers, time-outs, disconnects, crashes and faults race, when the ids of tool
\* calls are not used again (chat/consumer.py, chat/views.py, chat/models.py).
THEOREM ChatSoundCorrect == ~StableToolIds => (ChatSpec => []ChatSound)
<1> SUFFICES ASSUME ~StableToolIds PROVE ChatSpec => []ChatSound
  OBVIOUS
<1>1. ChatInvariant /\ [ChatNext]_chatVars => ChatInvariant'
  BY ChatStep
<1> QED BY ChatStart, <1>1, ChatInvariantSound, PTL DEF ChatSpec

-----------------------------------------------------------------------------
(* Declared rows *)

SyncStages == {"idle", "check", "compare", "row", "write", "sweep", "deactivate"}
Stored == [value : FieldValues, ref : RowKeys \cup {Omitted}, active : BOOLEAN]
TableRow == Stored \cup {Missing}
Remaining == {<<"units", "parts">>, <<"parts">>, << >>}
Results == (Interfaces \cup {"hook"}) \X {"synced", "skipped", "failed"}
Starter == [at : SyncStages, todo : Remaining, n : Nat, writes : [RowKeys -> TableRow], read : TableRow,
            sweep : SUBSET (RowKeys \X Stored), done : SUBSET Results]
Tables == [Interfaces -> [RowKeys -> TableRow]]

SyncTypes ==
    /\ data \in [Interfaces -> Seq(DeclaredRow)]
    /\ table \in Tables
    /\ starter \in [Starters -> Starter]

\* What a process in state s goes through, and the row it sees over table t.
RowsIn(d, s) == d[Head(s.todo)]
SeenIn(s, t, k) == IF s.writes[k] # Missing THEN s.writes[k] ELSE t[Head(s.todo)][k]

\* A process has an interface to synchronise unless it is idle, a current row
\* while it goes through the rows, and has written nothing before.
Placed(d, s) ==
    /\ s.at # "idle" => s.todo # << >>
    /\ s.at \in {"row", "write"} => s.n \in DOMAIN RowsIn(d, s)
    /\ s.at \in {"idle", "check", "compare"} => \A k \in RowKeys : s.writes[k] = Missing

\* The m-th declared row is the last one of its key.
Last(given, m) == m \in DOMAIN given /\ \A j \in DOMAIN given : given[j].key = given[m].key => j <= m

\* Row r is as the rows given declare key k.
AsDeclared(given, k, r) == r.active = TRUE /\ \A m \in DOMAIN given : Last(given, m) /\ given[m].key = k => Fits(r, given[m])

\* The table of interface i is as declared.
Holds(d, t, i) ==
    \A k \in RowKeys : IF Declared(d[i], k) THEN AsDeclared(d[i], k, t[i][k]) ELSE t[i][k].active = FALSE

\* The rows that a process has gone through are as declared, whoever wrote them.
Passed(d, s, t) ==
    s.at \in {"row", "write"} =>
        \A m \in DOMAIN RowsIn(d, s) :
            m < s.n /\ Last(RowsIn(d, s), m) =>
                AsDeclared(RowsIn(d, s), RowsIn(d, s)[m].key, SeenIn(s, t, RowsIn(d, s)[m].key))

\* The copy of a row that it read is still the row, or another process has since made
\* the row what it should be.
Copied(d, s, t) ==
    s.at = "write" =>
        LET k == RowsIn(d, s)[s.n].key
        IN  \/ s.read = SeenIn(s, t, k)
            \/ s.writes[k] = Missing /\ AsDeclared(RowsIn(d, s), k, t[Head(s.todo)][k])

\* After the last row all are as declared, and what is not declared is inactive or
\* about to be.
Settled(d, s, t) ==
    s.at \in {"sweep", "deactivate"} =>
        \A k \in RowKeys : Declared(RowsIn(d, s), k) => AsDeclared(RowsIn(d, s), k, SeenIn(s, t, k))
Swept(d, s, t) ==
    s.at = "deactivate" =>
        /\ \A k \in RowKeys : ~Declared(RowsIn(d, s), k) /\ SeenIn(s, t, k).active = TRUE => \E e \in s.sweep : e[1] = k
        /\ \A e \in s.sweep : ~Declared(RowsIn(d, s), e[1])

Fine(d, s, t) == Placed(d, s) /\ Passed(d, s, t) /\ Copied(d, s, t) /\ Settled(d, s, t) /\ Swept(d, s, t)

SyncInvariant ==
    /\ SyncTypes
    /\ \A p \in Starters : Fine(data, starter[p], table)
    /\ \A p \in Starters, i \in Interfaces : <<i, "synced">> \in starter[p].done => Holds(data, table, i)

-----------------------------------------------------------------------------

\* A stored row is never the mark of a missing one.
LEMMA OmittedIsNoValue == \A r \in Stored : r # Missing
BY DEF Stored, Missing, FieldValues, Omitted

\* The first interface to do, and those after it.
LEMMA Heads ==
    ASSUME NEW q \in Remaining, q # << >>
    PROVE  Head(q) \in Interfaces /\ Tail(q) \in Remaining
<1>1. CASE q = <<"units", "parts">>
  <2>1. Tail(q) = <<"parts">>
    BY <1>1
  <2>2. Head(q) = "units"
    BY <1>1
  <2>3. QED
    BY <2>1, <2>2 DEF Remaining, Interfaces
<1>2. CASE q = <<"parts">>
  <2>1. Tail(q) = << >>
    BY <1>2
  <2>2. Head(q) = "parts"
    BY <1>2
  <2>3. QED
    BY <2>1, <2>2 DEF Remaining, Interfaces
<1>3. QED
  BY <1>1, <1>2 DEF Remaining

\* An idle process has nothing to keep.
LEMMA IdleFine == ASSUME NEW d, NEW t PROVE Idle \in Starter /\ Fine(d, Idle, t) /\ Idle.done = {}
<1>1. Missing \in TableRow
  BY DEF TableRow
<1>2. [k \in RowKeys |-> Missing] \in [RowKeys -> TableRow]
  BY <1>1
<1>3. Idle \in Starter
  BY <1>1, <1>2 DEF Idle, Starter, SyncStages, Remaining
<1>4. QED
  BY <1>3 DEF Idle, Fine, Placed, Passed, Copied, Settled, Swept

\* A process that leaves an interface or the hook has nothing to keep.
LEMMA BetweenFine ==
    ASSUME NEW d, NEW t, NEW s \in Starter, s.at \in {"idle", "check", "compare"},
           s.at # "idle" => s.todo # << >>, \A k \in RowKeys : s.writes[k] = Missing
    PROVE  Fine(d, s, t)
BY DEF Fine, Placed, Passed, Copied, Settled, Swept

\* Leaving an interface records its result and keeps what was recorded.
LEMMA LeaveFine ==
    ASSUME SyncInvariant, NEW p \in Starters, starter[p].todo # << >>, NEW t, NEW r \in {"synced", "skipped"}
    PROVE  /\ Leave(p, r) \in Starter /\ Fine(data, Leave(p, r), t)
           /\ Leave(p, r).done = starter[p].done \cup {<<Interface(p), r>>}
<1>1. Idle \in Starter
  BY IdleFine
<1>2. starter[p] \in Starter
  BY DEF SyncInvariant, SyncTypes
<1>3. Interface(p) \in Interfaces /\ Tail(starter[p].todo) \in Remaining
  BY <1>2, Heads DEF Interface, Starter
<1>4. starter[p].done \cup {<<Interface(p), r>>} \in SUBSET Results
  BY <1>2, <1>3 DEF Starter, Results
<1>5. Leave(p, r) \in Starter /\ Leave(p, r).done = starter[p].done \cup {<<Interface(p), r>>}
  BY <1>1, <1>3, <1>4 DEF Leave, Starter, SyncStages
<1>6. \A k \in RowKeys : Leave(p, r).writes[k] = Missing
  BY DEF Leave, Idle
<1>7. Leave(p, r).at \in {"idle", "check"} /\ (Leave(p, r).at # "idle" => Leave(p, r).todo # << >>)
  BY DEF Leave, Idle
<1>8. QED
  BY <1>5, <1>6, <1>7, BetweenFine

\* A failing hook records that it failed.
LEMMA FailsFine ==
    ASSUME SyncInvariant, NEW p \in Starters, NEW t
    PROVE  /\ Fails(p) \in Starter /\ Fine(data, Fails(p), t)
           /\ \A i \in Interfaces : <<i, "synced">> \in Fails(p).done => <<i, "synced">> \in starter[p].done
<1>1. Idle \in Starter
  BY IdleFine
<1>2. starter[p] \in Starter
  BY DEF SyncInvariant, SyncTypes
<1>3. starter[p].done \cup {<<"hook", "failed">>} \in SUBSET Results
  BY <1>2 DEF Starter, Results
<1>4. Fails(p) \in Starter /\ Fails(p).done = starter[p].done \cup {<<"hook", "failed">>}
  BY <1>1, <1>3 DEF Fails, Starter
<1>5. \A k \in RowKeys : Fails(p).writes[k] = Missing
  BY DEF Fails, Idle
<1>6. Fails(p).at = "idle"
  BY DEF Fails, Idle
<1>7. QED
  BY <1>4, <1>5, <1>6, BetweenFine

\* A step of one process that leaves the tables alone.
LEMMA SyncStepKeeps ==
    ASSUME SyncInvariant, NEW p \in Starters, NEW s \in Starter, Goes(p, s), UNCHANGED <<data, table>>,
           Fine(data, s, table),
           \A i \in Interfaces : <<i, "synced">> \in s.done => <<i, "synced">> \in starter[p].done \/ Holds(data, table, i)
    PROVE  SyncInvariant'
<1>1. SyncTypes'
  BY DEF SyncInvariant, SyncTypes, Goes
<1>2. starter' = [starter EXCEPT ![p] = s] /\ p \in DOMAIN starter
  BY DEF Goes, SyncInvariant, SyncTypes
<1>3. \A q \in Starters : starter'[q] = IF q = p THEN s ELSE starter[q]
  BY <1>2 DEF SyncInvariant, SyncTypes
<1>4. \A q \in Starters : Fine(data', starter'[q], table')
  BY <1>3 DEF SyncInvariant
<1>5. \A q \in Starters, i \in Interfaces : <<i, "synced">> \in starter'[q].done => Holds(data', table', i)
  BY <1>3 DEF SyncInvariant
<1>6. QED
  BY <1>1, <1>4, <1>5 DEF SyncInvariant

\* A nonempty set of natural numbers has a least one.
LEMMA Least ==
    ASSUME NEW S \in SUBSET Nat, S # {}
    PROVE  \E m \in S : \A n \in S : m <= n
<1>1. IsWellFoundedOn(OpToRel(<, Nat), Nat)
  BY NatLessThanWellFounded
<1>2. PICK m \in S : \A n \in S : ~(<<n, m>> \in OpToRel(<, Nat))
  BY <1>1, WFMin
<1>3. \A n \in S : ~(n < m)
  BY <1>2 DEF OpToRel
<1>4. \A n \in S : m <= n
  BY <1>3
<1>5. QED
  BY <1>4

\* Every declared key is declared a last time.
LEMMA DeclaredLast ==
    ASSUME NEW given \in Seq(DeclaredRow), NEW k, Declared(given, k)
    PROVE  \E m \in DOMAIN given : Last(given, m) /\ given[m].key = k
<1> DEFINE len == Len(given)
           S == {len - m : m \in {j \in 1..len : given[j].key = k}}
<1>1. len \in Nat /\ DOMAIN given = 1..len
  OBVIOUS
<1>2. S \in SUBSET Nat /\ S # {}
  BY <1>1 DEF Declared
<1>3. PICK c \in S : \A n \in S : c <= n
  <2> HIDE DEF S
  <2> QED
    BY <1>2, Least
<1>4. PICK m \in 1..len : given[m].key = k /\ c = len - m
  BY <1>3
<1>5. \A j \in 1..len : given[j].key = k => j <= m
  <2> SUFFICES ASSUME NEW j \in 1..len, given[j].key = k PROVE j <= m
    OBVIOUS
  <2>1. len - j \in S
    OBVIOUS
  <2>2. c <= len - j
    BY <1>3, <2>1
  <2> HIDE DEF S, len
  <2>3. QED
    BY <1>1, <1>4, <2>2
<1>6. QED
  BY <1>1, <1>4, <1>5 DEF Last

\* What a process keeps while it goes through the rows.
LEMMA Going ==
    ASSUME SyncInvariant, NEW p \in Starters, starter[p].at # "idle"
    PROVE  /\ starter[p] \in Starter /\ Fine(data, starter[p], table) /\ starter[p].todo # << >>
           /\ Interface(p) \in Interfaces /\ Rows(p) \in Seq(DeclaredRow) /\ Rows(p) = RowsIn(data, starter[p])
           /\ \A k \in RowKeys : Sees(p, k) = SeenIn(starter[p], table, k) /\ Sees(p, k) \in TableRow
<1>1. starter[p] \in Starter /\ Fine(data, starter[p], table)
  BY DEF SyncInvariant, SyncTypes
<1>2. starter[p].todo # << >> /\ starter[p].todo \in Remaining
  BY <1>1 DEF Fine, Placed, Starter
<1>3. Interface(p) \in Interfaces
  BY <1>2, Heads DEF Interface
<1>4. Rows(p) \in Seq(DeclaredRow) /\ Rows(p) = RowsIn(data, starter[p])
  BY <1>3 DEF Rows, RowsIn, Interface, SyncInvariant, SyncTypes
<1>5. ASSUME NEW k \in RowKeys PROVE Sees(p, k) = SeenIn(starter[p], table, k) /\ Sees(p, k) \in TableRow
  <2>1. Sees(p, k) = SeenIn(starter[p], table, k)
    BY DEF Sees, SeenIn, Wrote, Interface
  <2>2. starter[p].writes[k] \in TableRow
    BY <1>1 DEF Starter
  <2>3. table[Interface(p)][k] \in TableRow
    BY <1>3 DEF SyncInvariant, SyncTypes, Tables
  <2>4. QED
    BY <2>1, <2>2, <2>3 DEF Sees
<1>6. QED
  BY <1>1, <1>2, <1>3, <1>4, <1>5

\* A row that is active is there.
LEMMA BooleanActive == \A r \in TableRow : r.active \in BOOLEAN /\ (r.active = TRUE => r # Missing /\ r \in Stored)
<1>1. Missing.active = FALSE
  BY DEF Missing
<1>2. \A r \in Stored : r.active \in BOOLEAN
  BY DEF Stored
<1>3. \A r \in TableRow : r \in Stored \/ r = Missing
  BY DEF TableRow
<1>4. ASSUME NEW r \in TableRow PROVE r.active \in BOOLEAN
  BY <1>1, <1>2, <1>3
<1>5. ASSUME NEW r \in TableRow, r.active = TRUE PROVE r # Missing
  BY <1>1, <1>5
<1>6. QED
  BY <1>3, <1>4, <1>5

\* Every declared row has one of the keys.
LEMMA RowsDeclared ==
    ASSUME NEW given \in Seq(DeclaredRow), NEW m \in DOMAIN given
    PROVE  given[m] \in DeclaredRow /\ given[m].key \in RowKeys
<1>1. given[m] \in DeclaredRow
  OBVIOUS
<1>2. QED
  BY <1>1 DEF DeclaredRow

\* get_startup_hooks.
LEMMA StartKeeps ==
    ASSUME SyncInvariant, NEW p \in Starters, get_startup_hooks(p)
    PROVE  SyncInvariant'
<1> DEFINE s == [Idle EXCEPT !.at = "check", !.todo = <<"units", "parts">>]
<1>1. Idle \in Starter /\ Idle.done = {}
  BY IdleFine
<1>2. s \in Starter /\ s.done = {} /\ s.at = "check" /\ s.todo # << >> /\ s.writes = Idle.writes
  BY <1>1 DEF Starter, SyncStages, Remaining
<1>3. \A k \in RowKeys : s.writes[k] = Missing
  BY <1>2 DEF Idle
<1>4. Fine(data, s, table)
  BY <1>2, <1>3, BetweenFine
<1>5. Goes(p, s) /\ UNCHANGED <<data, table>>
  BY DEF get_startup_hooks
<1>6. QED
  BY <1>2, <1>4, <1>5, SyncStepKeeps

\* ensure_schema_is_up_to_date.
LEMMA SchemaKeeps ==
    ASSUME SyncInvariant, NEW p \in Starters, ensure_schema_is_up_to_date(p)
    PROVE  SyncInvariant'
<1>1. starter[p].at = "check" /\ UNCHANGED <<data, table>>
  BY DEF ensure_schema_is_up_to_date, Doing
<1>2. starter[p] \in Starter /\ starter[p].todo # << >> /\ Fine(data, starter[p], table)
  BY <1>1, Going
<1>3. CASE schemaOk[Interface(p)]
  <2> DEFINE s == [starter[p] EXCEPT !.at = "compare"]
  <2>1. s \in Starter /\ s.at = "compare" /\ s.todo = starter[p].todo /\ s.done = starter[p].done /\ s.writes = starter[p].writes
    BY <1>2 DEF Starter, SyncStages
  <2>2. \A k \in RowKeys : s.writes[k] = Missing
    BY <1>1, <1>2, <2>1 DEF Fine, Placed
  <2>3. Fine(data, s, table)
    BY <1>2, <2>1, <2>2, BetweenFine
  <2>4. Goes(p, s)
    BY <1>3 DEF ensure_schema_is_up_to_date
  <2>5. QED
    BY <1>1, <2>1, <2>3, <2>4, SyncStepKeeps
<1>4. CASE ~schemaOk[Interface(p)]
  <2>1. Goes(p, Leave(p, "skipped"))
    BY <1>4 DEF ensure_schema_is_up_to_date
  <2>2. Leave(p, "skipped") \in Starter /\ Fine(data, Leave(p, "skipped"), table)
        /\ Leave(p, "skipped").done = starter[p].done \cup {<<Interface(p), "skipped">>}
    BY <1>2, LeaveFine
  <2>3. QED
    BY <1>1, <2>1, <2>2, SyncStepKeeps
<1>5. QED
  BY <1>3, <1>4

\* A comparison that finds a match has found the table as declared.
LEMMA MatchHolds ==
    ASSUME SyncInvariant, NEW p \in Starters, starter[p].at = "compare", _active_database_matches_payload(p)
    PROVE  Interface(p) = "units" /\ Holds(data, table, "units")
<1>1. Interface(p) = "units" /\ Rows(p) = data["units"]
  BY DEF _active_database_matches_payload, Rows
<1>2. ASSUME NEW k \in RowKeys PROVE table["units"][k].active \in BOOLEAN
  <2>1. table["units"][k] \in TableRow
    BY DEF SyncInvariant, SyncTypes, Tables, Interfaces
  <2>2. QED
    BY <2>1, BooleanActive
<1>3. ASSUME NEW k \in RowKeys, Declared(data["units"], k) PROVE AsDeclared(data["units"], k, table["units"][k])
  <2>1. table["units"][k].active
    BY <1>1, <1>3 DEF _active_database_matches_payload
  <2>2. table["units"][k].active = TRUE
    BY <1>2, <2>1
  <2>3. \A m \in DOMAIN data["units"] : data["units"][m].key = k => Fits(table["units"][k], data["units"][m])
    BY <1>1 DEF _active_database_matches_payload
  <2>4. QED
    BY <2>2, <2>3 DEF AsDeclared
<1>4. ASSUME NEW k \in RowKeys, ~Declared(data["units"], k) PROVE table["units"][k].active = FALSE
  <2>1. ~table["units"][k].active
    BY <1>1, <1>4 DEF _active_database_matches_payload
  <2>2. QED
    BY <1>2, <2>1
<1>5. QED
  BY <1>1, <1>3, <1>4 DEF Holds

\* _active_database_matches_payload, in or out of step with the table.
LEMMA SyncCompareKeeps ==
    ASSUME SyncInvariant, NEW p \in Starters, Compare(p)
    PROVE  SyncInvariant'
<1>1. starter[p].at = "compare" /\ UNCHANGED <<data, table>>
  BY DEF Compare, Doing
<1>2. /\ starter[p] \in Starter /\ starter[p].todo # << >> /\ Fine(data, starter[p], table)
      /\ Rows(p) \in Seq(DeclaredRow) /\ Rows(p) = RowsIn(data, starter[p])
  BY <1>1, Going
<1>3. CASE _active_database_matches_payload(p)
  <2>1. Goes(p, Leave(p, "synced"))
    BY <1>3 DEF Compare
  <2>2. Leave(p, "synced") \in Starter /\ Fine(data, Leave(p, "synced"), table)
        /\ Leave(p, "synced").done = starter[p].done \cup {<<Interface(p), "synced">>}
    BY <1>2, LeaveFine
  <2>3. Holds(data, table, Interface(p))
    BY <1>1, <1>3, MatchHolds
  <2>4. QED
    BY <1>1, <2>1, <2>2, <2>3, SyncStepKeeps
<1>4. CASE ~_active_database_matches_payload(p) /\ Rows(p) = << >>
  <2> DEFINE s == [starter[p] EXCEPT !.at = "sweep"]
  <2>1. s \in Starter /\ s.at = "sweep" /\ s.todo = starter[p].todo /\ s.done = starter[p].done
    BY <1>2 DEF Starter, SyncStages
  <2>2. RowsIn(data, s) = << >>
    BY <1>2, <1>4, <2>1 DEF RowsIn
  <2>3. \A k : ~Declared(RowsIn(data, s), k)
    BY <2>2 DEF Declared
  <2>4. Fine(data, s, table)
    <3> HIDE DEF s
    <3> QED
      BY <1>2, <2>1, <2>3 DEF Fine, Placed, Passed, Copied, Settled, Swept
  <2>5. Goes(p, s)
    BY <1>4 DEF Compare
  <2>6. QED
    BY <1>1, <2>1, <2>4, <2>5, SyncStepKeeps
<1>5. CASE ~_active_database_matches_payload(p) /\ Rows(p) # << >>
  <2> DEFINE s == [starter[p] EXCEPT !.at = "row", !.n = 1]
  <2>1. s \in Starter /\ s.at = "row" /\ s.n = 1 /\ s.todo = starter[p].todo /\ s.done = starter[p].done
    BY <1>2 DEF Starter, SyncStages
  <2>2. RowsIn(data, s) \in Seq(DeclaredRow) /\ RowsIn(data, s) # << >>
    BY <1>2, <1>5, <2>1 DEF RowsIn
  <2>3. 1 \in DOMAIN RowsIn(data, s) /\ \A m \in DOMAIN RowsIn(data, s) : ~(m < 1)
    BY <2>2
  <2>4. Fine(data, s, table)
    <3> HIDE DEF s
    <3> QED
      BY <1>2, <2>1, <2>3 DEF Fine, Placed, Passed, Copied, Settled, Swept
  <2>5. Goes(p, s)
    BY <1>5 DEF Compare
  <2>6. QED
    BY <1>1, <2>1, <2>4, <2>5, SyncStepKeeps
<1>6. QED
  BY <1>3, <1>4, <1>5

\* The row is looked up.
LEMMA LookUpKeeps ==
    ASSUME SyncInvariant, NEW p \in Starters, LookUp(p)
    PROVE  SyncInvariant'
<1>1. starter[p].at = "row" /\ UNCHANGED <<data, table>>
  BY DEF LookUp, Doing
<1>2. /\ starter[p] \in Starter /\ starter[p].todo # << >> /\ Fine(data, starter[p], table)
      /\ Rows(p) \in Seq(DeclaredRow) /\ Rows(p) = RowsIn(data, starter[p])
      /\ \A k \in RowKeys : Sees(p, k) = SeenIn(starter[p], table, k) /\ Sees(p, k) \in TableRow
  BY <1>1, Going
<1>3. CASE Goes(p, Fails(p))
  BY <1>1, <1>3, FailsFine, SyncStepKeeps
<1>4. CASE Goes(p, [starter[p] EXCEPT !.at = "write", !.read = Sees(p, Current(p).key)])
  <2> DEFINE s == [starter[p] EXCEPT !.at = "write", !.read = Sees(p, Current(p).key)]
  <2>1. starter[p].n \in DOMAIN Rows(p) /\ Current(p) = RowsIn(data, starter[p])[starter[p].n]
    BY <1>1, <1>2 DEF Fine, Placed, Current
  <2>2. Current(p).key \in RowKeys
    BY <1>2, <2>1, RowsDeclared
  <2>3. s \in Starter /\ s.at = "write" /\ s.read = Sees(p, Current(p).key) /\ s.n = starter[p].n
        /\ s.todo = starter[p].todo /\ s.done = starter[p].done /\ s.writes = starter[p].writes
    BY <1>2, <2>2 DEF Starter, SyncStages
  <2>4. RowsIn(data, s) = RowsIn(data, starter[p]) /\ \A k : SeenIn(s, table, k) = SeenIn(starter[p], table, k)
    BY <2>3 DEF RowsIn, SeenIn
  <2>5. s.read = SeenIn(s, table, RowsIn(data, s)[s.n].key)
    BY <1>2, <2>1, <2>2, <2>3, <2>4
  <2>6. Fine(data, s, table)
    <3> HIDE DEF s
    <3> QED
      BY <1>1, <1>2, <2>1, <2>3, <2>4, <2>5 DEF Fine, Placed, Passed, Copied, Settled, Swept
  <2>7. QED
    BY <1>1, <1>4, <2>3, <2>6, SyncStepKeeps
<1>5. QED
  BY <1>3, <1>4 DEF LookUp

\* A process goes on to the next row, or past the last one.
LEMMA Moved ==
    ASSUME NEW s \in Starter, NEW w \in [RowKeys -> TableRow], NEW n \in Nat
    PROVE  /\ [s EXCEPT !.at = "row", !.n = n, !.writes = w] \in Starter
           /\ [s EXCEPT !.at = "sweep", !.writes = w] \in Starter
BY DEF Starter, SyncStages

\* The row of a key that is declared a last time at the current row is as declared
\* when the process has gone through it.
LEMMA Advance ==
    ASSUME SyncInvariant, NEW p \in Starters, starter[p].at = "write",
           NEW w \in [RowKeys -> TableRow],
           \A k \in RowKeys : k # Current(p).key => w[k] = starter[p].writes[k],
           Last(Rows(p), starter[p].n) =>
             AsDeclared(Rows(p), Current(p).key, IF w[Current(p).key] # Missing THEN w[Current(p).key]
                                                 ELSE table[Interface(p)][Current(p).key]),
           Goes(p, NextRow(p, w)), UNCHANGED <<data, table>>
    PROVE  SyncInvariant'
<1> DEFINE s == starter[p]
           next == NextRow(p, w)
           given == Rows(p)
           seen(k) == IF w[k] # Missing THEN w[k] ELSE table[Interface(p)][k]
<1>1. /\ s \in Starter /\ s.todo # << >> /\ Fine(data, s, table)
      /\ given \in Seq(DeclaredRow) /\ given = RowsIn(data, s)
      /\ \A k \in RowKeys : Sees(p, k) = SeenIn(s, table, k) /\ Sees(p, k) \in TableRow
  BY Going
<1>2. s.n \in DOMAIN given /\ Current(p) = given[s.n] /\ Current(p).key \in RowKeys /\ s.n \in Nat /\ s.n <= Len(given)
  <2>1. s.n \in DOMAIN given /\ Current(p) = given[s.n]
    BY <1>1 DEF Fine, Placed, Current
  <2>2. Current(p).key \in RowKeys
    BY <1>1, <2>1, RowsDeclared
  <2>3. QED
    BY <1>1, <2>1, <2>2
<1>3. next.todo = s.todo /\ next.done = s.done /\ next.writes = w /\ next \in Starter
      /\ IF s.n < Len(given) THEN next.at = "row" /\ next.n = s.n + 1 ELSE next.at = "sweep"
  <2>1. CASE s.n < Len(given)
    <3>1. next = [s EXCEPT !.at = "row", !.n = s.n + 1, !.writes = w]
      BY <2>1 DEF NextRow
    <3>2. s.n + 1 \in Nat
      BY <1>2
    <3>3. next \in Starter
      <4> HIDE DEF next, s
      <4> QED
        BY <1>1, <3>1, <3>2, Moved, Zenon
    <3>4. next.todo = s.todo /\ next.done = s.done /\ next.writes = w /\ next.at = "row" /\ next.n = s.n + 1
      <4> HIDE DEF next
      <4> QED
        BY <1>1, <3>1 DEF Starter
    <3>5. QED
      BY <2>1, <3>3, <3>4
  <2>2. CASE ~(s.n < Len(given))
    <3>1. next = [s EXCEPT !.at = "sweep", !.writes = w]
      BY <2>2 DEF NextRow
    <3>2. next \in Starter
      <4> HIDE DEF next, s
      <4> QED
        BY <1>1, <3>1, Moved, Zenon
    <3>3. next.todo = s.todo /\ next.done = s.done /\ next.writes = w /\ next.at = "sweep"
      <4> HIDE DEF next
      <4> QED
        BY <1>1, <3>1 DEF Starter
    <3>4. QED
      BY <2>2, <3>2, <3>3
  <2>3. QED
    BY <2>1, <2>2
<1>4. RowsIn(data, next) = given
  BY <1>1, <1>3 DEF RowsIn
<1>5. \A k \in RowKeys : SeenIn(next, table, k) = seen(k)
  BY <1>3 DEF SeenIn, Interface
<1>6. \A k \in RowKeys : k # Current(p).key => seen(k) = SeenIn(s, table, k)
  BY <1>1 DEF SeenIn, Interface
<1>7. ASSUME NEW m \in DOMAIN given, m <= s.n, Last(given, m)
      PROVE  AsDeclared(given, given[m].key, seen(given[m].key))
  <2>1. given[m].key \in RowKeys
    BY <1>1, RowsDeclared
  <2>2. CASE m = s.n
    <3>1. given[m].key = Current(p).key /\ Last(given, s.n)
      BY <1>2, <1>7, <2>2
    <3>2. QED
      BY <3>1
  <2>3. CASE m # s.n
    <3>1. m < s.n
      BY <1>1, <1>2, <1>7, <2>3
    <3>2. given[m].key # Current(p).key
      BY <1>1, <1>2, <1>7, <3>1 DEF Last
    <3>3. AsDeclared(given, given[m].key, SeenIn(s, table, given[m].key))
      BY <1>1, <1>7, <3>1 DEF Fine, Passed
    <3>4. QED
      BY <1>6, <2>1, <3>2, <3>3
  <2>4. QED
    BY <2>2, <2>3
<1>8. CASE s.n < Len(given)
  <2>1. next.at = "row" /\ next.n = s.n + 1 /\ next.n \in DOMAIN given
    BY <1>1, <1>2, <1>3, <1>8
  <2>2. ASSUME NEW m \in DOMAIN given, m < next.n, Last(given, m)
        PROVE  AsDeclared(given, given[m].key, SeenIn(next, table, given[m].key))
    <3>1. m <= s.n /\ given[m].key \in RowKeys
      BY <1>1, <1>2, <2>1, <2>2, RowsDeclared
    <3> HIDE DEF seen, next, given, s
    <3>2. QED
      BY <1>5, <1>7, <2>2, <3>1
  <2>3. Fine(data, next, table)
    <3> HIDE DEF next, given, s
    <3> QED
      BY <1>1, <1>3, <1>4, <2>1, <2>2 DEF Fine, Placed, Passed, Copied, Settled, Swept
  <2>4. QED
    BY <1>3, <2>3, SyncStepKeeps
<1>9. CASE ~(s.n < Len(given))
  <2>1. next.at = "sweep" /\ s.n = Len(given)
    BY <1>1, <1>2, <1>3, <1>9
  <2>2. ASSUME NEW k \in RowKeys, Declared(given, k) PROVE AsDeclared(given, k, SeenIn(next, table, k))
    <3>1. PICK m \in DOMAIN given : Last(given, m) /\ given[m].key = k
      BY <1>1, <2>2, DeclaredLast
    <3>2. m <= s.n
      BY <1>1, <2>1
    <3> HIDE DEF seen, next, given, s
    <3>3. QED
      BY <1>5, <1>7, <2>2, <3>1, <3>2
  <2>3. Fine(data, next, table)
    <3> HIDE DEF next, given, s
    <3> QED
      BY <1>1, <1>3, <1>4, <2>1, <2>2 DEF Fine, Placed, Passed, Copied, Settled, Swept
  <2>4. QED
    BY <1>3, <2>3, SyncStepKeeps
<1>10. QED
  BY <1>8, <1>9

\* A row that gets the declared fields fits the declaration.
LEMMA AssignedFits ==
    ASSUME NEW r \in Stored, NEW declared \in DeclaredRow
    PROVE  /\ Assigned(r, declared) \in Stored
           /\ Assigned(r, declared).active = TRUE
           /\ Fits(Assigned(r, declared), declared)
<1>1. r.value \in FieldValues /\ r.ref \in RowKeys \cup {Omitted} /\ r.active \in BOOLEAN
  BY DEF Stored
<1>2. declared.value \in FieldValues \cup {Omitted} /\ declared.ref \in RowKeys \cup {Omitted}
  BY DEF DeclaredRow
<1> DEFINE v == IF declared.value = Omitted THEN r.value ELSE declared.value
           f == IF declared.ref = Omitted THEN r.ref ELSE declared.ref
           new == Assigned(r, declared)
<1>3. v \in FieldValues /\ f \in RowKeys \cup {Omitted}
  BY <1>1, <1>2
<1>4. new = [value |-> v, ref |-> f, active |-> TRUE]
  BY DEF Assigned, StoredRow
<1>5. new \in Stored /\ new.active = TRUE /\ new.value = v /\ new.ref = f
  <2> HIDE DEF v, f
  <2> QED
    BY <1>3, <1>4 DEF Stored
<1>6. Fits(new, declared)
  <2> HIDE DEF new
  <2> QED
    BY <1>5 DEF Fits
<1>7. QED
  BY <1>5, <1>6

\* A row that fits the last declaration of its key and is active is as declared.
LEMMA LastFits ==
    ASSUME NEW given \in Seq(DeclaredRow), NEW m, Last(given, m), NEW r, r.active = TRUE, Fits(r, given[m])
    PROVE  AsDeclared(given, given[m].key, r)
<1> SUFFICES ASSUME NEW j \in DOMAIN given, Last(given, j), given[j].key = given[m].key PROVE Fits(r, given[j])
  BY DEF AsDeclared
<1>1. m \in DOMAIN given /\ m <= j /\ j <= m
  BY DEF Last
<1>2. j = m
  BY <1>1
<1>3. QED
  BY <1>2

\* A row that is there is updated.
LEMMA UpdateRowKeeps ==
    ASSUME SyncInvariant, NEW p \in Starters, UpdateRow(p)
    PROVE  SyncInvariant'
<1> DEFINE s == starter[p]
           k == Current(p).key
           row == IF Fits(s.read, Current(p)) THEN Sees(p, k) ELSE Assigned(s.read, Current(p))
           new == StoredRow(row.value, row.ref, TRUE)
<1>1. s.at = "write" /\ UNCHANGED <<data, table>> /\ s.read # Missing
  BY DEF UpdateRow, Doing
<1>2. /\ s \in Starter /\ s.todo # << >> /\ Fine(data, s, table)
      /\ Rows(p) \in Seq(DeclaredRow) /\ Rows(p) = RowsIn(data, s)
      /\ \A j \in RowKeys : Sees(p, j) = SeenIn(s, table, j) /\ Sees(p, j) \in TableRow
  BY <1>1, Going
<1>3. s.n \in DOMAIN Rows(p) /\ Current(p) = Rows(p)[s.n] /\ k \in RowKeys /\ Current(p) \in DeclaredRow
  <2>1. s.n \in DOMAIN Rows(p) /\ Current(p) = Rows(p)[s.n]
    BY <1>1, <1>2 DEF Fine, Placed, Current
  <2>2. QED
    BY <1>2, <2>1, RowsDeclared
<1>4. s.read \in Stored /\ s.writes \in [RowKeys -> TableRow]
  BY <1>1, <1>2 DEF Starter, TableRow
<1>5. \/ s.read = Sees(p, k)
      \/ s.writes[k] = Missing /\ Sees(p, k) = table[Interface(p)][k] /\ AsDeclared(Rows(p), k, Sees(p, k))
  BY <1>1, <1>2, <1>3 DEF Fine, Copied, Interface, SeenIn
<1>6. Sees(p, k) \in Stored
  <2>1. CASE s.read = Sees(p, k)
    BY <1>4, <2>1
  <2>2. CASE AsDeclared(Rows(p), k, Sees(p, k))
    BY <1>2, <1>3, <2>2, BooleanActive DEF AsDeclared
  <2>3. QED
    BY <1>5, <2>1, <2>2
<1>7. CASE Fits(s.read, Current(p)) /\ s.read.active
  <2>1. Goes(p, NextRow(p, s.writes))
    BY <1>7 DEF UpdateRow
  <2>2. ASSUME Last(Rows(p), s.n), s.read = Sees(p, k) PROVE AsDeclared(Rows(p), k, Sees(p, k))
    <3>1. s.read.active = TRUE
      BY <1>4, <1>7, BooleanActive DEF TableRow
    <3>2. QED
      BY <1>2, <1>3, <1>7, <2>2, <3>1, LastFits
  <2>3. Last(Rows(p), s.n) => AsDeclared(Rows(p), k, Sees(p, k))
    BY <1>5, <2>2
  <2>4. Sees(p, k) = IF s.writes[k] # Missing THEN s.writes[k] ELSE table[Interface(p)][k]
    BY <1>2, <1>3 DEF SeenIn, Interface
  <2>5. QED
    BY <1>1, <1>4, <2>1, <2>3, <2>4, Advance
<1>8. CASE ~(Fits(s.read, Current(p)) /\ s.read.active)
  <2> DEFINE w == Written(p, k, new)
  <2>1. Goes(p, NextRow(p, w))
    BY <1>8 DEF UpdateRow
  <2>2. row \in Stored /\ (Last(Rows(p), s.n) => Fits(row, Current(p)))
    <3>1. CASE ~Fits(s.read, Current(p))
      BY <1>3, <1>4, <3>1, AssignedFits
    <3>2. CASE Fits(s.read, Current(p))
      <4>1. row = Sees(p, k)
        BY <3>2
      <4>2. ASSUME Last(Rows(p), s.n), AsDeclared(Rows(p), k, Sees(p, k)) PROVE Fits(Sees(p, k), Current(p))
        BY <1>3, <4>2 DEF AsDeclared, Last
      <4>3. QED
        BY <1>5, <1>6, <3>2, <4>1, <4>2
    <3>3. QED
      BY <3>1, <3>2
  <2>3. new \in Stored /\ new.active = TRUE /\ (Last(Rows(p), s.n) => Fits(new, Current(p)))
    <3> HIDE DEF row
    <3>1. row.value \in FieldValues /\ row.ref \in RowKeys \cup {Omitted}
      BY <2>2 DEF Stored
    <3>2. new \in Stored /\ new.active = TRUE /\ new.value = row.value /\ new.ref = row.ref
      BY <3>1 DEF StoredRow, Stored
    <3> HIDE DEF new
    <3>3. QED
      BY <2>2, <3>2 DEF Fits
  <2>4. Last(Rows(p), s.n) => AsDeclared(Rows(p), k, new)
    <3> HIDE DEF new
    <3> QED
      BY <1>2, <1>3, <2>3, LastFits
  <2>5. w \in [RowKeys -> TableRow] /\ w[k] = new /\ \A j \in RowKeys : j # k => w[j] = s.writes[j]
    <3> HIDE DEF new, k
    <3> QED
      BY <1>3, <1>4, <2>3 DEF Written, TableRow
  <2>6. new # Missing
    <3> HIDE DEF new
    <3> QED
      BY <2>3, OmittedIsNoValue
  <2>7. Last(Rows(p), s.n) => AsDeclared(Rows(p), k, IF w[k] # Missing THEN w[k] ELSE table[Interface(p)][k])
    BY <2>4, <2>5, <2>6
  <2> HIDE DEF w
  <2>8. QED
    BY <1>1, <2>1, <2>5, <2>7, Advance
<1>9. QED
  BY <1>7, <1>8

\* A row that is not there is created.
LEMMA CreateRowKeeps ==
    ASSUME SyncInvariant, NEW p \in Starters, CreateRow(p)
    PROVE  SyncInvariant'
<1> DEFINE s == starter[p]
           k == Current(p).key
           new == StoredRow(IF Current(p).value = Omitted THEN "old" ELSE Current(p).value, Current(p).ref, TRUE)
<1>1. s.at = "write" /\ UNCHANGED <<data, table>>
  BY DEF CreateRow, Doing
<1>2. /\ s \in Starter /\ s.todo # << >> /\ Fine(data, s, table)
      /\ Rows(p) \in Seq(DeclaredRow) /\ Rows(p) = RowsIn(data, s)
  BY <1>1, Going
<1>3. CASE Goes(p, Fails(p))
  BY <1>1, <1>3, FailsFine, SyncStepKeeps
<1>4. CASE Goes(p, NextRow(p, Written(p, k, new)))
  <2>1. s.n \in DOMAIN Rows(p) /\ Current(p) = Rows(p)[s.n]
    BY <1>1, <1>2 DEF Fine, Placed, Current
  <2>2. k \in RowKeys /\ Current(p) \in DeclaredRow
    BY <1>2, <2>1, RowsDeclared
  <2>3. Current(p).value \in FieldValues \cup {Omitted} /\ Current(p).ref \in RowKeys \cup {Omitted}
    BY <2>2 DEF DeclaredRow
  <2>4. new \in Stored /\ new.active = TRUE /\ Fits(new, Current(p))
    BY <2>3 DEF StoredRow, Stored, Fits, FieldValues
  <2>5. Last(Rows(p), s.n) => AsDeclared(Rows(p), k, new)
    <3> HIDE DEF new
    <3> QED
      BY <1>2, <2>1, <2>4, LastFits
  <2> DEFINE w == Written(p, k, new)
  <2>6. s.writes \in [RowKeys -> TableRow]
    BY <1>2 DEF Starter
  <2>7. w \in [RowKeys -> TableRow] /\ w[k] = new /\ \A j \in RowKeys : j # k => w[j] = s.writes[j]
    <3> HIDE DEF new, k
    <3> QED
      BY <2>2, <2>4, <2>6 DEF Written, TableRow
  <2>8. new # Missing
    BY <2>4, OmittedIsNoValue
  <2>9. Last(Rows(p), s.n) => AsDeclared(Rows(p), k, IF w[k] # Missing THEN w[k] ELSE table[Interface(p)][k])
    BY <2>5, <2>7, <2>8
  <2> HIDE DEF w
  <2>10. QED
    BY <1>1, <1>4, <2>7, <2>9, Advance DEF w
<1>5. QED
  BY <1>3, <1>4 DEF CreateRow

\* The active rows that are not declared are listed.
LEMMA ListActiveKeeps ==
    ASSUME SyncInvariant, NEW p \in Starters, ListActive(p)
    PROVE  SyncInvariant'
<1> DEFINE active == {j \in RowKeys : Sees(p, j).active /\ ~Declared(Rows(p), j)}
           listed == {<<k, Sees(p, k)>> : k \in active}
           s == [starter[p] EXCEPT !.at = "deactivate", !.sweep = listed]
<1>1. starter[p].at = "sweep" /\ UNCHANGED <<data, table>> /\ Goes(p, s)
  BY DEF ListActive, Doing
<1>2. /\ starter[p] \in Starter /\ starter[p].todo # << >> /\ Fine(data, starter[p], table)
      /\ Rows(p) \in Seq(DeclaredRow) /\ Rows(p) = RowsIn(data, starter[p])
      /\ \A k \in RowKeys : Sees(p, k) = SeenIn(starter[p], table, k) /\ Sees(p, k) \in TableRow
  BY <1>1, Going
<1>3. listed \in SUBSET (RowKeys \X Stored)
  <2> SUFFICES ASSUME NEW k \in RowKeys, Sees(p, k).active PROVE <<k, Sees(p, k)>> \in RowKeys \X Stored
    OBVIOUS
  <2>1. Sees(p, k).active = TRUE
    BY <1>2, BooleanActive
  <2>2. Sees(p, k) \in Stored
    BY <1>2, <2>1, BooleanActive
  <2>3. QED
    BY <2>2
<1>4. /\ s \in Starter /\ s.at = "deactivate" /\ s.sweep = listed /\ s.n = starter[p].n
      /\ s.todo = starter[p].todo /\ s.done = starter[p].done /\ s.writes = starter[p].writes
  <2> HIDE DEF listed
  <2> QED
    BY <1>2, <1>3 DEF Starter, SyncStages
<1>5. RowsIn(data, s) = Rows(p) /\ \A k \in RowKeys : SeenIn(s, table, k) = Sees(p, k)
  BY <1>2, <1>4 DEF RowsIn, SeenIn
<1>6. ASSUME NEW k \in RowKeys, ~Declared(RowsIn(data, s), k), SeenIn(s, table, k).active = TRUE
      PROVE  \E e \in s.sweep : e[1] = k
  <2>1. k \in active
    BY <1>5, <1>6
  <2>2. <<k, Sees(p, k)>> \in s.sweep
    BY <1>4, <2>1
  <2>3. QED
    BY <2>2
<1>7. \A e \in s.sweep : ~Declared(RowsIn(data, s), e[1])
  <2>1. \A k \in active : <<k, Sees(p, k)>>[1] = k /\ ~Declared(Rows(p), k)
    OBVIOUS
  <2>2. \A e \in listed : ~Declared(Rows(p), e[1])
    BY <2>1
  <2> HIDE DEF s, listed
  <2>3. QED
    BY <1>4, <1>5, <2>2
<1>8. Fine(data, s, table)
  <2>1. \A k \in RowKeys : SeenIn(s, table, k) = SeenIn(starter[p], table, k)
    BY <1>2, <1>5
  <2> HIDE DEF s
  <2>2. QED
    BY <1>1, <1>2, <1>4, <1>5, <1>6, <1>7, <2>1 DEF Fine, Placed, Passed, Copied, Settled, Swept
<1>9. QED
  BY <1>1, <1>4, <1>8, SyncStepKeeps

\* One of them is saved as inactive.
LEMMA DeactivateKeeps ==
    ASSUME SyncInvariant, NEW p \in Starters, Deactivate(p)
    PROVE  SyncInvariant'
<1>1. starter[p].at = "deactivate" /\ UNCHANGED <<data, table>>
  BY DEF Deactivate, Doing
<1>2. /\ starter[p] \in Starter /\ starter[p].todo # << >> /\ Fine(data, starter[p], table)
      /\ Rows(p) \in Seq(DeclaredRow) /\ Rows(p) = RowsIn(data, starter[p])
  BY <1>1, Going
<1>3. PICK entry \in starter[p].sweep :
        Goes(p, [starter[p] EXCEPT !.sweep = @ \ {entry}, !.writes = Written(p, entry[1], [entry[2] EXCEPT !.active = FALSE])])
  BY DEF Deactivate
<1> DEFINE new == [entry[2] EXCEPT !.active = FALSE]
           w == Written(p, entry[1], new)
           s == [starter[p] EXCEPT !.sweep = @ \ {entry}, !.writes = w]
<1>4. entry[1] \in RowKeys /\ entry[2] \in Stored /\ starter[p].writes \in [RowKeys -> TableRow]
      /\ starter[p].sweep \in SUBSET (RowKeys \X Stored)
  BY <1>2 DEF Starter
<1>5. new \in Stored /\ new.active = FALSE /\ new # Missing
  <2>1. new \in Stored /\ new.active = FALSE
    BY <1>4 DEF Stored
  <2> HIDE DEF new
  <2>2. QED
    BY <2>1, OmittedIsNoValue
<1>6. w \in [RowKeys -> TableRow] /\ w[entry[1]] = new /\ \A j \in RowKeys : j # entry[1] => w[j] = starter[p].writes[j]
  <2> HIDE DEF new
  <2> QED
    BY <1>4, <1>5 DEF Written, TableRow
<1>7. /\ s \in Starter /\ s.at = "deactivate" /\ s.sweep = starter[p].sweep \ {entry} /\ s.n = starter[p].n
      /\ s.todo = starter[p].todo /\ s.done = starter[p].done /\ s.writes = w
  <2>1. starter[p].sweep \ {entry} \in SUBSET (RowKeys \X Stored)
    BY <1>4
  <2> HIDE DEF w
  <2>2. QED
    BY <1>1, <1>2, <1>6, <2>1 DEF Starter
<1>8. RowsIn(data, s) = RowsIn(data, starter[p])
  BY <1>7 DEF RowsIn
<1>9. SeenIn(s, table, entry[1]) = new /\ \A j \in RowKeys : j # entry[1] => SeenIn(s, table, j) = SeenIn(starter[p], table, j)
  <2> HIDE DEF w, new, s
  <2> QED
    BY <1>4, <1>5, <1>6, <1>7 DEF SeenIn
<1>10. ~Declared(RowsIn(data, s), entry[1])
  BY <1>1, <1>2, <1>8 DEF Fine, Swept
<1>11. ASSUME NEW k \in RowKeys, Declared(RowsIn(data, s), k) PROVE AsDeclared(RowsIn(data, s), k, SeenIn(s, table, k))
  <2>1. k # entry[1]
    BY <1>10, <1>11
  <2>2. AsDeclared(RowsIn(data, starter[p]), k, SeenIn(starter[p], table, k))
    BY <1>1, <1>2, <1>8, <1>11 DEF Fine, Settled
  <2> HIDE DEF s
  <2>3. QED
    BY <1>8, <1>9, <2>1, <2>2
<1>12. ASSUME NEW k \in RowKeys, ~Declared(RowsIn(data, s), k), SeenIn(s, table, k).active = TRUE
       PROVE  \E e \in s.sweep : e[1] = k
  <2> HIDE DEF s, w, new
  <2>1. k # entry[1]
    BY <1>5, <1>9, <1>12
  <2>2. PICK e \in starter[p].sweep : e[1] = k
    BY <1>1, <1>2, <1>8, <1>9, <1>12, <2>1 DEF Fine, Swept
  <2>3. QED
    BY <1>7, <2>1, <2>2
<1>13. \A e \in s.sweep : ~Declared(RowsIn(data, s), e[1])
  <2> HIDE DEF s, w
  <2> QED
    BY <1>1, <1>2, <1>7, <1>8 DEF Fine, Swept
<1>14. Fine(data, s, table)
  <2> HIDE DEF s, w
  <2> QED
    BY <1>2, <1>7, <1>11, <1>12, <1>13 DEF Fine, Placed, Passed, Copied, Settled, Swept
<1>15. QED
  BY <1>1, <1>3, <1>7, <1>14, SyncStepKeeps

\* A transaction that commits the declared rows of an interface disturbs no other one.
LEMMA CommitImproves ==
    ASSUME NEW d, NEW s \in Starter, NEW t \in Tables, NEW t2 \in Tables, NEW i \in Interfaces,
           d \in [Interfaces -> Seq(DeclaredRow)],
           Fine(d, s, t), Holds(d, t2, i), \A j \in Interfaces : j # i => t2[j] = t[j]
    PROVE  Fine(d, s, t2)
<1>1. CASE s.todo = << >>
  <2>1. s.at = "idle" /\ \A k \in RowKeys : s.writes[k] = Missing
    BY <1>1 DEF Fine, Placed
  <2>2. QED
    BY <2>1, BetweenFine
<1>2. CASE s.todo # << >> /\ Head(s.todo) # i
  <2>1. Head(s.todo) \in Interfaces
    BY <1>2, Heads DEF Starter
  <2>2. t2[Head(s.todo)] = t[Head(s.todo)] /\ \A k : SeenIn(s, t2, k) = SeenIn(s, t, k)
    BY <1>2, <2>1 DEF SeenIn
  <2>3. QED
    BY <2>2 DEF Fine, Placed, Passed, Copied, Settled, Swept
<1>3. CASE s.todo # << >> /\ Head(s.todo) = i
  <2> DEFINE given == RowsIn(d, s)
  <2>1. given = d[i] /\ given \in Seq(DeclaredRow)
    BY <1>3 DEF RowsIn
  <2>2. ASSUME NEW k \in RowKeys, Declared(given, k) PROVE AsDeclared(given, k, t2[i][k])
    BY <2>1, <2>2 DEF Holds
  <2>3. ASSUME NEW k \in RowKeys, Declared(given, k), AsDeclared(given, k, SeenIn(s, t, k))
        PROVE  AsDeclared(given, k, SeenIn(s, t2, k))
    BY <1>3, <2>2, <2>3 DEF SeenIn
  <2>4. \A m \in DOMAIN given : given[m].key \in RowKeys /\ Declared(given, given[m].key)
    BY <2>1, RowsDeclared DEF Declared
  <2>5. Passed(d, s, t2)
    <3>1. Passed(d, s, t)
      BY DEF Fine
    <3> HIDE DEF given
    <3>2. ASSUME s.at \in {"row", "write"}, NEW m \in DOMAIN given, m < s.n, Last(given, m)
          PROVE  AsDeclared(given, given[m].key, SeenIn(s, t2, given[m].key))
      <4>1. AsDeclared(given, given[m].key, SeenIn(s, t, given[m].key))
        BY <3>1, <3>2 DEF Passed, given
      <4>2. QED
        BY <2>3, <2>4, <4>1
    <3>3. QED
      BY <3>2 DEF Passed, given
  <2>6. Copied(d, s, t2)
    <3> SUFFICES ASSUME s.at = "write"
                 PROVE  LET k == given[s.n].key
                        IN  s.read = SeenIn(s, t2, k) \/ (s.writes[k] = Missing /\ AsDeclared(given, k, t2[Head(s.todo)][k]))
      BY DEF Copied
    <3> DEFINE k == given[s.n].key
    <3>1. k \in RowKeys /\ Declared(given, k)
      BY <2>4 DEF Fine, Placed
    <3>2. \/ s.read = SeenIn(s, t, k)
          \/ s.writes[k] = Missing
      BY DEF Fine, Copied
    <3>3. CASE s.writes[k] = Missing
      BY <1>3, <2>2, <3>1, <3>3
    <3>4. CASE s.writes[k] # Missing
      BY <3>2, <3>4 DEF SeenIn
    <3>5. QED
      BY <3>3, <3>4
  <2>7. Settled(d, s, t2)
    BY <2>3 DEF Fine, Settled
  <2>8. Swept(d, s, t2)
    <3>1. ASSUME NEW k \in RowKeys, ~Declared(given, k), SeenIn(s, t2, k).active = TRUE
          PROVE  SeenIn(s, t, k).active = TRUE
      <4>1. t2[i][k].active = FALSE
        BY <2>1, <3>1 DEF Holds
      <4>2. s.writes[k] # Missing
        BY <1>3, <3>1, <4>1 DEF SeenIn
      <4>3. QED
        BY <3>1, <4>2 DEF SeenIn
    <3>2. QED
      BY <3>1 DEF Fine, Swept
  <2>9. QED
    BY <2>5, <2>6, <2>7, <2>8 DEF Fine, Placed
<1>4. QED
  BY <1>1, <1>2, <1>3

\* The transaction commits.
LEMMA FinishKeeps ==
    ASSUME SyncInvariant, NEW p \in Starters, FinishSync(p)
    PROVE  SyncInvariant'
<1> DEFINE s == starter[p]
           i == Interface(p)
           given == Rows(p)
           processed == {k \in RowKeys : Declared(given, k)}
           final(k) == IF k \in processed /\ Sees(p, k) # Missing THEN [Sees(p, k) EXCEPT !.active = TRUE] ELSE Sees(p, k)
           leave == Leave(p, "synced")
<1>1. /\ s.at = "deactivate" /\ s.sweep = {} /\ UNCHANGED data /\ Goes(p, leave)
      /\ table' = [table EXCEPT ![i] = [k \in RowKeys |-> final(k)]]
  BY DEF FinishSync, Doing
<1>2. /\ s \in Starter /\ s.todo # << >> /\ Fine(data, s, table) /\ i \in Interfaces
      /\ given \in Seq(DeclaredRow) /\ given = RowsIn(data, s)
      /\ \A k \in RowKeys : Sees(p, k) = SeenIn(s, table, k) /\ Sees(p, k) \in TableRow
  BY <1>1, Going
<1>3. ASSUME NEW k \in RowKeys PROVE final(k) = Sees(p, k) /\ (Declared(given, k) => AsDeclared(given, k, Sees(p, k)))
  <2>1. Declared(given, k) => AsDeclared(given, k, Sees(p, k))
    BY <1>1, <1>2 DEF Fine, Settled
  <2>2. CASE ~Declared(given, k)
    BY <2>2
  <2>3. CASE Declared(given, k)
    <3>1. Sees(p, k).active = TRUE /\ Sees(p, k) \in Stored
      BY <1>2, <2>1, <2>3, BooleanActive DEF AsDeclared
    <3>2. [Sees(p, k) EXCEPT !.active = TRUE] = Sees(p, k)
      BY <3>1 DEF Stored
    <3> HIDE DEF processed
    <3>3. QED
      BY <2>1, <3>2
  <2>4. QED
    BY <2>1, <2>2, <2>3
<1>4. table \in Tables /\ data \in [Interfaces -> Seq(DeclaredRow)]
  BY DEF SyncInvariant, SyncTypes
<1>5. [k \in RowKeys |-> final(k)] = [k \in RowKeys |-> Sees(p, k)]
  <2> HIDE DEF final
  <2> QED
    BY <1>3
<1>6. table' = [table EXCEPT ![i] = [k \in RowKeys |-> Sees(p, k)]]
  BY <1>1, <1>5, Zenon
<1>7. [k \in RowKeys |-> Sees(p, k)] \in [RowKeys -> TableRow]
  BY <1>2
<1>8. /\ table' \in Tables /\ \A k \in RowKeys : table'[i][k] = Sees(p, k)
      /\ \A j \in Interfaces : j # i => table'[j] = table[j]
  <2> HIDE DEF i
  <2> QED
    BY <1>2, <1>4, <1>6, <1>7 DEF Tables
<1>9. Holds(data', table', i)
  <2>1. given = data[i]
    BY DEF Rows
  <2>2. ASSUME NEW k \in RowKeys, ~Declared(given, k) PROVE Sees(p, k).active = FALSE
    <3>1. ~(SeenIn(s, table, k).active = TRUE)
      BY <1>1, <1>2, <2>2 DEF Fine, Swept
    <3>2. Sees(p, k).active \in BOOLEAN
      BY <1>2, BooleanActive
    <3>3. QED
      BY <1>2, <3>1, <3>2
  <2> HIDE DEF final, given, i, processed
  <2>3. QED
    BY <1>1, <1>3, <1>8, <2>1, <2>2 DEF Holds
<1>10. leave \in Starter /\ Fine(data, leave, table') /\ leave.done = s.done \cup {<<i, "synced">>}
  BY <1>2, LeaveFine
<1>11. starter' = [starter EXCEPT ![p] = leave] /\ starter \in [Starters -> Starter]
  BY <1>1 DEF Goes, SyncInvariant, SyncTypes
<1>12. \A q \in Starters : starter'[q] = IF q = p THEN leave ELSE starter[q]
  BY <1>11
<1>13. SyncTypes'
  <2> HIDE DEF leave
  <2> QED
    BY <1>1, <1>4, <1>8, <1>10, <1>11 DEF SyncTypes
<1>14. ASSUME NEW q \in Starters PROVE Fine(data', starter'[q], table')
  <2>1. starter[q] \in Starter /\ Fine(data, starter[q], table)
    BY DEF SyncInvariant, SyncTypes
  <2>2. Fine(data, starter[q], table')
    <3> HIDE DEF i
    <3> QED
      BY <1>1, <1>2, <1>4, <1>8, <1>9, <2>1, CommitImproves
  <2>3. QED
    BY <1>1, <1>10, <1>12, <2>2
<1>15. ASSUME NEW q \in Starters, NEW j \in Interfaces, <<j, "synced">> \in starter'[q].done PROVE Holds(data', table', j)
  <2>1. CASE j = i
    BY <1>9, <2>1
  <2>2. CASE j # i
    <3>1. <<j, "synced">> \in starter[q].done
      BY <1>10, <1>12, <1>15, <2>2
    <3>2. Holds(data, table, j)
      BY <3>1 DEF SyncInvariant
    <3>3. QED
      BY <1>1, <1>8, <2>2, <3>2 DEF Holds
  <2>3. QED
    BY <2>1, <2>2
<1>16. QED
  BY <1>13, <1>14, <1>15 DEF SyncInvariant

\* The database ends the transaction.
LEMMA LostKeeps ==
    ASSUME SyncInvariant, NEW p \in Starters, TransactionLost(p)
    PROVE  SyncInvariant'
<1>1. Goes(p, Fails(p)) /\ UNCHANGED <<data, table>>
  BY DEF TransactionLost
<1>2. QED
  BY <1>1, FailsFine, SyncStepKeeps

\* A process starts again.
LEMMA RestartKeeps ==
    ASSUME SyncInvariant, NEW p \in Starters, Restart(p)
    PROVE  SyncInvariant'
<1>1. Goes(p, Idle) /\ UNCHANGED <<data, table>>
  BY DEF Restart
<1>2. QED
  BY <1>1, IdleFine, SyncStepKeeps

\* The invariant holds at first, whatever an earlier version of the code left in the tables.
LEMMA SyncStarts == SyncInit => SyncInvariant
<1> SUFFICES ASSUME SyncInit PROVE SyncInvariant
  OBVIOUS
<1>1. data \in [Interfaces -> Seq(DeclaredRow)]
  BY SyncAssumption DEF SyncInit
<1>2. Missing \in TableRow /\ \A v \in FieldValues, a \in BOOLEAN, r \in RowKeys \cup {Omitted} : StoredRow(v, r, a) \in TableRow
  BY DEF TableRow, StoredRow, Stored
<1>3. PICK u \in [RowKeys -> {Missing} \cup {StoredRow(v, Omitted, a) : v \in FieldValues, a \in BOOLEAN}],
           t \in {[k \in RowKeys |-> Missing]} \cup {[k \in RowKeys |-> StoredRow("old", k, a)] : a \in BOOLEAN} :
        table = [units |-> u, parts |-> t]
  BY DEF SyncInit
<1>4. u \in [RowKeys -> TableRow]
  BY <1>2
<1>5. t \in [RowKeys -> TableRow]
  BY <1>2 DEF FieldValues
<1>6. table \in Tables
  BY <1>3, <1>4, <1>5 DEF Tables, Interfaces
<1>7. starter = [p \in Starters |-> Idle]
  BY DEF SyncInit
<1>8. \A p \in Starters : starter[p] = Idle
  BY <1>7
<1>9. starter \in [Starters -> Starter]
  BY <1>7, IdleFine
<1>10. SyncTypes
  BY <1>1, <1>6, <1>9 DEF SyncTypes
<1>11. QED
  BY <1>8, <1>10, IdleFine DEF SyncInvariant

\* Every step keeps it.
LEMMA SyncSteps == SyncInvariant /\ [SyncNext]_syncVars => SyncInvariant'
<1> SUFFICES ASSUME SyncInvariant, [SyncNext]_syncVars PROVE SyncInvariant'
  OBVIOUS
<1>1. ASSUME NEW p \in Starters, SyncStep(p) PROVE SyncInvariant'
  BY <1>1, StartKeeps, SchemaKeeps, SyncCompareKeeps, LookUpKeeps, UpdateRowKeeps, CreateRowKeeps,
     ListActiveKeeps, DeactivateKeeps, FinishKeeps DEF SyncStep
<1>2. CASE UNCHANGED syncVars
  BY <1>2 DEF syncVars, SyncInvariant, SyncTypes
<1>3. QED
  BY <1>1, <1>2, LostKeeps, RestartKeeps DEF SyncNext

\* A table as declared carries the declared rows.
LEMMA HoldsCarries ==
    ASSUME SyncTypes, NEW i \in Interfaces, Holds(data, table, i)
    PROVE  Carries(i)
<1>1. data[i] \in Seq(DeclaredRow)
  BY DEF SyncTypes
<1>2. ASSUME NEW k \in RowKeys, Declared(data[i], k) PROVE table[i][k].active = TRUE /\ Fits(table[i][k], LastDeclared(data[i], k))
  <2> DEFINE given == data[i]
             P(n) == n \in DOMAIN given /\ given[n].key = k /\ \A m \in DOMAIN given : given[m].key = k => m <= n
             n0 == CHOOSE n \in DOMAIN given : given[n].key = k /\ \A m \in DOMAIN given : given[m].key = k => m <= n
  <2>1. \E n \in DOMAIN given : given[n].key = k /\ \A m \in DOMAIN given : given[m].key = k => m <= n
    BY <1>1, <1>2, DeclaredLast DEF Last
  <2>2. n0 \in DOMAIN given /\ given[n0].key = k /\ \A m \in DOMAIN given : given[m].key = k => m <= n0
    BY <2>1
  <2>3. Last(given, n0)
    <3> HIDE DEF n0
    <3> QED
      BY <2>2 DEF Last
  <2>4. AsDeclared(given, k, table[i][k])
    BY <1>2 DEF Holds
  <2>5. Fits(table[i][k], given[n0]) /\ table[i][k].active = TRUE
    <3> HIDE DEF n0
    <3> QED
      BY <2>2, <2>3, <2>4 DEF AsDeclared
  <2>6. QED
    BY <2>5 DEF LastDeclared
<1>3. \A k \in RowKeys : ~Declared(data[i], k) => table[i][k].active = FALSE
  BY DEF Holds
<1>4. QED
  BY <1>2, <1>3 DEF Carries

\* Once a process has synchronised an interface, its active rows are the declared ones
\* with the declared fields and stay so, for any processes, keys and declarations and
\* whatever rows were there before, while others read, write, fail and start again
\* (interface/capabilities/read_only/management.py).
THEOREM SyncRowsStay == SyncSpec => []SyncedStaysDeclared
<1>1. SyncInvariant => SyncedStaysDeclared
  BY HoldsCarries DEF SyncInvariant, SyncedStaysDeclared
<1>2. QED
  BY <1>1, SyncStarts, SyncSteps, PTL DEF SyncSpec

-----------------------------------------------------------------------------
(* Warm-up recipes *)

Op == IndexNames \X {"add", "remove"} \X WarmKeys
Recipe == [scope : {"none", "timeout", "dependency"}, refresh_at : Nat]
Between == {"idle", "batch", "register", "next", "scan", "execute"}
WarmWorker ==
    [pc : Between \cup {"index", "write", "release", "delete"}, todo : Seq(WarmKeys), found : SUBSET (Nat \X WarmKeys),
     key : WarmKeys \cup {0}, ops : Seq(Op), after : {"idle", "register", "scan", "unlock"}, read : SUBSET WarmKeys,
     lock : LockNames \cup {0}, then : {"idle", "index", "next"}, owns : SUBSET LockNames]

WarmTypes ==
    /\ recipes \in [WarmKeys -> Recipe]
    /\ index \in [IndexNames -> SUBSET WarmKeys]
    /\ locks \in [LockNames -> WarmWorkers \cup {NoOwner}]
    /\ worker \in [WarmWorkers -> WarmWorker]
    /\ scope \in [WarmKeys -> {"timeout", "dependency"}]
    /\ redis \in BOOLEAN /\ ticks \in Nat /\ warmFaults \in Nat

\* Where a worker is: it has a key to execute and give back, an index update to write
\* and the lock for it, and updates are pending only while it makes them.
WarmPlaced(r) ==
    /\ IsFiniteSet(r.found)
    /\ r.pc = "execute" \/ r.after = "unlock" => r.key \in WarmKeys
    /\ r.pc = "write" => r.ops # << >> /\ r.lock = Head(r.ops)[1]
    /\ r.pc \in {"release", "delete"} => r.lock \in LockNames /\ (r.then = "index" => r.lock \in IndexNames)
    /\ r.pc \in Between \/ (r.pc \in {"release", "delete"} /\ r.then # "index") => r.ops = << >>
    /\ redis => r.pc # "delete"

\* A worker that executes a recipe and registers it anew.
Keeping(r) ==
    \/ r.pc = "execute"
    \/ r.after = "unlock" /\ (r.pc \in {"index", "write"} \/ (r.pc \in {"release", "delete"} /\ r.then = "index"))

\* While nothing has failed or expired: a worker has the lock it works under, its copy of
\* an index is the index, and what it adds or goes over has a recipe.
Undisturbed(r, rs, ix) ==
    /\ r.pc \in {"write", "release", "delete"} => r.lock \in r.owns
    /\ Keeping(r) => r.key \in r.owns
    /\ r.after # "scan"
    /\ r.pc = "write" => r.read = ix[r.lock]
    /\ \A i \in DOMAIN r.ops : r.ops[i][2] = "add" /\ rs[r.ops[i][3]] # NoRecipe
    /\ r.pc = "scan" => \A i \in DOMAIN r.todo : rs[r.todo[i]] # NoRecipe
Registered(rs, ix, ws, k, n) ==
    k \in ix[n] \/ \E w \in WarmWorkers : \E i \in DOMAIN ws[w].ops : ws[w].ops[i][1] = n /\ ws[w].ops[i][3] = k
Indexed ==
    /\ \A k \in WarmKeys : scope[k] = "timeout" /\ (recipes[k] # NoRecipe => recipes[k].scope = "timeout")
    /\ \A n \in IndexNames : \A k \in index[n] : recipes[k] # NoRecipe
    /\ \A w \in WarmWorkers : Undisturbed(worker[w], recipes, index)
    /\ \A k \in WarmKeys, n \in IndexNames : recipes[k] # NoRecipe => Registered(recipes, index, worker, k, n)

WarmInvariant ==
    /\ WarmTypes
    /\ \A w \in WarmWorkers : WarmPlaced(worker[w])
    /\ redis \/ warmFaults = 0 => \A w \in WarmWorkers : \A n \in worker[w].owns : locks[n] = w
    /\ warmFaults = 0 => Indexed

-----------------------------------------------------------------------------

\* The keys of sorted entries are a sequence of keys.
LEMMA SortedKeys ==
    ASSUME NEW F \in SUBSET (Nat \X WarmKeys), IsFiniteSet(F), NEW s \in Sorted(F)
    PROVE  /\ KeysOf(s) \in Seq(WarmKeys) /\ Len(KeysOf(s)) = Len(s)
           /\ \A i \in DOMAIN KeysOf(s) : \E e \in F : KeysOf(s)[i] = e[2]
<1>1. Cardinality(F) \in Nat
  BY FS_CardinalityType
<1>2. s \in [1..Cardinality(F) -> F] /\ DOMAIN s = 1..Cardinality(F)
  BY DEF Sorted
<1>3. \A i \in DOMAIN s : s[i][2] \in WarmKeys
  BY <1>2
<1>4. KeysOf(s) \in [1..Cardinality(F) -> WarmKeys] /\ DOMAIN KeysOf(s) = DOMAIN s
  BY <1>2, <1>3 DEF KeysOf
<1>5. KeysOf(s) \in Seq(WarmKeys) /\ Len(KeysOf(s)) = Len(s)
  BY <1>1, <1>2, <1>4
<1>6. QED
  BY <1>2, <1>4, <1>5 DEF KeysOf

\* An idle worker has nothing to keep.
LEMMA IdleWorks == IdleWorker \in WarmWorker /\ WarmPlaced(IdleWorker) /\ IdleWorker.owns = {} /\ IdleWorker.ops = << >>
<1>1. << >> \in Seq(WarmKeys) /\ << >> \in Seq(Op)
  OBVIOUS
<1>2. IdleWorker \in WarmWorker
  BY <1>1 DEF IdleWorker, WarmWorker, Between
<1>3. IsFiniteSet(IdleWorker.found)
  BY FS_EmptySet DEF IdleWorker
<1>4. QED
  BY <1>2, <1>3 DEF IdleWorker, WarmPlaced

\* A step of one worker that takes no lock from another one.
LEMMA WarmStepKeeps ==
    ASSUME WarmInvariant, NEW w \in WarmWorkers, NEW r \in WarmWorker, WarmStep(w, r), WarmPlaced(r),
           recipes' \in [WarmKeys -> Recipe], index' \in [IndexNames -> SUBSET WarmKeys],
           locks' \in [LockNames -> WarmWorkers \cup {NoOwner}], warmFaults' \in Nat,
           warmFaults' = 0 => warmFaults = 0 /\ Indexed',
           redis \/ warmFaults' = 0 =>
             /\ \A n \in r.owns : locks'[n] = w
             /\ \A v \in WarmWorkers \ {w}, n \in LockNames : locks[n] = v => locks'[n] = v
    PROVE  WarmInvariant'
<1>1. worker' = [worker EXCEPT ![w] = r] /\ UNCHANGED <<scope, redis, ticks>>
  BY DEF WarmStep
<1>2. worker \in [WarmWorkers -> WarmWorker] /\ WarmTypes
  BY DEF WarmInvariant, WarmTypes
<1>3. \A v \in WarmWorkers : worker'[v] = IF v = w THEN r ELSE worker[v]
  BY <1>1, <1>2
<1>4. worker' \in [WarmWorkers -> WarmWorker]
  BY <1>1, <1>2
<1>5. WarmTypes'
  BY <1>1, <1>2, <1>4 DEF WarmTypes
<1>6. \A v \in WarmWorkers : WarmPlaced(worker[v])'
  <2> TAKE v \in WarmWorkers
  <2>1. CASE v = w
    <3>1. worker'[v] = r
      BY <1>3, <2>1
    <3>2. QED
      BY <1>1, <3>1 DEF WarmPlaced
  <2>2. CASE v # w
    <3>1. worker'[v] = worker[v] /\ WarmPlaced(worker[v])
      BY <1>3, <2>2 DEF WarmInvariant
    <3>2. QED
      BY <1>1, <3>1 DEF WarmPlaced
  <2>3. QED
    BY <2>1, <2>2
<1>7. ASSUME redis' \/ warmFaults' = 0, NEW v \in WarmWorkers, NEW n \in worker'[v].owns PROVE locks'[n] = v
  <2>1. redis \/ (warmFaults' = 0 /\ warmFaults = 0)
    BY <1>1, <1>7
  <2>2. CASE v = w
    BY <1>3, <1>7, <2>1, <2>2
  <2>3. CASE v # w
    <3>1. n \in worker[v].owns /\ worker[v].owns \in SUBSET LockNames
      BY <1>2, <1>3, <1>7, <2>3 DEF WarmWorker
    <3>2. locks[n] = v
      BY <2>1, <3>1 DEF WarmInvariant
    <3>3. QED
      BY <2>1, <2>3, <3>1, <3>2
  <2>4. QED
    BY <2>2, <2>3
<1>8. QED
  BY <1>5, <1>6, <1>7 DEF WarmInvariant

\* A step of one worker that leaves recipes and indexes alone and keeps its updates.
LEMMA QuietKeeps ==
    ASSUME WarmInvariant, NEW w \in WarmWorkers, NEW r \in WarmWorker, WarmStep(w, r), WarmPlaced(r),
           UNCHANGED <<recipes, index, warmFaults>>,
           locks' \in [LockNames -> WarmWorkers \cup {NoOwner}],
           warmFaults = 0 => Undisturbed(r, recipes, index),
           \A i \in DOMAIN worker[w].ops : \E j \in DOMAIN r.ops : r.ops[j] = worker[w].ops[i],
           redis \/ warmFaults = 0 =>
             /\ \A n \in r.owns : locks'[n] = w
             /\ \A v \in WarmWorkers \ {w}, n \in LockNames : locks[n] = v => locks'[n] = v
    PROVE  WarmInvariant'
<1>1. worker' = [worker EXCEPT ![w] = r] /\ UNCHANGED <<scope, redis, ticks>>
  BY DEF WarmStep
<1>2. worker \in [WarmWorkers -> WarmWorker] /\ WarmTypes
  BY DEF WarmInvariant, WarmTypes
<1>3. \A v \in WarmWorkers : worker'[v] = IF v = w THEN r ELSE worker[v]
  BY <1>1, <1>2
<1>4. ASSUME warmFaults = 0 PROVE Indexed'
  <2>1. Indexed
    BY <1>4 DEF WarmInvariant
  <2>2. \A v \in WarmWorkers : Undisturbed(worker'[v], recipes', index')
    BY <1>3, <1>4, <2>1 DEF Indexed
  <2>3. ASSUME NEW k \in WarmKeys, NEW n \in IndexNames, recipes'[k] # NoRecipe
        PROVE  Registered(recipes', index', worker', k, n)
    <3>1. Registered(recipes, index, worker, k, n)
      BY <2>1, <2>3 DEF Indexed
    <3>2. CASE k \in index[n]
      BY <3>2 DEF Registered
    <3>3. CASE \E v \in WarmWorkers : \E i \in DOMAIN worker[v].ops : worker[v].ops[i][1] = n /\ worker[v].ops[i][3] = k
      <4>1. PICK v \in WarmWorkers : \E i \in DOMAIN worker[v].ops : worker[v].ops[i][1] = n /\ worker[v].ops[i][3] = k
        BY <3>3
      <4>2. \E i \in DOMAIN worker'[v].ops : worker'[v].ops[i][1] = n /\ worker'[v].ops[i][3] = k
        <5>1. CASE v = w
          <6>1. PICK i \in DOMAIN worker[w].ops : worker[w].ops[i][1] = n /\ worker[w].ops[i][3] = k
            BY <4>1, <5>1
          <6>2. PICK j \in DOMAIN r.ops : r.ops[j] = worker[w].ops[i]
            OBVIOUS
          <6>3. QED
            BY <1>3, <5>1, <6>1, <6>2
        <5>2. CASE v # w
          BY <1>3, <4>1, <5>2
        <5>3. QED
          BY <5>1, <5>2
      <4>3. QED
        BY <4>2 DEF Registered
    <3>4. QED
      BY <3>1, <3>2, <3>3 DEF Registered
  <2>4. QED
    BY <1>1, <2>1, <2>2, <2>3 DEF Indexed
<1>5. QED
  BY <1>2, <1>4, WarmStepKeeps DEF WarmTypes

\* What the invariant says of one worker.
LEMMA Working ==
    ASSUME WarmInvariant, NEW w \in WarmWorkers
    PROVE  /\ worker[w] \in WarmWorker /\ WarmPlaced(worker[w])
           /\ warmFaults = 0 => Indexed /\ Undisturbed(worker[w], recipes, index)
           /\ redis \/ warmFaults = 0 => \A n \in worker[w].owns : locks[n] = w
           /\ WarmTypes
BY DEF WarmInvariant, WarmTypes, Indexed

\* A task begins.
LEMMA BeginKeeps ==
    ASSUME WarmInvariant, NEW w \in WarmWorkers, NEW pc \in {"batch", "next", "scan"}, NEW K \in SUBSET WarmKeys,
           pc = "scan" => K \subseteq index[TimeoutIndex], BeginTask(w, pc, K)
    PROVE  WarmInvariant'
<1>1. {0} \X K \in SUBSET (Nat \X WarmKeys) /\ IsFiniteSet({0} \X K)
  <2>1. IsFiniteSet(K)
    BY WarmAssumption, FS_Subset
  <2>2. IsFiniteSet({0})
    BY FS_Singleton
  <2>3. IsFiniteSet({0} \X K)
    BY <2>1, <2>2, FS_Product
  <2>4. QED
    BY <2>3
<1>2. PICK s \in Sorted({0} \X K) : WarmStep(w, [IdleWorker EXCEPT !.pc = pc, !.todo = KeysOf(s)])
  BY DEF BeginTask
<1> DEFINE r == [IdleWorker EXCEPT !.pc = pc, !.todo = KeysOf(s)]
<1>3. KeysOf(s) \in Seq(WarmKeys) /\ \A i \in DOMAIN KeysOf(s) : \E e \in {0} \X K : KeysOf(s)[i] = e[2]
  BY <1>1, SortedKeys
<1>4. \A i \in DOMAIN KeysOf(s) : KeysOf(s)[i] \in K
  BY <1>3
<1>5. /\ r \in WarmWorker /\ r.pc = pc /\ r.todo = KeysOf(s) /\ r.ops = << >> /\ r.owns = {} /\ r.after = "idle" /\ r.found = {}
  <2> HIDE DEF KeysOf
  <2>1. IdleWorker.after = "idle" /\ IdleWorker.found = {}
    BY DEF IdleWorker
  <2>2. QED
    BY <1>3, <2>1, IdleWorks DEF WarmWorker, Between
<1>6. worker[w].pc = "idle" /\ UNCHANGED <<recipes, index, locks, warmFaults>>
  BY DEF BeginTask, Here
<1>7. WarmPlaced(r)
  <2> HIDE DEF r
  <2> QED
    BY <1>5, FS_EmptySet DEF WarmPlaced
<1>8. worker[w].ops = << >>
  BY <1>6, Working DEF WarmPlaced, Between
<1>9. warmFaults = 0 => Undisturbed(r, recipes, index)
  <2> SUFFICES ASSUME warmFaults = 0 PROVE Undisturbed(r, recipes, index)
    OBVIOUS
  <2>1. Indexed
    BY Working
  <2>2. pc = "scan" => \A i \in DOMAIN KeysOf(s) : recipes[KeysOf(s)[i]] # NoRecipe
    BY <1>4, <2>1 DEF Indexed, IndexNames
  <2> HIDE DEF r
  <2>3. QED
    BY <1>5, <2>2 DEF Undisturbed, Keeping
<1>10. locks' \in [LockNames -> WarmWorkers \cup {NoOwner}]
  BY <1>6 DEF WarmInvariant, WarmTypes
<1> HIDE DEF r
<1>11. QED
  BY <1>2, <1>5, <1>6, <1>7, <1>8, <1>9, <1>10, QuietKeeps DEF r

\* Each of the three tasks begins.
LEMMA TasksKeep ==
    ASSUME WarmInvariant, NEW w \in WarmWorkers,
           warm_up_graphql_properties(w) \/ warm_up_graphql_recipes_task(w) \/ refresh_due_graphql_warmup_recipes(w)
    PROVE  WarmInvariant'
<1>1. index[TimeoutIndex] \in SUBSET WarmKeys
  BY DEF WarmInvariant, WarmTypes, IndexNames
<1>2. QED
  BY <1>1, BeginKeeps DEF warm_up_graphql_properties, warm_up_graphql_recipes_task, refresh_due_graphql_warmup_recipes

\* A worker that has no update pending goes on without touching locks.
LEMMA GoesOnKeeps ==
    ASSUME WarmInvariant, NEW w \in WarmWorkers, NEW r \in WarmWorker, WarmStep(w, r), worker[w].pc \in Between, r.pc \in Between \ {"execute"},
           r.ops = worker[w].ops, r.owns = worker[w].owns, r.after = worker[w].after, IsFiniteSet(r.found),
           r.pc = "execute" \/ r.after = "unlock" => r.key \in WarmKeys,
           r.pc = "scan" => worker[w].pc = "scan" /\ \A i \in DOMAIN r.todo : \E j \in DOMAIN worker[w].todo : r.todo[i] = worker[w].todo[j],
           UNCHANGED <<recipes, index, locks>>, warmFaults' \in Nat, warmFaults' \in {warmFaults, warmFaults + 1}
    PROVE  WarmInvariant'
<1>1. worker[w].ops = << >>
  BY Working DEF WarmPlaced
<1>2. WarmPlaced(r)
  BY <1>1 DEF WarmPlaced, Between
<1>3. locks' \in [LockNames -> WarmWorkers \cup {NoOwner}] /\ recipes' \in [WarmKeys -> Recipe] /\ index' \in [IndexNames -> SUBSET WarmKeys]
      /\ warmFaults \in Nat
  BY DEF WarmInvariant, WarmTypes
<1>4. redis \/ warmFaults = 0 => /\ \A n \in r.owns : locks'[n] = w
                                 /\ \A v \in WarmWorkers \ {w}, n \in LockNames : locks[n] = v => locks'[n] = v
  BY Working
<1>5. CASE warmFaults' = warmFaults
  <2>1. warmFaults = 0 => Undisturbed(r, recipes, index)
    <3> SUFFICES ASSUME warmFaults = 0 PROVE Undisturbed(r, recipes, index)
      OBVIOUS
    <3>1. Undisturbed(worker[w], recipes, index)
      BY Working
    <3>2. r.pc = "scan" => \A i \in DOMAIN r.todo : recipes[r.todo[i]] # NoRecipe
      BY <3>1 DEF Undisturbed
    <3>3. QED
      BY <1>1, <3>1, <3>2 DEF Undisturbed, Between, Keeping
  <2>2. QED
    BY <1>1, <1>2, <1>3, <1>4, <1>5, <2>1, QuietKeeps
<1>6. CASE warmFaults' = warmFaults + 1
  <2>1. warmFaults' # 0
    BY <1>3, <1>6
  <2>2. QED
    BY <1>2, <1>3, <1>4, <2>1, WarmStepKeeps
<1>7. QED
  BY <1>5, <1>6

\* The tail of a sequence, and what it shares with the sequence.
LEMMA Tails ==
    ASSUME NEW S, NEW q \in Seq(S), q # << >>
    PROVE  /\ Head(q) \in S /\ Head(q) = q[1] /\ 1 \in DOMAIN q /\ Tail(q) \in Seq(S)
           /\ \A i \in DOMAIN Tail(q) : i + 1 \in DOMAIN q /\ Tail(q)[i] = q[i + 1]
OBVIOUS

\* _warm_batch.
LEMMA BatchKeeps ==
    ASSUME WarmInvariant, NEW w \in WarmWorkers, _warm_batch(w)
    PROVE  WarmInvariant'
<1> DEFINE s == worker[w]
<1>1. s.pc = "batch" /\ UNCHANGED <<recipes, index, locks>>
  BY DEF _warm_batch, Here
<1>2. s \in WarmWorker /\ WarmPlaced(s) /\ warmFaults \in Nat
  BY Working DEF WarmTypes
<1>3. s.todo \in Seq(WarmKeys) /\ s.found \in SUBSET (Nat \X WarmKeys) /\ IsFiniteSet(s.found)
      /\ (s.after = "unlock" => s.key \in WarmKeys)
  BY <1>2 DEF WarmWorker, WarmPlaced
<1>4. CASE s.todo # << >> /\ WarmStep(w, [s EXCEPT !.todo = Tail(@), !.found = @ \cup {<<0, Head(s.todo)>>}]) /\ UNCHANGED warmFaults
  <2> DEFINE r == [s EXCEPT !.todo = Tail(@), !.found = @ \cup {<<0, Head(s.todo)>>}]
  <2>1. Tail(s.todo) \in Seq(WarmKeys) /\ s.found \cup {<<0, Head(s.todo)>>} \in SUBSET (Nat \X WarmKeys)
    BY <1>3, <1>4, Tails
  <2>2. r \in WarmWorker /\ r.pc = "batch" /\ r.ops = s.ops /\ r.owns = s.owns /\ r.after = s.after /\ r.key = s.key
        /\ r.found = s.found \cup {<<0, Head(s.todo)>>}
    BY <1>1, <1>2, <2>1 DEF WarmWorker
  <2> HIDE DEF r
  <2>3. IsFiniteSet(r.found)
    <3>1. \A e : IsFiniteSet(s.found \cup {e})
      BY <1>3, FS_AddElement
    <3>2. QED
      BY <2>2, <3>1
  <2>4. QED
    BY <1>1, <1>2, <1>3, <1>4, <2>2, <2>3, GoesOnKeeps DEF r, Between
<1>5. CASE s.todo # << >> /\ Faulty /\ WarmStep(w, [s EXCEPT !.todo = Tail(@)])
  <2> DEFINE r == [s EXCEPT !.todo = Tail(@)]
  <2>1. Tail(s.todo) \in Seq(WarmKeys)
    BY <1>3, <1>5, Tails
  <2>2. r \in WarmWorker /\ r.pc = "batch" /\ r.ops = s.ops /\ r.owns = s.owns /\ r.after = s.after /\ r.key = s.key /\ r.found = s.found
    BY <1>1, <1>2, <2>1 DEF WarmWorker
  <2>3. warmFaults' \in Nat /\ warmFaults' = warmFaults + 1
    BY <1>2, <1>5 DEF Faulty
  <2> HIDE DEF r
  <2>4. QED
    BY <1>1, <1>2, <1>3, <1>5, <2>2, <2>3, GoesOnKeeps DEF r, Between
<1>6. CASE /\ s.todo = << >> /\ UNCHANGED warmFaults
           /\ \E q \in Sorted(s.found) : WarmStep(w, [s EXCEPT !.pc = "register", !.todo = KeysOf(q), !.found = {}])
  <2>1. PICK q \in Sorted(s.found) : WarmStep(w, [s EXCEPT !.pc = "register", !.todo = KeysOf(q), !.found = {}])
    BY <1>6
  <2> DEFINE r == [s EXCEPT !.pc = "register", !.todo = KeysOf(q), !.found = {}]
  <2>2. KeysOf(q) \in Seq(WarmKeys)
    BY <1>3, SortedKeys
  <2>3. r \in WarmWorker /\ r.pc = "register" /\ r.ops = s.ops /\ r.owns = s.owns /\ r.after = s.after /\ r.key = s.key /\ r.found = {}
    BY <1>1, <1>2, <2>2 DEF WarmWorker, Between
  <2> HIDE DEF r
  <2>4. QED
    BY <1>1, <1>2, <1>3, <1>6, <2>1, <2>3, FS_EmptySet, GoesOnKeeps DEF r, Between
<1>7. QED
  BY <1>4, <1>5, <1>6 DEF _warm_batch

\* The keys found due are put in order.
LEMMA SortDueKeeps ==
    ASSUME WarmInvariant, NEW w \in WarmWorkers, SortDue(w)
    PROVE  WarmInvariant'
<1> DEFINE s == worker[w]
<1>1. s.pc = "scan" /\ UNCHANGED <<recipes, index, locks, warmFaults>>
  BY DEF SortDue, Here
<1>2. s \in WarmWorker /\ WarmPlaced(s) /\ warmFaults \in Nat
  BY Working DEF WarmTypes
<1>3. s.found \in SUBSET (Nat \X WarmKeys) /\ IsFiniteSet(s.found) /\ (s.after = "unlock" => s.key \in WarmKeys)
  BY <1>2 DEF WarmWorker, WarmPlaced
<1>4. PICK q \in Sorted(s.found) :
        WarmStep(w, [s EXCEPT !.pc = "next", !.found = {},
                              !.todo = SubSeq(KeysOf(q), 1, IF Len(q) < SweepLimit THEN Len(q) ELSE SweepLimit)])
  BY DEF SortDue
<1> DEFINE m == IF Len(q) < SweepLimit THEN Len(q) ELSE SweepLimit
           todo == SubSeq(KeysOf(q), 1, m)
           r == [s EXCEPT !.pc = "next", !.found = {}, !.todo = todo]
<1>5. KeysOf(q) \in Seq(WarmKeys) /\ Len(KeysOf(q)) = Len(q)
  BY <1>3, SortedKeys
<1>6. todo \in Seq(WarmKeys)
  <2>1. m \in Nat /\ m <= Len(KeysOf(q))
    BY <1>5, WarmAssumption
  <2> HIDE DEF m
  <2>2. QED
    BY <1>5, <2>1
<1>7. r \in WarmWorker /\ r.pc = "next" /\ r.ops = s.ops /\ r.owns = s.owns /\ r.after = s.after /\ r.key = s.key /\ r.found = {}
  <2> HIDE DEF todo
  <2> QED
    BY <1>1, <1>2, <1>6 DEF WarmWorker, Between
<1> HIDE DEF r
<1>8. QED
  BY <1>1, <1>2, <1>3, <1>4, <1>7, FS_EmptySet, GoesOnKeeps DEF r, Between

\* A recipe is registered by the worker that is about to put it into the indexes.
LEMMA RegisterKeeps ==
    ASSUME WarmInvariant, NEW w \in WarmWorkers, worker[w].pc \in Between, NEW k \in WarmKeys, NEW s \in WarmWorker,
           s.ops = << >>, s.owns = worker[w].owns, IsFiniteSet(s.found),
           NEW after \in {"register", "unlock"}, after = "unlock" => s.key \in WarmKeys,
           warmFaults = 0 /\ after = "unlock" => s.key \in s.owns,
           register_graphql_warmup_recipe(w, k, s, after), UNCHANGED <<index, locks, warmFaults>>
    PROVE  WarmInvariant'
<1> DEFINE tag == IF scope[k] = "timeout" THEN "add" ELSE "remove"
           ops == <<<<RecipeIndex, "add", k>>, <<TimeoutIndex, tag, k>>>>
           r == [s EXCEPT !.pc = "index", !.after = after, !.ops = ops]
<1>1. WarmStep(w, r) /\ recipes' = [recipes EXCEPT ![k] = _recipe_for(k)]
  BY DEF register_graphql_warmup_recipe
<1>2. WarmTypes /\ worker[w] \in WarmWorker /\ worker[w].ops = << >>
  BY Working DEF WarmPlaced
<1>3. ops \in Seq(Op) /\ Len(ops) = 2 /\ DOMAIN ops = 1..2 /\ ops[1] = <<RecipeIndex, "add", k>> /\ ops[2] = <<TimeoutIndex, tag, k>>
  <2>1. tag \in {"add", "remove"}
    OBVIOUS
  <2> HIDE DEF tag
  <2>2. <<RecipeIndex, "add", k>> \in Op /\ <<TimeoutIndex, tag, k>> \in Op
    BY <2>1 DEF Op, IndexNames
  <2>3. QED
    BY <2>2
<1>4. r \in WarmWorker /\ r.pc = "index" /\ r.ops = ops /\ r.after = after /\ r.owns = s.owns /\ r.key = s.key /\ r.found = s.found
  <2> HIDE DEF ops
  <2> QED
    BY <1>3 DEF WarmWorker
<1>5. WarmPlaced(r)
  <2> HIDE DEF r
  <2> QED
    BY <1>4 DEF WarmPlaced, Between
<1>6. _recipe_for(k) \in Recipe /\ _recipe_for(k) # NoRecipe /\ _recipe_for(k).scope = scope[k]
  <2>1. scope[k] \in {"timeout", "dependency"} /\ ticks + RefreshAfter \in Nat
    BY <1>2, WarmAssumption DEF WarmTypes
  <2>2. QED
    BY <2>1 DEF _recipe_for, Recipe, NoRecipe
<1>7. recipes' \in [WarmKeys -> Recipe] /\ \A j \in WarmKeys : recipes'[j] = IF j = k THEN _recipe_for(k) ELSE recipes[j]
  BY <1>1, <1>2, <1>6 DEF WarmTypes
<1>8. worker' = [worker EXCEPT ![w] = r] /\ UNCHANGED <<scope, redis, ticks>>
  BY <1>1 DEF WarmStep
<1>9. \A v \in WarmWorkers : worker'[v] = IF v = w THEN r ELSE worker[v]
  BY <1>2, <1>8 DEF WarmTypes
<1>10. ASSUME warmFaults = 0 PROVE Indexed'
  <2>1. Indexed
    BY <1>10, Working
  <2>2. scope[k] = "timeout" /\ tag = "add"
    BY <2>1 DEF Indexed
  <2>3. \A j \in WarmKeys : recipes[j] # NoRecipe => recipes'[j] # NoRecipe
    BY <1>6, <1>7
  <2>4. \A j \in WarmKeys : scope'[j] = "timeout" /\ (recipes'[j] # NoRecipe => recipes'[j].scope = "timeout")
    BY <1>6, <1>7, <1>8, <2>1, <2>2 DEF Indexed
  <2>5. \A n \in IndexNames : \A j \in index'[n] : recipes'[j] # NoRecipe
    BY <1>2, <2>1, <2>3 DEF Indexed, WarmTypes
  <2>6. ASSUME NEW v \in WarmWorkers PROVE Undisturbed(worker'[v], recipes', index')
    <3>1. CASE v = w
      <4>1. \A i \in DOMAIN r.ops : r.ops[i][2] = "add" /\ r.ops[i][3] = k
        <5> HIDE DEF r
        <5>1. DOMAIN r.ops = {1, 2} /\ r.ops[1] = <<RecipeIndex, "add", k>> /\ r.ops[2] = <<TimeoutIndex, "add", k>>
          <6> HIDE DEF ops
          <6> QED
            BY <1>3, <1>4, <2>2
        <5>2. QED
          BY <5>1
      <4>2. recipes'[k] # NoRecipe
        BY <1>6, <1>7
      <4> HIDE DEF r
      <4>3. QED
        BY <1>4, <1>9, <1>10, <3>1, <4>1, <4>2 DEF Undisturbed, Keeping
    <3>2. CASE v # w
      <4>1. worker'[v] = worker[v] /\ worker[v] \in WarmWorker /\ Undisturbed(worker[v], recipes, index)
        BY <1>2, <1>9, <2>1, <3>2 DEF Indexed, WarmTypes
      <4>2. \A i \in DOMAIN worker[v].ops : worker[v].ops[i][3] \in WarmKeys
        <5>1. worker[v].ops \in Seq(Op)
          BY <4>1 DEF WarmWorker
        <5>2. \A i \in DOMAIN worker[v].ops : worker[v].ops[i] \in Op
          BY <5>1
        <5>3. QED
          BY <5>2 DEF Op
      <4>3. worker[v].todo \in Seq(WarmKeys)
        BY <4>1 DEF WarmWorker
      <4>4. \A i \in DOMAIN worker[v].todo : worker[v].todo[i] \in WarmKeys
        BY <4>3
      <4>5. QED
        BY <2>3, <4>1, <4>2, <4>4 DEF Undisturbed
    <3>3. QED
      BY <3>1, <3>2
  <2>7. ASSUME NEW j \in WarmKeys, NEW n \in IndexNames, recipes'[j] # NoRecipe
        PROVE  Registered(recipes', index', worker', j, n)
    <3>1. CASE j = k
      <4>1. \E i \in {1, 2} : ops[i][1] = n /\ ops[i][3] = k
        BY DEF IndexNames
      <4>2. \E i \in DOMAIN r.ops : r.ops[i][1] = n /\ r.ops[i][3] = k
        <5> HIDE DEF ops, r
        <5>1. DOMAIN ops = {1, 2}
          BY <1>3
        <5>2. QED
          BY <1>4, <4>1, <5>1
      <4> HIDE DEF r
      <4>3. QED
        BY <1>9, <3>1, <4>2 DEF Registered
    <3>2. CASE j # k
      <4>1. Registered(recipes, index, worker, j, n)
        BY <1>7, <2>1, <2>7, <3>2 DEF Indexed
      <4>2. \A v \in WarmWorkers : DOMAIN worker[v].ops # {} => worker'[v] = worker[v]
        <5>1. DOMAIN worker[w].ops = {}
          BY <1>2
        <5>2. QED
          BY <1>9, <5>1
      <4>3. QED
        BY <4>1, <4>2 DEF Registered
    <3>3. QED
      BY <3>1, <3>2
  <2>8. QED
    BY <2>4, <2>5, <2>6, <2>7 DEF Indexed
<1>11. index' \in [IndexNames -> SUBSET WarmKeys] /\ locks' \in [LockNames -> WarmWorkers \cup {NoOwner}] /\ warmFaults' \in Nat
  BY <1>2 DEF WarmTypes
<1>12. redis \/ warmFaults = 0 => /\ \A n \in r.owns : locks'[n] = w
                                  /\ \A v \in WarmWorkers \ {w}, n \in LockNames : locks[n] = v => locks'[n] = v
  <2> HIDE DEF r
  <2> QED
    BY <1>4, Working
<1> HIDE DEF r
<1>13. QED
  BY <1>1, <1>4, <1>5, <1>7, <1>10, <1>11, <1>12, WarmStepKeeps DEF r

\* A candidate of a batch is registered.
LEMMA RegisterCandidatesKeeps ==
    ASSUME WarmInvariant, NEW w \in WarmWorkers, RegisterCandidates(w)
    PROVE  WarmInvariant'
<1> DEFINE s == worker[w]
<1>1. s.pc = "register" /\ UNCHANGED <<index, locks, warmFaults>>
  BY DEF RegisterCandidates, Here
<1>2. s \in WarmWorker /\ WarmPlaced(s) /\ s.ops = << >> /\ IsFiniteSet(s.found) /\ warmFaults \in Nat
  BY <1>1, Working DEF WarmPlaced, WarmTypes, Between
<1>3. CASE s.todo = << >>
  <2>1. WarmStep(w, IdleWorker) /\ UNCHANGED recipes
    BY <1>3 DEF RegisterCandidates
  <2>2. Undisturbed(IdleWorker, recipes, index)
    BY DEF Undisturbed, IdleWorker, Keeping
  <2>3. locks' \in [LockNames -> WarmWorkers \cup {NoOwner}]
    BY <1>1 DEF WarmInvariant, WarmTypes
  <2>4. QED
    BY <1>1, <1>2, <2>1, <2>2, <2>3, IdleWorks, QuietKeeps
<1>4. CASE s.todo # << >>
  <2> DEFINE r == [s EXCEPT !.todo = Tail(@)]
  <2>1. register_graphql_warmup_recipe(w, Head(s.todo), r, "register")
    BY <1>4 DEF RegisterCandidates
  <2>2. Head(s.todo) \in WarmKeys /\ Tail(s.todo) \in Seq(WarmKeys)
    BY <1>2, <1>4, Tails DEF WarmWorker
  <2>3. r \in WarmWorker /\ r.ops = << >> /\ r.owns = s.owns /\ r.found = s.found
    BY <1>2, <2>2 DEF WarmWorker
  <2> HIDE DEF r
  <2>4. QED
    BY <1>1, <1>2, <2>1, <2>2, <2>3, RegisterKeeps DEF Between
<1>5. QED
  BY <1>3, <1>4

\* What a worker does after its updates.
LEMMA GoingOnKeyed ==
    ASSUME NEW s \in WarmWorker, WarmPlaced(s), s.after = "unlock" \/ s.pc = "execute", NEW after, after = "unlock"
    PROVE  /\ GoingOn(s, after) \in WarmWorker /\ WarmPlaced(GoingOn(s, after))
           /\ GoingOn(s, after).owns = s.owns /\ GoingOn(s, after).ops = << >> /\ GoingOn(s, after).pc = "release"
           /\ GoingOn(s, after).lock = s.key
<1> DEFINE r == [s EXCEPT !.pc = "release", !.lock = s.key, !.then = "next", !.ops = << >>]
<1>1. GoingOn(s, after) = r
  BY DEF GoingOn
<1>2. s.key \in WarmKeys /\ IsFiniteSet(s.found) /\ s.key \in LockNames
  BY DEF WarmPlaced, LockNames
<1>3. << >> \in Seq(Op)
  OBVIOUS
<1>4. r \in WarmWorker /\ r.pc = "release" /\ r.lock = s.key /\ r.then = "next" /\ r.ops = << >> /\ r.owns = s.owns
      /\ r.key = s.key /\ r.found = s.found
  BY <1>2, <1>3 DEF WarmWorker
<1> HIDE DEF r
<1>5. WarmPlaced(r)
  BY <1>2, <1>4 DEF WarmPlaced, Between
<1>6. QED
  BY <1>1, <1>4, <1>5

\* due_timeout_graphql_warmup_recipe_keys.
LEMMA ScanKeeps ==
    ASSUME WarmInvariant, NEW w \in WarmWorkers, due_timeout_graphql_warmup_recipe_keys(w)
    PROVE  WarmInvariant'
<1> DEFINE s == worker[w]
           k == Head(s.todo)
<1>1. s.pc = "scan" /\ s.todo # << >> /\ UNCHANGED <<recipes, index, locks, warmFaults>>
  BY DEF due_timeout_graphql_warmup_recipe_keys, Here
<1>2. s \in WarmWorker /\ WarmPlaced(s) /\ s.ops = << >> /\ IsFiniteSet(s.found) /\ WarmTypes
      /\ (s.after = "unlock" => s.key \in WarmKeys)
  BY <1>1, Working DEF WarmPlaced, Between
<1>3. /\ s.todo \in Seq(WarmKeys) /\ k \in WarmKeys /\ k = s.todo[1] /\ 1 \in DOMAIN s.todo /\ Tail(s.todo) \in Seq(WarmKeys)
      /\ \A i \in DOMAIN Tail(s.todo) : i + 1 \in DOMAIN s.todo /\ Tail(s.todo)[i] = s.todo[i + 1]
  BY <1>1, <1>2, Tails DEF WarmWorker
<1>4. CASE recipes[k].scope # "timeout"
  <2> DEFINE r == [s EXCEPT !.pc = "index", !.todo = Tail(@), !.after = "scan", !.ops = <<<<TimeoutIndex, "remove", k>>>>]
  <2>1. WarmStep(w, r)
    BY <1>4 DEF due_timeout_graphql_warmup_recipe_keys
  <2>2. <<<<TimeoutIndex, "remove", k>>>> \in Seq(Op)
    <3>1. <<TimeoutIndex, "remove", k>> \in Op
      BY <1>3 DEF Op, IndexNames
    <3>2. QED
      BY <3>1
  <2>3. r \in WarmWorker /\ r.pc = "index" /\ r.after = "scan" /\ r.owns = s.owns /\ r.found = s.found
    BY <1>2, <1>3, <2>2 DEF WarmWorker
  <2> HIDE DEF r
  <2>4. WarmPlaced(r)
    BY <1>2, <2>3 DEF WarmPlaced, Between
  <2>5. warmFaults # 0
    <3> SUFFICES ASSUME warmFaults = 0 PROVE FALSE
      OBVIOUS
    <3>1. Undisturbed(s, recipes, index) /\ Indexed
      BY Working
    <3>2. recipes[s.todo[1]] # NoRecipe
      BY <1>1, <1>3, <3>1 DEF Undisturbed
    <3>3. recipes[k] # NoRecipe
      BY <1>3, <3>2
    <3>4. QED
      BY <1>3, <1>4, <3>1, <3>3 DEF Indexed
  <2>6. redis => \A n \in r.owns : locks'[n] = w
    BY <1>1, <2>3, Working
  <2>7. QED
    BY <1>1, <1>2, <2>1, <2>3, <2>4, <2>5, <2>6, WarmStepKeeps DEF WarmTypes
<1>5. CASE recipes[k].scope = "timeout"
  <2> DEFINE found == IF recipes[k].refresh_at <= ticks THEN s.found \cup {<<recipes[k].refresh_at, k>>} ELSE s.found
             r == [s EXCEPT !.todo = Tail(@), !.found = found]
  <2>1. WarmStep(w, r)
    BY <1>5 DEF due_timeout_graphql_warmup_recipe_keys
  <2>2. recipes[k].refresh_at \in Nat /\ s.found \in SUBSET (Nat \X WarmKeys)
    BY <1>2, <1>3 DEF WarmTypes, Recipe, WarmWorker
  <2>3. found \in SUBSET (Nat \X WarmKeys) /\ IsFiniteSet(found)
    <3>1. \A e : IsFiniteSet(s.found \cup {e})
      BY <1>2, FS_AddElement
    <3>2. IsFiniteSet(found)
      BY <1>2, <3>1
    <3>3. found \in SUBSET (Nat \X WarmKeys)
      BY <1>3, <2>2
    <3>4. QED
      BY <3>2, <3>3
  <2> HIDE DEF found
  <2>4. /\ r \in WarmWorker /\ r.pc = "scan" /\ r.after = s.after /\ r.key = s.key /\ r.owns = s.owns /\ r.ops = s.ops
        /\ r.found = found /\ r.todo = Tail(s.todo)
    BY <1>1, <1>2, <1>3, <2>3 DEF WarmWorker
  <2> HIDE DEF r
  <2>5. \A i \in DOMAIN r.todo : \E j \in DOMAIN s.todo : r.todo[i] = s.todo[j]
    BY <1>3, <2>4
  <2>6. warmFaults \in Nat
    BY <1>2 DEF WarmTypes
  <2>7. QED
    BY <1>1, <1>2, <2>1, <2>3, <2>4, <2>5, <2>6, GoesOnKeeps DEF Between
<1>6. QED
  BY <1>4, <1>5

\* A worker takes a lock that nobody has.
LEMMA AcquireKeepsLocks ==
    ASSUME WarmInvariant, NEW w \in WarmWorkers, NEW n \in LockNames, _acquire_cache_lock(w, n)
    PROVE  /\ locks' \in [LockNames -> WarmWorkers \cup {NoOwner}] /\ locks'[n] = w
           /\ \A m \in LockNames : m # n => locks'[m] = locks[m]
           /\ \A v \in WarmWorkers \ {w}, m \in LockNames : locks[m] = v => locks'[m] = v
           /\ redis \/ warmFaults = 0 => \A m \in worker[w].owns : locks'[m] = w
<1>1. locks \in [LockNames -> WarmWorkers \cup {NoOwner}] /\ locks[n] = NoOwner /\ locks' = [locks EXCEPT ![n] = w]
  BY DEF WarmInvariant, WarmTypes, _acquire_cache_lock, Unlocked
<1>2. \A m \in LockNames : locks'[m] = IF m = n THEN w ELSE locks[m]
  BY <1>1
<1>3. \A v \in WarmWorkers \ {w}, m \in LockNames : locks[m] = v => locks'[m] = v
  BY <1>1, <1>2, WarmAssumption
<1>4. worker[w].owns \in SUBSET LockNames
  BY Working DEF WarmWorker
<1>5. QED
  BY <1>1, <1>2, <1>3, <1>4, Working

\* warm_up_graphql_recipe.
LEMMA WarmUpKeeps ==
    ASSUME WarmInvariant, NEW w \in WarmWorkers, warm_up_graphql_recipe(w)
    PROVE  WarmInvariant'
<1> DEFINE s == worker[w]
           k == Head(s.todo)
<1>1. s.pc = "next" /\ UNCHANGED <<recipes, index, warmFaults>>
  BY DEF warm_up_graphql_recipe, Here
<1>2. s \in WarmWorker /\ WarmPlaced(s) /\ s.ops = << >> /\ IsFiniteSet(s.found) /\ WarmTypes
      /\ (s.after = "unlock" => s.key \in WarmKeys)
  BY <1>1, Working DEF WarmPlaced, Between
<1>3. CASE s.todo # << >> /\ recipes[k] # NoRecipe /\ Unlocked(k)
  <2> DEFINE r == [s EXCEPT !.pc = "execute", !.key = k, !.todo = Tail(@), !.owns = @ \cup {k}]
  <2>1. _acquire_cache_lock(w, k) /\ WarmStep(w, r)
    BY <1>3 DEF warm_up_graphql_recipe
  <2>2. k \in WarmKeys /\ Tail(s.todo) \in Seq(WarmKeys) /\ k \in LockNames
    BY <1>2, <1>3, Tails DEF WarmWorker, LockNames
  <2>3. s.owns \cup {k} \in SUBSET LockNames
    BY <1>2, <2>2 DEF WarmWorker
  <2>4. r \in WarmWorker /\ r.pc = "execute" /\ r.key = k /\ r.ops = << >> /\ r.owns = s.owns \cup {k} /\ r.found = s.found
        /\ r.after = s.after
    <3> HIDE DEF k
    <3> QED
      BY <1>2, <2>2, <2>3 DEF WarmWorker, Between
  <2> HIDE DEF r, k
  <2>5. WarmPlaced(r)
    BY <1>2, <2>2, <2>4 DEF WarmPlaced, Between
  <2>6. warmFaults = 0 => Undisturbed(r, recipes, index)
    <3>1. warmFaults = 0 => s.after # "scan"
      BY Working DEF Undisturbed
    <3>2. QED
      BY <2>4, <3>1 DEF Undisturbed, Keeping
  <2>7. redis \/ warmFaults = 0 => \A n \in r.owns : locks'[n] = w
    BY <2>1, <2>2, <2>4, AcquireKeepsLocks
  <2>8. \A v \in WarmWorkers \ {w}, n \in LockNames : locks[n] = v => locks'[n] = v
    BY <2>1, <2>2, AcquireKeepsLocks
  <2>9. locks' \in [LockNames -> WarmWorkers \cup {NoOwner}]
    BY <2>1, <2>2, AcquireKeepsLocks
  <2>10. QED
    BY <1>1, <1>2, <2>1, <2>4, <2>5, <2>6, <2>7, <2>8, <2>9, QuietKeeps
<1>4. CASE ~(s.todo # << >> /\ recipes[k] # NoRecipe /\ Unlocked(k))
  <2>1. UNCHANGED locks /\ WarmStep(w, IF s.todo = << >> THEN IdleWorker ELSE [s EXCEPT !.todo = Tail(@)])
    BY <1>4 DEF warm_up_graphql_recipe
  <2>2. CASE s.todo = << >>
    <3>1. Undisturbed(IdleWorker, recipes, index)
      BY DEF Undisturbed, IdleWorker, Keeping
    <3>2. QED
      BY <1>1, <1>2, <2>1, <2>2, <3>1, IdleWorks, QuietKeeps DEF WarmTypes
  <2>3. CASE s.todo # << >>
    <3> DEFINE r == [s EXCEPT !.todo = Tail(@)]
    <3>1. Tail(s.todo) \in Seq(WarmKeys)
      BY <1>2, <2>3, Tails DEF WarmWorker
    <3>2. r \in WarmWorker /\ r.pc = "next" /\ r.ops = s.ops /\ r.owns = s.owns /\ r.after = s.after /\ r.key = s.key /\ r.found = s.found
      BY <1>1, <1>2, <3>1 DEF WarmWorker
    <3>3. WarmStep(w, r)
      BY <2>1, <2>3
    <3> HIDE DEF r
    <3>4. QED
      BY <1>1, <1>2, <2>1, <3>2, <3>3, GoesOnKeeps DEF Between, WarmTypes
  <2>4. QED
    BY <2>2, <2>3
<1>5. QED
  BY <1>3, <1>4

\* A worker that goes on to give back the lock of its recipe.
LEMMA UnlockKeeps ==
    ASSUME WarmInvariant, NEW w \in WarmWorkers, worker[w].after = "unlock" \/ worker[w].pc = "execute",
           (worker[w].ops = << >> /\ Keeping(worker[w])) \/ warmFaults' # 0,
           WarmStep(w, GoingOn(worker[w], "unlock")), UNCHANGED <<recipes, index, locks>>,
           warmFaults' \in {warmFaults, warmFaults + 1}
    PROVE  WarmInvariant'
<1> DEFINE s == worker[w]
           r == GoingOn(s, "unlock")
<1>1. /\ r \in WarmWorker /\ WarmPlaced(r) /\ r.owns = s.owns /\ r.ops = << >> /\ r.pc = "release" /\ r.lock = s.key
      /\ r.then = "next" /\ r.after = s.after
  <2>1. s \in WarmWorker /\ WarmPlaced(s)
    BY Working
  <2>2. r.then = "next" /\ r.after = s.after
    BY <2>1 DEF GoingOn, WarmWorker
  <2>3. QED
    BY <2>1, <2>2, GoingOnKeyed
<1> HIDE DEF r
<1>2. WarmTypes /\ warmFaults \in Nat
  BY Working DEF WarmTypes
<1>3. redis \/ warmFaults = 0 => \A n \in r.owns : locks'[n] = w
  BY <1>1, Working
<1>4. CASE warmFaults' = warmFaults /\ s.ops = << >> /\ Keeping(s)
  <2>1. warmFaults = 0 => Undisturbed(r, recipes, index)
    <3> SUFFICES ASSUME warmFaults = 0 PROVE Undisturbed(r, recipes, index)
      OBVIOUS
    <3>1. s.key \in s.owns /\ s.after # "scan"
      BY <1>4, Working DEF Undisturbed
    <3>2. QED
      BY <1>1, <3>1 DEF Undisturbed, Keeping
  <2>2. QED
    BY <1>1, <1>2, <1>3, <1>4, <2>1, QuietKeeps DEF WarmTypes, r
<1>5. CASE warmFaults' # 0
  BY <1>1, <1>2, <1>3, <1>5, WarmStepKeeps DEF WarmTypes, r
<1>6. QED
  BY <1>2, <1>4, <1>5

\* _execute_graphql_warmup_recipe.
LEMMA WarmExecuteKeeps ==
    ASSUME WarmInvariant, NEW w \in WarmWorkers, _execute_graphql_warmup_recipe(w)
    PROVE  WarmInvariant'
<1> DEFINE s == worker[w]
<1>1. s.pc = "execute" /\ UNCHANGED <<index, locks>>
  BY DEF _execute_graphql_warmup_recipe, Here
<1>2. s \in WarmWorker /\ WarmPlaced(s) /\ s.ops = << >> /\ IsFiniteSet(s.found) /\ s.key \in WarmKeys /\ warmFaults \in Nat
  BY <1>1, Working DEF WarmPlaced, Between, WarmTypes
<1>3. CASE register_graphql_warmup_recipe(w, s.key, s, "unlock") /\ UNCHANGED warmFaults
  <2>1. warmFaults = 0 => s.key \in s.owns
    BY <1>1, Working DEF Undisturbed, Keeping
  <2>2. QED
    BY <1>1, <1>2, <1>3, <2>1, RegisterKeeps DEF Between
<1>4. CASE Faulty /\ WarmStep(w, GoingOn(s, "unlock")) /\ UNCHANGED recipes
  <2>1. warmFaults' # 0 /\ warmFaults' = warmFaults + 1
    BY <1>2, <1>4 DEF Faulty
  <2>2. QED
    BY <1>1, <1>4, <2>1, UnlockKeeps
<1>5. QED
  BY <1>3, <1>4 DEF _execute_graphql_warmup_recipe

\* An index is read under its lock.
LEMMA LockIndexKeeps ==
    ASSUME WarmInvariant, NEW w \in WarmWorkers, _locked_index_update(w)
    PROVE  WarmInvariant'
<1> DEFINE s == worker[w]
           n == Head(s.ops)[1]
           r == [s EXCEPT !.pc = "write", !.read = index[n], !.lock = n, !.owns = @ \cup {n}]
<1>1. s.pc = "index" /\ s.ops # << >> /\ UNCHANGED <<recipes, index, warmFaults>> /\ _acquire_cache_lock(w, n) /\ WarmStep(w, r)
  BY DEF _locked_index_update, Here
<1>2. s \in WarmWorker /\ WarmPlaced(s) /\ WarmTypes
  BY Working
<1>3. n \in IndexNames /\ n \in LockNames /\ index[n] \in SUBSET WarmKeys
  <2>1. Head(s.ops) \in Op
    BY <1>1, <1>2, Tails DEF WarmWorker
  <2>2. QED
    BY <1>2, <2>1 DEF Op, LockNames, WarmTypes
<1>4. s.owns \cup {n} \in SUBSET LockNames
  BY <1>2, <1>3 DEF WarmWorker
<1>5. /\ r \in WarmWorker /\ r.pc = "write" /\ r.read = index[n] /\ r.lock = n /\ r.owns = s.owns \cup {n} /\ r.ops = s.ops
      /\ r.after = s.after /\ r.key = s.key /\ r.found = s.found
  <2> HIDE DEF n
  <2> QED
    BY <1>2, <1>3, <1>4 DEF WarmWorker
<1>6. WarmPlaced(r)
  <2> HIDE DEF r
  <2> QED
    BY <1>1, <1>2, <1>5 DEF WarmPlaced, Between
<1> HIDE DEF r
<1>7. ASSUME warmFaults = 0 PROVE Undisturbed(r, recipes, index)
  <2>1. Undisturbed(s, recipes, index)
    BY <1>7, Working
  <2>2. Keeping(r) => Keeping(s)
    BY <1>1, <1>5 DEF Keeping
  <2> HIDE DEF n
  <2>3. QED
    BY <1>1, <1>3, <1>5, <2>1, <2>2 DEF Undisturbed
<1>8. redis \/ warmFaults = 0 => \A m \in r.owns : locks'[m] = w
  <2> HIDE DEF n
  <2> QED
    BY <1>1, <1>3, <1>5, AcquireKeepsLocks
<1>9. /\ \A v \in WarmWorkers \ {w}, m \in LockNames : locks[m] = v => locks'[m] = v
      /\ locks' \in [LockNames -> WarmWorkers \cup {NoOwner}]
  <2> HIDE DEF n
  <2> QED
    BY <1>1, <1>3, AcquireKeepsLocks
<1>10. QED
  BY <1>1, <1>5, <1>6, <1>7, <1>8, <1>9, QuietKeeps DEF r

\* What was read is written back.
LEMMA WriteIndexKeeps ==
    ASSUME WarmInvariant, NEW w \in WarmWorkers, _write_index(w)
    PROVE  WarmInvariant'
<1> DEFINE s == worker[w]
           op == Head(s.ops)
           new == IF op[2] = "add" THEN s.read \cup {op[3]} ELSE s.read \ {op[3]}
           r == [s EXCEPT !.pc = "release", !.then = "index", !.ops = Tail(@), !.read = {}]
<1>1. s.pc = "write" /\ UNCHANGED <<recipes, locks, warmFaults>> /\ index' = [index EXCEPT ![op[1]] = new] /\ WarmStep(w, r)
  BY DEF _write_index, Here
<1>2. s \in WarmWorker /\ WarmPlaced(s) /\ WarmTypes /\ s.ops # << >> /\ s.lock = op[1]
  BY <1>1, Working DEF WarmPlaced
<1>3. /\ s.ops \in Seq(Op) /\ op \in Op /\ op = s.ops[1] /\ 1 \in DOMAIN s.ops /\ Tail(s.ops) \in Seq(Op)
      /\ \A i \in DOMAIN Tail(s.ops) : i + 1 \in DOMAIN s.ops /\ Tail(s.ops)[i] = s.ops[i + 1]
      /\ \A i \in DOMAIN s.ops : i = 1 \/ (i - 1 \in DOMAIN Tail(s.ops) /\ Tail(s.ops)[i - 1] = s.ops[i])
  <2>1. s.ops \in Seq(Op)
    BY <1>2 DEF WarmWorker
  <2>2. \A i \in DOMAIN s.ops : i = 1 \/ (i - 1 \in DOMAIN Tail(s.ops) /\ Tail(s.ops)[i - 1] = s.ops[i])
    BY <1>2, <2>1
  <2>3. QED
    BY <1>2, <2>1, <2>2, Tails
<1>4. op[1] \in IndexNames /\ op[2] \in {"add", "remove"} /\ op[3] \in WarmKeys
  BY <1>3 DEF Op
<1>5. s.read \in SUBSET WarmKeys /\ new \in SUBSET WarmKeys
  BY <1>2, <1>4 DEF WarmWorker
<1>6. /\ r \in WarmWorker /\ r.pc = "release" /\ r.then = "index" /\ r.ops = Tail(s.ops) /\ r.lock = op[1] /\ r.owns = s.owns
      /\ r.after = s.after /\ r.key = s.key /\ r.found = s.found
  <2>1. {} \in SUBSET WarmKeys
    OBVIOUS
  <2> HIDE DEF op
  <2>2. QED
    BY <1>2, <1>3, <2>1 DEF WarmWorker
<1> HIDE DEF r, new
<1>7. WarmPlaced(r)
  <2>1. op[1] \in LockNames
    BY <1>4 DEF LockNames
  <2> HIDE DEF op
  <2>2. QED
    BY <1>1, <1>2, <1>4, <1>6, <2>1 DEF WarmPlaced, Between
<1>8. index' \in [IndexNames -> SUBSET WarmKeys] /\ \A n \in IndexNames : index'[n] = IF n = op[1] THEN new ELSE index[n]
  <2> HIDE DEF op
  <2> QED
    BY <1>1, <1>2, <1>4, <1>5 DEF WarmTypes
<1>9. worker' = [worker EXCEPT ![w] = r] /\ UNCHANGED <<scope, redis, ticks>> /\ worker \in [WarmWorkers -> WarmWorker]
  BY <1>1, <1>2 DEF WarmStep, WarmTypes
<1>10. \A v \in WarmWorkers : worker'[v] = IF v = w THEN r ELSE worker[v]
  BY <1>9
<1>11. ASSUME warmFaults = 0 PROVE Indexed'
  <2>1. Indexed /\ Undisturbed(s, recipes, index) /\ \A v \in WarmWorkers : \A n \in worker[v].owns : locks[n] = v
    BY <1>11, Working
  <2>2. op[2] = "add" /\ recipes[op[3]] # NoRecipe
    BY <1>3, <2>1 DEF Undisturbed
  <2>3. op[1] \in s.owns /\ s.read = index[op[1]]
    BY <1>1, <1>2, <2>1 DEF Undisturbed
  <2>4. new = index[op[1]] \cup {op[3]}
    BY <2>2, <2>3 DEF new
  <2>5. \A n \in IndexNames : index'[n] = IF n = op[1] THEN index[n] \cup {op[3]} ELSE index[n]
    BY <1>8, <2>4
  <2>6. \A n \in IndexNames : \A k \in index'[n] : recipes'[k] # NoRecipe
    <3>1. \A n \in IndexNames : \A k \in index[n] : recipes[k] # NoRecipe
      BY <2>1 DEF Indexed
    <3> DEFINE k0 == op[3]
    <3>2. recipes[k0] # NoRecipe /\ \A n \in IndexNames : \A k \in index'[n] : k \in index[n] \/ k = k0
      BY <2>2, <2>5
    <3> HIDE DEF op, k0
    <3>3. QED
      BY <1>1, <3>1, <3>2
  <2>7. ASSUME NEW v \in WarmWorkers PROVE Undisturbed(worker'[v], recipes', index')
    <3>1. CASE v = w
      <4>1. \A i \in DOMAIN r.ops : r.ops[i][2] = "add" /\ recipes[r.ops[i][3]] # NoRecipe
        BY <1>3, <1>6, <2>1 DEF Undisturbed
      <4>2. Keeping(r) => Keeping(s)
        BY <1>1, <1>6 DEF Keeping
      <4>3. Keeping(r) => r.key \in r.owns
        BY <1>6, <2>1, <4>2 DEF Undisturbed
      <4>4. r.after # "scan" /\ r.lock \in r.owns
        BY <1>6, <2>1, <2>3 DEF Undisturbed
      <4>5. Undisturbed(r, recipes, index')
        <5> HIDE DEF op
        <5> QED BY <1>6, <4>1, <4>3, <4>4 DEF Undisturbed
      <4> QED BY <1>1, <1>10, <3>1, <4>5
    <3>2. CASE v # w
      <4>1. worker'[v] = worker[v] /\ Undisturbed(worker[v], recipes, index) /\ worker[v] \in WarmWorker /\ WarmPlaced(worker[v])
        BY <1>9, <1>10, <2>1, <3>2, Working DEF Indexed
      <4>2. worker[v].pc = "write" => worker[v].lock \in worker[v].owns
        BY <4>1 DEF Undisturbed
      <4>3. worker[v].pc = "write" => worker[v].lock # op[1]
        BY <2>1, <2>3, <3>2, <4>2
      <4>4. worker[v].pc = "write" => worker[v].lock \in IndexNames
        <5> SUFFICES ASSUME worker[v].pc = "write" PROVE worker[v].lock \in IndexNames
          OBVIOUS
        <5>1. worker[v].ops # << >> /\ worker[v].lock = Head(worker[v].ops)[1] /\ worker[v].ops \in Seq(Op)
          BY <4>1 DEF WarmPlaced, WarmWorker
        <5>2. Head(worker[v].ops) \in Op
          BY <5>1, Tails
        <5>3. QED
          BY <5>1, <5>2 DEF Op
      <4> HIDE DEF op
      <4>5. QED
        BY <1>1, <2>5, <4>1, <4>3, <4>4 DEF Undisturbed
    <3>3. QED
      BY <3>1, <3>2
  <2>8. ASSUME NEW k \in WarmKeys, NEW n \in IndexNames, recipes'[k] # NoRecipe
        PROVE  Registered(recipes', index', worker', k, n)
    <3>1. Registered(recipes, index, worker, k, n)
      BY <1>1, <2>1, <2>8 DEF Indexed
    <3>2. CASE k \in index[n]
      <4> HIDE DEF op
      <4> QED
        BY <2>5, <3>2 DEF Registered
    <3>3. ASSUME NEW v \in WarmWorkers, NEW i \in DOMAIN worker[v].ops, worker[v].ops[i][1] = n, worker[v].ops[i][3] = k
          PROVE  Registered(recipes', index', worker', k, n)
      <4>1. CASE v # w
        BY <1>10, <3>3, <4>1 DEF Registered
      <4>2. CASE v = w /\ i = 1
        <5>1. op[1] = n /\ op[3] = k
          BY <1>3, <3>3, <4>2
        <5> HIDE DEF op
        <5>2. QED
          BY <2>5, <5>1 DEF Registered
      <4>3. CASE v = w /\ i # 1
        <5>1. i - 1 \in DOMAIN r.ops /\ r.ops[i - 1] = worker[w].ops[i]
          BY <1>3, <1>6, <3>3, <4>3
        <5>2. QED
          BY <1>10, <3>3, <4>3, <5>1 DEF Registered
      <4>4. QED
        BY <4>1, <4>2, <4>3
    <3>4. QED
      BY <3>1, <3>2, <3>3 DEF Registered
  <2>9. \A k \in WarmKeys : scope'[k] = "timeout" /\ (recipes'[k] # NoRecipe => recipes'[k].scope = "timeout")
    BY <1>1, <1>9, <2>1 DEF Indexed
  <2>10. QED
    BY <2>6, <2>7, <2>8, <2>9 DEF Indexed
<1>12. redis \/ warmFaults = 0 => /\ \A n \in r.owns : locks'[n] = w
                                  /\ \A v \in WarmWorkers \ {w}, n \in LockNames : locks[n] = v => locks'[n] = v
  BY <1>1, <1>6, Working
<1>13. QED
  BY <1>1, <1>2, <1>6, <1>7, <1>8, <1>11, <1>12, WarmStepKeeps DEF r, WarmTypes

\* The updates are made.
LEMMA IndexUpdatedKeeps ==
    ASSUME WarmInvariant, NEW w \in WarmWorkers, IndexUpdated(w)
    PROVE  WarmInvariant'
<1> DEFINE s == worker[w]
<1>1. s.pc = "index" /\ s.ops = << >> /\ UNCHANGED <<recipes, index, locks, warmFaults>> /\ WarmStep(w, GoingOn(s, s.after))
  BY DEF IndexUpdated, Here
<1>2. s \in WarmWorker /\ WarmPlaced(s) /\ IsFiniteSet(s.found) /\ WarmTypes
  BY Working DEF WarmPlaced
<1>3. CASE s.after = "unlock"
  <2>1. Keeping(s)
    BY <1>1, <1>3 DEF Keeping
  <2>2. WarmStep(w, GoingOn(s, "unlock"))
    BY <1>1, <1>3
  <2>3. QED
    BY <1>1, <1>3, <2>1, <2>2, UnlockKeeps
<1>4. CASE s.after # "unlock"
  <2> DEFINE r == [s EXCEPT !.pc = s.after, !.ops = << >>]
  <2>1. WarmStep(w, r)
    BY <1>1, <1>4 DEF GoingOn
  <2>2. s.after \in {"idle", "register", "scan"}
    BY <1>2, <1>4 DEF WarmWorker
  <2>3. r \in WarmWorker /\ r.pc = s.after /\ r.ops = << >> /\ r.owns = s.owns /\ r.after = s.after /\ r.found = s.found /\ r.todo = s.todo
    BY <1>1, <1>2, <2>2 DEF WarmWorker, Between
  <2> HIDE DEF r
  <2>4. WarmPlaced(r)
    BY <1>2, <1>4, <2>2, <2>3 DEF WarmPlaced, Between
  <2>5. redis \/ warmFaults = 0 => \A n \in r.owns : locks'[n] = w
    BY <1>1, <2>3, Working
  <2>6. ASSUME warmFaults = 0 PROVE Undisturbed(r, recipes, index)
    <3>1. Undisturbed(s, recipes, index)
      BY <2>6, Working
    <3>2. r.pc \in {"idle", "register"}
      BY <2>2, <2>3, <3>1 DEF Undisturbed
    <3>3. QED
      BY <1>4, <2>3, <3>1, <3>2 DEF Undisturbed, Keeping
  <2>7. QED
    BY <1>1, <1>2, <2>1, <2>3, <2>4, <2>5, <2>6, QuietKeeps DEF WarmTypes
<1>5. QED
  BY <1>3, <1>4

\* Steps that come with a fault leave nothing to keep of an undisturbed registration.
LEMMA FaultyKeeps ==
    ASSUME WarmInvariant, NEW w \in WarmWorkers, NEW r \in WarmWorker, WarmStep(w, r), WarmPlaced(r), Faulty,
           UNCHANGED <<recipes, index, locks>>, redis => \A n \in r.owns : locks[n] = w
    PROVE  WarmInvariant'
<1>1. WarmTypes /\ warmFaults \in Nat
  BY DEF WarmInvariant, WarmTypes
<1>2. warmFaults' \in Nat /\ warmFaults' # 0
  BY <1>1 DEF Faulty
<1>3. QED
  BY <1>1, <1>2, WarmStepKeeps DEF WarmTypes

\* A wait for a lock ends.
LEMMA LockTimeoutKeeps ==
    ASSUME WarmInvariant, NEW w \in WarmWorkers, LockTimeout(w)
    PROVE  WarmInvariant'
<1>1. Faulty /\ UNCHANGED <<recipes, index, locks>>
  BY DEF LockTimeout
<1>2. CASE worker[w].after = "unlock"
  <2>1. WarmStep(w, GoingOn(worker[w], "unlock"))
    BY <1>2 DEF LockTimeout
  <2>2. warmFaults' # 0 /\ warmFaults' = warmFaults + 1
    BY <1>1 DEF Faulty, WarmInvariant, WarmTypes
  <2>3. QED
    BY <1>1, <1>2, <2>1, <2>2, UnlockKeeps
<1>3. CASE worker[w].after # "unlock"
  <2>1. WarmStep(w, IdleWorker)
    BY <1>3 DEF LockTimeout
  <2>2. QED
    BY <1>1, <2>1, IdleWorks, FaultyKeeps
<1>4. QED
  BY <1>2, <1>3

\* A worker dies.
LEMMA WorkerDiesKeeps ==
    ASSUME WarmInvariant, NEW w \in WarmWorkers, WorkerDies(w)
    PROVE  WarmInvariant'
<1> DEFINE owned == {n \in LockNames : locks[n] = w}
           r == [IdleWorker EXCEPT !.owns = owned]
<1>1. Faulty /\ UNCHANGED <<recipes, index, locks>> /\ WarmStep(w, r)
  BY DEF WorkerDies
<1>2. owned \in SUBSET LockNames
  OBVIOUS
<1>3. /\ r \in WarmWorker /\ r.owns = owned /\ r.pc = "idle" /\ r.ops = << >> /\ r.after = "idle" /\ r.found = {}
  <2> HIDE DEF owned
  <2>1. IdleWorker.pc = "idle" /\ IdleWorker.after = "idle" /\ IdleWorker.found = {}
    BY DEF IdleWorker
  <2>2. QED
    BY <1>2, <2>1, IdleWorks DEF WarmWorker
<1>4. WarmPlaced(r)
  <2> HIDE DEF r
  <2> QED
    BY <1>3, FS_EmptySet DEF WarmPlaced, Between
<1>5. \A n \in r.owns : locks[n] = w
  BY <1>3
<1> HIDE DEF r
<1>6. QED
  BY <1>1, <1>3, <1>4, <1>5, FaultyKeeps

\* A worker gives back the lock it works under.
LEMMA ReleaseLocks ==
    ASSUME WarmInvariant, NEW w \in WarmWorkers, worker[w].pc \in {"release", "delete"},
           NEW owned \in BOOLEAN, owned => locks[worker[w].lock] = w \/ (~redis /\ warmFaults # 0),
           redis /\ worker[w].lock \in worker[w].owns => owned,
           ~redis /\ warmFaults = 0 => owned,
           locks' = IF owned THEN [locks EXCEPT ![worker[w].lock] = NoOwner] ELSE locks,
           WarmStep(w, [worker[w] EXCEPT !.pc = worker[w].then, !.owns = @ \ {worker[w].lock}]),
           UNCHANGED <<recipes, index, warmFaults>>
    PROVE  WarmInvariant'
<1> DEFINE s == worker[w]
           r == [s EXCEPT !.pc = s.then, !.owns = @ \ {s.lock}]
<1>1. s \in WarmWorker /\ WarmPlaced(s) /\ WarmTypes /\ s.lock \in LockNames /\ IsFiniteSet(s.found)
      /\ (s.after = "unlock" => s.key \in WarmKeys)
  BY Working DEF WarmPlaced
<1>2. s.owns \ {s.lock} \in SUBSET LockNames /\ s.then \in {"idle", "index", "next"}
  BY <1>1 DEF WarmWorker
<1>3. /\ r \in WarmWorker /\ r.pc = s.then /\ r.ops = s.ops /\ r.owns = s.owns \ {s.lock} /\ r.after = s.after /\ r.key = s.key
      /\ r.found = s.found
  BY <1>1, <1>2 DEF WarmWorker, Between
<1> HIDE DEF r
<1>4. WarmPlaced(r)
  BY <1>1, <1>2, <1>3 DEF WarmPlaced, Between
<1>5. locks' \in [LockNames -> WarmWorkers \cup {NoOwner}]
      /\ \A n \in LockNames : locks'[n] = IF owned /\ n = s.lock THEN NoOwner ELSE locks[n]
  BY <1>1 DEF WarmTypes
<1>6. redis \/ warmFaults = 0 =>
        /\ \A n \in r.owns : locks'[n] = w
        /\ \A v \in WarmWorkers \ {w}, n \in LockNames : locks[n] = v => locks'[n] = v
  <2> SUFFICES ASSUME redis \/ warmFaults = 0
               PROVE  /\ \A n \in r.owns : locks'[n] = w
                      /\ \A v \in WarmWorkers \ {w}, n \in LockNames : locks[n] = v => locks'[n] = v
    OBVIOUS
  <2>1. owned => locks[s.lock] = w
    OBVIOUS
  <2>2. \A n \in s.owns : locks[n] = w /\ n \in LockNames
    BY <1>1, Working DEF WarmWorker
  <2>3. QED
    BY <1>3, <1>5, <2>1, <2>2
<1>7. ASSUME warmFaults = 0 PROVE Undisturbed(r, recipes, index)
  <2>1. Undisturbed(s, recipes, index)
    BY <1>7, Working
  <2>2. ASSUME Keeping(r) PROVE r.key \in r.owns
    <3>1. s.then = "index" /\ s.after = "unlock" /\ s.lock \in IndexNames
      BY <1>1, <1>2, <1>3, <2>2 DEF Keeping, WarmPlaced
    <3>2. s.key \in s.owns
      BY <2>1, <3>1 DEF Undisturbed, Keeping
    <3>3. s.key # s.lock
      BY <1>1, <3>1, WarmAssumption
    <3>4. QED
      BY <1>3, <3>2, <3>3
  <2>3. r.pc \in {"idle", "index", "next"}
    BY <1>2, <1>3
  <2>4. QED
    BY <1>3, <2>1, <2>2, <2>3 DEF Undisturbed
<1>8. QED
  BY <1>3, <1>4, <1>5, <1>6, <1>7, QuietKeeps DEF r

\* _delete_redis_lock_if_owned.
LEMMA RedisReleaseKeeps ==
    ASSUME WarmInvariant, NEW w \in WarmWorkers, _delete_redis_lock_if_owned(w)
    PROVE  WarmInvariant'
<1> DEFINE n == worker[w].lock
           owned == OwnedBy(w, n)
<1>1. worker[w].pc = "release" /\ redis /\ UNCHANGED <<recipes, index, warmFaults>>
      /\ locks' = (IF owned THEN [locks EXCEPT ![n] = NoOwner] ELSE locks)
      /\ WarmStep(w, [worker[w] EXCEPT !.pc = worker[w].then, !.owns = @ \ {n}])
  BY DEF _delete_redis_lock_if_owned, Here
<1>2. owned \in BOOLEAN /\ (owned => locks[n] = w)
  BY DEF OwnedBy
<1>3. n \in worker[w].owns => owned
  BY <1>1, Working DEF OwnedBy
<1> HIDE DEF owned
<1>4. QED
  BY <1>1, <1>2, <1>3, ReleaseLocks

\* _delete_lock_if_owned compares.
LEMMA CompareKeeps ==
    ASSUME WarmInvariant, NEW w \in WarmWorkers, _delete_lock_if_owned(w)
    PROVE  WarmInvariant'
<1> DEFINE s == worker[w]
           n == s.lock
<1>1. s.pc = "release" /\ ~redis /\ UNCHANGED <<recipes, index, locks, warmFaults>>
  BY DEF _delete_lock_if_owned, Here
<1>2. s \in WarmWorker /\ WarmPlaced(s) /\ WarmTypes /\ IsFiniteSet(s.found) /\ (s.after = "unlock" => s.key \in WarmKeys)
  BY Working DEF WarmPlaced
<1>3. CASE OwnedBy(w, n)
  <2> DEFINE r == [s EXCEPT !.pc = "delete"]
  <2>1. WarmStep(w, [s EXCEPT !.pc = "delete", !.owns = @])
    BY <1>3 DEF _delete_lock_if_owned
  <2>2. [s EXCEPT !.pc = "delete", !.owns = @] = r
    BY <1>2 DEF WarmWorker
  <2>3. /\ r \in WarmWorker /\ r.pc = "delete" /\ r.ops = s.ops /\ r.owns = s.owns /\ r.after = s.after /\ r.key = s.key
        /\ r.found = s.found /\ r.lock = s.lock /\ r.then = s.then
    BY <1>2 DEF WarmWorker
  <2>4. WarmStep(w, r)
    BY <2>1, <2>2
  <2> HIDE DEF r
  <2>5. WarmPlaced(r)
    BY <1>1, <1>2, <2>3 DEF WarmPlaced, Between
  <2>6. warmFaults = 0 => Undisturbed(r, recipes, index)
    BY <1>1, <2>3, Working DEF Undisturbed, Keeping
  <2>7. warmFaults = 0 => \A m \in r.owns : locks'[m] = w
    BY <1>1, <2>3, Working
  <2>8. QED
    BY <1>1, <1>2, <2>3, <2>4, <2>5, <2>6, <2>7, QuietKeeps DEF WarmTypes
<1>4. CASE ~OwnedBy(w, n)
  <2>1. WarmStep(w, [s EXCEPT !.pc = s.then, !.owns = @ \ {n}])
    BY <1>4 DEF _delete_lock_if_owned
  <2>2. warmFaults # 0
    <3> SUFFICES ASSUME warmFaults = 0 PROVE FALSE
      OBVIOUS
    <3>1. n \in s.owns
      BY <1>1, Working DEF Undisturbed
    <3>2. QED
      BY <1>4, <3>1, Working DEF OwnedBy
  <2>3. QED
    BY <1>1, <2>1, <2>2, ReleaseLocks
<1>5. QED
  BY <1>3, <1>4

\* _delete_lock_if_owned deletes.
LEMMA DeleteLockKeeps ==
    ASSUME WarmInvariant, NEW w \in WarmWorkers, DeleteLock(w)
    PROVE  WarmInvariant'
<1> DEFINE n == worker[w].lock
<1>1. worker[w].pc = "delete" /\ UNCHANGED <<recipes, index, warmFaults>>
      /\ locks' = [locks EXCEPT ![n] = NoOwner]
      /\ WarmStep(w, [worker[w] EXCEPT !.pc = worker[w].then, !.owns = @ \ {n}])
  BY DEF DeleteLock, Here
<1>2. ~redis
  BY <1>1, Working DEF WarmPlaced, WarmTypes
<1>3. locks[n] = w \/ warmFaults # 0
  BY <1>1, Working DEF Undisturbed
<1>4. QED
  BY <1>1, <1>2, <1>3, ReleaseLocks

\* Locks expire, recipes are evicted, the code is redeployed and time passes.
LEMMA EnvironmentKeeps ==
    ASSUME WarmInvariant,
           \/ \E n \in LockNames : LockExpires(n)
           \/ \E k \in WarmKeys : RecipeEvicted(k) \/ Redeployed(k)
           \/ WarmTick
    PROVE  WarmInvariant'
<1>1. WarmTypes /\ warmFaults \in Nat
  BY DEF WarmInvariant, WarmTypes
<1>2. Faulty => warmFaults' \in Nat /\ warmFaults' # 0
  BY <1>1 DEF Faulty
<1>3. ASSUME NEW n \in LockNames, LockExpires(n) PROVE WarmInvariant'
  <2>1. Faulty /\ locks' = [locks EXCEPT ![n] = NoOwner] /\ UNCHANGED <<recipes, index, scope, redis, ticks>>
        /\ worker' = [w \in WarmWorkers |-> [worker[w] EXCEPT !.owns = @ \ {n}]]
    BY <1>3 DEF LockExpires
  <2>2. ASSUME NEW w \in WarmWorkers
        PROVE  /\ worker'[w] \in WarmWorker /\ worker'[w].owns = worker[w].owns \ {n} /\ WarmPlaced(worker[w])'
    <3> DEFINE s == worker[w]
               r == [s EXCEPT !.owns = @ \ {n}]
    <3>1. worker'[w] = r /\ s \in WarmWorker /\ WarmPlaced(s)
      BY <2>1, Working
    <3>2. s.owns \ {n} \in SUBSET LockNames
      BY <3>1 DEF WarmWorker
    <3>3. /\ r \in WarmWorker /\ r.owns = s.owns \ {n} /\ r.pc = s.pc /\ r.ops = s.ops /\ r.after = s.after /\ r.key = s.key
          /\ r.found = s.found /\ r.lock = s.lock /\ r.then = s.then
      BY <3>1, <3>2 DEF WarmWorker
    <3> HIDE DEF r, s
    <3>4. QED
      BY <2>1, <3>1, <3>3 DEF WarmPlaced, s
  <2>3. worker' \in [WarmWorkers -> WarmWorker]
    BY <2>1, <2>2
  <2>4. locks' \in [LockNames -> WarmWorkers \cup {NoOwner}] /\ \A m \in LockNames : m # n => locks'[m] = locks[m]
    BY <1>1, <2>1 DEF WarmTypes
  <2>5. WarmTypes'
    BY <1>1, <1>2, <2>1, <2>3, <2>4 DEF WarmTypes
  <2>6. redis => \A w \in WarmWorkers : \A m \in worker'[w].owns : locks'[m] = w
    BY <2>2, <2>4, Working DEF WarmWorker
  <2>7. QED
    BY <1>2, <2>1, <2>2, <2>5, <2>6 DEF WarmInvariant
<1>4. ASSUME NEW k \in WarmKeys, RecipeEvicted(k) PROVE WarmInvariant'
  <2>1. Faulty /\ recipes' = [recipes EXCEPT ![k] = NoRecipe] /\ UNCHANGED <<index, locks, worker, scope, redis, ticks>>
    BY <1>4 DEF RecipeEvicted
  <2>2. NoRecipe \in Recipe
    BY DEF NoRecipe, Recipe
  <2>3. WarmTypes'
    BY <1>1, <1>2, <2>1, <2>2 DEF WarmTypes
  <2>4. QED
    BY <1>2, <2>1, <2>3 DEF WarmInvariant, WarmPlaced
<1>5. ASSUME NEW k \in WarmKeys, Redeployed(k) PROVE WarmInvariant'
  <2>1. Faulty /\ scope' = [scope EXCEPT ![k] = IF @ = "timeout" THEN "dependency" ELSE "timeout"]
        /\ UNCHANGED <<recipes, index, locks, worker, redis, ticks>>
    BY <1>5 DEF Redeployed
  <2>2. WarmTypes'
    BY <1>1, <1>2, <2>1 DEF WarmTypes
  <2>3. QED
    BY <1>2, <2>1, <2>2 DEF WarmInvariant, WarmPlaced
<1>6. CASE WarmTick
  <2>1. ticks' = ticks + 1 /\ UNCHANGED <<recipes, index, locks, worker, scope, redis, warmFaults>>
    BY <1>6 DEF WarmTick
  <2>2. WarmTypes'
    BY <1>1, <2>1 DEF WarmTypes
  <2>3. QED
    BY <2>1, <2>2 DEF WarmInvariant, WarmPlaced, Indexed
<1>7. QED
  BY <1>3, <1>4, <1>5, <1>6

\* The invariant holds at first.
LEMMA WarmStarts == WarmInit => WarmInvariant
<1> SUFFICES ASSUME WarmInit PROVE WarmInvariant
  OBVIOUS
<1>1. NoRecipe \in Recipe
  BY DEF NoRecipe, Recipe
<1>2. WarmTypes
  BY <1>1, IdleWorks DEF WarmInit, WarmTypes
<1>3. \A w \in WarmWorkers : worker[w] = IdleWorker
  BY DEF WarmInit
<1>4. Indexed
  <2>1. \A k \in WarmKeys : scope[k] = "timeout" /\ recipes[k] = NoRecipe
    BY DEF WarmInit
  <2>2. \A n \in IndexNames : index[n] = {}
    BY DEF WarmInit
  <2>3. Undisturbed(IdleWorker, recipes, index)
    BY DEF Undisturbed, IdleWorker, Keeping
  <2>4. QED
    BY <1>3, <2>1, <2>2, <2>3 DEF Indexed
<1>5. QED
  BY <1>2, <1>3, <1>4, IdleWorks DEF WarmInvariant

\* Every step keeps it.
LEMMA WarmSteps == WarmInvariant /\ [WarmNext]_warmVars => WarmInvariant'
<1> SUFFICES ASSUME WarmInvariant, [WarmNext]_warmVars PROVE WarmInvariant'
  OBVIOUS
<1>1. ASSUME NEW w \in WarmWorkers,
             \/ warm_up_graphql_properties(w) \/ _warm_batch(w) \/ RegisterCandidates(w)
             \/ warm_up_graphql_recipes_task(w) \/ refresh_due_graphql_warmup_recipes(w)
             \/ due_timeout_graphql_warmup_recipe_keys(w) \/ SortDue(w) \/ warm_up_graphql_recipe(w) \/ _execute_graphql_warmup_recipe(w)
             \/ _locked_index_update(w) \/ _write_index(w) \/ IndexUpdated(w) \/ LockTimeout(w)
             \/ _delete_redis_lock_if_owned(w) \/ _delete_lock_if_owned(w) \/ DeleteLock(w) \/ WorkerDies(w)
      PROVE  WarmInvariant'
  BY <1>1, TasksKeep, BatchKeeps, RegisterCandidatesKeeps, ScanKeeps, SortDueKeeps, WarmUpKeeps, WarmExecuteKeeps, LockIndexKeeps,
     WriteIndexKeeps, IndexUpdatedKeeps, LockTimeoutKeeps, RedisReleaseKeeps, CompareKeeps, DeleteLockKeeps, WorkerDiesKeeps
<1>2. CASE UNCHANGED warmVars
  BY <1>2 DEF warmVars, WarmInvariant, WarmTypes, WarmPlaced, Indexed
<1>3. QED
  BY <1>1, <1>2, EnvironmentKeeps DEF WarmNext

\* The invariant implies the promises.
LEMMA WarmInvariantSound == WarmInvariant => WarmSound
BY DEF WarmInvariant, WarmSound, LocksKept, RecipesIndexed, Indexed, Registered, IndexNames

\* On a cache with scripts a worker has the lock of a recipe or an index for as long as
\* it did not expire, and while nothing expires or fails no registration is lost to a
\* concurrent one, for any workers and recipes (api/graphql_warmup_registry.py,
\* graphql_warmup.py).
THEOREM WarmSoundCorrect == WarmSpec => []WarmSound
BY WarmStarts, WarmSteps, WarmInvariantSound, PTL DEF WarmSpec

-----------------------------------------------------------------------------
(* The S3 adapters *)

\* An adapter has been chosen.
Chosen == kind # ""

Bodies == {"announced", "other", "oldest"}
S3Object == [n : Nat, body : Bodies, meta : {"none", "stage", "intent"}]
ObjectVersion == [vid : Nat, body : Bodies]
Ended == {"consumed", "superseded", "expired"}
Intent == [state : {"pending", "uploaded", "finalizing"} \cup Ended, bound : SUBSET ObjectVersion, old : SUBSET ObjectVersion,
           final : SUBSET ObjectVersion, claim : SUBSET ObjectVersion]
NewIntent == [state |-> "pending", bound |-> {}, old |-> {}, final |-> {}, claim |-> {}]
Deletions == {"delete stage", "delete final", "delete old"}
Deleting == {"inspect", "compare", "claim", "check", "delete"}
S3Job == [op : {"", "save", "materialize"} \cup Deletions,
          at : Deleting \cup {"", "put", "verify", "doubt", "look", "copy", "open", "done"}, of : SUBSET ObjectVersion]

Versioning(k) == k \in {"direct", "proxy"}
VersionOf(k, o) == [vid |-> IF Versioning(k) THEN o.n ELSE 0, body |-> o.body]

\* v names at most one of the objects, by its number or by its bytes, now and later.
Named(v, objects, n, k) ==
    IF Versioning(k) THEN v.vid \in 1 .. n /\ \A o \in objects : o.n = v.vid => o.body = v.body ELSE v.vid = 0

\* Numbers tell the versions of a key apart; without versions a key has one object, and
\* the final key never has two.
StoreFine(k, st, n) ==
    /\ st \in [Keys -> SUBSET S3Object] /\ n \in Nat
    /\ \A key \in Keys : \A o \in st[key] :
         /\ o.n \in 1 .. n
         /\ \A p \in st[key] : o.n = p.n \/ ~Versioning(k) \/ key = "final" => o = p

\* What is on record names its objects, an object of the intent has the bytes that were
\* bound, and the bytes that a state of the record relies on are there.
IntentFine(it, k, st, n) ==
    /\ it \in Intent
    /\ k = "" => it = NewIntent
    /\ it.state = "pending" => it.bound = {}
    /\ \A v \in it.bound : Named(v, st["stage"], n, k)
    /\ \A v \in it.old \cup it.claim : Named(v, st["old"], n, k)
    /\ \A o \in st["final"] : o.meta = "intent" => \E v \in it.bound : o.body = v.body
    /\ it.state = "consumed" => \E o \in st["final"] : it.final = {VersionOf(k, o)} /\ o.meta = "intent"
    /\ it.state \in {"uploaded", "finalizing"} => \E v \in it.bound : \E o \in st["stage"] : VersionOf(k, o) = v

KeyFor(op) == CASE op = "delete stage" -> "stage" [] op = "delete final" -> "final" [] OTHER -> "old"

\* An operation that deletes knows versions that the record allows to delete.
S3JobFine(j, k, st, n, it) ==
    /\ j \in S3Job
    /\ k = "" => j = NoJob
    /\ j.op \notin Deletions => j.at \notin Deleting
    /\ j.op \in Deletions => \A v \in j.of : Named(v, st[KeyFor(j.op)], n, k)
    /\ j.op = "delete stage" => /\ it.state \in Ended
                                /\ it.bound # {} => j.of \subseteq it.bound /\ j.at # "inspect"
    /\ j.op = "delete final" => /\ it.state = "superseded"
                                /\ \A v \in j.of : /\ \E b \in it.bound : b.body = v.body
                                                   /\ Versioning(k) => \A o \in st["final"] : o.n = v.vid => o.meta = "intent"
    /\ j.op = "delete old" => j.of \subseteq it.claim /\ j.at # "inspect"

RemovedFine(rm, it, k) ==
    /\ k = "" => rm = {}
    /\ \A r \in rm :
         /\ r.key = "stage" => it.state \in Ended /\ (it.bound # {} => VersionOf(k, r.object) \in it.bound)
         /\ r.key = "final" => /\ it.state = "superseded" /\ \E v \in it.bound : r.object.body = v.body
                               /\ Versioning(k) => r.object.meta = "intent"
         /\ r.key = "old" => VersionOf(k, r.object) \in it.claim

S3Invariant ==
    /\ kind \in {"", "direct", "proxy", "plain"} /\ (kind = "" => storage \in Setting)
    /\ StagedStaysPrivate
    /\ StoreFine(kind, store, written)
    /\ IntentFine(intent, kind, store, written)
    /\ RemovedFine(removed, intent, kind)
    /\ s3job \in [S3Workers -> S3Job]
    /\ \A w \in S3Workers : S3JobFine(s3job[w], kind, store, written, intent)

-----------------------------------------------------------------------------

LEMMA NoJobFine == ASSUME NEW k, NEW st, NEW n, NEW it PROVE S3JobFine(NoJob, k, st, n, it)
BY DEF S3JobFine, NoJob, S3Job, Deletions, Deleting

LEMMA Versions == Versioned = Versioning(kind) /\ \A o : Version(o) = VersionOf(kind, o)
BY DEF Versioned, Versioning, Version, VersionOf

\* What a HEAD answers is one object of the key, all there is on the final key.
LEMMA HeadFine ==
    ASSUME StoreFine(kind, store, written), NEW key \in Keys
    PROVE  /\ _head_optional(key) \subseteq store[key] /\ store[key] \subseteq S3Object
           /\ \A o, p \in _head_optional(key) : o = p
           /\ key = "final" \/ ~Versioning(kind) => _head_optional(key) = store[key]
<1>1. store[key] \subseteq S3Object /\ \A o \in store[key] : o.n \in Nat
  BY DEF StoreFine, S3Object
<1>2. ASSUME NEW o \in _head_optional(key), NEW p \in _head_optional(key) PROVE o = p
  <2>1. o \in store[key] /\ p \in store[key] /\ o.n <= p.n /\ p.n <= o.n /\ o.n \in Nat /\ p.n \in Nat
    BY <1>1, <1>2 DEF _head_optional
  <2> QED BY <2>1 DEF StoreFine
<1>3. ASSUME key = "final" \/ ~Versioning(kind) PROVE _head_optional(key) = store[key]
  <2>1. \A o, p \in store[key] : o = p
    BY <1>3 DEF StoreFine
  <2> QED BY <1>1, <2>1 DEF _head_optional
<1> QED BY <1>1, <1>2, <1>3 DEF _head_optional

\* What a request for an exact version finds.
LEMMA ExactFine ==
    ASSUME StoreFine(kind, store, written), NEW key \in Keys, NEW v \in ObjectVersion
    PROVE  /\ Exact(key, v) \subseteq store[key]
           /\ \A o \in store[key] : VersionOf(kind, o) = v => o \in Exact(key, v)
           /\ Named(v, store[key], written, kind) => \A o \in Exact(key, v) : o.body = v.body => VersionOf(kind, o) = v
           /\ Named(v, store[key], written, kind) /\ Versioning(kind) => \A o \in Exact(key, v) : VersionOf(kind, o) = v
<1>1. written \in Nat /\ \A o \in store[key] : o \in S3Object /\ o.n \in 1 .. written
  BY DEF StoreFine
<1>2. Exact(key, v) \subseteq store[key]
  BY HeadFine DEF Exact
<1>3. ASSUME NEW o \in store[key], VersionOf(kind, o) = v PROVE o \in Exact(key, v)
  <2>1. CASE Versioning(kind)
    BY <1>1, <1>3, <2>1 DEF VersionOf, Exact
  <2>2. CASE ~Versioning(kind)
    BY <1>3, <2>2, HeadFine DEF VersionOf, Exact
  <2> QED BY <2>1, <2>2
<1>4. ASSUME Named(v, store[key], written, kind), NEW o \in Exact(key, v), o.body = v.body \/ Versioning(kind)
      PROVE  VersionOf(kind, o) = v
  <2>1. CASE Versioning(kind)
    <3>1. v.vid # 0 /\ o.n = v.vid /\ o \in store[key]
      BY <1>1, <1>2, <1>4, <2>1 DEF Named, Exact
    <3>2. o.body = v.body
      BY <1>4, <2>1, <3>1 DEF Named
    <3> QED BY <2>1, <3>1, <3>2 DEF VersionOf, ObjectVersion
  <2>2. CASE ~Versioning(kind)
    BY <1>4, <2>2 DEF Named, VersionOf, ObjectVersion
  <2> QED BY <2>1, <2>2
<1> QED BY <1>2, <1>3, <1>4

\* The version of an object names it.
LEMMA OwnVersion ==
    ASSUME StoreFine(kind, store, written), Chosen, NEW key \in Keys, NEW o \in store[key]
    PROVE  VersionOf(kind, o) \in ObjectVersion /\ Named(VersionOf(kind, o), store[key], written, kind)
<1>1. o \in S3Object /\ o.n \in 1 .. written /\ written \in Nat
  BY DEF StoreFine
<1>2. \A p \in store[key] : Versioning(kind) /\ p.n = o.n => p = o
  BY DEF StoreFine
<1> QED BY <1>1, <1>2 DEF VersionOf, ObjectVersion, Named, S3Object

\* A step of one worker that leaves the bucket and the record alone.
LEMMA JobMoves ==
    ASSUME S3Invariant, NEW w \in S3Workers, NEW j, S3JobFine(j, kind, store, written, intent),
           s3job' = [s3job EXCEPT ![w] = j], UNCHANGED <<storage, kind, options, store, written, removed, intent>>
    PROVE  S3Invariant'
<1>1. j \in S3Job /\ s3job \in [S3Workers -> S3Job]
  BY DEF S3JobFine, S3Invariant
<1>2. s3job' \in [S3Workers -> S3Job] /\ \A u \in S3Workers : s3job'[u] = IF u = w THEN j ELSE s3job[u]
  BY <1>1
<1>3. \A u \in S3Workers : S3JobFine(s3job'[u], kind, store, written, intent)
  BY <1>2 DEF S3Invariant
<1> QED BY <1>2, <1>3 DEF S3Invariant, StagedStaysPrivate

\* A step that changes the record and the jobs only.
LEMMA IntentMoves ==
    ASSUME S3Invariant, UNCHANGED <<storage, kind, options, store, written, removed>>,
           IntentFine(intent', kind, store, written), RemovedFine(removed, intent', kind),
           s3job' \in [S3Workers -> S3Job],
           \A u \in S3Workers : S3JobFine(s3job'[u], kind, store, written, intent')
    PROVE  S3Invariant'
BY DEF S3Invariant, StagedStaysPrivate

\* The record of an upload that is on its way to state s.
LEMMA JobsStay ==
    ASSUME S3Invariant, NEW it \in Intent,
           intent.state \in Ended => it.state = intent.state /\ it.bound = intent.bound,
           intent.claim # {} => it.claim = intent.claim, Chosen
    PROVE  \A u \in S3Workers : S3JobFine(s3job[u], kind, store, written, it)
<1> SUFFICES ASSUME NEW u \in S3Workers PROVE S3JobFine(s3job[u], kind, store, written, it)
  OBVIOUS
<1>1. S3JobFine(s3job[u], kind, store, written, intent)
  BY DEF S3Invariant
<1>2. s3job[u].op = "delete old" => s3job[u].of \subseteq it.claim
  BY <1>1 DEF S3JobFine
<1> QED BY <1>1, <1>2 DEF S3JobFine, Ended, Chosen

-----------------------------------------------------------------------------

\* An object is put: its number is new, and the keys that are taken stay as they are.
LEMMA PutKeeps ==
    ASSUME S3Invariant, Chosen, NEW key \in Keys, NEW b \in Bodies, NEW m \in {"none", "stage", "intent"},
           NEW obj, obj = [n |-> written + 1, body |-> b, meta |-> m], written' = written + 1, removed' = removed,
           store' = [store EXCEPT ![key] = (IF Versioning(kind) THEN store[key] ELSE {}) \cup {obj}],
           key = "final" \/ (key = "stage" /\ ~Versioning(kind)) => store[key] = {},
           key = "final" /\ m = "intent" => \E v \in intent.bound : b = v.body,
           UNCHANGED <<storage, kind, options, intent>>, s3job' \in [S3Workers -> S3Job],
           \A u \in S3Workers : S3JobFine(s3job'[u], kind, store, written, intent)
    PROVE  S3Invariant'
<1>1. StoreFine(kind, store, written) /\ IntentFine(intent, kind, store, written) /\ RemovedFine(removed, intent, kind)
  BY DEF S3Invariant
<1>0. written \in Nat /\ written' = written + 1 /\ written' \in Nat
  BY <1>1 DEF StoreFine
<1>2. obj \in S3Object /\ obj.n = written + 1 /\ obj.n \in 1 .. written' /\ obj.body = b /\ obj.meta = m
  BY <1>0 DEF S3Object
<1>12. store \in [Keys -> SUBSET S3Object]
  BY <1>1 DEF StoreFine
<1>3. /\ store' \in [Keys -> SUBSET S3Object]
      /\ \A c \in Keys : c # key => store'[c] = store[c]
      /\ store'[key] = (IF Versioning(kind) THEN store[key] ELSE {}) \cup {obj}
  BY <1>2, <1>12
<1>4. /\ \A c \in Keys : \A p \in store'[c] : p \in store[c] \/ (c = key /\ p = obj)
      /\ ~Versioning(kind) \/ key = "final" => store'[key] = {obj}
      /\ obj \in store'[key]
  BY <1>3
<1>5. \A c \in Keys : \A p \in store[c] : p.n \in 1 .. written
  BY <1>1 DEF StoreFine
<1>6. ASSUME NEW c \in Keys, NEW o \in store'[c]
      PROVE  o.n \in 1 .. written' /\ \A p \in store'[c] : o.n = p.n \/ ~Versioning(kind) \/ c = "final" => o = p
  <2>1. o.n \in 1 .. written'
    <3>1. CASE o \in store[c]
      BY <1>0, <1>5, <3>1
    <3>2. CASE o = obj
      BY <1>2, <3>2
    <3> QED BY <1>4, <3>1, <3>2
  <2>2. ASSUME NEW p \in store'[c], o.n = p.n \/ ~Versioning(kind) \/ c = "final" PROVE o = p
    <3>1. CASE c = key /\ (~Versioning(kind) \/ key = "final")
      BY <1>4, <3>1
    <3>2. CASE o \in store[c] /\ p \in store[c]
      BY <1>1, <2>2, <3>2 DEF StoreFine
    <3>3. CASE o = obj /\ p \in store[c] /\ ~(c = key /\ (~Versioning(kind) \/ key = "final"))
      <4>1. p.n # written + 1
        BY <1>0, <1>5, <3>3
      <4>2. CASE c = key
        BY <1>2, <2>2, <3>3, <4>1, <4>2
      <4>3. CASE c # key
        BY <1>1, <1>3, <2>2, <3>3, <4>3 DEF StoreFine
      <4> QED BY <4>2, <4>3
    <3>4. CASE p = obj /\ o \in store[c] /\ ~(c = key /\ (~Versioning(kind) \/ key = "final"))
      <4>1. o.n # written + 1
        BY <1>0, <1>5, <3>4
      <4>2. CASE c = key
        BY <1>2, <2>2, <3>4, <4>1, <4>2
      <4>3. CASE c # key
        BY <1>1, <1>3, <2>2, <3>4, <4>3 DEF StoreFine
      <4> QED BY <4>2, <4>3
    <3> QED BY <1>4, <3>1, <3>2, <3>3, <3>4
  <2> QED BY <2>1, <2>2
<1>7. StoreFine(kind, store', written')
  <2> QED BY <1>0, <1>3, <1>6 DEF StoreFine
<1>8. ASSUME NEW v, NEW c \in Keys, Named(v, store[c], written, kind) PROVE Named(v, store'[c], written', kind)
  <2>1. CASE Versioning(kind)
    <3>1. v.vid \in 1 .. written /\ \A o \in store[c] : o.n = v.vid => o.body = v.body
      BY <1>8, <2>1 DEF Named
    <3>2. v.vid # obj.n /\ v.vid \in 1 .. written'
      BY <1>0, <1>2, <3>1
    <3> QED BY <1>4, <2>1, <3>1, <3>2 DEF Named
  <2>2. CASE ~Versioning(kind)
    BY <1>8, <2>2 DEF Named
  <2> QED BY <2>1, <2>2
<1>9. "stage" \in Keys /\ "final" \in Keys /\ "old" \in Keys
  BY DEF Keys
<1>10. IntentFine(intent, kind, store', written')
  <2>1. \A v \in intent.bound : Named(v, store'["stage"], written', kind)
    BY <1>1, <1>8, <1>9 DEF IntentFine
  <2>2. \A v \in intent.old \cup intent.claim : Named(v, store'["old"], written', kind)
    BY <1>1, <1>8, <1>9 DEF IntentFine
  <2>3. ASSUME NEW o \in store'["final"], o.meta = "intent" PROVE \E v \in intent.bound : o.body = v.body
    <3>1. CASE o \in store["final"]
      BY <1>1, <2>3, <3>1 DEF IntentFine
    <3> QED BY <1>2, <1>4, <1>9, <2>3, <3>1
  <2>4. \A c \in {"stage", "final"} : \A o \in store[c] : o \in store'[c]
    <3>1. CASE ~Versioning(kind) \/ key = "final"
      BY <1>3, <1>9, <3>1
    <3>2. CASE Versioning(kind)
      BY <1>3, <1>9, <3>2
    <3> QED BY <3>1, <3>2
  <2> QED BY <1>1, <2>1, <2>2, <2>3, <2>4 DEF IntentFine
<1>11. ASSUME NEW u \in S3Workers PROVE S3JobFine(s3job'[u], kind, store', written', intent)
  <2> DEFINE j == s3job'[u]
  <2>1. S3JobFine(j, kind, store, written, intent)
    OBVIOUS
  <2>2. j.op \in Deletions => \A v \in j.of : Named(v, store'[KeyFor(j.op)], written', kind)
    <3>1. KeyFor(j.op) \in Keys
      BY DEF KeyFor, Keys
    <3> QED BY <1>8, <2>1, <3>1 DEF S3JobFine
  <2>3. ASSUME j.op = "delete final", Versioning(kind), NEW v \in j.of, NEW o \in store'["final"], o.n = v.vid PROVE o.meta = "intent"
    <3>1. Named(v, store["final"], written, kind)
      BY <2>1, <2>3 DEF S3JobFine, KeyFor, Deletions
    <3>2. v.vid \in 1 .. written
      BY <2>3, <3>1 DEF Named
    <3>3. v.vid # written + 1
      BY <1>0, <3>2
    <3>5. o # obj
      BY <1>2, <2>3, <3>3
    <3>4. o \in store["final"]
      BY <1>4, <1>9, <3>5
    <3> QED BY <2>1, <2>3, <3>4 DEF S3JobFine
  <2> HIDE DEF j
  <2>4. QED
    BY <2>1, <2>2, <2>3 DEF S3JobFine, j
<1> QED BY <1>1, <1>12, <1>7, <1>10, <1>11 DEF S3Invariant, StagedStaysPrivate

\* Workers that go on leave the rest as it is.
LEMMA WorkersMove ==
    ASSUME S3Invariant, UNCHANGED <<storage, kind, options, store, written, removed, intent>>,
           s3job' \in [S3Workers -> S3Job],
           \A u \in S3Workers : S3JobFine(s3job'[u], kind, store, written, intent)
    PROVE  S3Invariant'
BY DEF S3Invariant, StagedStaysPrivate

\* A request that asks for an absent key puts its object, or changes nothing.
LEMMA PutFine ==
    ASSUME S3Invariant, Chosen, NEW key \in Keys, NEW b \in Bodies, NEW m \in {"none", "stage", "intent"},
           \/ PutObject(key, Object(b, m)) /\ (key = "final" \/ (key = "stage" /\ ~Versioning(kind)) => store[key] = {})
           \/ _put_if_none_match(key, Object(b, m))
           \/ UNCHANGED <<store, written, removed>>,
           key = "final" /\ m = "intent" => \E v \in intent.bound : b = v.body,
           UNCHANGED <<storage, kind, options, intent>>, s3job' \in [S3Workers -> S3Job],
           \A u \in S3Workers : S3JobFine(s3job'[u], kind, store, written, intent)
    PROVE  S3Invariant'
<1>1. CASE UNCHANGED <<store, written, removed>>
  BY <1>1, WorkersMove
<1>2. CASE PutObject(key, Object(b, m)) /\ (key = "final" \/ (key = "stage" /\ ~Versioning(kind)) => store[key] = {})
  <2> DEFINE obj == [n |-> written + 1, body |-> b, meta |-> m]
  <2>1. /\ written' = written + 1 /\ removed' = removed
        /\ store' = [store EXCEPT ![key] = (IF Versioning(kind) THEN store[key] ELSE {}) \cup {obj}]
    BY <1>2, Versions, Zenon DEF PutObject, Object
  <2> HIDE DEF obj
  <2>2. obj = [n |-> written + 1, body |-> b, meta |-> m]
    BY DEF obj
  <2> QED BY <1>2, <2>1, <2>2, PutKeeps
<1>3. CASE _put_if_none_match(key, Object(b, m)) /\ store[key] = {}
  BY <1>2, <1>3, Zenon DEF _put_if_none_match, PutIfAbsent
<1>4. CASE _put_if_none_match(key, Object(b, m)) /\ store[key] # {}
  BY <1>1, <1>4, Zenon DEF _put_if_none_match, PutIfAbsent
<1> QED BY <1>1, <1>2, <1>3, <1>4

\* A worker with an operation has an adapter.
LEMMA Busy == ASSUME S3Invariant, NEW w \in S3Workers, s3job[w].op # "" \/ s3job[w].at # "" PROVE Chosen /\ s3job[w] \in S3Job
<1>1. S3JobFine(s3job[w], kind, store, written, intent)
  BY DEF S3Invariant
<1>2. NoJob.op = "" /\ NoJob.at = ""
  BY DEF NoJob
<1>3. s3job[w] # NoJob
  BY <1>2
<1> QED BY <1>1, <1>3 DEF S3JobFine, Chosen

\* A worker goes on with a step that deletes nothing, or gives up.
LEMMA GoesOn ==
    ASSUME S3Invariant, NEW w \in S3Workers, Chosen,
           GivesUp(w) \/ \E at \in {"verify", "doubt", "done", "copy", "open", "put"} : Proceeds(w, at, {})
    PROVE  /\ s3job' \in [S3Workers -> S3Job] /\ \A u \in S3Workers : S3JobFine(s3job'[u], kind, store, written, intent)
           /\ GivesUp(w) => \A u \in S3Workers : s3job'[u] = s3job[u] \/ s3job'[u] = NoJob
<1>1. s3job \in [S3Workers -> S3Job] /\ \A u \in S3Workers : S3JobFine(s3job[u], kind, store, written, intent)
  BY DEF S3Invariant
<1>2. NoJob \in S3Job /\ S3JobFine(NoJob, kind, store, written, intent)
  BY NoJobFine DEF S3JobFine
<1>3. CASE GivesUp(w)
  BY <1>1, <1>2, <1>3 DEF GivesUp
<1>4. ASSUME NEW at \in {"verify", "doubt", "done", "copy", "open", "put"}, Proceeds(w, at, {})
      PROVE  s3job' \in [S3Workers -> S3Job] /\ \A u \in S3Workers : S3JobFine(s3job'[u], kind, store, written, intent)
  <2> DEFINE j == [op |-> s3job[w].op, at |-> at, of |-> {}]
  <2>1. s3job' = [s3job EXCEPT ![w] = j]
    BY <1>4 DEF Proceeds
  <2>2. j \in S3Job /\ j.op = s3job[w].op /\ j.at = at /\ j.of = {}
    BY <1>1 DEF S3Job
  <2> HIDE DEF j
  <2>3. S3JobFine(j, kind, store, written, intent)
    <3>1. S3JobFine(s3job[w], kind, store, written, intent)
      BY <1>1
    <3> QED BY <2>2, <3>1 DEF S3JobFine, Deleting, Chosen
  <2> QED BY <1>1, <2>1, <2>2, <2>3
<1>5. GivesUp(w) => \A u \in S3Workers : s3job'[u] = s3job[u] \/ s3job'[u] = NoJob
  BY <1>1, <1>2 DEF GivesUp
<1> QED BY <1>3, <1>4, <1>5

\* Objects of a key are deleted.
LEMMA TakeKeeps ==
    ASSUME S3Invariant, Chosen, NEW key \in Keys, NEW gone \in SUBSET store[key],
           store' = [store EXCEPT ![key] = @ \ gone],
           key = "stage" => intent.state \in Ended, key = "final" => intent.state = "superseded",
           RemovedFine(removed', intent, kind), written' = written,
           UNCHANGED <<storage, kind, options, intent>>, s3job' \in [S3Workers -> S3Job],
           \A u \in S3Workers : S3JobFine(s3job'[u], kind, store, written, intent)
    PROVE  S3Invariant'
<1>1. StoreFine(kind, store, written) /\ IntentFine(intent, kind, store, written)
  BY DEF S3Invariant
<1>2. store \in [Keys -> SUBSET S3Object] /\ "stage" \in Keys /\ "final" \in Keys /\ "old" \in Keys
  BY <1>1 DEF StoreFine, Keys
<1>3. /\ store' \in [Keys -> SUBSET S3Object] /\ \A c \in Keys : store'[c] \subseteq store[c] /\ (c # key => store'[c] = store[c])
  BY <1>2
<1>4. StoreFine(kind, store', written)
  BY <1>1, <1>3 DEF StoreFine
<1>5. \A v : \A c \in Keys : Named(v, store[c], written, kind) => Named(v, store'[c], written, kind)
  BY <1>3 DEF Named
<1>6. IntentFine(intent, kind, store', written)
  <2>1. /\ \A v \in intent.bound : Named(v, store'["stage"], written, kind)
        /\ \A v \in intent.old \cup intent.claim : Named(v, store'["old"], written, kind)
        /\ \A o \in store'["final"] : o.meta = "intent" => \E v \in intent.bound : o.body = v.body
    BY <1>1, <1>2, <1>3, <1>5 DEF IntentFine
  <2>2. ASSUME intent.state = "consumed" PROVE \E o \in store'["final"] : intent.final = {VersionOf(kind, o)} /\ o.meta = "intent"
    BY <1>1, <1>2, <1>3, <2>2 DEF IntentFine
  <2>3. ASSUME intent.state \in {"uploaded", "finalizing"} PROVE \E v \in intent.bound : \E o \in store'["stage"] : VersionOf(kind, o) = v
    <3>1. intent.state \notin Ended
      BY <2>3 DEF Ended
    <3> QED BY <1>1, <1>2, <1>3, <2>3, <3>1 DEF IntentFine
  <2> QED BY <1>1, <2>1, <2>2, <2>3 DEF IntentFine
<1>7. ASSUME NEW u \in S3Workers PROVE S3JobFine(s3job'[u], kind, store', written, intent)
  <2> DEFINE j == s3job'[u]
  <2>1. S3JobFine(j, kind, store, written, intent)
    OBVIOUS
  <2>2. j.op \in Deletions => \A v \in j.of : Named(v, store'[KeyFor(j.op)], written, kind)
    <3>1. KeyFor(j.op) \in Keys
      BY DEF KeyFor, Keys
    <3> QED BY <1>5, <2>1, <3>1 DEF S3JobFine
  <2> HIDE DEF j
  <2>3. S3JobFine(j, kind, store', written, intent)
    BY <1>2, <1>3, <2>1, <2>2 DEF S3JobFine, j
  <2> QED BY <2>3 DEF j
<1> QED BY <1>4, <1>6, <1>7 DEF S3Invariant, StagedStaysPrivate

\* The record goes on, and what has been recorded for deletions stays.
LEMMA RecordMoves ==
    ASSUME S3Invariant, Chosen, UNCHANGED <<storage, kind, options, store, written, removed>>,
           IntentFine(intent', kind, store, written),
           intent.state \in Ended => intent'.state = intent.state /\ intent'.bound = intent.bound,
           intent.claim # {} => intent'.claim = intent.claim,
           s3job' \in [S3Workers -> S3Job], \A u \in S3Workers : s3job'[u] = s3job[u] \/ s3job'[u] = NoJob
    PROVE  S3Invariant'
<1>1. intent' \in Intent
  BY DEF IntentFine
<1>2. \A u \in S3Workers : S3JobFine(s3job[u], kind, store, written, intent')
  BY <1>1, JobsStay
<1>3. \A u \in S3Workers : S3JobFine(s3job'[u], kind, store, written, intent')
  BY <1>2, NoJobFine
<1>4. RemovedFine(removed, intent', kind)
  <2>1. RemovedFine(removed, intent, kind)
    BY DEF S3Invariant
  <2>2. ASSUME NEW r \in removed, r.key = "old" PROVE VersionOf(kind, r.object) \in intent'.claim
    BY <2>1, <2>2 DEF RemovedFine
  <2> QED BY <2>1, <2>2 DEF RemovedFine, Ended
<1> QED BY <1>3, <1>4, IntentMoves

-----------------------------------------------------------------------------
(* Initial states and steps *)

LEMMA S3Starts == S3Init => S3Invariant
<1> SUFFICES ASSUME S3Init PROVE S3Invariant
  OBVIOUS
<1> DEFINE first == [n |-> 1, body |-> "oldest", meta |-> "none"]
<1>1. first \in S3Object /\ first.n = 1 /\ first.meta = "none"
  BY DEF S3Object, Bodies
<1> HIDE DEF first
<1>2. store = [key \in Keys |-> IF key = "old" THEN {first} ELSE {}] /\ written = 1 /\ removed = {}
  BY DEF S3Init, first
<1>3. StoreFine(kind, store, written)
  BY <1>1, <1>2 DEF StoreFine, Keys
<1>4. intent = NewIntent /\ NewIntent \in Intent /\ NewIntent.bound = {} /\ NewIntent.old = {} /\ NewIntent.claim = {} /\ NewIntent.state = "pending"
  BY DEF S3Init, NewIntent, Intent, Ended
<1>5. IntentFine(intent, kind, store, written)
  BY <1>2, <1>4 DEF IntentFine, Keys
<1>6. s3job = [w \in S3Workers |-> NoJob] /\ NoJob \in S3Job
  BY NoJobFine DEF S3Init, S3JobFine
<1>7. s3job \in [S3Workers -> S3Job] /\ \A w \in S3Workers : S3JobFine(s3job[w], kind, store, written, intent)
  BY <1>6, NoJobFine
<1>8. StagedStaysPrivate
  BY DEF S3Init, StagedStaysPrivate
<1>9. kind = "" /\ storage \in Setting
  BY S3Assumption DEF S3Init
<1> QED BY <1>2, <1>3, <1>5, <1>7, <1>8, <1>9 DEF S3Invariant, RemovedFine

\* Either check refuses a storage whose staged objects the public could read.
LEMMA Configured == ASSUME S3Invariant, Configure PROVE S3Invariant'
<1>1. kind = "" /\ StoreFine(kind, store, written) /\ intent = NewIntent /\ removed = {}
      /\ s3job \in [S3Workers -> S3Job] /\ \A w \in S3Workers : s3job[w] = NoJob
  BY DEF Configure, S3Invariant, IntentFine, RemovedFine, S3JobFine
<1>2. UNCHANGED <<store, written, removed, intent, s3job>> /\ kind' \in {"direct", "proxy", "plain"}
  BY DEF Configure
<1>3. StoreFine(kind', store, written)
  BY <1>1, <1>2 DEF StoreFine, Versioning
<1>4. IntentFine(intent, kind', store, written)
  <2>1. \A o \in store["final"] : o.meta # "intent"
    BY <1>1 DEF S3Invariant, IntentFine, NewIntent
  <2>2. NewIntent \in Intent /\ NewIntent.bound = {} /\ NewIntent.old = {} /\ NewIntent.claim = {} /\ NewIntent.state = "pending"
    BY DEF NewIntent, Intent, Ended
  <2> QED BY <1>1, <2>1, <2>2 DEF IntentFine
<1>5. StagedStaysPrivate'
  <2>1. StagingIsPrivate(storage)
    BY DEF Configure, _validate_direct_support, _validate_proxy_support
  <2>2. ~(OpenBucket(storage) /\ ~storage.privatePrefix)
    BY <2>1 DEF StagingIsPrivate, _storage_is_public
  <2>3. ~(StagingAcl(storage) \in PublicAcl)
    BY DEF StagingAcl, PublicAcl
  <2>4. options' = [publicAcl |-> StagingAcl(storage) \in PublicAcl, publicPrefix |-> OpenBucket(storage) /\ ~storage.privatePrefix]
    BY DEF Configure
  <2> QED BY <2>2, <2>3, <2>4, Zenon DEF StagedStaysPrivate
<1>6. RemovedFine(removed, intent, kind')
  BY <1>1 DEF RemovedFine
<1>7. \A w \in S3Workers : S3JobFine(s3job[w], kind', store, written, intent)
  BY <1>1, NoJobFine
<1> QED BY <1>1, <1>2, <1>3, <1>4, <1>5, <1>6, <1>7 DEF S3Invariant

\* Everything but the record stays.
LEMMA Records ==
    ASSUME S3Invariant, NEW o, o \in _head_optional("stage"), o.body = Announced, intent.state = "pending", Chosen,
           intent' = [intent EXCEPT !.state = "uploaded", !.bound = {Version(o)}]
    PROVE  IntentFine(intent', kind, store, written)
<1>1. StoreFine(kind, store, written) /\ IntentFine(intent, kind, store, written) /\ "stage" \in Keys
  BY DEF S3Invariant, Keys
<1> DEFINE v == VersionOf(kind, o)
<1>2. o \in store["stage"]
  BY <1>1, HeadFine
<1>3. v \in ObjectVersion /\ Named(v, store["stage"], written, kind) /\ v = VersionOf(kind, o) /\ v = Version(o)
  BY <1>1, <1>2, OwnVersion, Versions
<1> HIDE DEF v
<1>4. intent \in Intent /\ intent.bound = {}
  BY <1>1 DEF IntentFine
<1>5. /\ intent' \in Intent /\ intent'.state = "uploaded" /\ intent'.bound = {v}
      /\ intent'.old = intent.old /\ intent'.claim = intent.claim /\ intent'.final = intent.final
  BY <1>3, <1>4 DEF Intent, Ended
<1> QED BY <1>1, <1>2, <1>3, <1>4, <1>5 DEF IntentFine, Chosen

\* The version that is bound is the newest staged one, of the bytes that were announced.
LEMMA Bound ==
    ASSUME S3Invariant, Chosen, NEW objects \in SUBSET {o \in _head_optional("stage") : o.body = Announced}, Binds(objects),
           UNCHANGED <<storage, kind, options, store, written, removed>>,
           s3job' \in [S3Workers -> S3Job], \A u \in S3Workers : s3job'[u] = s3job[u] \/ s3job'[u] = NoJob
    PROVE  S3Invariant'
<1>1. StoreFine(kind, store, written) /\ IntentFine(intent, kind, store, written) /\ "stage" \in Keys
  BY DEF S3Invariant, Keys
<1>2. CASE objects # {} /\ intent.state = "pending"
  <2>1. PICK o \in objects : o \in _head_optional("stage") /\ o.body = Announced /\ objects = {o}
    BY <1>1, <1>2, HeadFine
  <2>2. {Version(p) : p \in objects} = {Version(o)}
    BY <2>1
  <2>3. intent' = [intent EXCEPT !.state = "uploaded", !.bound = {Version(o)}]
    BY <1>2, <2>2 DEF Binds
  <2>4. IntentFine(intent', kind, store, written)
    BY <1>2, <2>1, <2>3, Records
  <2>5. intent \in Intent
    BY <1>1 DEF IntentFine
  <2>6. intent'.claim = intent.claim
    BY <2>3, <2>5 DEF Intent
  <2> QED BY <1>2, <2>4, <2>6, RecordMoves DEF Ended
<1>3. CASE ~(objects # {} /\ intent.state = "pending")
  <2>1. intent' = intent
    BY <1>3, Zenon DEF Binds
  <2> QED BY <1>1, <2>1, RecordMoves
<1> QED BY <1>2, <1>3

LEMMA Preflight == ASSUME S3Invariant, inspect_staged PROVE S3Invariant'
<1>1. Chosen /\ UNCHANGED <<storage, kind, options, store, written, removed, s3job>>
  BY DEF inspect_staged, Chosen
<1>2. s3job' \in [S3Workers -> S3Job] /\ \A u \in S3Workers : s3job'[u] = s3job[u]
  BY <1>1 DEF S3Invariant
<1> DEFINE objects == {o \in _head_optional("stage") : o.body = Announced}
<1>3. Binds(objects)
  BY DEF inspect_staged
<1> QED BY <1>1, <1>2, <1>3, Bound

LEMMA Saves == ASSUME S3Invariant, NEW w \in S3Workers, SaveVerify(w) PROVE S3Invariant'
<1>1. UNCHANGED <<storage, kind, options, store, written, removed>> /\ GivesUp(w) /\ s3job[w].op = "save"
  BY DEF SaveVerify, Same
<1>2. Chosen
  BY <1>1, Busy
<1>3. s3job' \in [S3Workers -> S3Job] /\ \A u \in S3Workers : s3job'[u] = s3job[u] \/ s3job'[u] = NoJob
  BY <1>1, <1>2, GoesOn
<1> DEFINE objects == {o \in _head_optional("stage") : _matches_proxy_stage(o)}
<1>4. Binds(objects) /\ objects \in SUBSET {o \in _head_optional("stage") : o.body = Announced}
  BY DEF SaveVerify, _matches_proxy_stage
<1> HIDE DEF objects
<1> QED BY <1>1, <1>2, <1>3, <1>4, Bound

\* What a state of the record says about the adapter.
LEMMA RecordChosen == ASSUME S3Invariant, intent.state # "pending" \/ intent.claim # {} PROVE Chosen
<1>1. NewIntent.state = "pending" /\ NewIntent.claim = {}
  BY DEF NewIntent
<1> QED BY <1>1 DEF S3Invariant, IntentFine, Chosen

LEMMA Replaces == ASSUME S3Invariant, inspect_replaced_object PROVE S3Invariant'
<1>1. StoreFine(kind, store, written) /\ IntentFine(intent, kind, store, written) /\ "old" \in Keys /\ intent \in Intent
  BY DEF S3Invariant, Keys, IntentFine
<1>2. intent.state = "uploaded" /\ UNCHANGED <<storage, kind, options, store, written, removed, s3job>>
  BY DEF inspect_replaced_object
<1>3. Chosen
  BY <1>2, RecordChosen
<1>4. PICK old \in {{}, {Version(o) : o \in _head_optional("old")}} : intent' = [intent EXCEPT !.state = "finalizing", !.old = old]
  BY DEF inspect_replaced_object
<1>5. \A v \in old : v \in ObjectVersion /\ Named(v, store["old"], written, kind)
  <2> SUFFICES ASSUME NEW o \in _head_optional("old") PROVE Version(o) \in ObjectVersion /\ Named(Version(o), store["old"], written, kind)
    BY <1>4
  <2> QED BY <1>1, <1>3, HeadFine, OwnVersion, Versions
<1>6. /\ intent' \in Intent /\ intent'.state = "finalizing" /\ intent'.bound = intent.bound
      /\ intent'.old = old /\ intent'.claim = intent.claim /\ intent'.final = intent.final
  BY <1>1, <1>4, <1>5 DEF Intent
<1>7. IntentFine(intent', kind, store, written)
  BY <1>1, <1>2, <1>3, <1>5, <1>6 DEF IntentFine, Chosen
<1>8. s3job' \in [S3Workers -> S3Job] /\ \A u \in S3Workers : s3job'[u] = s3job[u]
  BY <1>2 DEF S3Invariant
<1> QED BY <1>2, <1>3, <1>6, <1>7, <1>8, RecordMoves DEF Ended

LEMMA Completes == ASSUME S3Invariant, NEW w \in S3Workers, inspect_materialized(w) PROVE S3Invariant'
<1>1. StoreFine(kind, store, written) /\ IntentFine(intent, kind, store, written) /\ "final" \in Keys /\ intent \in Intent
  BY DEF S3Invariant, Keys, IntentFine
<1>2. UNCHANGED <<storage, kind, options, store, written, removed>> /\ GivesUp(w) /\ s3job[w].op = "materialize"
  BY DEF inspect_materialized, Same, Does
<1>3. Chosen
  BY <1>2, Busy
<1>4. s3job' \in [S3Workers -> S3Job] /\ \A u \in S3Workers : s3job'[u] = s3job[u] \/ s3job'[u] = NoJob
  BY <1>2, <1>3, GoesOn
<1>5. CASE intent' = intent
  BY <1>1, <1>2, <1>3, <1>4, <1>5, RecordMoves
<1> DEFINE own == {o \in _head_optional("final") : _matches_materialization(o)}
<1>6. CASE own # {} /\ intent.state = "finalizing" /\ intent' = [intent EXCEPT !.state = "consumed", !.final = {Version(o) : o \in own}]
  <2>1. PICK o \in own : own = {o} /\ o \in store["final"] /\ _matches_materialization(o)
    BY <1>1, <1>6, HeadFine
  <2>2. {Version(p) : p \in own} = {VersionOf(kind, o)} /\ VersionOf(kind, o) \in ObjectVersion /\ o.meta = "intent"
    BY <1>1, <1>3, <2>1, OwnVersion, Versions DEF _matches_materialization
  <2>3. /\ intent' \in Intent /\ intent'.state = "consumed" /\ intent'.bound = intent.bound
        /\ intent'.old = intent.old /\ intent'.claim = intent.claim /\ intent'.final = {VersionOf(kind, o)}
    BY <1>1, <1>6, <2>2 DEF Intent, Ended
  <2>4. IntentFine(intent', kind, store, written)
    BY <1>1, <1>3, <2>1, <2>2, <2>3 DEF IntentFine, Chosen
  <2> QED BY <1>2, <1>3, <1>4, <1>6, <2>3, <2>4, RecordMoves DEF Ended
<1> QED BY <1>5, <1>6 DEF inspect_materialized

\* The record ends, or what replaces a file is claimed for deletion.
LEMMA Ends == ASSUME S3Invariant, Supersede \/ Expire \/ plan_replaced_object_claim PROVE S3Invariant'
<1>1. IntentFine(intent, kind, store, written) /\ intent \in Intent
  BY DEF S3Invariant, IntentFine
<1>2. UNCHANGED <<storage, kind, options, store, written, removed, s3job>>
  BY DEF Supersede, Expire, plan_replaced_object_claim
<1>3. Chosen
  BY RecordChosen DEF Supersede, Expire, plan_replaced_object_claim, Chosen
<1>4. s3job' \in [S3Workers -> S3Job] /\ \A u \in S3Workers : s3job'[u] = s3job[u]
  BY <1>2 DEF S3Invariant
<1>5. CASE Supersede
  <2>1. /\ intent' \in Intent /\ intent'.state = "superseded" /\ intent'.bound = intent.bound /\ intent.state \notin Ended
        /\ intent'.old = intent.old /\ intent'.claim = intent.claim /\ intent'.final = intent.final
    BY <1>1, <1>5 DEF Intent, Ended, Supersede
  <2>2. IntentFine(intent', kind, store, written)
    BY <1>1, <1>3, <2>1 DEF IntentFine, Chosen
  <2> QED BY <1>2, <1>3, <1>4, <2>1, <2>2, RecordMoves
<1>6. CASE Expire
  <2>1. /\ intent' \in Intent /\ intent'.state = "expired" /\ intent'.bound = intent.bound /\ intent.state \notin Ended
        /\ intent'.old = intent.old /\ intent'.claim = intent.claim /\ intent'.final = intent.final
    BY <1>1, <1>6 DEF Intent, Ended, Expire
  <2>2. IntentFine(intent', kind, store, written)
    BY <1>1, <1>3, <2>1 DEF IntentFine, Chosen
  <2> QED BY <1>2, <1>3, <1>4, <2>1, <2>2, RecordMoves
<1>7. CASE plan_replaced_object_claim
  <2>1. /\ intent' \in Intent /\ intent'.state = intent.state /\ intent'.bound = intent.bound /\ intent.claim = {}
        /\ intent'.old = intent.old /\ intent'.claim = intent.old /\ intent'.final = intent.final
    BY <1>1, <1>7 DEF Intent, plan_replaced_object_claim
  <2>2. IntentFine(intent', kind, store, written)
    BY <1>1, <1>3, <2>1 DEF IntentFine, Chosen
  <2> QED BY <1>2, <1>3, <1>4, <2>1, <2>2, RecordMoves
<1> QED BY <1>5, <1>6, <1>7

\* The operations on staged objects.
LEMMA Uploads == ASSUME S3Invariant, DirectPut \/ \E w \in S3Workers : SavePut(w) PROVE S3Invariant'
<1>1. "stage" \in Keys /\ Announced \in Bodies
  BY DEF Keys, Announced, Bodies
<1>2. CASE DirectPut
  <2>1. Chosen /\ Versioning(kind) /\ UNCHANGED <<storage, kind, options, intent, s3job>> /\ PutObject("stage", Object(Announced, "none"))
    BY <1>2 DEF DirectPut, Chosen, Versioning
  <2>2. s3job' \in [S3Workers -> S3Job] /\ \A u \in S3Workers : S3JobFine(s3job'[u], kind, store, written, intent)
    BY <2>1 DEF S3Invariant
  <2> QED BY <1>1, <2>1, <2>2, PutFine
<1>3. ASSUME NEW w \in S3Workers, SavePut(w) PROVE S3Invariant'
  <2>1. /\ UNCHANGED <<storage, kind, options, intent>> /\ _put_if_none_match("stage", Object(Announced, "stage"))
        /\ s3job[w].op = "save" /\ \E at \in {"verify", "doubt"} : Proceeds(w, at, {})
    BY <1>3, Zenon DEF SavePut, Same, Does, Answered
  <2>2. Chosen
    BY <2>1, Busy
  <2>3. s3job' \in [S3Workers -> S3Job] /\ \A u \in S3Workers : S3JobFine(s3job'[u], kind, store, written, intent)
    BY <2>1, <2>2, GoesOn
  <2> QED BY <1>1, <2>1, <2>2, <2>3, PutFine
<1> QED BY <1>2, <1>3

\* The final object is made of the version that was bound.
LEMMA Creates == ASSUME S3Invariant, NEW w \in S3Workers, Copy(w) \/ FinalPut(w) PROVE S3Invariant'
<1>1. /\ UNCHANGED <<storage, kind, options, intent>> /\ s3job[w].op = "materialize" /\ \E at \in {"verify", "doubt"} : Proceeds(w, at, {})
  BY Zenon DEF Copy, FinalPut, Same, Does, Answered
<1>2. Chosen
  BY <1>1, Busy
<1>3. s3job' \in [S3Workers -> S3Job] /\ \A u \in S3Workers : S3JobFine(s3job'[u], kind, store, written, intent)
  BY <1>1, <1>2, GoesOn
<1>4. PICK v \in intent.bound : _put_if_none_match("final", FinalObject(v)) \/ UNCHANGED <<store, written, removed>>
  BY Zenon DEF Copy, FinalPut
<1>5. v.body \in Bodies /\ "final" \in Keys /\ FinalObject(v) = Object(v.body, "intent")
  <2>1. intent \in Intent
    BY DEF S3Invariant, IntentFine
  <2> QED BY <2>1 DEF Intent, ObjectVersion, Keys, FinalObject
<1>6. _put_if_none_match("final", Object(v.body, "intent")) \/ UNCHANGED <<store, written, removed>>
  BY <1>4, <1>5, Zenon
<1> DEFINE b == v.body
<1>7. b \in Bodies /\ \E u \in intent.bound : b = u.body
  BY <1>5
<1>8. _put_if_none_match("final", Object(b, "intent")) \/ UNCHANGED <<store, written, removed>>
  BY <1>6
<1> HIDE DEF b
<1> QED BY <1>1, <1>2, <1>3, <1>5, <1>7, <1>8, PutFine

LEMMA Strangers == ASSUME S3Invariant, NEW key \in Keys, Outsider(key) PROVE S3Invariant'
<1>1. UNCHANGED <<storage, kind, options, intent, s3job>> /\ Chosen /\ PutObject(key, Object("other", "none")) /\ (key # "old" => store[key] = {})
  BY DEF Outsider, Chosen
<1>2. s3job' \in [S3Workers -> S3Job] /\ \A u \in S3Workers : S3JobFine(s3job'[u], kind, store, written, intent)
  BY <1>1 DEF S3Invariant
<1>3. "other" \in Bodies
  BY DEF Bodies
<1> QED BY <1>1, <1>2, <1>3, PutFine DEF Keys

\* An operation starts with what the record allows.
LEMMA Begins == ASSUME S3Invariant, NEW w \in S3Workers, StartSave(w) \/ StartMaterialize(w) \/ StartDelete(w) \/ StartDeleteClaimed(w) PROVE S3Invariant'
<1>1. IntentFine(intent, kind, store, written) /\ intent \in Intent
  BY DEF S3Invariant, IntentFine
<1>2. ASSUME NEW op, NEW at, NEW of, Starts(w, op, at, of), S3JobFine([op |-> op, at |-> at, of |-> of], kind, store, written, intent)
      PROVE  S3Invariant'
  <2> DEFINE j == [op |-> op, at |-> at, of |-> of]
  <2>1. s3job' = [s3job EXCEPT ![w] = j] /\ UNCHANGED <<storage, kind, options, store, written, removed, intent>>
    BY <1>2, Zenon DEF Starts
  <2>2. S3JobFine(j, kind, store, written, intent)
    BY <1>2
  <2> HIDE DEF j
  <2> QED BY <2>1, <2>2, JobMoves
<1>3. \A op, at, of : Starts(w, op, at, of) => Chosen
  BY DEF Starts, Chosen
<1>4. CASE StartSave(w)
  <2>1. Starts(w, "save", "put", {}) /\ Chosen
    BY <1>3, <1>4 DEF StartSave
  <2>2. S3JobFine([op |-> "save", at |-> "put", of |-> {}], kind, store, written, intent)
    BY <2>1 DEF S3JobFine, S3Job, Deletions, Deleting, Chosen
  <2> QED BY <1>2, <2>1, <2>2
<1>5. CASE StartMaterialize(w)
  <2>1. Starts(w, "materialize", "look", {}) /\ Chosen
    BY <1>3, <1>5 DEF StartMaterialize
  <2>2. S3JobFine([op |-> "materialize", at |-> "look", of |-> {}], kind, store, written, intent)
    BY <2>1 DEF S3JobFine, S3Job, Deletions, Deleting, Chosen
  <2> QED BY <1>2, <2>1, <2>2
<1>6. CASE intent.state \in {"consumed", "superseded", "expired"} /\ intent.bound # {} /\ Starts(w, "delete stage", Unchecked("check"), intent.bound)
  <2> DEFINE at == Unchecked("check")
             of == intent.bound
  <2>1. Starts(w, "delete stage", at, of) /\ Chosen /\ intent.state \in Ended
    BY <1>3, <1>6 DEF Ended
  <2>2. at \in {"check", "delete"} /\ of \in SUBSET ObjectVersion /\ of \subseteq intent.bound
    BY <1>1 DEF Unchecked, Intent
  <2> HIDE DEF at, of
  <2>3. S3JobFine([op |-> "delete stage", at |-> at, of |-> of], kind, store, written, intent)
    BY <1>1, <2>1, <2>2 DEF S3JobFine, S3Job, Deletions, Deleting, KeyFor, IntentFine, Chosen
  <2> QED BY <1>2, <2>1, <2>3
<1>7. CASE intent.state = "expired" /\ intent.bound = {} /\ Starts(w, "delete stage", "inspect", {})
  <2>1. Chosen
    BY <1>3, <1>7
  <2>2. S3JobFine([op |-> "delete stage", at |-> "inspect", of |-> {}], kind, store, written, intent)
    BY <1>7, <2>1 DEF S3JobFine, S3Job, Deletions, Deleting, KeyFor, Ended, Chosen
  <2> QED BY <1>2, <1>7, <2>2
<1>8. CASE intent.state = "superseded" /\ Starts(w, "delete final", "inspect", {})
  <2>1. Chosen
    BY <1>3, <1>8
  <2>2. S3JobFine([op |-> "delete final", at |-> "inspect", of |-> {}], kind, store, written, intent)
    BY <1>8, <2>1 DEF S3JobFine, S3Job, Deletions, Deleting, KeyFor, Ended, Chosen
  <2> QED BY <1>2, <1>8, <2>2
<1>9. CASE StartDeleteClaimed(w)
  <2> DEFINE at == Unchecked("claim")
             of == intent.claim
  <2>1. Starts(w, "delete old", at, of) /\ Chosen
    BY <1>3, <1>9 DEF StartDeleteClaimed
  <2>2. at \in {"claim", "delete"} /\ of \in SUBSET ObjectVersion /\ of \subseteq intent.claim
    BY <1>1 DEF Unchecked, Intent
  <2> HIDE DEF at, of
  <2>3. S3JobFine([op |-> "delete old", at |-> at, of |-> of], kind, store, written, intent)
    BY <1>1, <2>1, <2>2 DEF S3JobFine, S3Job, Deletions, Deleting, KeyFor, IntentFine, Chosen
  <2> QED BY <1>2, <2>1, <2>3
<1> QED BY <1>4, <1>5, <1>6, <1>7, <1>8, <1>9 DEF StartDelete

\* A deletion is decided upon: the versions are those of before, or have been looked up.
LEMMA Decides == ASSUME S3Invariant, NEW w \in S3Workers, Inspect(w) \/ CompareFinal(w) \/ claim_replaced_object(w) \/ Check(w) PROVE S3Invariant'
<1> DEFINE op == s3job[w].op
           key == KeyFor(op)
<1>1. /\ StoreFine(kind, store, written) /\ S3JobFine(s3job[w], kind, store, written, intent)
      /\ s3job \in [S3Workers -> S3Job] /\ s3job[w] \in S3Job
  BY DEF S3Invariant
<1>2. s3job[w].at \in {"inspect", "compare", "claim", "check"} /\ s3job[w].at # "" /\ UNCHANGED <<storage, kind, options, store, written, removed, intent>>
  BY DEF Inspect, CompareFinal, claim_replaced_object, Check, Same
<1>3. Chosen
  BY <1>2, Busy
<1>4. op \in Deletions /\ key = KeyOf(w) /\ key \in Keys
  BY <1>1, <1>2 DEF S3JobFine, Deleting, KeyFor, KeyOf, Keys
<1> HIDE DEF op, key
<1>5. ASSUME NEW j, s3job' = [s3job EXCEPT ![w] = j], S3JobFine(j, kind, store, written, intent) PROVE S3Invariant'
  BY <1>2, <1>5, JobMoves
<1>6. CASE GivesUp(w)
  BY <1>5, <1>6, NoJobFine DEF GivesUp
<1>7. ASSUME NEW at \in {"check", "delete"}, Proceeds(w, at, s3job[w].of) PROVE S3Invariant'
  <2> DEFINE j == [op |-> op, at |-> at, of |-> s3job[w].of]
  <2>1. s3job' = [s3job EXCEPT ![w] = j]
    BY <1>7 DEF Proceeds, op
  <2>2. j \in S3Job /\ j.op = s3job[w].op /\ j.at = at /\ j.of = s3job[w].of
    BY <1>1 DEF S3Job, Deleting, op
  <2> HIDE DEF j
  <2>3. S3JobFine(j, kind, store, written, intent)
    BY <1>1, <1>3, <1>4, <2>2 DEF S3JobFine, Chosen, op
  <2> QED BY <1>5, <2>1, <2>3
<1>8. CASE Inspect(w)
  <2> DEFINE found == {o \in _head_optional(key) : Own(w, o)}
             of == {Version(o) : o \in found}
  <2>1. CASE found # {}
    <3>1. PICK at \in {"compare", "delete", "check"} : Proceeds(w, at, of)
      BY <1>4, <1>8, <2>1, Zenon DEF Inspect
    <3> DEFINE j == [op |-> op, at |-> at, of |-> of]
    <3>2. s3job' = [s3job EXCEPT ![w] = j]
      BY <3>1 DEF Proceeds, op
    <3>3. PICK o \in found : of = {Version(o)} /\ o \in store[key] /\ Own(w, o)
      BY <1>1, <1>4, <2>1, HeadFine
    <3> DEFINE v == VersionOf(kind, o)
    <3>4. of = {v} /\ v \in ObjectVersion /\ Named(v, store[key], written, kind) /\ v.body = o.body
      BY <1>1, <1>3, <1>4, <3>3, OwnVersion, Versions DEF VersionOf
    <3>5. Versioning(kind) /\ key = "final" => \A p \in store[key] : p.n = v.vid => p = o
      BY <1>1, <1>4, <3>3 DEF StoreFine, VersionOf
    <3>6. key = "final" => o.meta = "intent" /\ \E b \in intent.bound : b.body = v.body
      BY <1>4, <3>3, <3>4 DEF Own, _matches_materialization
    <3> HIDE DEF v, of, found
    <3>7. j \in S3Job /\ j.op = op /\ j.at = at /\ j.of = {v}
      BY <1>1, <3>1, <3>4 DEF S3Job, Deleting, op
    <3> HIDE DEF j
    <3>8. s3job[w].op = op /\ s3job[w].at = "inspect"
      BY <1>8 DEF Inspect, op
    <3>9. S3JobFine(j, kind, store, written, intent)
      <4>1. op = "delete stage" => intent.state \in Ended /\ intent.bound = {}
        BY <1>1, <3>8 DEF S3JobFine
      <4>2. op = "delete final" => intent.state = "superseded" /\ key = "final"
        BY <1>1, <3>8 DEF S3JobFine, key, KeyFor
      <4>3. op # "delete old"
        BY <1>1, <3>8 DEF S3JobFine
      <4> QED BY <1>3, <1>4, <3>1, <3>4, <3>5, <3>6, <3>7, <4>1, <4>2, <4>3 DEF S3JobFine, Chosen, key
    <3> QED BY <1>5, <3>2, <3>9
  <2>2. CASE found = {}
    BY <1>4, <1>6, <1>8, <2>2, Zenon DEF Inspect
  <2> QED BY <2>1, <2>2
<1>9. CASE CompareFinal(w) \/ claim_replaced_object(w) \/ Check(w)
  BY <1>6, <1>7, <1>9, Zenon DEF CompareFinal, claim_replaced_object, Check
<1> QED BY <1>8, <1>9

\* What is deleted is the version that the operation knows.
LEMMA Deletes == ASSUME S3Invariant, NEW w \in S3Workers, Delete(w) PROVE S3Invariant'
<1> DEFINE op == s3job[w].op
           key == KeyFor(op)
<1>1. /\ StoreFine(kind, store, written) /\ S3JobFine(s3job[w], kind, store, written, intent) /\ RemovedFine(removed, intent, kind)
      /\ s3job \in [S3Workers -> S3Job] /\ s3job[w] \in S3Job
  BY DEF S3Invariant
<1>2. s3job[w].at = "delete" /\ s3job[w].at # "" /\ UNCHANGED <<storage, kind, options, written, intent>> /\ GivesUp(w)
  BY DEF Delete, Same
<1>3. Chosen
  BY <1>2, Busy
<1>4. op \in Deletions /\ key = KeyOf(w) /\ key \in Keys /\ s3job[w].of \subseteq ObjectVersion
  BY <1>1, <1>2 DEF S3JobFine, Deleting, KeyFor, KeyOf, Keys, S3Job
<1>5. PICK v \in s3job[w].of : _delete_if_match(key, v)
  BY <1>4 DEF Delete
<1> DEFINE gone == {o \in Exact(key, v) : kind = "direct" \/ o.body = v.body}
<1>6. /\ store' = [store EXCEPT ![key] = @ \ gone]
      /\ removed' = removed \cup {[key |-> key, object |-> o] : o \in gone}
  BY <1>5, Zenon DEF _delete_if_match, DeleteExact, Takes
<1>7. Named(v, store[key], written, kind) /\ v \in ObjectVersion
  BY <1>1, <1>4 DEF S3JobFine
<1>8. \A o \in gone : o \in store[key] /\ VersionOf(kind, o) = v
  BY <1>1, <1>4, <1>7, ExactFine DEF Versioning
<1> HIDE DEF gone, key, op
<1>9. s3job' \in [S3Workers -> S3Job] /\ \A u \in S3Workers : S3JobFine(s3job'[u], kind, store, written, intent)
  BY <1>2, <1>3, GoesOn
<1>10. /\ key = "stage" => intent.state \in Ended /\ (intent.bound # {} => v \in intent.bound)
       /\ key = "final" => /\ intent.state = "superseded" /\ \E b \in intent.bound : b.body = v.body
                           /\ Versioning(kind) => \A o \in store["final"] : o.n = v.vid => o.meta = "intent"
       /\ key = "old" => v \in intent.claim
  BY <1>1, <1>4 DEF S3JobFine, KeyFor, Deletions, key, op
<1>11. RemovedFine(removed', intent, kind)
  <2> SUFFICES ASSUME NEW r \in removed'
      PROVE  /\ r.key = "stage" => intent.state \in Ended /\ (intent.bound # {} => VersionOf(kind, r.object) \in intent.bound)
             /\ r.key = "final" => /\ intent.state = "superseded" /\ \E b \in intent.bound : r.object.body = b.body
                                   /\ Versioning(kind) => r.object.meta = "intent"
             /\ r.key = "old" => VersionOf(kind, r.object) \in intent.claim
    BY <1>3 DEF RemovedFine, Chosen
  <2>1. CASE r \in removed
    BY <1>1, <2>1 DEF RemovedFine
  <2>2. ASSUME NEW o \in gone, r = [key |-> key, object |-> o]
        PROVE  /\ r.key = "stage" => intent.state \in Ended /\ (intent.bound # {} => VersionOf(kind, r.object) \in intent.bound)
               /\ r.key = "final" => /\ intent.state = "superseded" /\ \E b \in intent.bound : r.object.body = b.body
                                     /\ Versioning(kind) => r.object.meta = "intent"
               /\ r.key = "old" => VersionOf(kind, r.object) \in intent.claim
    <3>1. r.key = key /\ r.object = o /\ VersionOf(kind, o) = v /\ o \in store[key]
      BY <1>8, <2>2
    <3>2. o.body = v.body /\ (Versioning(kind) => o.n = v.vid)
      BY <3>1 DEF VersionOf
    <3> QED BY <1>10, <3>1, <3>2
  <2> QED BY <1>6, <2>1, <2>2
<1>12. (key = "stage" => intent.state \in Ended) /\ (key = "final" => intent.state = "superseded") /\ gone \in SUBSET store[key]
  BY <1>8, <1>10
<1> QED BY <1>2, <1>3, <1>4, <1>6, <1>9, <1>11, <1>12, TakeKeeps

\* The other steps of a worker.
LEMMA WorksOn ==
    ASSUME S3Invariant, NEW w \in S3Workers, Lost(w) \/ Stops(w) \/ Look(w) \/ open_stage(w) \/ Verify(w)
    PROVE  S3Invariant'
<1>1. UNCHANGED <<storage, kind, options, store, written, removed, intent>>
  BY DEF Lost, Stops, Look, open_stage, Verify, Same
<1>2. CASE Stops(w)
  <2>1. GivesUp(w)
    BY <1>2 DEF Stops
  <2>2. Chosen
    BY <1>2 DEF Stops, S3Invariant, S3JobFine, Chosen
  <2> QED BY <1>1, <2>1, <2>2, GoesOn, WorkersMove
<1>3. CASE Lost(w) \/ Look(w) \/ open_stage(w) \/ Verify(w)
  <2>1. GivesUp(w) \/ \E at \in {"verify", "doubt", "done", "copy", "open", "put"} : Proceeds(w, at, {})
    BY <1>3, Zenon DEF Lost, Look, open_stage, Verify
  <2>2. s3job[w].at \in {"put", "copy", "delete", "look", "open", "verify", "doubt"} /\ s3job[w].at # ""
    BY <1>3 DEF Lost, Look, open_stage, Verify, Does
  <2>3. Chosen
    BY <2>2, Busy
  <2> QED BY <1>1, <2>1, <2>3, GoesOn, WorkersMove
<1> QED BY <1>2, <1>3

LEMMA S3Steps == S3Invariant /\ [S3Next]_s3Vars => S3Invariant'
<1> SUFFICES ASSUME S3Invariant, [S3Next]_s3Vars PROVE S3Invariant'
  OBVIOUS
<1>1. CASE UNCHANGED s3Vars
  BY <1>1, WorkersMove DEF s3Vars, S3Invariant
<1>2. ASSUME NEW w \in S3Workers, S3Step(w) PROVE S3Invariant'
  BY <1>2, WorksOn, Begins, Uploads, Saves, Creates, Completes, Decides, Deletes DEF S3Step
<1>3. CASE Configure \/ DirectPut \/ inspect_staged \/ inspect_replaced_object \/ Supersede \/ Expire \/ plan_replaced_object_claim
  BY <1>3, Configured, Uploads, Preflight, Replaces, Ends
<1>4. ASSUME NEW key \in Keys, Outsider(key) PROVE S3Invariant'
  BY <1>4, Strangers
<1> QED BY <1>1, <1>2, <1>3, <1>4 DEF S3Next

\* The invariant says what the adapters promise.
LEMMA S3InvariantSound == S3Invariant => S3Sound
<1> SUFFICES ASSUME S3Invariant PROVE FinalIsTheBound /\ OnlyRecordedRemoved
  BY DEF S3Sound, S3Invariant
<1>1. StoreFine(kind, store, written) /\ IntentFine(intent, kind, store, written) /\ RemovedFine(removed, intent, kind) /\ "final" \in Keys /\ "stage" \in Keys
  BY DEF S3Invariant, Keys
<1>2. OnlyRecordedRemoved
  BY <1>1, Versions DEF OnlyRecordedRemoved, RemovedFine
<1>3. ASSUME intent.state = "consumed"
      PROVE  \E v \in intent.final :
               /\ inspect_download(v) # {} /\ \A o \in public_url : Version(o) = v
               /\ \A o \in private_download_url(v) : o.meta = "intent" /\ \E b \in intent.bound : o.body = b.body
  <2>1. PICK o \in store["final"] : intent.final = {VersionOf(kind, o)} /\ o.meta = "intent"
    BY <1>1, <1>3 DEF IntentFine
  <2>2. \E b \in intent.bound : o.body = b.body
    BY <1>1, <2>1 DEF IntentFine
  <2> DEFINE v == VersionOf(kind, o)
  <2>3. v \in intent.final /\ v \in ObjectVersion
    BY <1>1, <2>1 DEF IntentFine, Intent
  <2>4. o \in Exact("final", v) /\ Exact("final", v) \subseteq store["final"]
    BY <1>1, <2>3, ExactFine
  <2>5. \A p \in store["final"] : p = o
    BY <1>1 DEF StoreFine
  <2>6. Version(o) = v
    BY Versions
  <2>7. public_url \subseteq store["final"]
    BY <1>1, HeadFine DEF public_url
  <2> HIDE DEF v
  <2> QED BY <2>1, <2>2, <2>3, <2>4, <2>5, <2>6, <2>7 DEF inspect_download, private_download_url
<1>4. ASSUME intent.state \in {"uploaded", "finalizing"}
      PROVE  \E v \in intent.bound : \E o \in Exact("stage", v) : Version(o) = v
  <2>1. PICK v \in intent.bound, o \in store["stage"] : VersionOf(kind, o) = v
    BY <1>1, <1>4 DEF IntentFine
  <2>2. v \in ObjectVersion
    BY <1>1 DEF IntentFine, Intent
  <2> QED BY <1>1, <2>1, <2>2, ExactFine, Versions
<1> QED BY <1>2, <1>3, <1>4 DEF FinalIsTheBound

\* Whatever the settings, the workers and the faults: the final object of a consumed upload is
\* the recorded version of the bytes that were bound, only recorded versions are deleted, and
\* staged objects stay private (S3UploadAdapter, S3ProxyUploadAdapter).
THEOREM S3SoundCorrect == S3Spec => []S3Sound
<1>1. S3Init => S3Invariant
  BY S3Starts
<1>2. S3Invariant /\ [S3Next]_s3Vars => S3Invariant'
  BY S3Steps
<1>3. S3Invariant => S3Sound
  BY S3InvariantSound
<1> QED BY <1>1, <1>2, <1>3, PTL DEF S3Spec
=============================================================================
