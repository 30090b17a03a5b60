------------------------ MODULE SearchIndexingProofs ------------------------
(***************************************************************************)
(* Safety of the search index for any rows, sweeps, changes and faults: a  *)
(* mark is given up only to work that covers it, and a clean pair is       *)
(* current.                                                                *)
(***************************************************************************)
EXTENDS SearchIndexing, FiniteSetTheorems, TLAPS

\* The records that are underway.
Reasons == StrongReasons \cup {"data_changed", None}
Pair == [fp : 0..2, dirty : BOOLEAN, reason : Reasons, gen : Nat, claim : Nat, live : BOOLEAN]
Token == [gen : Nat, ack : BOOLEAN]
Handoff == {NoHandoff} \cup
           [pc : {"mark", "dispatch", "inline", "ack"}, row : Rows,
            work : {"index", "delete", "fallback"}, token : Token]
Task == {NoTask} \cup
        [pc : {"start", "write", "delete", "recheck"}, kind : {"index", "delete"},
         row : Rows, gen : Nat, read : SearchDocuments]
Sweep == {NoSweep} \cup
         [pc : {"read", "write", "clear"}, token : Nat \ {0}, gen : Nat, read : [Rows -> SearchDocuments]]

SearchTypes ==
    /\ mode \in [async : BOOLEAN, default : BOOLEAN] /\ (mode.async => mode.default)
    /\ schema \in 1..2
    /\ changes \in 0..MaxChanges
    /\ rows \in [Rows -> [at : 0..MaxChanges, live : BOOLEAN]]
    /\ pair \in Pair /\ (pair.dirty <=> pair.reason # None)
    /\ docs \in [Rows -> SearchDocuments]
    /\ handoff \in [Changes -> Handoff]
    /\ task \in [Changes -> Task]
    /\ sweep \in [1..Sweeps -> Sweep]
    /\ changed \subseteq Changes
    /\ excused \subseteq Rows

LEMMA TypesSound == SearchTypes => SearchTypeOK
BY DEF SearchTypes, SearchTypeOK, Pair, Reasons, Changes

\* A uuid that nobody has is there to be drawn.
LEMMA FreshTokens ==
    ASSUME SearchTypes
    PROVE  /\ FreshToken \in Nat \ {0, pair.claim}
           /\ \A q \in 1..Sweeps : FreshToken # sweep[q].token
<1> DEFINE Free(t) == t # pair.claim /\ \A q \in 1..Sweeps : t # sweep[q].token
<1>1. \E t \in 1..(Sweeps + 2) : Free(t)
  <2> SUFFICES ASSUME \A t \in 1..(Sweeps + 2) : ~Free(t) PROVE FALSE
    OBVIOUS
  <2> DEFINE Holder == [t \in 1..(Sweeps + 2) |-> IF t = pair.claim THEN 0
                                                  ELSE CHOOSE q \in 1..Sweeps : t = sweep[q].token]
  <2>1. /\ Holder \in [1..(Sweeps + 2) -> 0..Sweeps]
        /\ \A t \in 1..(Sweeps + 2) : \/ t = pair.claim /\ Holder[t] = 0
                                      \/ Holder[t] \in 1..Sweeps /\ t = sweep[Holder[t]].token
    BY SearchAssumption
  <2> HIDE DEF Holder
  <2>2. /\ IsFiniteSet(1..(Sweeps + 2)) /\ Cardinality(1..(Sweeps + 2)) = Sweeps + 2
        /\ IsFiniteSet(0..Sweeps) /\ Cardinality(0..Sweeps) = Sweeps + 1
    BY FS_Interval, SearchAssumption
  <2>3. \E x, y \in 1..(Sweeps + 2) : x # y /\ Holder[x] = Holder[y]
    <3> DEFINE S == 1..(Sweeps + 2)
               T == 0..Sweeps
    <3>1. Cardinality(T) < Cardinality(S)
      BY <2>2, SearchAssumption
    <3>2. IsFiniteSet(S) /\ IsFiniteSet(T) /\ Holder \in [S -> T]
      BY <2>1, <2>2
    <3> HIDE DEF S, T
    <3>3. \E x, y \in S : x # y /\ Holder[x] = Holder[y]
      BY <3>1, <3>2, FS_PigeonHole
    <3> QED BY <3>3 DEF S
  <2> QED BY <2>1, <2>3
<1>2. FreshToken \in 1..(Sweeps + 2) /\ Free(FreshToken)
  BY <1>1 DEF FreshToken
<1> QED BY <1>2, SearchAssumption

\* What marks do to the pair.
Marked(s, t) ==
    /\ t \in Pair /\ t.dirty /\ t.reason # None /\ t.gen = s.gen + 1
    /\ t.claim = s.claim /\ t.live = s.live
    /\ t.fp \in {s.fp, schema} /\ t.fp # 0

LEMMA MarkEffect ==
    ASSUME SearchTypes
    PROVE  /\ Marked(pair, mark_search_index_dirty(pair))
           /\ \/ Marked(pair, mark_existing_search_index_dirty(pair))
              \/ mark_existing_search_index_dirty(pair) = pair /\ pair.fp = 0
           /\ MarkToken(pair) \in Token /\ MarkToken(pair).gen = pair.gen + 1
           /\ MarkToken(pair).ack => ~pair.dirty /\ mark_search_index_dirty(pair).fp = pair.fp
           /\ NoToken \in Token
<1> USE DEF SearchTypes, Pair, Reasons, StrongReasons
<1>1. None \notin StrongReasons \cup {"data_changed"}
  BY DEF None
<1>2. \A reason \in StrongReasons \cup {"data_changed"} :
        /\ Marked(pair, mark_dirty(pair, reason))
           \/ pair.fp = 0
        /\ Marked(pair, mark_dirty([pair EXCEPT !.fp = schema], reason))
  <2> SUFFICES ASSUME NEW reason \in StrongReasons \cup {"data_changed"}
               PROVE  /\ Marked(pair, mark_dirty(pair, reason)) \/ pair.fp = 0
                      /\ Marked(pair, mark_dirty([pair EXCEPT !.fp = schema], reason))
    OBVIOUS
  <2>1. \A s \in Pair : /\ [s EXCEPT !.dirty = TRUE, !.reason = reason, !.gen = @ + 1] \in Pair
                        /\ [s EXCEPT !.fp = schema] \in Pair
    <3> SUFFICES ASSUME NEW s \in Pair
                 PROVE  /\ [s EXCEPT !.dirty = TRUE, !.reason = reason, !.gen = @ + 1] \in Pair
                        /\ [s EXCEPT !.fp = schema] \in Pair
      OBVIOUS
    <3>1. PICK n \in Nat : n = s.gen + 1
      OBVIOUS
    <3>2. [s EXCEPT !.dirty = TRUE, !.reason = reason, !.gen = n] \in Pair
      OBVIOUS
    <3>3. PICK f \in 0..2 : f = schema
      OBVIOUS
    <3>4. [s EXCEPT !.fp = f] \in Pair
      OBVIOUS
    <3> QED BY <3>1, <3>2, <3>3, <3>4
  <2>2. \A s \in Pair : s.fp # 0 => Marked(s, mark_dirty(s, reason))
    BY <1>1, <2>1 DEF Marked, mark_dirty
  <2>3. PICK s \in Pair : s = [pair EXCEPT !.fp = schema]
    BY <2>1
  <2>4. s.fp = schema /\ s.gen = pair.gen /\ s.claim = pair.claim /\ s.live = pair.live
    BY <2>3
  <2>5. Marked(s, mark_dirty(s, reason))
    BY <2>2, <2>4
  <2>6. Marked(pair, mark_dirty(s, reason))
    BY <2>4, <2>5 DEF Marked
  <2> QED BY <2>2, <2>3, <2>6
<1>3. Marked(pair, mark_search_index_dirty(pair))
  BY <1>2 DEF mark_search_index_dirty
<1>4. \/ Marked(pair, mark_existing_search_index_dirty(pair))
      \/ mark_existing_search_index_dirty(pair) = pair /\ pair.fp = 0
  BY <1>2 DEF mark_existing_search_index_dirty
<1>5. /\ MarkToken(pair) \in Token /\ MarkToken(pair).gen = pair.gen + 1 /\ NoToken \in Token
      /\ MarkToken(pair).ack => ~pair.dirty /\ pair.fp = schema
  <2>1. Acknowledgeable(pair) \in BOOLEAN /\ (Acknowledgeable(pair) => ~pair.dirty /\ pair.fp = schema)
    BY DEF Acknowledgeable
  <2>2. pair.gen + 1 \in Nat
    OBVIOUS
  <2> QED BY <2>1, <2>2 DEF MarkToken, Token, NoToken
<1>6. mark_search_index_dirty(pair).fp = schema
  BY DEF mark_search_index_dirty, mark_dirty
<1> QED BY <1>3, <1>4, <1>5, <1>6

LEMMA TypesInit == SearchInit => SearchTypes
<1> SUFFICES ASSUME SearchInit PROVE SearchTypes
  OBVIOUS
<1> USE SearchAssumption
<1>1. 0 \in 0..MaxChanges /\ 0 \in 0..2 /\ 1 \in 0..2 /\ 1 \in 1..2
  OBVIOUS
<1>3. NoHandoff \in Handoff /\ NoTask \in Task /\ NoSweep \in Sweep
  BY DEF Handoff, Task, Sweep
<1>5. /\ rows \in [Rows -> [at : 0..MaxChanges, live : BOOLEAN]]
      /\ changes \in 0..MaxChanges /\ schema \in 1..2
  BY <1>1 DEF SearchInit
<1>9. mode \in [async : BOOLEAN, default : BOOLEAN] /\ (mode.async => mode.default)
  <2>1. mode \in {[async |-> FALSE, default |-> TRUE], [async |-> TRUE, default |-> TRUE],
                 [async |-> FALSE, default |-> FALSE]}
    BY DEF SearchInit
  <2>2. PICK a \in BOOLEAN, d \in BOOLEAN : mode = [async |-> a, default |-> d] /\ (a => d)
    BY <2>1, Zenon
  <2> QED BY <2>2
<1>6. PICK known \in BOOLEAN :
         /\ pair = [fp |-> IF known THEN 1 ELSE 0, dirty |-> FALSE, reason |-> None, gen |-> 0,
                    claim |-> 0, live |-> FALSE]
         /\ docs = [r \in Rows |-> [at |-> 0, live |-> known, schema |-> 1]]
  BY DEF SearchInit
<1>7. pair \in Pair /\ ~pair.dirty /\ pair.reason = None
  BY <1>1, <1>6 DEF Pair, Reasons
<1>8. docs \in [Rows -> SearchDocuments]
  BY <1>1, <1>6 DEF SearchDocuments
<1> QED BY <1>3, <1>5, <1>7, <1>8, <1>9 DEF SearchInit, SearchTypes

-----------------------------------------------------------------------------
(* What a step of a mutation and of its callback does. *)

\* A change of r is marked with a token, or without, or goes unmarked.
MarksRow(c, r, token) ==
    \/ /\ Marked(pair, pair') /\ changed' = changed \cup {c} /\ excused' = excused
       /\ \/ token.gen = pair'.gen /\ (token.ack => ~pair.dirty /\ pair'.fp = pair.fp)
          \/ token = NoToken
    \/ pair' = pair /\ changed' = changed /\ excused' = excused \cup {r} /\ token = NoToken

LEMMA MarkingEffect ==
    ASSUME SearchTypes, NEW c \in Changes, NEW r \in Rows, NEW token, _mark_pairs(c, r, token)
    PROVE  token \in Token /\ MarksRow(c, r, token) /\ pair' \in Pair
           /\ (pair'.dirty <=> pair'.reason # None) /\ changed' \subseteq Changes /\ excused' \subseteq Rows
<1>1. pair \in Pair /\ (pair.dirty <=> pair.reason # None) /\ changed \subseteq Changes /\ excused \subseteq Rows
  BY DEF SearchTypes
<1>2. \/ Marked(pair, pair') /\ token = MarkToken(pair) /\ pair'.fp = mark_search_index_dirty(pair).fp
      \/ Marked(pair, pair') /\ token = NoToken
      \/ pair' = pair /\ token = NoToken
  BY MarkEffect DEF _mark_pairs, Mark
<1>3. Marked(pair, pair') => pair' # pair /\ pair' \in Pair /\ (pair'.dirty <=> pair'.reason # None)
  BY <1>1 DEF Marked, Pair
<1>4. token \in Token /\ (token = MarkToken(pair) => token.gen = pair.gen + 1 /\
        (token.ack => ~pair.dirty /\ mark_search_index_dirty(pair).fp = pair.fp))
  BY <1>2, MarkEffect
<1>5. Marked(pair, pair') => pair'.gen = pair.gen + 1
  BY DEF Marked
<1>6. /\ changed' = IF pair' = pair THEN changed ELSE changed \cup {c}
      /\ excused' = IF pair' = pair THEN excused \cup {r} ELSE excused
  BY DEF _mark_pairs
<1> QED BY <1>1, <1>2, <1>3, <1>4, <1>5, <1>6 DEF MarksRow

Actions == {"create", "update", "delete"}

LEMMA CommitEffect ==
    ASSUME SearchTypes, NEW c \in Changes, NEW r \in Rows, NEW a \in Actions, commit_change(c, r, a)
    PROVE  \E h \in Handoff :
             /\ c = changes + 1 /\ changes' = c /\ h.row = r
             /\ rows' = [rows EXCEPT ![r] = [at |-> c, live |-> a # "delete"]]
             /\ handoff' = [handoff EXCEPT ![c] = h]
             /\ h.work \in {"index", "delete", "fallback"} /\ (h.work = "delete" => a = "delete")
             /\ \/ mode.default /\ h.pc = "dispatch" /\ MarksRow(c, r, h.token)
                \/ ~mode.default /\ h.pc = "mark" /\ h.token = NoToken /\ UNCHANGED <<pair, changed, excused>>
             /\ UNCHANGED <<mode, schema, docs, task, sweep>>
             /\ pair' \in Pair /\ (pair'.dirty <=> pair'.reason # None)
             /\ changed' \subseteq Changes /\ excused' \subseteq Rows
<1>1. PICK work \in {IF a = "delete" THEN "delete" ELSE "index", "fallback"},
           token \in {MarkToken(pair), NoToken} :
         /\ IF mode.default THEN _mark_pairs(c, r, token)
            ELSE token = NoToken /\ UNCHANGED <<pair, changed, excused>> /\ NoSearchFault
         /\ handoff' = [handoff EXCEPT ![c] =
                          [pc |-> IF mode.default THEN "dispatch" ELSE "mark",
                           row |-> r, work |-> work, token |-> token]]
  BY DEF commit_change, _direct_work, schedule_search_invalidation_work
<1>2. PICK h : h = [pc |-> IF mode.default THEN "dispatch" ELSE "mark", row |-> r, work |-> work, token |-> token]
  OBVIOUS
<1>3. token \in Token
  BY MarkEffect
<1>4. h \in Handoff
  BY <1>2, <1>3 DEF Handoff
<1>5. /\ h.row = r /\ h.work = work /\ h.token = token
      /\ h.pc = IF mode.default THEN "dispatch" ELSE "mark"
  BY <1>2
<1>6. CASE mode.default
  BY <1>1, <1>2, <1>4, <1>5, <1>6, MarkingEffect DEF commit_change, schedule_search_invalidation_work, NextContent
<1>7. CASE ~mode.default
  BY <1>1, <1>2, <1>4, <1>5, <1>7 DEF commit_change, schedule_search_invalidation_work, NextContent, SearchTypes
<1> QED BY <1>6, <1>7

LEMMA AfterCommitEffect ==
    ASSUME SearchTypes, NEW c \in Changes, after_non_default_commit(c)
    PROVE  \E h \in Handoff :
             /\ handoff[c].pc = "mark" /\ handoff' = [handoff EXCEPT ![c] = h]
             /\ h.pc = "dispatch" /\ h.row = handoff[c].row /\ h.work = handoff[c].work
             /\ MarksRow(c, h.row, h.token)
             /\ UNCHANGED <<mode, changes, rows, schema, docs, task, sweep>>
             /\ pair' \in Pair /\ (pair'.dirty <=> pair'.reason # None)
             /\ changed' \subseteq Changes /\ excused' \subseteq Rows
<1>1. PICK token \in {MarkToken(pair), NoToken} :
         /\ _mark_pairs(c, handoff[c].row, token)
         /\ handoff' = [handoff EXCEPT ![c].pc = "dispatch", ![c].token = token]
  BY DEF after_non_default_commit
<1>2. handoff[c].pc = "mark" /\ handoff[c] \in Handoff
  BY DEF after_non_default_commit, SearchTypes
<1>3. /\ handoff[c].row \in Rows /\ handoff[c].work \in {"index", "delete", "fallback"}
      /\ handoff[c] \in [pc : {"mark", "dispatch", "inline", "ack"}, row : Rows,
                          work : {"index", "delete", "fallback"}, token : Token]
  BY <1>2 DEF Handoff, NoHandoff
<1>4. token \in Token
  BY MarkEffect
<1>5. PICK h : h = [handoff[c] EXCEPT !.pc = "dispatch", !.token = token]
  OBVIOUS
<1>6. /\ h \in Handoff /\ h.pc = "dispatch" /\ h.row = handoff[c].row /\ h.work = handoff[c].work
      /\ h.token = token
  BY <1>3, <1>4, <1>5 DEF Handoff
<1>7. handoff' = [handoff EXCEPT ![c] = h]
  BY <1>1, <1>5
<1> QED BY <1>1, <1>2, <1>3, <1>6, <1>7, MarkingEffect DEF after_non_default_commit

\* What is handed over, and how a refusal ends.
LEMMA DispatchEffect ==
    ASSUME SearchTypes, NEW c \in Changes, _dispatch_prepared_work(c)
    PROVE  /\ handoff[c].pc = "dispatch" /\ handoff[c].row \in Rows
           /\ UNCHANGED <<mode, changes, rows, schema, docs, sweep, changed, excused>>
           /\ \/ \E new \in Handoff, t \in Task :
                   /\ handoff' = [handoff EXCEPT ![c] = new] /\ task' = [task EXCEPT ![c] = t]
                   /\ new.pc = IF mode.async THEN "ack" ELSE "inline"
                   /\ new.row = handoff[c].row /\ new.work = handoff[c].work
                   /\ new.token = handoff[c].token
                   /\ t.pc = "start" /\ t.row = handoff[c].row /\ t.kind = handoff[c].work
                   /\ t.gen = handoff[c].token.gen
                   /\ pair' = pair
              \/ /\ handoff' = [handoff EXCEPT ![c] = NoHandoff] /\ UNCHANGED task
                 /\ pair' = pair \/ Marked(pair, pair')
<1>1. handoff[c].pc = "dispatch" /\ handoff[c] \in Handoff
  BY DEF _dispatch_prepared_work, SearchTypes
<1>2. handoff[c] \in [pc : {"mark", "dispatch", "inline", "ack"}, row : Rows,
                     work : {"index", "delete", "fallback"}, token : Token]
  BY <1>1 DEF Handoff, NoHandoff
<1>3. UNCHANGED <<mode, changes, rows, schema, docs, sweep, changed, excused>>
  BY DEF _dispatch_prepared_work
<1>4. CASE /\ handoff[c].work # "fallback" /\ ~MissingFence(c)
           /\ task' = [task EXCEPT ![c] = NewTask(c)]
           /\ handoff' = [handoff EXCEPT ![c].pc = IF mode.async THEN "ack" ELSE "inline"]
           /\ UNCHANGED pair
  <2>1. PICK next \in {"ack", "inline"} : next = IF mode.async THEN "ack" ELSE "inline"
    OBVIOUS
  <2>2. PICK new : new = [handoff[c] EXCEPT !.pc = next]
    OBVIOUS
  <2>3. /\ new \in Handoff /\ new.pc = next /\ new.row = handoff[c].row /\ new.work = handoff[c].work
        /\ new.token = handoff[c].token
    BY <1>2, <2>2 DEF Handoff
  <2>4. PICK t : t = NewTask(c)
    OBVIOUS
  <2>5. /\ t.pc = "start" /\ t.row = handoff[c].row /\ t.kind = handoff[c].work
        /\ t.gen = handoff[c].token.gen
    BY <2>4 DEF NewTask
  <2>6. NoDocument \in SearchDocuments
    BY SearchAssumption DEF NoDocument, SearchDocuments
  <2>7. t \in Task
    BY <1>2, <1>4, <2>4, <2>6 DEF NewTask, Task, Token
  <2>8. handoff' = [handoff EXCEPT ![c] = new] /\ task' = [task EXCEPT ![c] = t]
    BY <1>4, <2>1, <2>2, <2>4
  <2>9. new.pc = IF mode.async THEN "ack" ELSE "inline"
    BY <2>1, <2>3
  <2> QED BY <1>1, <1>2, <1>3, <1>4, <2>3, <2>5, <2>7, <2>8, <2>9, Zenon
<1>5. CASE /\ pair' = IF MissingFence(c) THEN mark_search_index_dirty(pair) ELSE pair
           /\ handoff' = [handoff EXCEPT ![c] = NoHandoff]
           /\ UNCHANGED task
  BY <1>1, <1>2, <1>3, <1>5, MarkEffect
<1> QED BY <1>4, <1>5 DEF _dispatch_prepared_work, Fallback

LEMMA AcknowledgeEffect ==
    ASSUME SearchTypes, NEW c \in Changes, acknowledge_search_index_dirty(c)
    PROVE  /\ handoff[c].pc = "ack" /\ handoff' = [handoff EXCEPT ![c] = NoHandoff]
           /\ UNCHANGED <<mode, changes, rows, schema, docs, task, sweep, excused>>
           /\ \/ /\ handoff[c].token.ack /\ pair.gen = handoff[c].token.gen /\ pair.dirty /\ pair.claim = 0
                 /\ pair' = [pair EXCEPT !.dirty = FALSE, !.reason = None]
                 /\ changed' = {}
              \/ UNCHANGED <<pair, changed>>
BY DEF acknowledge_search_index_dirty, Mark, Forget

-----------------------------------------------------------------------------
(* What a step of a task does. *)

\* The task is done, and a callback that ran it goes on to acknowledge or stops.
Ends(c) ==
    /\ task' = [task EXCEPT ![c] = NoTask]
    /\ \E h \in Handoff :
         /\ handoff' = [handoff EXCEPT ![c] = h]
         /\ \/ h = handoff[c] /\ handoff[c].pc # "inline"
            \/ handoff[c].pc = "inline" /\ h = NoHandoff
            \/ /\ handoff[c].pc = "inline" /\ h.pc = "ack"
               /\ h.row = handoff[c].row /\ h.work = handoff[c].work /\ h.token = handoff[c].token

LEMMA EndEffect ==
    ASSUME SearchTypes, NEW c \in Changes, NEW ok \in BOOLEAN, EndTask(c, ok)
    PROVE  Ends(c) /\ (ok => handoff'[c] # NoHandoff \/ handoff[c] = NoHandoff)
<1>1. handoff[c] \in Handoff /\ handoff \in [Changes -> Handoff]
  BY DEF SearchTypes
<1>2. CASE handoff[c].pc # "inline"
  BY <1>1, <1>2 DEF EndTask, Ends
<1>3. CASE handoff[c].pc = "inline" /\ ok
  <2>1. handoff[c] \in [pc : {"mark", "dispatch", "inline", "ack"}, row : Rows,
                        work : {"index", "delete", "fallback"}, token : Token]
    BY <1>1, <1>3 DEF Handoff, NoHandoff
  <2>2. PICK h : h = [handoff[c] EXCEPT !.pc = "ack"]
    OBVIOUS
  <2>3. /\ h \in Handoff /\ h.pc = "ack" /\ h.row = handoff[c].row /\ h.work = handoff[c].work
        /\ h.token = handoff[c].token
    BY <2>1, <2>2 DEF Handoff
  <2>4. handoff' = [handoff EXCEPT ![c] = h] /\ task' = [task EXCEPT ![c] = NoTask]
    BY <1>3, <2>2 DEF EndTask
  <2>5. handoff'[c] # NoHandoff
    BY <1>1, <2>3, <2>4 DEF NoHandoff
  <2> QED BY <1>3, <2>3, <2>4, <2>5 DEF Ends
<1>4. CASE handoff[c].pc = "inline" /\ ~ok
  <2>1. NoHandoff \in Handoff
    BY DEF Handoff
  <2> QED BY <1>1, <1>4, <2>1 DEF EndTask, Ends
<1> QED BY <1>2, <1>3, <1>4

\* What stands still in a task's step unless said otherwise.
Elsewhere == UNCHANGED <<mode, changes, rows, schema, sweep, changed>>

LEMMA IndexEffect ==
    ASSUME SearchTypes, NEW c \in Changes, index_manager_index_batch(c)
    PROVE  /\ Elsewhere /\ UNCHANGED <<docs, excused>>
           /\ task[c].pc = "start" /\ task[c].kind = "index" /\ task[c].row \in Rows
           /\ \/ /\ rows[task[c].row].live /\ UNCHANGED <<pair, handoff>>
                 /\ \E t \in Task : /\ task' = [task EXCEPT ![c] = t] /\ t.pc = "write"
                                    /\ t.kind = "index" /\ t.row = task[c].row /\ t.gen = task[c].gen
                                    /\ t.read = [at |-> rows[t.row].at, live |-> TRUE, schema |-> schema]
              \/ Marked(pair, pair') /\ Ends(c)
<1>1. task[c].pc = "start" /\ task[c].kind = "index" /\ task[c] \in Task
  BY DEF index_manager_index_batch, SearchTypes
<1>2. task[c] \in [pc : {"start", "write", "delete", "recheck"}, kind : {"index", "delete"},
                   row : Rows, gen : Nat, read : SearchDocuments]
  BY <1>1 DEF Task, NoTask
<1>3. CASE rows[task[c].row].live
  <2>1. PICK d : d = [at |-> rows[task[c].row].at, live |-> TRUE, schema |-> schema]
    OBVIOUS
  <2>2. d \in SearchDocuments
    BY <1>2, <2>1 DEF SearchDocuments, SearchTypes
  <2>3. PICK t : t = [task[c] EXCEPT !.pc = "write", !.read = d]
    OBVIOUS
  <2>4. /\ t \in Task /\ t.pc = "write" /\ t.kind = "index" /\ t.row = task[c].row /\ t.gen = task[c].gen
        /\ t.read = d
    BY <1>1, <1>2, <2>2, <2>3 DEF Task
  <2>5. task' = [task EXCEPT ![c] = t]
    BY <1>3, <2>1, <2>3 DEF index_manager_index_batch, _serialize_document
  <2> QED BY <1>1, <1>2, <1>3, <2>1, <2>4, <2>5, Zenon DEF index_manager_index_batch, Elsewhere
<1>4. CASE ~rows[task[c].row].live
  BY <1>1, <1>2, <1>4, MarkEffect, EndEffect DEF index_manager_index_batch, Elsewhere, Mark
<1> QED BY <1>3, <1>4

LEMMA UpsertEffect ==
    ASSUME SearchTypes, NEW c \in Changes, upsert(c)
    PROVE  /\ Elsewhere /\ UNCHANGED pair /\ Ends(c)
           /\ task[c].pc = "write" /\ task[c].row \in Rows /\ task[c].read \in SearchDocuments
           /\ docs' = [docs EXCEPT ![task[c].row] = task[c].read]
           /\ excused' = IF Older(task[c].read, docs[task[c].row])
                         THEN excused \cup {task[c].row} ELSE excused
<1>1. task[c].pc = "write" /\ task[c] \in Task
  BY DEF upsert, SearchTypes
<1>2. task[c].row \in Rows /\ task[c].read \in SearchDocuments
  BY <1>1 DEF Task, NoTask
<1> QED BY <1>1, <1>2, EndEffect DEF upsert, Elsewhere

LEMMA DeleteCheckEffect ==
    ASSUME SearchTypes, NEW c \in Changes, delete_documents_task(c)
    PROVE  /\ Elsewhere /\ UNCHANGED <<docs, excused>>
           /\ task[c].pc = "start" /\ task[c].kind = "delete" /\ task[c].row \in Rows
           /\ \/ /\ task[c].gen \in {0, pair.gen} /\ UNCHANGED <<pair, handoff>>
                 /\ \E t \in Task : /\ task' = [task EXCEPT ![c] = t] /\ t.pc = "delete"
                                    /\ t.kind = "delete" /\ t.row = task[c].row /\ t.gen = task[c].gen
              \/ Marked(pair, pair') /\ Ends(c)
<1>1. task[c].pc = "start" /\ task[c].kind = "delete" /\ task[c] \in Task
  BY DEF delete_documents_task, SearchTypes
<1>2. task[c] \in [pc : {"start", "write", "delete", "recheck"}, kind : {"index", "delete"},
                   row : Rows, gen : Nat, read : SearchDocuments]
  BY <1>1 DEF Task, NoTask
<1>3. CASE _generation_matches(c)
  <2>1. PICK t : t = [task[c] EXCEPT !.pc = "delete"]
    OBVIOUS
  <2>2. t \in Task /\ t.pc = "delete" /\ t.kind = "delete" /\ t.row = task[c].row /\ t.gen = task[c].gen
    BY <1>1, <1>2, <2>1 DEF Task
  <2>3. task' = [task EXCEPT ![c] = t]
    BY <1>3, <2>1 DEF delete_documents_task
  <2> QED BY <1>1, <1>2, <1>3, <2>2, <2>3, Zenon
          DEF delete_documents_task, Elsewhere, _generation_matches
<1>4. CASE ~_generation_matches(c)
  BY <1>1, <1>2, <1>4, MarkEffect, EndEffect DEF delete_documents_task, Elsewhere, Mark
<1> QED BY <1>3, <1>4

LEMMA DeleteEffect ==
    ASSUME SearchTypes, NEW c \in Changes, delete_documents(c)
    PROVE  /\ Elsewhere /\ UNCHANGED <<pair, handoff>>
           /\ task[c].pc = "delete" /\ task[c].row \in Rows
           /\ docs' = [docs EXCEPT ![task[c].row] = [at |-> c, live |-> FALSE, schema |-> schema]]
           /\ \E t \in Task : /\ task' = [task EXCEPT ![c] = t] /\ t.pc = "recheck"
                              /\ t.kind = task[c].kind /\ t.row = task[c].row /\ t.gen = task[c].gen
           /\ excused' = IF task[c].gen = 0 \/ (~mode.default /\ c < docs[task[c].row].at)
                         THEN excused \cup {task[c].row} ELSE excused
<1>1. task[c].pc = "delete" /\ task[c] \in Task
  BY DEF delete_documents, SearchTypes
<1>2. task[c] \in [pc : {"start", "write", "delete", "recheck"}, kind : {"index", "delete"},
                   row : Rows, gen : Nat, read : SearchDocuments]
  BY <1>1 DEF Task, NoTask
<1>3. PICK t : t = [task[c] EXCEPT !.pc = "recheck"]
  OBVIOUS
<1>4. t \in Task /\ t.pc = "recheck" /\ t.kind = task[c].kind /\ t.row = task[c].row /\ t.gen = task[c].gen
  BY <1>1, <1>2, <1>3 DEF Task
<1>5. task' = [task EXCEPT ![c] = t]
  BY <1>3 DEF delete_documents
<1> QED BY <1>1, <1>2, <1>4, <1>5 DEF delete_documents, Elsewhere

LEMMA RecheckEffect ==
    ASSUME SearchTypes, NEW c \in Changes, recheck_generation(c)
    PROVE  /\ Elsewhere /\ UNCHANGED <<docs, excused>> /\ Ends(c) /\ task[c].pc = "recheck"
           /\ IF task[c].gen \in {0, pair.gen} THEN pair' = pair ELSE Marked(pair, pair')
BY MarkEffect, EndEffect DEF recheck_generation, Elsewhere, Mark, _generation_matches

LEMMA FailEffect ==
    ASSUME SearchTypes, NEW c \in Changes, task_fails(c)
    PROVE  /\ Elsewhere /\ UNCHANGED <<docs, excused>> /\ Ends(c) /\ task[c].pc # "idle"
           /\ Marked(pair, pair') \/ (pair' = pair /\ pair.fp = 0)
<1>1. EndTask(c, FALSE) /\ Elsewhere /\ UNCHANGED <<docs, excused>> /\ task[c].pc # "idle"
  BY DEF task_fails, Elsewhere
<1>2. PICK new \in {mark_search_index_dirty(pair), mark_existing_search_index_dirty(pair)} : pair' = new
  BY DEF task_fails, Mark
<1>3. Marked(pair, pair') \/ (pair' = pair /\ pair.fp = 0)
  BY <1>2, MarkEffect
<1>4. Ends(c)
  BY <1>1, EndEffect
<1> QED BY <1>1, <1>3, <1>4

-----------------------------------------------------------------------------
(* What a step of reconciliation and of the environment does. *)

LEMMA EnsureEffect ==
    ASSUME SearchTypes, NEW force \in BOOLEAN, ensure_search_index_states(force)
    PROVE  /\ Marked(pair, pair') /\ pair'.fp = schema
           /\ UNCHANGED <<mode, changes, rows, schema, docs, handoff, task, sweep, changed, excused>>
<1>1. schema \in 1..2 /\ pair \in Pair
  BY DEF SearchTypes
<1>2. PICK s : s = [pair EXCEPT !.fp = schema]
  OBVIOUS
<1>3. s \in Pair /\ s.fp = schema /\ s.gen = pair.gen /\ s.claim = pair.claim /\ s.live = pair.live
  <2>1. PICK f \in 0..2 : f = schema
    BY <1>1
  <2> QED BY <1>1, <1>2, <2>1 DEF Pair
<1>4. PICK why \in StrongReasons : pair' = mark_dirty(s, why)
  BY <1>2 DEF ensure_search_index_states, StrongReasons
<1>5. why \in Reasons /\ why # None
  BY <1>4 DEF Reasons, StrongReasons, None
<1>6. PICK n \in Nat : n = s.gen + 1
  BY <1>3 DEF Pair
<1>7. pair' = [s EXCEPT !.dirty = TRUE, !.reason = why, !.gen = n]
  BY <1>4, <1>6 DEF mark_dirty
<1>8. /\ pair' \in Pair /\ pair'.dirty /\ pair'.reason = why /\ pair'.gen = n
      /\ pair'.claim = s.claim /\ pair'.live = s.live /\ pair'.fp = s.fp
  BY <1>3, <1>5, <1>7 DEF Pair
<1> QED BY <1>1, <1>3, <1>5, <1>6, <1>8 DEF Marked, ensure_search_index_states

\* The marks of two states are the same: only the claim differs.
SameMark(s, t) == t \in Pair /\ t.fp = s.fp /\ t.dirty = s.dirty /\ t.reason = s.reason

\* What stands still in a sweep's step unless said otherwise.
Aside == UNCHANGED <<mode, changes, rows, schema, handoff, task>>

LEMMA ClaimEffect ==
    ASSUME SearchTypes, NEW q \in 1..Sweeps, _claim_dirty_states(q)
    PROVE  /\ Aside /\ UNCHANGED <<docs, changed, excused>>
           /\ sweep[q].pc = "idle" /\ pair.dirty /\ (pair.claim = 0 \/ ~pair.live)
           /\ SameMark(pair, pair') /\ pair'.gen = pair.gen
           /\ pair'.claim # pair.claim /\ pair'.claim # 0
           /\ \A p \in 1..Sweeps : sweep[p].token # pair'.claim
           /\ \E s \in Sweep : /\ sweep' = [sweep EXCEPT ![q] = s] /\ s.pc = "read"
                               /\ s.token = pair'.claim /\ s.gen = pair.gen
<1>1. PICK t \in Nat \ {0} : t = FreshToken
  BY FreshTokens
<1>2. t # pair.claim /\ \A p \in 1..Sweeps : sweep[p].token # t
  BY <1>1, FreshTokens
<1>3. pair \in Pair
  BY DEF SearchTypes
<1>4. pair' = [pair EXCEPT !.claim = t, !.live = TRUE]
  BY <1>1 DEF _claim_dirty_states
<1>5. SameMark(pair, pair') /\ pair'.gen = pair.gen /\ pair'.claim = t
  BY <1>3, <1>4 DEF SameMark, Pair
<1>6. PICK g \in Nat : g = pair.gen
  BY <1>3 DEF Pair
<1>7. PICK s : s = [NoSweep EXCEPT !.pc = "read", !.token = t, !.gen = g]
  OBVIOUS
<1>8. s.pc = "read" /\ s.token = t /\ s.gen = g /\ s.read = [r \in Rows |-> NoDocument]
  BY <1>7 DEF NoSweep
<1>9. NoDocument \in SearchDocuments
  BY SearchAssumption DEF NoDocument, SearchDocuments
<1>10. s \in Sweep
  <2>1. s = [pc |-> "read", token |-> t, gen |-> g, read |-> [r \in Rows |-> NoDocument]]
    BY <1>7 DEF NoSweep
  <2>2. [r \in Rows |-> NoDocument] \in [Rows -> SearchDocuments]
    BY <1>9
  <2> QED BY <2>1, <2>2 DEF Sweep
<1>11. sweep' = [sweep EXCEPT ![q] = s]
  BY <1>1, <1>6, <1>7 DEF _claim_dirty_states
<1>12. /\ Aside /\ UNCHANGED <<docs, changed, excused>>
       /\ sweep[q].pc = "idle" /\ pair.dirty /\ (pair.claim = 0 \/ ~pair.live)
  BY DEF _claim_dirty_states, Aside, Claimable
<1> QED BY <1>2, <1>5, <1>6, <1>8, <1>10, <1>11, <1>12

LEMMA ReadEffect ==
    ASSUME SearchTypes, NEW q \in 1..Sweeps, reindex_manager_index(q)
    PROVE  /\ Aside /\ UNCHANGED <<docs, changed, excused, pair>> /\ sweep[q].pc = "read"
           /\ \E s \in Sweep :
                /\ sweep' = [sweep EXCEPT ![q] = s] /\ s.pc = "write"
                /\ s.token = sweep[q].token /\ s.gen = sweep[q].gen
                /\ \A r \in Rows : s.read[r] = [at |-> rows[r].at, live |-> rows[r].live, schema |-> schema]
<1>1. sweep[q].pc = "read" /\ sweep[q] \in Sweep
  BY DEF reindex_manager_index, SearchTypes
<1>2. sweep[q] \in [pc : {"read", "write", "clear"}, token : Nat \ {0}, gen : Nat,
                    read : [Rows -> SearchDocuments]]
  BY <1>1 DEF Sweep, NoSweep
<1>3. PICK read : read = [r \in Rows |-> [at |-> rows[r].at, live |-> rows[r].live, schema |-> schema]]
  OBVIOUS
<1>4. read \in [Rows -> SearchDocuments]
  BY <1>3 DEF SearchDocuments, SearchTypes
<1>5. PICK s : s = [sweep[q] EXCEPT !.pc = "write", !.read = read]
  OBVIOUS
<1>6. s \in Sweep /\ s.pc = "write" /\ s.token = sweep[q].token /\ s.gen = sweep[q].gen /\ s.read = read
  BY <1>2, <1>4, <1>5 DEF Sweep
<1>7. \A r \in Rows : [_serialize_document(r) EXCEPT !.live = rows[r].live]
                      = [at |-> rows[r].at, live |-> rows[r].live, schema |-> schema]
  BY DEF _serialize_document
<1>8. sweep' = [sweep EXCEPT ![q] = s]
  <2>1. [r \in Rows |-> [_serialize_document(r) EXCEPT !.live = rows[r].live]] = read
    BY <1>3, <1>7
  <2> QED BY <1>5, <2>1 DEF reindex_manager_index
<1> QED BY <1>1, <1>3, <1>6, <1>8 DEF reindex_manager_index, Aside

LEMMA WriteEffect ==
    ASSUME SearchTypes, NEW q \in 1..Sweeps, reindex_write(q)
    PROVE  /\ Aside /\ UNCHANGED <<changed, pair>> /\ sweep[q].pc = "write"
           /\ docs' = sweep[q].read /\ docs' \in [Rows -> SearchDocuments]
           /\ excused' = excused \cup {r \in Rows : Superseded(q) /\ Older(sweep[q].read[r], docs[r])}
           /\ \E s \in Sweep : /\ sweep' = [sweep EXCEPT ![q] = s] /\ s.pc = "clear"
                               /\ s.token = sweep[q].token /\ s.gen = sweep[q].gen
                               /\ s.read = sweep[q].read
<1>1. sweep[q].pc = "write" /\ sweep[q] \in Sweep
  BY DEF reindex_write, SearchTypes
<1>2. sweep[q] \in [pc : {"read", "write", "clear"}, token : Nat \ {0}, gen : Nat,
                    read : [Rows -> SearchDocuments]]
  BY <1>1 DEF Sweep, NoSweep
<1>3. PICK s : s = [sweep[q] EXCEPT !.pc = "clear"]
  OBVIOUS
<1>4. /\ s \in Sweep /\ s.pc = "clear" /\ s.token = sweep[q].token /\ s.gen = sweep[q].gen
      /\ s.read = sweep[q].read
  BY <1>2, <1>3 DEF Sweep
<1>5. sweep' = [sweep EXCEPT ![q] = s]
  BY <1>3 DEF reindex_write
<1> QED BY <1>1, <1>2, <1>4, <1>5 DEF reindex_write, Aside

LEMMA ReconcileEffect ==
    ASSUME SearchTypes, NEW q \in 1..Sweeps, reconcile_search_indexes(q)
    PROVE  /\ Aside /\ UNCHANGED docs /\ sweep[q].pc = "clear" /\ sweep' = [sweep EXCEPT ![q] = NoSweep]
           /\ \/ /\ clear_dirty(q) /\ pair' \in Pair /\ pair'.fp = pair.fp /\ pair'.gen = pair.gen
                 /\ ~pair'.dirty /\ pair'.reason = None /\ pair'.claim = 0 /\ changed' = {}
                 /\ excused' = {r \in excused : Writing(r) \/ ~Current(r, docs[r])}
              \/ /\ ~clear_dirty(q) /\ SameMark(pair, pair') /\ pair'.gen = pair.gen
                 /\ \/ pair'.claim = pair.claim /\ pair'.live = pair.live
                    \/ sweep[q].token = pair.claim /\ pair'.claim = 0
                 /\ UNCHANGED <<changed, excused>>
<1>1. pair \in Pair /\ None \in Reasons
  BY DEF SearchTypes, Reasons
<1>2. CASE clear_dirty(q)
  <2>1. pair' = [pair EXCEPT !.dirty = FALSE, !.reason = None, !.claim = 0, !.live = FALSE]
    BY <1>2 DEF reconcile_search_indexes
  <2>2. /\ pair' \in Pair /\ pair'.fp = pair.fp /\ pair'.gen = pair.gen
        /\ ~pair'.dirty /\ pair'.reason = None /\ pair'.claim = 0
    BY <1>1, <2>1 DEF Pair
  <2> QED BY <1>2, <2>2 DEF reconcile_search_indexes, Aside, Forget
<1>3. CASE ~clear_dirty(q) /\ Superseded(q)
  BY <1>1, <1>3 DEF reconcile_search_indexes, Aside, SameMark
<1>4. CASE ~clear_dirty(q) /\ ~Superseded(q)
  <2>1. pair' = [pair EXCEPT !.claim = 0, !.live = FALSE]
    BY <1>4 DEF reconcile_search_indexes
  <2>2. SameMark(pair, pair') /\ pair'.gen = pair.gen /\ pair'.claim = 0
    BY <1>1, <2>1 DEF Pair, SameMark
  <2> QED BY <1>4, <2>2 DEF reconcile_search_indexes, Aside, Superseded
<1> QED BY <1>2, <1>3, <1>4

LEMMA ReleaseEffect ==
    ASSUME SearchTypes, NEW q \in 1..Sweeps, _release_claim_with_error(q)
    PROVE  /\ Aside /\ UNCHANGED <<docs, changed, excused>>
           /\ sweep[q].pc # "idle" /\ sweep' = [sweep EXCEPT ![q] = NoSweep]
           /\ SameMark(pair, pair')
           /\ \/ pair' = pair
              \/ pair'.claim = 0 /\ pair'.gen = pair.gen + 1 /\ sweep[q].token = pair.claim
<1>1. pair \in Pair
  BY DEF SearchTypes
<1>2. CASE Superseded(q)
  BY <1>1, <1>2 DEF _release_claim_with_error, Aside, SameMark
<1>3. CASE ~Superseded(q)
  <2>1. PICK n \in Nat : n = pair.gen + 1
    BY <1>1 DEF Pair
  <2>2. pair' = [pair EXCEPT !.claim = 0, !.live = FALSE, !.gen = n]
    BY <1>3, <2>1 DEF _release_claim_with_error
  <2>3. SameMark(pair, pair') /\ pair'.gen = n /\ pair'.claim = 0
    BY <1>1, <2>2 DEF Pair, SameMark
  <2> QED BY <1>3, <2>1, <2>3 DEF _release_claim_with_error, Aside, Superseded
<1> QED BY <1>2, <1>3

LEMMA ExpiryEffect ==
    ASSUME SearchTypes, claim_expires
    PROVE  /\ Aside /\ UNCHANGED <<docs, changed, excused, sweep>>
           /\ SameMark(pair, pair') /\ pair'.gen = pair.gen /\ pair'.claim = pair.claim
<1>1. pair \in Pair
  BY DEF SearchTypes
<1>2. pair' = [pair EXCEPT !.live = FALSE]
  BY DEF claim_expires
<1>3. SameMark(pair, pair') /\ pair'.gen = pair.gen /\ pair'.claim = pair.claim
  BY <1>1, <1>2 DEF Pair, SameMark
<1> QED BY <1>3 DEF claim_expires, Aside

LEMMA DeathEffect ==
    ASSUME SearchTypes, NEW c \in Changes, mutator_dies(c)
    PROVE  /\ Elsewhere /\ UNCHANGED <<docs, pair>> /\ handoff[c].pc # "idle" /\ handoff[c].row \in Rows
           /\ handoff' = [handoff EXCEPT ![c] = NoHandoff]
           /\ task' = IF handoff[c].pc = "inline" THEN [task EXCEPT ![c] = NoTask] ELSE task
           /\ excused' = IF handoff[c].pc = "mark" \/ (handoff[c].pc = "inline" /\ task[c].pc = "recheck")
                         THEN excused \cup {handoff[c].row} ELSE excused
<1>1. handoff[c].pc # "idle" /\ handoff[c] \in Handoff /\ task \in [Changes -> Task]
  BY DEF mutator_dies, SearchTypes
<1>2. handoff[c].row \in Rows
  BY <1>1 DEF Handoff, NoHandoff
<1> QED BY <1>1, <1>2 DEF mutator_dies, Elsewhere

LEMMA LossEffect ==
    ASSUME SearchTypes, NEW c \in Changes, task_lost(c)
    PROVE  /\ Elsewhere /\ UNCHANGED <<docs, pair, handoff>> /\ mode.async /\ task[c].row \in Rows
           /\ task' = [task EXCEPT ![c] = NoTask] /\ excused' = excused \cup {task[c].row}
<1>1. task[c].pc # "idle" /\ task[c] \in Task
  BY DEF task_lost, SearchTypes
<1>2. task[c].row \in Rows
  BY <1>1 DEF Task, NoTask
<1> QED BY <1>1, <1>2 DEF task_lost, Elsewhere

-----------------------------------------------------------------------------
(* Type correctness *)

LEMMA NoneTypes == NoHandoff \in Handoff /\ NoTask \in Task /\ NoSweep \in Sweep
BY DEF Handoff, Task, Sweep

LEMMA EndsTypes ==
    ASSUME SearchTypes, NEW c \in Changes, Ends(c)
    PROVE  handoff' \in [Changes -> Handoff] /\ task' \in [Changes -> Task]
BY NoneTypes DEF SearchTypes, Ends

\* Every step leaves well-formed state behind.
LEMMA TypesStep == SearchTypes /\ [SearchNext]_searchVars => SearchTypes'
<1> SUFFICES ASSUME SearchTypes, [SearchNext]_searchVars PROVE SearchTypes'
  OBVIOUS
<1>1. ASSUME NEW c \in Changes, NEW r \in Rows, NEW a \in Actions, commit_change(c, r, a) PROVE SearchTypes'
  <2>1. PICK b \in BOOLEAN : b = (a # "delete")
    OBVIOUS
  <2>2. c \in 0..MaxChanges
    BY SearchAssumption DEF Changes
  <2>3. rows' = [rows EXCEPT ![r] = [at |-> c, live |-> b]] /\ changes' = c
    BY <1>1, <2>1, CommitEffect
  <2>4. [at |-> c, live |-> b] \in [at : 0..MaxChanges, live : BOOLEAN]
    BY <2>1, <2>2
  <2>5. rows' \in [Rows -> [at : 0..MaxChanges, live : BOOLEAN]]
    BY <2>3, <2>4 DEF SearchTypes
  <2>6. PICK h \in Handoff :
          /\ handoff' = [handoff EXCEPT ![c] = h]
          /\ UNCHANGED <<mode, schema, docs, task, sweep>>
          /\ pair' \in Pair /\ (pair'.dirty <=> pair'.reason # None)
          /\ changed' \subseteq Changes /\ excused' \subseteq Rows
    BY <1>1, CommitEffect
  <2>7. handoff' \in [Changes -> Handoff]
    BY <2>6 DEF SearchTypes
  <2> QED BY <2>2, <2>3, <2>5, <2>6, <2>7 DEF SearchTypes
<1>2. ASSUME NEW c \in Changes, after_non_default_commit(c) PROVE SearchTypes'
  BY <1>2, AfterCommitEffect DEF SearchTypes
<1>3. ASSUME NEW c \in Changes, _dispatch_prepared_work(c) PROVE SearchTypes'
  <2>1. handoff' \in [Changes -> Handoff] /\ task' \in [Changes -> Task]
    BY <1>3, DispatchEffect, NoneTypes DEF SearchTypes
  <2>2. pair' \in Pair /\ (pair'.dirty <=> pair'.reason # None)
    BY <1>3, DispatchEffect DEF SearchTypes, Marked, Pair
  <2> QED BY <1>3, <2>1, <2>2, DispatchEffect DEF SearchTypes
<1>4. ASSUME NEW c \in Changes, acknowledge_search_index_dirty(c) PROVE SearchTypes'
  <2>1. PICK p \in Pair : p = [pair EXCEPT !.dirty = FALSE, !.reason = None]
    BY DEF SearchTypes, Pair, Reasons
  <2>2. p.reason = None /\ ~p.dirty
    BY <2>1 DEF SearchTypes, Pair
  <2> QED BY <1>4, <2>1, <2>2, AcknowledgeEffect, NoneTypes DEF SearchTypes
<1>5. ASSUME NEW c \in Changes, index_manager_index_batch(c) PROVE SearchTypes'
  <2>1. handoff' \in [Changes -> Handoff] /\ task' \in [Changes -> Task]
    <3>1. CASE Ends(c)
      BY <3>1, EndsTypes
    <3>2. CASE UNCHANGED handoff /\ \E t \in Task : task' = [task EXCEPT ![c] = t]
      BY <3>2 DEF SearchTypes
    <3> QED BY <1>5, <3>1, <3>2, IndexEffect
  <2>2. pair' \in Pair /\ (pair'.dirty <=> pair'.reason # None)
    BY <1>5, IndexEffect DEF SearchTypes, Marked, Pair
  <2> QED BY <1>5, <2>1, <2>2, IndexEffect DEF SearchTypes, Elsewhere
<1>6. ASSUME NEW c \in Changes, upsert(c) PROVE SearchTypes'
  <2>1. docs' \in [Rows -> SearchDocuments] /\ excused' \subseteq Rows
    BY <1>6, UpsertEffect DEF SearchTypes
  <2> QED BY <1>6, <2>1, UpsertEffect, EndsTypes DEF SearchTypes, Elsewhere
<1>7. ASSUME NEW c \in Changes, delete_documents_task(c) PROVE SearchTypes'
  <2>1. handoff' \in [Changes -> Handoff] /\ task' \in [Changes -> Task]
    BY <1>7, DeleteCheckEffect, EndsTypes DEF SearchTypes
  <2>2. pair' \in Pair /\ (pair'.dirty <=> pair'.reason # None)
    BY <1>7, DeleteCheckEffect DEF SearchTypes, Marked, Pair
  <2> QED BY <1>7, <2>1, <2>2, DeleteCheckEffect DEF SearchTypes, Elsewhere
<1>8. ASSUME NEW c \in Changes, delete_documents(c) PROVE SearchTypes'
  <2>1. PICK d : d = [at |-> c, live |-> FALSE, schema |-> schema]
    OBVIOUS
  <2>2. d \in SearchDocuments
    <3>1. c \in 0..MaxChanges /\ schema \in 0..2
      BY SearchAssumption DEF Changes, SearchTypes
    <3> QED BY <2>1, <3>1 DEF SearchDocuments
  <2>3. docs' \in [Rows -> SearchDocuments]
    BY <1>8, <2>1, <2>2, DeleteEffect DEF SearchTypes
  <2>5. excused' \subseteq Rows
    <3>1. task[c].row \in Rows
      BY <1>8, DeleteEffect
    <3>2. excused' = excused \cup {task[c].row} \/ excused' = excused
      BY <1>8, DeleteEffect
    <3> QED BY <3>1, <3>2 DEF SearchTypes
  <2>4. task' \in [Changes -> Task]
    BY <1>8, DeleteEffect DEF SearchTypes
  <2> QED BY <1>8, <2>3, <2>4, <2>5, DeleteEffect DEF SearchTypes, Elsewhere
<1>9. ASSUME NEW c \in Changes, recheck_generation(c) PROVE SearchTypes'
  BY <1>9, RecheckEffect, EndsTypes DEF SearchTypes, Elsewhere, Marked
<1>10. ASSUME NEW c \in Changes, task_fails(c) PROVE SearchTypes'
  BY <1>10, FailEffect, EndsTypes DEF SearchTypes, Elsewhere, Marked
<1>11. ASSUME NEW c \in Changes, mutator_dies(c) PROVE SearchTypes'
  BY <1>11, DeathEffect, NoneTypes DEF SearchTypes, Elsewhere
<1>12. ASSUME NEW c \in Changes, task_lost(c) PROVE SearchTypes'
  BY <1>12, LossEffect, NoneTypes DEF SearchTypes, Elsewhere
<1>13. ASSUME NEW force \in BOOLEAN, ensure_search_index_states(force) PROVE SearchTypes'
  BY <1>13, EnsureEffect DEF SearchTypes, Marked
<1>14. ASSUME NEW q \in 1..Sweeps, _claim_dirty_states(q) PROVE SearchTypes'
  BY <1>14, ClaimEffect DEF SearchTypes, SameMark, Aside
<1>15. ASSUME NEW q \in 1..Sweeps, reindex_manager_index(q) PROVE SearchTypes'
  BY <1>15, ReadEffect DEF SearchTypes, Aside
<1>16. ASSUME NEW q \in 1..Sweeps, reindex_write(q) PROVE SearchTypes'
  <2>0. sweep' \in [1..Sweeps -> Sweep]
    BY <1>16, WriteEffect DEF SearchTypes
  <2>1. excused' \subseteq Rows
    BY <1>16, WriteEffect, Zenon DEF SearchTypes
  <2> QED BY <1>16, <2>0, <2>1, WriteEffect DEF SearchTypes, Aside
<1>17. ASSUME NEW q \in 1..Sweeps, reconcile_search_indexes(q) PROVE SearchTypes'
  BY <1>17, ReconcileEffect, NoneTypes DEF SearchTypes, Aside, SameMark
<1>18. ASSUME NEW q \in 1..Sweeps, _release_claim_with_error(q) PROVE SearchTypes'
  BY <1>18, ReleaseEffect, NoneTypes DEF SearchTypes, Aside, SameMark
<1>19. ASSUME NEW q \in 1..Sweeps, sweep_dies(q) PROVE SearchTypes'
  BY <1>19, NoneTypes DEF SearchTypes, sweep_dies
<1>20. ASSUME claim_expires PROVE SearchTypes'
  BY <1>20, ExpiryEffect DEF SearchTypes, Aside, SameMark
<1>21. ASSUME deploy_schema PROVE SearchTypes'
  BY <1>21 DEF SearchTypes, deploy_schema
<1>22. ASSUME UNCHANGED searchVars PROVE SearchTypes'
  BY <1>22 DEF SearchTypes, searchVars
<1> QED BY <1>1, <1>2, <1>3, <1>4, <1>5, <1>6, <1>7, <1>8, <1>9, <1>10, <1>11, <1>12, <1>13, <1>14, <1>15, <1>16, <1>17, <1>18, <1>19, <1>20, <1>21, <1>22
       DEF SearchNext, HandoffStep, TaskStep, SweepStep, Actions

-----------------------------------------------------------------------------
(* Marks are given up only to work that may do so. *)

\* Generations and tokens are numbers.
LEMMA GenNat ==
    ASSUME SearchTypes
    PROVE  /\ pair.gen \in Nat
           /\ \A c \in Changes : handoff[c].token \in Token /\ handoff[c].token.gen \in Nat
           /\ \A q \in 1..Sweeps : sweep[q].gen \in Nat /\ sweep[q].token \in Nat
           /\ \A q \in 1..Sweeps : sweep[q].pc # "idle" => sweep[q].token # 0
<1>1. \A h \in Handoff : h.token \in Token
  <2>1. NoToken \in Token
    BY DEF NoToken, Token
  <2> QED BY <2>1 DEF Handoff, NoHandoff
<1>2. \A t \in Token : t.gen \in Nat
  BY DEF Token
<1>3. \A s \in Sweep : s.gen \in Nat /\ s.token \in Nat /\ (s.pc # "idle" => s.token # 0)
  BY DEF Sweep, NoSweep
<1> QED BY <1>1, <1>2, <1>3 DEF SearchTypes, Pair

\* The generation only moves on, by one, and that unless the mark stays as it was.
GenMoves == pair'.gen \in {pair.gen, pair.gen + 1} /\ (Marked(pair, pair') => pair'.gen = pair.gen + 1)

LEMMA GenStep == SearchTypes /\ [SearchNext]_searchVars => GenMoves
<1> SUFFICES ASSUME SearchTypes, [SearchNext]_searchVars PROVE GenMoves
  OBVIOUS
<1>1. ASSUME NEW c \in Changes, NEW r \in Rows, NEW a \in Actions, commit_change(c, r, a) PROVE GenMoves
  BY <1>1, CommitEffect DEF GenMoves, Marked, MarksRow
<1>2. ASSUME NEW c \in Changes, after_non_default_commit(c) PROVE GenMoves
  BY <1>2, AfterCommitEffect DEF GenMoves, Marked, MarksRow
<1>3. ASSUME NEW c \in Changes, _dispatch_prepared_work(c) PROVE GenMoves
  BY <1>3, DispatchEffect DEF GenMoves, Marked
<1>4. ASSUME NEW c \in Changes, acknowledge_search_index_dirty(c) PROVE GenMoves
  BY <1>4, AcknowledgeEffect DEF GenMoves, Marked, SearchTypes, Pair
<1>5. ASSUME NEW c \in Changes, index_manager_index_batch(c) PROVE GenMoves
  BY <1>5, IndexEffect DEF GenMoves, Marked, Elsewhere
<1>6. ASSUME NEW c \in Changes, upsert(c) PROVE GenMoves
  BY <1>6, UpsertEffect DEF GenMoves, Marked, Elsewhere
<1>7. ASSUME NEW c \in Changes, delete_documents_task(c) PROVE GenMoves
  BY <1>7, DeleteCheckEffect DEF GenMoves, Marked, Elsewhere
<1>8. ASSUME NEW c \in Changes, delete_documents(c) PROVE GenMoves
  BY <1>8, DeleteEffect DEF GenMoves, Marked, Elsewhere
<1>9. ASSUME NEW c \in Changes, recheck_generation(c) PROVE GenMoves
  BY <1>9, RecheckEffect DEF GenMoves, Marked, Elsewhere
<1>10. ASSUME NEW c \in Changes, task_fails(c) PROVE GenMoves
  BY <1>10, FailEffect DEF GenMoves, Marked, Elsewhere
<1>11. ASSUME NEW c \in Changes, mutator_dies(c) PROVE GenMoves
  BY <1>11, DeathEffect DEF GenMoves, Marked, Elsewhere
<1>12. ASSUME NEW c \in Changes, task_lost(c) PROVE GenMoves
  BY <1>12, LossEffect DEF GenMoves, Marked, Elsewhere
<1>13. ASSUME NEW force \in BOOLEAN, ensure_search_index_states(force) PROVE GenMoves
  BY <1>13, EnsureEffect DEF GenMoves, Marked
<1>14. ASSUME NEW q \in 1..Sweeps, _claim_dirty_states(q) PROVE GenMoves
  BY <1>14, ClaimEffect DEF GenMoves, Marked, Aside
<1>15. ASSUME NEW q \in 1..Sweeps, reindex_manager_index(q) PROVE GenMoves
  BY <1>15, ReadEffect DEF GenMoves, Marked, Aside
<1>16. ASSUME NEW q \in 1..Sweeps, reindex_write(q) PROVE GenMoves
  BY <1>16, WriteEffect DEF GenMoves, Marked, Aside
<1>17. ASSUME NEW q \in 1..Sweeps, reconcile_search_indexes(q) PROVE GenMoves
  BY <1>17, ReconcileEffect DEF GenMoves, Marked, Aside
<1>18. ASSUME NEW q \in 1..Sweeps, _release_claim_with_error(q) PROVE GenMoves
  BY <1>18, ReleaseEffect DEF GenMoves, Marked, Aside
<1>19. ASSUME NEW q \in 1..Sweeps, sweep_dies(q) PROVE GenMoves
  BY <1>19 DEF GenMoves, Marked, sweep_dies
<1>20. ASSUME claim_expires PROVE GenMoves
  BY <1>20, ExpiryEffect DEF GenMoves, Marked, Aside
<1>21. ASSUME deploy_schema PROVE GenMoves
  BY <1>21 DEF GenMoves, Marked, deploy_schema
<1>22. ASSUME UNCHANGED searchVars PROVE GenMoves
  BY <1>22 DEF GenMoves, Marked, searchVars
<1> QED BY <1>1, <1>2, <1>3, <1>4, <1>5, <1>6, <1>7, <1>8, <1>9, <1>10, <1>11, <1>12, <1>13, <1>14, <1>15, <1>16, <1>17, <1>18, <1>19, <1>20, <1>21, <1>22
       DEF SearchNext, HandoffStep, TaskStep, SweepStep, Actions

\* Only a mark that counts hands out a token.
NewToken(c) ==
    /\ Marked(pair, pair') /\ changed' = changed \cup {c}
    /\ handoff'[c].token.gen = pair'.gen
    /\ handoff'[c].token.ack => ~pair.dirty /\ pair'.fp = pair.fp
TokensKept == \A c \in Changes : handoff'[c].token \in {handoff[c].token, NoToken} \/ NewToken(c)

LEMMA EndsTokens ==
    ASSUME SearchTypes, NEW c \in Changes, Ends(c)
    PROVE  \A d \in Changes : handoff'[d].token \in {handoff[d].token, NoToken}
<1>1. NoHandoff.token = NoToken
  BY DEF NoHandoff
<1>2. PICK h \in Handoff :
        /\ handoff' = [handoff EXCEPT ![c] = h]
        /\ h = handoff[c] \/ h = NoHandoff \/ h.token = handoff[c].token
  BY DEF Ends
<1> QED BY <1>1, <1>2 DEF SearchTypes

LEMMA TokensStep == SearchTypes /\ [SearchNext]_searchVars => TokensKept
<1> SUFFICES ASSUME SearchTypes, [SearchNext]_searchVars PROVE TokensKept
  OBVIOUS
<1>1. ASSUME NEW c \in Changes, NEW r \in Rows, NEW a \in Actions, commit_change(c, r, a) PROVE TokensKept
  BY <1>1, CommitEffect DEF TokensKept, NoHandoff, SearchTypes, MarksRow, NewToken
<1>2. ASSUME NEW c \in Changes, after_non_default_commit(c) PROVE TokensKept
  BY <1>2, AfterCommitEffect DEF TokensKept, NoHandoff, SearchTypes, MarksRow, NewToken
<1>3. ASSUME NEW c \in Changes, _dispatch_prepared_work(c) PROVE TokensKept
  <2>1. handoff'[c].token \in {handoff[c].token, NoToken} /\ \A d \in Changes \ {c} : handoff'[d] = handoff[d]
    BY <1>3, DispatchEffect DEF NoHandoff, SearchTypes
  <2> QED BY <2>1 DEF TokensKept
<1>4. ASSUME NEW c \in Changes, acknowledge_search_index_dirty(c) PROVE TokensKept
  BY <1>4, AcknowledgeEffect DEF TokensKept, NoHandoff, SearchTypes
<1>5. ASSUME NEW c \in Changes, index_manager_index_batch(c) PROVE TokensKept
  <2>1. CASE Ends(c)
    BY <2>1, EndsTokens DEF TokensKept
  <2>2. CASE UNCHANGED handoff
    BY <2>2 DEF TokensKept
  <2> QED BY <1>5, <2>1, <2>2, IndexEffect
<1>6. ASSUME NEW c \in Changes, upsert(c) PROVE TokensKept
  <2>1. CASE Ends(c)
    BY <2>1, EndsTokens DEF TokensKept
  <2>2. CASE UNCHANGED handoff
    BY <2>2 DEF TokensKept
  <2> QED BY <1>6, <2>1, <2>2, UpsertEffect
<1>7. ASSUME NEW c \in Changes, delete_documents_task(c) PROVE TokensKept
  <2>1. CASE Ends(c)
    BY <2>1, EndsTokens DEF TokensKept
  <2>2. CASE UNCHANGED handoff
    BY <2>2 DEF TokensKept
  <2> QED BY <1>7, <2>1, <2>2, DeleteCheckEffect
<1>8. ASSUME NEW c \in Changes, delete_documents(c) PROVE TokensKept
  BY <1>8, DeleteEffect DEF TokensKept, NoHandoff, SearchTypes, Elsewhere
<1>9. ASSUME NEW c \in Changes, recheck_generation(c) PROVE TokensKept
  <2>1. CASE Ends(c)
    BY <2>1, EndsTokens DEF TokensKept
  <2>2. CASE UNCHANGED handoff
    BY <2>2 DEF TokensKept
  <2> QED BY <1>9, <2>1, <2>2, RecheckEffect
<1>10. ASSUME NEW c \in Changes, task_fails(c) PROVE TokensKept
  <2>1. CASE Ends(c)
    BY <2>1, EndsTokens DEF TokensKept
  <2>2. CASE UNCHANGED handoff
    BY <2>2 DEF TokensKept
  <2> QED BY <1>10, <2>1, <2>2, FailEffect
<1>11. ASSUME NEW c \in Changes, mutator_dies(c) PROVE TokensKept
  <2>1. handoff' = [handoff EXCEPT ![c] = NoHandoff]
    BY <1>11, DeathEffect
  <2> QED BY <2>1 DEF TokensKept, NoHandoff, SearchTypes
<1>12. ASSUME NEW c \in Changes, task_lost(c) PROVE TokensKept
  BY <1>12, LossEffect DEF TokensKept, NoHandoff, SearchTypes, Elsewhere
<1>13. ASSUME NEW force \in BOOLEAN, ensure_search_index_states(force) PROVE TokensKept
  BY <1>13, EnsureEffect DEF TokensKept, NoHandoff, SearchTypes
<1>14. ASSUME NEW q \in 1..Sweeps, _claim_dirty_states(q) PROVE TokensKept
  BY <1>14, ClaimEffect DEF TokensKept, NoHandoff, SearchTypes, Aside
<1>15. ASSUME NEW q \in 1..Sweeps, reindex_manager_index(q) PROVE TokensKept
  BY <1>15, ReadEffect DEF TokensKept, NoHandoff, SearchTypes, Aside
<1>16. ASSUME NEW q \in 1..Sweeps, reindex_write(q) PROVE TokensKept
  BY <1>16, WriteEffect DEF TokensKept, NoHandoff, SearchTypes, Aside
<1>17. ASSUME NEW q \in 1..Sweeps, reconcile_search_indexes(q) PROVE TokensKept
  BY <1>17, ReconcileEffect DEF TokensKept, NoHandoff, SearchTypes, Aside
<1>18. ASSUME NEW q \in 1..Sweeps, _release_claim_with_error(q) PROVE TokensKept
  BY <1>18, ReleaseEffect DEF TokensKept, NoHandoff, SearchTypes, Aside
<1>19. ASSUME NEW q \in 1..Sweeps, sweep_dies(q) PROVE TokensKept
  BY <1>19 DEF TokensKept, NoHandoff, SearchTypes, sweep_dies
<1>20. ASSUME claim_expires PROVE TokensKept
  BY <1>20, ExpiryEffect DEF TokensKept, NoHandoff, SearchTypes, Aside
<1>21. ASSUME deploy_schema PROVE TokensKept
  BY <1>21 DEF TokensKept, NoHandoff, SearchTypes, deploy_schema
<1>22. ASSUME UNCHANGED searchVars PROVE TokensKept
  BY <1>22 DEF TokensKept, NoHandoff, SearchTypes, searchVars
<1> QED BY <1>1, <1>2, <1>3, <1>4, <1>5, <1>6, <1>7, <1>8, <1>9, <1>10, <1>11, <1>12, <1>13, <1>14, <1>15, <1>16, <1>17, <1>18, <1>19, <1>20, <1>21, <1>22
       DEF SearchNext, HandoffStep, TaskStep, SweepStep, Actions

\* Only a claim hands out a sweep's token, and nobody else's.
SweepsKept ==
    \/ \A q \in 1..Sweeps : \/ sweep'[q] = NoSweep
                            \/ /\ sweep[q].pc # "idle"
                               /\ sweep'[q].token = sweep[q].token /\ sweep'[q].gen = sweep[q].gen
    \/ \E p \in 1..Sweeps :
         /\ sweep'[p].token = pair'.claim /\ sweep'[p].gen = pair'.gen
         /\ \A q \in 1..Sweeps : sweep[q].token # pair'.claim /\ (q # p => sweep'[q] = sweep[q])


LEMMA IdleSweep == ASSUME SearchTypes PROVE \A q \in 1..Sweeps : (sweep[q].pc = "idle") <=> (sweep[q] = NoSweep)
BY DEF SearchTypes, Sweep, NoSweep

LEMMA SweepMoves ==
    ASSUME SearchTypes, NEW q \in 1..Sweeps, NEW s, sweep' = [sweep EXCEPT ![q] = s],
           s = NoSweep \/ (sweep[q].pc # "idle" /\ s.token = sweep[q].token /\ s.gen = sweep[q].gen)
    PROVE  SweepsKept
BY IdleSweep DEF SweepsKept, SearchTypes

LEMMA SweepsStill == SearchTypes /\ UNCHANGED sweep => SweepsKept
BY IdleSweep DEF SweepsKept

LEMMA SweepsStep == SearchTypes /\ [SearchNext]_searchVars => SweepsKept
<1> SUFFICES ASSUME SearchTypes, [SearchNext]_searchVars PROVE SweepsKept
  OBVIOUS
<1>1. ASSUME NEW c \in Changes, NEW r \in Rows, NEW a \in Actions, commit_change(c, r, a) PROVE SweepsKept
  BY <1>1, CommitEffect, SweepsStill
<1>2. ASSUME NEW c \in Changes, after_non_default_commit(c) PROVE SweepsKept
  BY <1>2, AfterCommitEffect, SweepsStill
<1>3. ASSUME NEW c \in Changes, _dispatch_prepared_work(c) PROVE SweepsKept
  BY <1>3, DispatchEffect, SweepsStill
<1>4. ASSUME NEW c \in Changes, acknowledge_search_index_dirty(c) PROVE SweepsKept
  BY <1>4, AcknowledgeEffect, SweepsStill
<1>5. ASSUME NEW c \in Changes, index_manager_index_batch(c) PROVE SweepsKept
  BY <1>5, IndexEffect, SweepsStill DEF Elsewhere
<1>6. ASSUME NEW c \in Changes, upsert(c) PROVE SweepsKept
  BY <1>6, UpsertEffect, SweepsStill DEF Elsewhere
<1>7. ASSUME NEW c \in Changes, delete_documents_task(c) PROVE SweepsKept
  BY <1>7, DeleteCheckEffect, SweepsStill DEF Elsewhere
<1>8. ASSUME NEW c \in Changes, delete_documents(c) PROVE SweepsKept
  BY <1>8, DeleteEffect, SweepsStill DEF Elsewhere
<1>9. ASSUME NEW c \in Changes, recheck_generation(c) PROVE SweepsKept
  BY <1>9, RecheckEffect, SweepsStill DEF Elsewhere
<1>10. ASSUME NEW c \in Changes, task_fails(c) PROVE SweepsKept
  BY <1>10, FailEffect, SweepsStill DEF Elsewhere
<1>11. ASSUME NEW c \in Changes, mutator_dies(c) PROVE SweepsKept
  BY <1>11, DeathEffect, SweepsStill DEF Elsewhere
<1>12. ASSUME NEW c \in Changes, task_lost(c) PROVE SweepsKept
  BY <1>12, LossEffect, SweepsStill DEF Elsewhere
<1>13. ASSUME NEW force \in BOOLEAN, ensure_search_index_states(force) PROVE SweepsKept
  BY <1>13, EnsureEffect, SweepsStill
<1>14. ASSUME NEW q \in 1..Sweeps, _claim_dirty_states(q) PROVE SweepsKept
  <2>1. PICK s \in Sweep : sweep' = [sweep EXCEPT ![q] = s] /\ s.token = pair'.claim /\ s.gen = pair.gen
    BY <1>14, ClaimEffect
  <2>2. sweep'[q] = s /\ \A p \in 1..Sweeps \ {q} : sweep'[p] = sweep[p]
    BY <2>1 DEF SearchTypes
  <2> QED BY <1>14, <2>1, <2>2, ClaimEffect DEF SweepsKept
<1>15. ASSUME NEW q \in 1..Sweeps, reindex_manager_index(q) PROVE SweepsKept
  <2>1. PICK s : /\ sweep' = [sweep EXCEPT ![q] = s] /\ sweep[q].pc # "idle"
                 /\ s = NoSweep \/ (s.token = sweep[q].token /\ s.gen = sweep[q].gen)
    BY <1>15, ReadEffect
  <2> QED BY <2>1, SweepMoves
<1>16. ASSUME NEW q \in 1..Sweeps, reindex_write(q) PROVE SweepsKept
  <2>1. PICK s : /\ sweep' = [sweep EXCEPT ![q] = s] /\ sweep[q].pc # "idle"
                 /\ s = NoSweep \/ (s.token = sweep[q].token /\ s.gen = sweep[q].gen)
    BY <1>16, WriteEffect
  <2> QED BY <2>1, SweepMoves
<1>17. ASSUME NEW q \in 1..Sweeps, reconcile_search_indexes(q) PROVE SweepsKept
  <2>1. PICK s : /\ sweep' = [sweep EXCEPT ![q] = s] /\ sweep[q].pc # "idle"
                 /\ s = NoSweep \/ (s.token = sweep[q].token /\ s.gen = sweep[q].gen)
    BY <1>17, ReconcileEffect
  <2> QED BY <2>1, SweepMoves
<1>18. ASSUME NEW q \in 1..Sweeps, _release_claim_with_error(q) PROVE SweepsKept
  <2>1. PICK s : /\ sweep' = [sweep EXCEPT ![q] = s] /\ sweep[q].pc # "idle"
                 /\ s = NoSweep \/ (s.token = sweep[q].token /\ s.gen = sweep[q].gen)
    BY <1>18, ReleaseEffect
  <2> QED BY <2>1, SweepMoves
<1>19. ASSUME NEW q \in 1..Sweeps, sweep_dies(q) PROVE SweepsKept
  BY <1>19, SweepMoves DEF sweep_dies
<1>20. ASSUME claim_expires PROVE SweepsKept
  BY <1>20, ExpiryEffect, SweepsStill DEF Aside
<1>21. ASSUME deploy_schema PROVE SweepsKept
  BY <1>21, SweepsStill DEF deploy_schema
<1>22. ASSUME UNCHANGED searchVars PROVE SweepsKept
  BY <1>22, SweepsStill DEF searchVars
<1> QED BY <1>1, <1>2, <1>3, <1>4, <1>5, <1>6, <1>7, <1>8, <1>9, <1>10, <1>11, <1>12, <1>13, <1>14, <1>15, <1>16, <1>17, <1>18, <1>19, <1>20, <1>21, <1>22
       DEF SearchNext, HandoffStep, TaskStep, SweepStep, Actions

\* A callback that runs belongs to a committed change.
Committed == \A c \in Changes : handoff[c].pc # "idle" => c <= changes

LEMMA EndsPending ==
    ASSUME SearchTypes, NEW c \in Changes, Ends(c)
    PROVE  \A d \in Changes : handoff'[d].pc # "idle" => handoff[d].pc # "idle"
<1>1. PICK h \in Handoff : /\ handoff' = [handoff EXCEPT ![c] = h]
                           /\ h = handoff[c] \/ h = NoHandoff \/ handoff[c].pc = "inline"
  BY DEF Ends
<1> QED BY <1>1 DEF SearchTypes, NoHandoff

LEMMA CommittedStep == SearchTypes /\ Committed /\ [SearchNext]_searchVars => Committed'
<1> SUFFICES ASSUME SearchTypes, Committed, [SearchNext]_searchVars PROVE Committed'
  OBVIOUS
<1>1. ASSUME NEW c \in Changes, NEW r \in Rows, NEW a \in Actions, commit_change(c, r, a) PROVE Committed'
  <2>1. changes' = changes + 1 /\ c = changes' /\ \A d \in Changes \ {c} : handoff'[d] = handoff[d]
    BY <1>1, CommitEffect DEF SearchTypes
  <2> QED BY <2>1 DEF Committed, Changes, SearchTypes
<1>2. ASSUME NEW c \in Changes, after_non_default_commit(c) PROVE Committed'
  <2>1. UNCHANGED changes /\ handoff[c].pc # "idle" /\ \A d \in Changes \ {c} : handoff'[d] = handoff[d]
    BY <1>2, AfterCommitEffect DEF SearchTypes
  <2> QED BY <2>1 DEF Committed
<1>3. ASSUME NEW c \in Changes, _dispatch_prepared_work(c) PROVE Committed'
  <2>1. UNCHANGED changes /\ handoff[c].pc # "idle" /\ \A d \in Changes \ {c} : handoff'[d] = handoff[d]
    BY <1>3, DispatchEffect DEF SearchTypes
  <2> QED BY <2>1 DEF Committed
<1>4. ASSUME NEW c \in Changes, acknowledge_search_index_dirty(c) PROVE Committed'
  <2>1. UNCHANGED changes /\ handoff[c].pc # "idle" /\ \A d \in Changes \ {c} : handoff'[d] = handoff[d]
    BY <1>4, AcknowledgeEffect DEF SearchTypes
  <2> QED BY <2>1 DEF Committed
<1>5. ASSUME NEW c \in Changes, index_manager_index_batch(c) PROVE Committed'
  <2>1. UNCHANGED changes /\ (UNCHANGED handoff \/ Ends(c))
    BY <1>5, IndexEffect DEF Elsewhere
  <2> QED BY <2>1, EndsPending DEF Committed
<1>6. ASSUME NEW c \in Changes, upsert(c) PROVE Committed'
  <2>1. UNCHANGED changes /\ (UNCHANGED handoff \/ Ends(c))
    BY <1>6, UpsertEffect DEF Elsewhere
  <2> QED BY <2>1, EndsPending DEF Committed
<1>7. ASSUME NEW c \in Changes, delete_documents_task(c) PROVE Committed'
  <2>1. UNCHANGED changes /\ (UNCHANGED handoff \/ Ends(c))
    BY <1>7, DeleteCheckEffect DEF Elsewhere
  <2> QED BY <2>1, EndsPending DEF Committed
<1>8. ASSUME NEW c \in Changes, delete_documents(c) PROVE Committed'
  BY <1>8, DeleteEffect DEF Committed, Elsewhere
<1>9. ASSUME NEW c \in Changes, recheck_generation(c) PROVE Committed'
  <2>1. UNCHANGED changes /\ (UNCHANGED handoff \/ Ends(c))
    BY <1>9, RecheckEffect DEF Elsewhere
  <2> QED BY <2>1, EndsPending DEF Committed
<1>10. ASSUME NEW c \in Changes, task_fails(c) PROVE Committed'
  <2>1. UNCHANGED changes /\ (UNCHANGED handoff \/ Ends(c))
    BY <1>10, FailEffect DEF Elsewhere
  <2> QED BY <2>1, EndsPending DEF Committed
<1>11. ASSUME NEW c \in Changes, mutator_dies(c) PROVE Committed'
  <2>1. UNCHANGED changes /\ handoff[c].pc # "idle" /\ \A d \in Changes \ {c} : handoff'[d] = handoff[d]
    BY <1>11, DeathEffect DEF SearchTypes, Elsewhere
  <2> QED BY <2>1 DEF Committed
<1>12. ASSUME NEW c \in Changes, task_lost(c) PROVE Committed'
  BY <1>12, LossEffect DEF Committed, Elsewhere
<1>13. ASSUME NEW force \in BOOLEAN, ensure_search_index_states(force) PROVE Committed'
  BY <1>13, EnsureEffect DEF Committed
<1>14. ASSUME NEW q \in 1..Sweeps, _claim_dirty_states(q) PROVE Committed'
  BY <1>14, ClaimEffect DEF Committed, Aside
<1>15. ASSUME NEW q \in 1..Sweeps, reindex_manager_index(q) PROVE Committed'
  BY <1>15, ReadEffect DEF Committed, Aside
<1>16. ASSUME NEW q \in 1..Sweeps, reindex_write(q) PROVE Committed'
  BY <1>16, WriteEffect DEF Committed, Aside
<1>17. ASSUME NEW q \in 1..Sweeps, reconcile_search_indexes(q) PROVE Committed'
  BY <1>17, ReconcileEffect DEF Committed, Aside
<1>18. ASSUME NEW q \in 1..Sweeps, _release_claim_with_error(q) PROVE Committed'
  BY <1>18, ReleaseEffect DEF Committed, Aside
<1>19. ASSUME NEW q \in 1..Sweeps, sweep_dies(q) PROVE Committed'
  BY <1>19 DEF Committed, sweep_dies
<1>20. ASSUME claim_expires PROVE Committed'
  BY <1>20, ExpiryEffect DEF Committed, Aside
<1>21. ASSUME deploy_schema PROVE Committed'
  BY <1>21 DEF Committed, deploy_schema
<1>22. ASSUME UNCHANGED searchVars PROVE Committed'
  BY <1>22 DEF Committed, searchVars
<1> QED BY <1>1, <1>2, <1>3, <1>4, <1>5, <1>6, <1>7, <1>8, <1>9, <1>10, <1>11, <1>12, <1>13, <1>14, <1>15, <1>16, <1>17, <1>18, <1>19, <1>20, <1>21, <1>22
       DEF SearchNext, HandoffStep, TaskStep, SweepStep, Actions

\* What is marked grows with a mark and is forgotten when the pair is clean.
ChangedKept ==
    \/ changed' = {} /\ ~pair'.dirty
    \/ Marked(pair, pair') /\ changed' \subseteq changed \cup 1..changes'
    \/ changed' = changed /\ pair'.dirty = pair.dirty

LEMMA ChangedStep == SearchTypes /\ Committed /\ [SearchNext]_searchVars => ChangedKept
<1> SUFFICES ASSUME SearchTypes, Committed, [SearchNext]_searchVars PROVE ChangedKept
  OBVIOUS
<1>1. ASSUME NEW c \in Changes, NEW r \in Rows, NEW a \in Actions, commit_change(c, r, a) PROVE ChangedKept
  <2>1. changes' = c /\ c \in 1..changes'
    BY <1>1, CommitEffect DEF Changes
  <2> QED BY <1>1, <2>1, CommitEffect DEF ChangedKept, MarksRow
<1>2. ASSUME NEW c \in Changes, after_non_default_commit(c) PROVE ChangedKept
  <2>1. changes' = changes /\ c \in 1..changes
    BY <1>2, AfterCommitEffect DEF Changes, Committed
  <2> QED BY <1>2, <2>1, AfterCommitEffect DEF ChangedKept, MarksRow
<1>3. ASSUME NEW c \in Changes, _dispatch_prepared_work(c) PROVE ChangedKept
  BY <1>3, DispatchEffect DEF ChangedKept, Marked
<1>4. ASSUME NEW c \in Changes, acknowledge_search_index_dirty(c) PROVE ChangedKept
  BY <1>4, AcknowledgeEffect DEF ChangedKept, SearchTypes, Pair
<1>5. ASSUME NEW c \in Changes, index_manager_index_batch(c) PROVE ChangedKept
  BY <1>5, IndexEffect DEF ChangedKept, Marked, Elsewhere
<1>6. ASSUME NEW c \in Changes, upsert(c) PROVE ChangedKept
  BY <1>6, UpsertEffect DEF ChangedKept, Marked, Elsewhere
<1>7. ASSUME NEW c \in Changes, delete_documents_task(c) PROVE ChangedKept
  BY <1>7, DeleteCheckEffect DEF ChangedKept, Marked, Elsewhere
<1>8. ASSUME NEW c \in Changes, delete_documents(c) PROVE ChangedKept
  BY <1>8, DeleteEffect DEF ChangedKept, Marked, Elsewhere
<1>9. ASSUME NEW c \in Changes, recheck_generation(c) PROVE ChangedKept
  BY <1>9, RecheckEffect DEF ChangedKept, Marked, Elsewhere
<1>10. ASSUME NEW c \in Changes, task_fails(c) PROVE ChangedKept
  BY <1>10, FailEffect DEF ChangedKept, Marked, Elsewhere
<1>11. ASSUME NEW c \in Changes, mutator_dies(c) PROVE ChangedKept
  BY <1>11, DeathEffect DEF ChangedKept, Marked, Elsewhere
<1>12. ASSUME NEW c \in Changes, task_lost(c) PROVE ChangedKept
  BY <1>12, LossEffect DEF ChangedKept, Marked, Elsewhere
<1>13. ASSUME NEW force \in BOOLEAN, ensure_search_index_states(force) PROVE ChangedKept
  BY <1>13, EnsureEffect DEF ChangedKept, Marked
<1>14. ASSUME NEW q \in 1..Sweeps, _claim_dirty_states(q) PROVE ChangedKept
  BY <1>14, ClaimEffect DEF ChangedKept, SameMark, Aside
<1>15. ASSUME NEW q \in 1..Sweeps, reindex_manager_index(q) PROVE ChangedKept
  BY <1>15, ReadEffect DEF ChangedKept, Marked, Aside
<1>16. ASSUME NEW q \in 1..Sweeps, reindex_write(q) PROVE ChangedKept
  BY <1>16, WriteEffect DEF ChangedKept, Marked, Aside
<1>17. ASSUME NEW q \in 1..Sweeps, reconcile_search_indexes(q) PROVE ChangedKept
  BY <1>17, ReconcileEffect DEF ChangedKept, SameMark, Aside
<1>18. ASSUME NEW q \in 1..Sweeps, _release_claim_with_error(q) PROVE ChangedKept
  BY <1>18, ReleaseEffect DEF ChangedKept, SameMark, Aside
<1>19. ASSUME NEW q \in 1..Sweeps, sweep_dies(q) PROVE ChangedKept
  BY <1>19 DEF ChangedKept, Marked, sweep_dies
<1>20. ASSUME claim_expires PROVE ChangedKept
  BY <1>20, ExpiryEffect DEF ChangedKept, SameMark, Aside
<1>21. ASSUME deploy_schema PROVE ChangedKept
  BY <1>21 DEF ChangedKept, Marked, deploy_schema
<1>22. ASSUME UNCHANGED searchVars PROVE ChangedKept
  BY <1>22 DEF ChangedKept, Marked, searchVars
<1> QED BY <1>1, <1>2, <1>3, <1>4, <1>5, <1>6, <1>7, <1>8, <1>9, <1>10, <1>11, <1>12, <1>13, <1>14, <1>15, <1>16, <1>17, <1>18, <1>19, <1>20, <1>21, <1>22
       DEF SearchNext, HandoffStep, TaskStep, SweepStep, Actions

\* A row changes only by a commit, which is the latest.
RowsKept ==
    /\ changes' \in {changes, changes + 1}
    /\ \A r \in Rows : rows'[r] = rows[r] \/ (rows'[r].at = changes + 1 /\ changes' = changes + 1)

LEMMA RowsStep == SearchTypes /\ [SearchNext]_searchVars => RowsKept
<1> SUFFICES ASSUME SearchTypes, [SearchNext]_searchVars PROVE RowsKept
  OBVIOUS
<1>1. ASSUME NEW c \in Changes, NEW r \in Rows, NEW a \in Actions, commit_change(c, r, a) PROVE RowsKept
  BY <1>1, CommitEffect DEF RowsKept, SearchTypes
<1>2. ASSUME NEW c \in Changes, after_non_default_commit(c) PROVE RowsKept
  BY <1>2, AfterCommitEffect DEF RowsKept
<1>3. ASSUME NEW c \in Changes, _dispatch_prepared_work(c) PROVE RowsKept
  BY <1>3, DispatchEffect DEF RowsKept
<1>4. ASSUME NEW c \in Changes, acknowledge_search_index_dirty(c) PROVE RowsKept
  BY <1>4, AcknowledgeEffect DEF RowsKept
<1>5. ASSUME NEW c \in Changes, index_manager_index_batch(c) PROVE RowsKept
  BY <1>5, IndexEffect DEF RowsKept, Elsewhere
<1>6. ASSUME NEW c \in Changes, upsert(c) PROVE RowsKept
  BY <1>6, UpsertEffect DEF RowsKept, Elsewhere
<1>7. ASSUME NEW c \in Changes, delete_documents_task(c) PROVE RowsKept
  BY <1>7, DeleteCheckEffect DEF RowsKept, Elsewhere
<1>8. ASSUME NEW c \in Changes, delete_documents(c) PROVE RowsKept
  BY <1>8, DeleteEffect DEF RowsKept, Elsewhere
<1>9. ASSUME NEW c \in Changes, recheck_generation(c) PROVE RowsKept
  BY <1>9, RecheckEffect DEF RowsKept, Elsewhere
<1>10. ASSUME NEW c \in Changes, task_fails(c) PROVE RowsKept
  BY <1>10, FailEffect DEF RowsKept, Elsewhere
<1>11. ASSUME NEW c \in Changes, mutator_dies(c) PROVE RowsKept
  BY <1>11, DeathEffect DEF RowsKept, Elsewhere
<1>12. ASSUME NEW c \in Changes, task_lost(c) PROVE RowsKept
  BY <1>12, LossEffect DEF RowsKept, Elsewhere
<1>13. ASSUME NEW force \in BOOLEAN, ensure_search_index_states(force) PROVE RowsKept
  BY <1>13, EnsureEffect DEF RowsKept
<1>14. ASSUME NEW q \in 1..Sweeps, _claim_dirty_states(q) PROVE RowsKept
  BY <1>14, ClaimEffect DEF RowsKept, Aside
<1>15. ASSUME NEW q \in 1..Sweeps, reindex_manager_index(q) PROVE RowsKept
  BY <1>15, ReadEffect DEF RowsKept, Aside
<1>16. ASSUME NEW q \in 1..Sweeps, reindex_write(q) PROVE RowsKept
  BY <1>16, WriteEffect DEF RowsKept, Aside
<1>17. ASSUME NEW q \in 1..Sweeps, reconcile_search_indexes(q) PROVE RowsKept
  BY <1>17, ReconcileEffect DEF RowsKept, Aside
<1>18. ASSUME NEW q \in 1..Sweeps, _release_claim_with_error(q) PROVE RowsKept
  BY <1>18, ReleaseEffect DEF RowsKept, Aside
<1>19. ASSUME NEW q \in 1..Sweeps, sweep_dies(q) PROVE RowsKept
  BY <1>19 DEF RowsKept, sweep_dies
<1>20. ASSUME claim_expires PROVE RowsKept
  BY <1>20, ExpiryEffect DEF RowsKept, Aside
<1>21. ASSUME deploy_schema PROVE RowsKept
  BY <1>21 DEF RowsKept, deploy_schema
<1>22. ASSUME UNCHANGED searchVars PROVE RowsKept
  BY <1>22 DEF RowsKept, searchVars
<1> QED BY <1>1, <1>2, <1>3, <1>4, <1>5, <1>6, <1>7, <1>8, <1>9, <1>10, <1>11, <1>12, <1>13, <1>14, <1>15, <1>16, <1>17, <1>18, <1>19, <1>20, <1>21, <1>22
       DEF SearchNext, HandoffStep, TaskStep, SweepStep, Actions

\* A claim goes from nobody to nobody but a sweep that draws a new token.
ClaimMoves ==
    \/ pair'.claim = pair.claim \/ pair'.claim = 0
    \/ \A q \in 1..Sweeps : sweep[q].token # pair'.claim

LEMMA ClaimStep == SearchTypes /\ [SearchNext]_searchVars => ClaimMoves
<1> SUFFICES ASSUME SearchTypes, [SearchNext]_searchVars PROVE ClaimMoves
  OBVIOUS
<1>1. ASSUME NEW c \in Changes, NEW r \in Rows, NEW a \in Actions, commit_change(c, r, a) PROVE ClaimMoves
  BY <1>1, CommitEffect DEF ClaimMoves, Marked, SameMark, MarksRow
<1>2. ASSUME NEW c \in Changes, after_non_default_commit(c) PROVE ClaimMoves
  BY <1>2, AfterCommitEffect DEF ClaimMoves, Marked, SameMark, MarksRow
<1>3. ASSUME NEW c \in Changes, _dispatch_prepared_work(c) PROVE ClaimMoves
  BY <1>3, DispatchEffect DEF ClaimMoves, Marked, SameMark
<1>4. ASSUME NEW c \in Changes, acknowledge_search_index_dirty(c) PROVE ClaimMoves
  BY <1>4, AcknowledgeEffect DEF ClaimMoves, SearchTypes, Pair
<1>5. ASSUME NEW c \in Changes, index_manager_index_batch(c) PROVE ClaimMoves
  BY <1>5, IndexEffect DEF ClaimMoves, Marked, SameMark, Elsewhere
<1>6. ASSUME NEW c \in Changes, upsert(c) PROVE ClaimMoves
  BY <1>6, UpsertEffect DEF ClaimMoves, Marked, SameMark, Elsewhere
<1>7. ASSUME NEW c \in Changes, delete_documents_task(c) PROVE ClaimMoves
  BY <1>7, DeleteCheckEffect DEF ClaimMoves, Marked, SameMark, Elsewhere
<1>8. ASSUME NEW c \in Changes, delete_documents(c) PROVE ClaimMoves
  BY <1>8, DeleteEffect DEF ClaimMoves, Marked, SameMark, Elsewhere
<1>9. ASSUME NEW c \in Changes, recheck_generation(c) PROVE ClaimMoves
  BY <1>9, RecheckEffect DEF ClaimMoves, Marked, SameMark, Elsewhere
<1>10. ASSUME NEW c \in Changes, task_fails(c) PROVE ClaimMoves
  BY <1>10, FailEffect DEF ClaimMoves, Marked, SameMark, Elsewhere
<1>11. ASSUME NEW c \in Changes, mutator_dies(c) PROVE ClaimMoves
  BY <1>11, DeathEffect DEF ClaimMoves, Marked, SameMark, Elsewhere
<1>12. ASSUME NEW c \in Changes, task_lost(c) PROVE ClaimMoves
  BY <1>12, LossEffect DEF ClaimMoves, Marked, SameMark, Elsewhere
<1>13. ASSUME NEW force \in BOOLEAN, ensure_search_index_states(force) PROVE ClaimMoves
  BY <1>13, EnsureEffect DEF ClaimMoves, Marked, SameMark
<1>14. ASSUME NEW q \in 1..Sweeps, _claim_dirty_states(q) PROVE ClaimMoves
  BY <1>14, ClaimEffect DEF ClaimMoves, Marked, SameMark, Aside
<1>15. ASSUME NEW q \in 1..Sweeps, reindex_manager_index(q) PROVE ClaimMoves
  BY <1>15, ReadEffect DEF ClaimMoves, Marked, SameMark, Aside
<1>16. ASSUME NEW q \in 1..Sweeps, reindex_write(q) PROVE ClaimMoves
  BY <1>16, WriteEffect DEF ClaimMoves, Marked, SameMark, Aside
<1>17. ASSUME NEW q \in 1..Sweeps, reconcile_search_indexes(q) PROVE ClaimMoves
  BY <1>17, ReconcileEffect DEF ClaimMoves, Marked, SameMark, Aside
<1>18. ASSUME NEW q \in 1..Sweeps, _release_claim_with_error(q) PROVE ClaimMoves
  BY <1>18, ReleaseEffect DEF ClaimMoves, Marked, SameMark, Aside
<1>19. ASSUME NEW q \in 1..Sweeps, sweep_dies(q) PROVE ClaimMoves
  BY <1>19 DEF ClaimMoves, Marked, SameMark, sweep_dies
<1>20. ASSUME claim_expires PROVE ClaimMoves
  BY <1>20, ExpiryEffect DEF ClaimMoves, Marked, SameMark, Aside
<1>21. ASSUME deploy_schema PROVE ClaimMoves
  BY <1>21 DEF ClaimMoves, Marked, SameMark, deploy_schema
<1>22. ASSUME UNCHANGED searchVars PROVE ClaimMoves
  BY <1>22 DEF ClaimMoves, Marked, SameMark, searchVars
<1> QED BY <1>1, <1>2, <1>3, <1>4, <1>5, <1>6, <1>7, <1>8, <1>9, <1>10, <1>11, <1>12, <1>13, <1>14, <1>15, <1>16, <1>17, <1>18, <1>19, <1>20, <1>21, <1>22
       DEF SearchNext, HandoffStep, TaskStep, SweepStep, Actions

\* A rebuild keeps to what it read, and it read the rows as they were.
ReadsKept ==
    \A q \in 1..Sweeps : sweep'[q].pc \in {"write", "clear"} =>
      \/ /\ sweep'[q].pc = sweep[q].pc \/ reindex_write(q)
         /\ sweep[q].pc \in {"write", "clear"} /\ (sweep'[q].pc = "write" => sweep[q].pc = "write")
         /\ sweep'[q].token = sweep[q].token /\ sweep'[q].gen = sweep[q].gen
         /\ sweep'[q].read = sweep[q].read
      \/ /\ sweep'[q].pc = "write" /\ UNCHANGED <<rows, schema, pair>>
         /\ \A r \in Rows : sweep'[q].read[r] = [at |-> rows[r].at, live |-> rows[r].live, schema |-> schema]

LEMMA ReadsStill == UNCHANGED sweep => ReadsKept
BY DEF ReadsKept

LEMMA ReadsStep == SearchTypes /\ [SearchNext]_searchVars => ReadsKept
<1> SUFFICES ASSUME SearchTypes, [SearchNext]_searchVars PROVE ReadsKept
  OBVIOUS
<1>1. ASSUME NEW c \in Changes, NEW r \in Rows, NEW a \in Actions, commit_change(c, r, a) PROVE ReadsKept
  BY <1>1, CommitEffect, ReadsStill
<1>2. ASSUME NEW c \in Changes, after_non_default_commit(c) PROVE ReadsKept
  BY <1>2, AfterCommitEffect, ReadsStill
<1>3. ASSUME NEW c \in Changes, _dispatch_prepared_work(c) PROVE ReadsKept
  BY <1>3, DispatchEffect, ReadsStill
<1>4. ASSUME NEW c \in Changes, acknowledge_search_index_dirty(c) PROVE ReadsKept
  BY <1>4, AcknowledgeEffect, ReadsStill
<1>5. ASSUME NEW c \in Changes, index_manager_index_batch(c) PROVE ReadsKept
  BY <1>5, IndexEffect, ReadsStill DEF Elsewhere
<1>6. ASSUME NEW c \in Changes, upsert(c) PROVE ReadsKept
  BY <1>6, UpsertEffect, ReadsStill DEF Elsewhere
<1>7. ASSUME NEW c \in Changes, delete_documents_task(c) PROVE ReadsKept
  BY <1>7, DeleteCheckEffect, ReadsStill DEF Elsewhere
<1>8. ASSUME NEW c \in Changes, delete_documents(c) PROVE ReadsKept
  BY <1>8, DeleteEffect, ReadsStill DEF Elsewhere
<1>9. ASSUME NEW c \in Changes, recheck_generation(c) PROVE ReadsKept
  BY <1>9, RecheckEffect, ReadsStill DEF Elsewhere
<1>10. ASSUME NEW c \in Changes, task_fails(c) PROVE ReadsKept
  BY <1>10, FailEffect, ReadsStill DEF Elsewhere
<1>11. ASSUME NEW c \in Changes, mutator_dies(c) PROVE ReadsKept
  BY <1>11, DeathEffect, ReadsStill DEF Elsewhere
<1>12. ASSUME NEW c \in Changes, task_lost(c) PROVE ReadsKept
  BY <1>12, LossEffect, ReadsStill DEF Elsewhere
<1>13. ASSUME NEW force \in BOOLEAN, ensure_search_index_states(force) PROVE ReadsKept
  BY <1>13, EnsureEffect, ReadsStill
<1>14. ASSUME NEW q \in 1..Sweeps, _claim_dirty_states(q) PROVE ReadsKept
  <2>1. PICK s : sweep' = [sweep EXCEPT ![q] = s] /\ s.pc = "read"
    BY <1>14, ClaimEffect
  <2> QED BY <2>1 DEF ReadsKept, SearchTypes
<1>15. ASSUME NEW q \in 1..Sweeps, reindex_manager_index(q) PROVE ReadsKept
  <2>1. PICK s \in Sweep :
          /\ sweep' = [sweep EXCEPT ![q] = s]
          /\ s.pc = "write"
          /\ \A r \in Rows : s.read[r] = [at |-> rows[r].at, live |-> rows[r].live, schema |-> schema]
    BY <1>15, ReadEffect
  <2>2. sweep'[q] = s /\ \A p \in 1..Sweeps \ {q} : sweep'[p] = sweep[p]
    BY <2>1 DEF SearchTypes
  <2>3. UNCHANGED <<rows, schema, pair>>
    BY <1>15, ReadEffect DEF Aside
  <2> QED BY <2>1, <2>2, <2>3 DEF ReadsKept
<1>16. ASSUME NEW q \in 1..Sweeps, reindex_write(q) PROVE ReadsKept
  <2>1. PICK s : /\ sweep' = [sweep EXCEPT ![q] = s]
                 /\ \/ s.pc \notin {"write", "clear"}
                    \/ /\ sweep[q].pc = "write" /\ s.token = sweep[q].token
                       /\ s.gen = sweep[q].gen /\ s.read = sweep[q].read
    BY <1>16, WriteEffect DEF NoSweep
  <2> QED BY <1>16, <2>1 DEF ReadsKept, SearchTypes
<1>17. ASSUME NEW q \in 1..Sweeps, reconcile_search_indexes(q) PROVE ReadsKept
  <2>1. sweep' = [sweep EXCEPT ![q] = NoSweep]
    BY <1>17, ReconcileEffect
  <2> QED BY <2>1 DEF ReadsKept, SearchTypes, NoSweep
<1>18. ASSUME NEW q \in 1..Sweeps, _release_claim_with_error(q) PROVE ReadsKept
  <2>1. sweep' = [sweep EXCEPT ![q] = NoSweep]
    BY <1>18, ReleaseEffect
  <2> QED BY <2>1 DEF ReadsKept, SearchTypes, NoSweep
<1>19. ASSUME NEW q \in 1..Sweeps, sweep_dies(q) PROVE ReadsKept
  BY <1>19 DEF sweep_dies, ReadsKept, SearchTypes, NoSweep
<1>20. ASSUME claim_expires PROVE ReadsKept
  BY <1>20, ExpiryEffect, ReadsStill DEF Aside
<1>21. ASSUME deploy_schema PROVE ReadsKept
  BY <1>21, ReadsStill DEF deploy_schema
<1>22. ASSUME UNCHANGED searchVars PROVE ReadsKept
  BY <1>22, ReadsStill DEF searchVars
<1> QED BY <1>1, <1>2, <1>3, <1>4, <1>5, <1>6, <1>7, <1>8, <1>9, <1>10, <1>11, <1>12, <1>13, <1>14, <1>15, <1>16, <1>17, <1>18, <1>19, <1>20, <1>21, <1>22
       DEF SearchNext, HandoffStep, TaskStep, SweepStep, Actions

\* No token is of a later generation than the pair's, no two sweeps share a
\* claim, and what is marked was committed.
Bounded ==
    /\ \A c \in Changes : handoff[c].token.gen <= pair.gen
    /\ \A q \in 1..Sweeps : sweep[q].gen <= pair.gen
    /\ \A p, q \in 1..Sweeps : p # q /\ sweep[p].pc # "idle" => sweep[p].token # sweep[q].token
    /\ changed \subseteq 1..changes

LEMMA BoundedStep == SearchTypes /\ Committed /\ Bounded /\ [SearchNext]_searchVars => Bounded'
<1> SUFFICES ASSUME SearchTypes, Committed, Bounded, [SearchNext]_searchVars PROVE Bounded'
  OBVIOUS
<1>1. pair'.gen \in {pair.gen, pair.gen + 1} /\ (Marked(pair, pair') => pair'.gen = pair.gen + 1)
  BY GenStep DEF GenMoves
<1>2. \A c \in Changes : handoff'[c].token.gen <= pair'.gen
  <2> SUFFICES ASSUME NEW c \in Changes PROVE handoff'[c].token.gen <= pair'.gen
    OBVIOUS
  <2>1. \/ handoff'[c].token \in {handoff[c].token, NoToken}
        \/ handoff'[c].token.gen = pair'.gen
    BY TokensStep DEF TokensKept, NewToken
  <2>2. handoff[c].token.gen <= pair.gen /\ handoff[c].token.gen \in Nat /\ pair.gen \in Nat
    BY GenNat DEF Bounded
  <2>3. NoToken.gen = 0
    BY DEF NoToken
  <2> QED BY <1>1, <2>1, <2>2, <2>3
<1>3. \A q \in 1..Sweeps : sweep'[q].gen <= pair'.gen
  <2> SUFFICES ASSUME NEW q \in 1..Sweeps PROVE sweep'[q].gen <= pair'.gen
    OBVIOUS
  <2>1. sweep'[q].gen \in {0, sweep[q].gen, pair'.gen}
    BY SweepsStep DEF SweepsKept, NoSweep
  <2>2. sweep[q].gen <= pair.gen /\ sweep[q].gen \in Nat /\ pair.gen \in Nat
    BY GenNat DEF Bounded
  <2> QED BY <1>1, <2>1, <2>2
<1>4. \A p, q \in 1..Sweeps : p # q /\ sweep'[p].pc # "idle" => sweep'[p].token # sweep'[q].token
  <2> SUFFICES ASSUME NEW p \in 1..Sweeps, NEW q \in 1..Sweeps, p # q, sweep'[p].pc # "idle"
               PROVE  sweep'[p].token # sweep'[q].token
    OBVIOUS
  <2>1. NoSweep.pc = "idle" /\ NoSweep.token = 0
    BY DEF NoSweep
  <2>2. sweep'[p].token # 0
    <3>1. sweep'[p] \in Sweep
      BY TypesStep DEF SearchTypes
    <3> QED BY <3>1 DEF Sweep, NoSweep
  <2>3. CASE \A x \in 1..Sweeps : \/ sweep'[x] = NoSweep
                                   \/ /\ sweep[x].pc # "idle"
                                      /\ sweep'[x].token = sweep[x].token /\ sweep'[x].gen = sweep[x].gen
    BY <2>1, <2>2, <2>3 DEF Bounded
  <2>4. CASE \E x \in 1..Sweeps :
               /\ sweep'[x].token = pair'.claim /\ sweep'[x].gen = pair'.gen
               /\ \A y \in 1..Sweeps : sweep[y].token # pair'.claim /\ (y # x => sweep'[y] = sweep[y])
    BY <2>4 DEF Bounded
  <2>5. SweepsKept
    BY SweepsStep
  <2> QED BY <2>3, <2>4, <2>5, Zenon DEF SweepsKept
<1>5. changed' \subseteq 1..changes'
  <2>1. changes' \in {changes, changes + 1} /\ changes \in Nat
    BY RowsStep, SearchAssumption DEF RowsKept, SearchTypes
  <2>2. changed' \subseteq changed \cup 1..changes'
    BY ChangedStep DEF ChangedKept
  <2>3. 1..changes \subseteq 1..changes'
    BY <2>1
  <2> QED BY <2>2, <2>3 DEF Bounded
<1> QED BY <1>2, <1>3, <1>4, <1>5 DEF Bounded

\* A token that may still clear the mark.
Stamped(c) == handoff[c].token.ack /\ handoff[c].token.gen = pair.gen
AckReady(c) == Stamped(c) /\ pair.dirty

\* The one change made since the pair was clean may be acknowledged.
Acks ==
    /\ ~pair.dirty => changed = {}
    /\ \A c \in Changes : AckReady(c) => changed = {c}

\* A rebuild that may still clear the mark read what is marked.
Reads ==
    \A q \in 1..Sweeps : sweep[q].pc \in {"write", "clear"} /\ clear_dirty(q) =>
      \A r \in Rows : rows[r].at \in changed => sweep[q].read[r].at = rows[r].at

LEMMA AcksStep ==
    SearchTypes /\ Committed /\ Bounded /\ Acks /\ [SearchNext]_searchVars => Acks'
<1> SUFFICES ASSUME SearchTypes, Committed, Bounded, Acks, [SearchNext]_searchVars PROVE Acks'
  OBVIOUS
<1>1. /\ pair'.gen \in {pair.gen, pair.gen + 1} /\ pair.gen \in Nat
      /\ Marked(pair, pair') => pair'.gen = pair.gen + 1 /\ pair'.dirty
  BY GenStep, GenNat DEF GenMoves, Marked
<1>2. ~pair'.dirty => changed' = {}
  BY <1>1, ChangedStep DEF ChangedKept, Acks
<1>3. ASSUME NEW c \in Changes, AckReady(c)' PROVE changed' = {c}
  <2>1. handoff'[c].token.ack /\ handoff'[c].token.gen = pair'.gen /\ pair'.dirty
    BY <1>3 DEF AckReady, Stamped
  <2>2. CASE NewToken(c)
    BY <2>1, <2>2 DEF NewToken, Acks
  <2>3. CASE handoff'[c].token = handoff[c].token
    <3>1. pair'.gen = pair.gen /\ ~Marked(pair, pair')
      BY <1>1, <2>1, <2>3, GenNat DEF Bounded
    <3>2. changed' = changed /\ pair.dirty
      BY <2>1, <3>1, ChangedStep DEF ChangedKept
    <3> QED BY <2>1, <2>3, <3>1, <3>2 DEF Acks, AckReady, Stamped
  <2>4. CASE handoff'[c].token = NoToken
    BY <2>1, <2>4 DEF NoToken
  <2> QED BY <2>2, <2>3, <2>4, TokensStep DEF TokensKept
<1> QED BY <1>2, <1>3 DEF Acks

LEMMA ReadsRespectStep ==
    SearchTypes /\ Committed /\ Bounded /\ Reads /\ [SearchNext]_searchVars => Reads'
<1> SUFFICES ASSUME SearchTypes, Committed, Bounded, Reads, [SearchNext]_searchVars,
                    NEW q \in 1..Sweeps, sweep'[q].pc \in {"write", "clear"}, clear_dirty(q)',
                    NEW r \in Rows, rows'[r].at \in changed'
             PROVE  sweep'[q].read[r].at = rows'[r].at
  BY DEF Reads
<1>1. pair'.claim = sweep'[q].token /\ pair'.gen = sweep'[q].gen
  BY DEF clear_dirty
<1>2. CASE rows' = rows /\ sweep'[q].read[r] = [at |-> rows[r].at, live |-> rows[r].live, schema |-> schema]
  BY <1>2
<1>3. CASE /\ sweep[q].pc \in {"write", "clear"} /\ sweep'[q].token = sweep[q].token
           /\ sweep'[q].gen = sweep[q].gen /\ sweep'[q].read = sweep[q].read
  <2>1. pair'.gen = pair.gen /\ ~Marked(pair, pair')
    BY <1>1, <1>3, GenStep, GenNat DEF GenMoves, Bounded
  <2>2. pair'.claim = pair.claim
    BY <1>1, <1>3, ClaimStep, GenNat DEF ClaimMoves
  <2>3. changed' = changed
    BY <2>1, ChangedStep DEF ChangedKept
  <2>4. rows'[r] = rows[r]
    BY <2>3, RowsStep, SearchAssumption DEF RowsKept, Bounded, SearchTypes
  <2>5. clear_dirty(q)
    BY <1>1, <1>3, <2>1, <2>2 DEF clear_dirty
  <2> QED BY <1>3, <2>3, <2>4, <2>5 DEF Reads
<1> QED BY <1>2, <1>3, ReadsStep DEF ReadsKept

LEMMA OlderWorkStep == SearchTypes /\ Acks /\ Reads /\ [SearchNext]_searchVars => OlderWorkNeverClears
<1> SUFFICES ASSUME SearchTypes, Acks, Reads, [SearchNext]_searchVars PROVE OlderWorkNeverClears
  OBVIOUS
<1>1. ASSUME NEW c \in Changes, NEW r \in Rows, NEW a \in Actions, commit_change(c, r, a) PROVE OlderWorkNeverClears
  BY <1>1, CommitEffect DEF OlderWorkNeverClears, Marked, SameMark, MarksRow
<1>2. ASSUME NEW c \in Changes, after_non_default_commit(c) PROVE OlderWorkNeverClears
  BY <1>2, AfterCommitEffect DEF OlderWorkNeverClears, Marked, SameMark, MarksRow
<1>3. ASSUME NEW c \in Changes, _dispatch_prepared_work(c) PROVE OlderWorkNeverClears
  BY <1>3, DispatchEffect DEF OlderWorkNeverClears, Marked, SameMark
<1>4. ASSUME NEW c \in Changes, acknowledge_search_index_dirty(c) PROVE OlderWorkNeverClears
  <2>1. CASE pair' = pair
    BY <2>1 DEF OlderWorkNeverClears
  <2>2. CASE handoff[c].pc = "ack" /\ AckReady(c)
    BY <2>2 DEF OlderWorkNeverClears, Acks
  <2> QED BY <1>4, <2>1, <2>2, AcknowledgeEffect DEF AckReady, Stamped
<1>5. ASSUME NEW c \in Changes, index_manager_index_batch(c) PROVE OlderWorkNeverClears
  BY <1>5, IndexEffect DEF OlderWorkNeverClears, Marked, SameMark
<1>6. ASSUME NEW c \in Changes, upsert(c) PROVE OlderWorkNeverClears
  BY <1>6, UpsertEffect DEF OlderWorkNeverClears, Marked, SameMark
<1>7. ASSUME NEW c \in Changes, delete_documents_task(c) PROVE OlderWorkNeverClears
  BY <1>7, DeleteCheckEffect DEF OlderWorkNeverClears, Marked, SameMark
<1>8. ASSUME NEW c \in Changes, delete_documents(c) PROVE OlderWorkNeverClears
  BY <1>8, DeleteEffect DEF OlderWorkNeverClears, Marked, SameMark
<1>9. ASSUME NEW c \in Changes, recheck_generation(c) PROVE OlderWorkNeverClears
  BY <1>9, RecheckEffect DEF OlderWorkNeverClears, Marked, SameMark
<1>10. ASSUME NEW c \in Changes, task_fails(c) PROVE OlderWorkNeverClears
  BY <1>10, FailEffect DEF OlderWorkNeverClears, Marked, SameMark
<1>11. ASSUME NEW c \in Changes, mutator_dies(c) PROVE OlderWorkNeverClears
  BY <1>11, DeathEffect DEF OlderWorkNeverClears, Marked, SameMark
<1>12. ASSUME NEW c \in Changes, task_lost(c) PROVE OlderWorkNeverClears
  BY <1>12, LossEffect DEF OlderWorkNeverClears, Marked, SameMark
<1>13. ASSUME NEW force \in BOOLEAN, ensure_search_index_states(force) PROVE OlderWorkNeverClears
  BY <1>13, EnsureEffect DEF OlderWorkNeverClears, Marked, SameMark
<1>14. ASSUME NEW q \in 1..Sweeps, _claim_dirty_states(q) PROVE OlderWorkNeverClears
  BY <1>14, ClaimEffect DEF OlderWorkNeverClears, Marked, SameMark
<1>15. ASSUME NEW q \in 1..Sweeps, reindex_manager_index(q) PROVE OlderWorkNeverClears
  BY <1>15, ReadEffect DEF OlderWorkNeverClears, Marked, SameMark
<1>16. ASSUME NEW q \in 1..Sweeps, reindex_write(q) PROVE OlderWorkNeverClears
  BY <1>16, WriteEffect DEF OlderWorkNeverClears, Marked, SameMark
<1>17. ASSUME NEW q \in 1..Sweeps, reconcile_search_indexes(q) PROVE OlderWorkNeverClears
  <2>1. CASE clear_dirty(q)
    BY <1>17, <2>1, ReconcileEffect DEF OlderWorkNeverClears, Reads
  <2>2. CASE ~clear_dirty(q)
    BY <1>17, <2>2, ReconcileEffect DEF OlderWorkNeverClears, SameMark
  <2> QED BY <2>1, <2>2
<1>18. ASSUME NEW q \in 1..Sweeps, _release_claim_with_error(q) PROVE OlderWorkNeverClears
  BY <1>18, ReleaseEffect DEF OlderWorkNeverClears, Marked, SameMark
<1>19. ASSUME NEW q \in 1..Sweeps, sweep_dies(q) PROVE OlderWorkNeverClears
  BY <1>19 DEF OlderWorkNeverClears, sweep_dies
<1>20. ASSUME claim_expires PROVE OlderWorkNeverClears
  BY <1>20, ExpiryEffect DEF OlderWorkNeverClears, Marked, SameMark
<1>21. ASSUME deploy_schema PROVE OlderWorkNeverClears
  BY <1>21 DEF OlderWorkNeverClears, deploy_schema
<1>22. ASSUME UNCHANGED searchVars PROVE OlderWorkNeverClears
  BY <1>22 DEF OlderWorkNeverClears, searchVars
<1> QED BY <1>1, <1>2, <1>3, <1>4, <1>5, <1>6, <1>7, <1>8, <1>9, <1>10, <1>11, <1>12, <1>13, <1>14, <1>15, <1>16, <1>17, <1>18, <1>19, <1>20, <1>21, <1>22
       DEF SearchNext, HandoffStep, TaskStep, SweepStep, Actions

LEMMA ClaimRespectedStep == SearchTypes /\ Bounded /\ [SearchNext]_searchVars => ClaimRespected
<1> SUFFICES ASSUME SearchTypes, Bounded, [SearchNext]_searchVars PROVE ClaimRespected
  OBVIOUS
<1>1. ASSUME NEW c \in Changes, NEW r \in Rows, NEW a \in Actions, commit_change(c, r, a) PROVE ClaimRespected
  BY <1>1, CommitEffect DEF ClaimRespected, Marked, SameMark, MarksRow
<1>2. ASSUME NEW c \in Changes, after_non_default_commit(c) PROVE ClaimRespected
  BY <1>2, AfterCommitEffect DEF ClaimRespected, Marked, SameMark, MarksRow
<1>3. ASSUME NEW c \in Changes, _dispatch_prepared_work(c) PROVE ClaimRespected
  BY <1>3, DispatchEffect DEF ClaimRespected, Marked, SameMark
<1>4. ASSUME NEW c \in Changes, acknowledge_search_index_dirty(c) PROVE ClaimRespected
  BY <1>4, AcknowledgeEffect DEF ClaimRespected, SearchTypes, Pair
<1>5. ASSUME NEW c \in Changes, index_manager_index_batch(c) PROVE ClaimRespected
  BY <1>5, IndexEffect DEF ClaimRespected, Marked, SameMark
<1>6. ASSUME NEW c \in Changes, upsert(c) PROVE ClaimRespected
  BY <1>6, UpsertEffect DEF ClaimRespected, Marked, SameMark
<1>7. ASSUME NEW c \in Changes, delete_documents_task(c) PROVE ClaimRespected
  BY <1>7, DeleteCheckEffect DEF ClaimRespected, Marked, SameMark
<1>8. ASSUME NEW c \in Changes, delete_documents(c) PROVE ClaimRespected
  BY <1>8, DeleteEffect DEF ClaimRespected, Marked, SameMark
<1>9. ASSUME NEW c \in Changes, recheck_generation(c) PROVE ClaimRespected
  BY <1>9, RecheckEffect DEF ClaimRespected, Marked, SameMark
<1>10. ASSUME NEW c \in Changes, task_fails(c) PROVE ClaimRespected
  BY <1>10, FailEffect DEF ClaimRespected, Marked, SameMark
<1>11. ASSUME NEW c \in Changes, mutator_dies(c) PROVE ClaimRespected
  BY <1>11, DeathEffect DEF ClaimRespected, Marked, SameMark
<1>12. ASSUME NEW c \in Changes, task_lost(c) PROVE ClaimRespected
  BY <1>12, LossEffect DEF ClaimRespected, Marked, SameMark
<1>13. ASSUME NEW force \in BOOLEAN, ensure_search_index_states(force) PROVE ClaimRespected
  BY <1>13, EnsureEffect DEF ClaimRespected, Marked, SameMark
<1>14. ASSUME NEW q \in 1..Sweeps, _claim_dirty_states(q) PROVE ClaimRespected
  BY <1>14, ClaimEffect DEF ClaimRespected, Marked, SameMark
<1>15. ASSUME NEW q \in 1..Sweeps, reindex_manager_index(q) PROVE ClaimRespected
  BY <1>15, ReadEffect DEF ClaimRespected, Marked, SameMark
<1>16. ASSUME NEW q \in 1..Sweeps, reindex_write(q) PROVE ClaimRespected
  BY <1>16, WriteEffect DEF ClaimRespected, Marked, SameMark
<1>17. ASSUME NEW q \in 1..Sweeps, reconcile_search_indexes(q) PROVE ClaimRespected
  <2>1. sweep' = [sweep EXCEPT ![q] = NoSweep] /\ (pair'.claim = pair.claim \/ sweep[q].token = pair.claim)
    BY <1>17, ReconcileEffect DEF SameMark, clear_dirty
  <2>2. sweep'[q].pc = "idle"
    BY <2>1 DEF SearchTypes, NoSweep
  <2> QED BY <2>1, <2>2 DEF ClaimRespected, Bounded
<1>18. ASSUME NEW q \in 1..Sweeps, _release_claim_with_error(q) PROVE ClaimRespected
  <2>1. sweep' = [sweep EXCEPT ![q] = NoSweep] /\ (pair'.claim = pair.claim \/ sweep[q].token = pair.claim)
    BY <1>18, ReleaseEffect DEF SameMark, clear_dirty
  <2>2. sweep'[q].pc = "idle"
    BY <2>1 DEF SearchTypes, NoSweep
  <2> QED BY <2>1, <2>2 DEF ClaimRespected, Bounded
<1>19. ASSUME NEW q \in 1..Sweeps, sweep_dies(q) PROVE ClaimRespected
  BY <1>19 DEF ClaimRespected, sweep_dies
<1>20. ASSUME claim_expires PROVE ClaimRespected
  BY <1>20, ExpiryEffect DEF ClaimRespected, Marked, SameMark
<1>21. ASSUME deploy_schema PROVE ClaimRespected
  BY <1>21 DEF ClaimRespected, deploy_schema
<1>22. ASSUME UNCHANGED searchVars PROVE ClaimRespected
  BY <1>22 DEF ClaimRespected, searchVars
<1> QED BY <1>1, <1>2, <1>3, <1>4, <1>5, <1>6, <1>7, <1>8, <1>9, <1>10, <1>11, <1>12, <1>13, <1>14, <1>15, <1>16, <1>17, <1>18, <1>19, <1>20, <1>21, <1>22
       DEF SearchNext, HandoffStep, TaskStep, SweepStep, Actions

MarksInv == SearchTypes /\ Committed /\ Bounded /\ Acks /\ Reads

LEMMA MarksInit == SearchInit => MarksInv
<1> SUFFICES ASSUME SearchInit PROVE MarksInv
  OBVIOUS
<1>1. SearchTypes
  BY TypesInit
<1>2. pair.gen = 0 /\ ~pair.dirty /\ changed = {} /\ changes = 0
  BY DEF SearchInit
<1>3. \A c \in Changes : handoff[c] = NoHandoff
  BY DEF SearchInit
<1>4. \A q \in 1..Sweeps : sweep[q] = NoSweep
  BY DEF SearchInit
<1>5. /\ NoHandoff.pc = "idle" /\ NoHandoff.token.gen = 0
      /\ NoSweep.pc = "idle" /\ NoSweep.gen = 0
  BY DEF NoHandoff, NoToken, NoSweep
<1>6. Committed
  BY <1>3, <1>5 DEF Committed
<1>7. Bounded
  BY <1>2, <1>3, <1>4, <1>5 DEF Bounded
<1>8. Acks /\ Reads
  BY <1>2, <1>4, <1>5 DEF Acks, Reads, AckReady
<1> QED BY <1>1, <1>6, <1>7, <1>8 DEF MarksInv

LEMMA MarksStep == MarksInv /\ [SearchNext]_searchVars => MarksInv'
BY TypesStep, CommittedStep, BoundedStep, AcksStep, ReadsRespectStep DEF MarksInv

LEMMA MarksInvariant == SearchSpec => []MarksInv
BY MarksInit, MarksStep, PTL DEF SearchSpec

\* The durable state stays well formed, in every order of commits, callbacks,
\* tasks, sweeps, failures and deployments (search/models.py).
THEOREM SearchTypeCorrect == SearchSpec => []SearchTypeOK
<1>1. MarksInv => SearchTypeOK
  BY TypesSound DEF MarksInv
<1> QED BY <1>1, MarksInvariant, PTL

\* A pair becomes clean only through a rebuild that read every marked row as it
\* is, or through the acknowledgement of the only change; and no live claim is
\* taken from its sweep (search/reconciliation.py, clear_dirty,
\* acknowledge_search_index_dirty, _claim_dirty_states).
THEOREM MarksRespectedCorrect == SearchSpec => MarksRespected
<1>1. MarksInv /\ [SearchNext]_searchVars => [OlderWorkNeverClears /\ ClaimRespected]_searchVars
  BY OlderWorkStep, ClaimRespectedStep DEF MarksInv
<1> QED BY <1>1, MarksInvariant, PTL DEF SearchSpec, MarksRespected

-----------------------------------------------------------------------------
(* What a step may do to the pair, to tasks and to callbacks. *)

\* A mark, a move of the claim, or the end of a mark.
PairMoves ==
    /\ schema' \in {schema, 2}
    /\ \/ Marked(pair, pair') /\ schema' = schema
       \/ /\ pair'.fp = pair.fp /\ pair'.dirty = pair.dirty
          /\ pair'.claim = pair.claim \/ pair'.claim = 0 \/ pair.dirty
          /\ pair'.gen = pair.gen \/ (pair'.claim = 0 /\ pair.claim # 0)
       \/ pair'.fp = pair.fp /\ ~pair'.dirty /\ pair'.claim = 0 /\ pair'.gen = pair.gen

LEMMA PairStep == SearchTypes /\ [SearchNext]_searchVars => PairMoves
<1> SUFFICES ASSUME SearchTypes, [SearchNext]_searchVars PROVE PairMoves
  OBVIOUS
<1>1. ASSUME NEW c \in Changes, NEW r \in Rows, NEW a \in Actions, commit_change(c, r, a) PROVE PairMoves
  BY <1>1, CommitEffect DEF PairMoves, Marked, SameMark, MarksRow
<1>2. ASSUME NEW c \in Changes, after_non_default_commit(c) PROVE PairMoves
  BY <1>2, AfterCommitEffect DEF PairMoves, Marked, SameMark, MarksRow
<1>3. ASSUME NEW c \in Changes, _dispatch_prepared_work(c) PROVE PairMoves
  BY <1>3, DispatchEffect DEF PairMoves, Marked, SameMark
<1>4. ASSUME NEW c \in Changes, acknowledge_search_index_dirty(c) PROVE PairMoves
  BY <1>4, AcknowledgeEffect DEF PairMoves, SearchTypes, Pair
<1>5. ASSUME NEW c \in Changes, index_manager_index_batch(c) PROVE PairMoves
  BY <1>5, IndexEffect DEF PairMoves, Marked, SameMark, Elsewhere
<1>6. ASSUME NEW c \in Changes, upsert(c) PROVE PairMoves
  BY <1>6, UpsertEffect DEF PairMoves, Marked, SameMark, Elsewhere
<1>7. ASSUME NEW c \in Changes, delete_documents_task(c) PROVE PairMoves
  BY <1>7, DeleteCheckEffect DEF PairMoves, Marked, SameMark, Elsewhere
<1>8. ASSUME NEW c \in Changes, delete_documents(c) PROVE PairMoves
  BY <1>8, DeleteEffect DEF PairMoves, Marked, SameMark, Elsewhere
<1>9. ASSUME NEW c \in Changes, recheck_generation(c) PROVE PairMoves
  BY <1>9, RecheckEffect DEF PairMoves, Marked, SameMark, Elsewhere
<1>10. ASSUME NEW c \in Changes, task_fails(c) PROVE PairMoves
  BY <1>10, FailEffect DEF PairMoves, Marked, SameMark, Elsewhere
<1>11. ASSUME NEW c \in Changes, mutator_dies(c) PROVE PairMoves
  BY <1>11, DeathEffect DEF PairMoves, Marked, SameMark, Elsewhere
<1>12. ASSUME NEW c \in Changes, task_lost(c) PROVE PairMoves
  BY <1>12, LossEffect DEF PairMoves, Marked, SameMark, Elsewhere
<1>13. ASSUME NEW force \in BOOLEAN, ensure_search_index_states(force) PROVE PairMoves
  BY <1>13, EnsureEffect DEF PairMoves, Marked, SameMark
<1>14. ASSUME NEW q \in 1..Sweeps, _claim_dirty_states(q) PROVE PairMoves
  BY <1>14, ClaimEffect DEF PairMoves, SameMark, Aside
<1>15. ASSUME NEW q \in 1..Sweeps, reindex_manager_index(q) PROVE PairMoves
  BY <1>15, ReadEffect DEF PairMoves, Marked, SameMark, Aside
<1>16. ASSUME NEW q \in 1..Sweeps, reindex_write(q) PROVE PairMoves
  BY <1>16, WriteEffect DEF PairMoves, Marked, SameMark, Aside
<1>17. ASSUME NEW q \in 1..Sweeps, reconcile_search_indexes(q) PROVE PairMoves
  BY <1>17, ReconcileEffect DEF PairMoves, SameMark, Aside
<1>18. ASSUME NEW q \in 1..Sweeps, _release_claim_with_error(q) PROVE PairMoves
  BY <1>18, ReleaseEffect, GenNat DEF PairMoves, SameMark, Aside
<1>19. ASSUME NEW q \in 1..Sweeps, sweep_dies(q) PROVE PairMoves
  BY <1>19 DEF PairMoves, Marked, SameMark, sweep_dies
<1>20. ASSUME claim_expires PROVE PairMoves
  BY <1>20, ExpiryEffect DEF PairMoves, SameMark, Aside
<1>21. ASSUME deploy_schema PROVE PairMoves
  BY <1>21 DEF PairMoves, deploy_schema
<1>22. ASSUME UNCHANGED searchVars PROVE PairMoves
  BY <1>22 DEF PairMoves, searchVars
<1> QED BY <1>1, <1>2, <1>3, <1>4, <1>5, <1>6, <1>7, <1>8, <1>9, <1>10, <1>11, <1>12, <1>13, <1>14, <1>15, <1>16, <1>17, <1>18, <1>19, <1>20, <1>21, <1>22
       DEF SearchNext, HandoffStep, TaskStep, SweepStep, Actions

\* A task goes on with its row and its fence, ends, or is handed over.
TasksKept ==
    \A c \in Changes :
      \/ task'[c] = NoTask /\ (task[c] = NoTask \/ mode.async \/ handoff'[c].pc # "inline")
      \/ /\ task[c].row \in Rows
         /\ task'[c].row = task[c].row /\ task'[c].gen = task[c].gen /\ task'[c].kind = task[c].kind
      \/ /\ handoff[c].pc = "dispatch" /\ handoff'[c].pc # "dispatch" /\ task'[c].pc = "start"
         /\ task'[c].row = handoff[c].row /\ task'[c].kind = handoff[c].work
         /\ task'[c].gen = handoff[c].token.gen

LEMMA HandoffRows ==
    ASSUME SearchTypes PROVE \A c \in Changes : handoff[c].pc = "idle" \/ handoff[c].row \in Rows
BY DEF SearchTypes, Handoff, NoHandoff

LEMMA TaskRows == ASSUME SearchTypes PROVE \A c \in Changes : task[c] = NoTask \/ task[c].row \in Rows
BY DEF SearchTypes, Task

LEMMA TaskMoves ==
    ASSUME SearchTypes, NEW c \in Changes, NEW t, task' = [task EXCEPT ![c] = t], task[c].row \in Rows,
           t.row = task[c].row, t.gen = task[c].gen, t.kind = task[c].kind
    PROVE  TasksKept
<1>1. task'[c] = t /\ \A d \in Changes \ {c} : task'[d] = task[d]
  BY DEF SearchTypes
<1> QED BY <1>1, TaskRows DEF TasksKept

LEMMA TasksStill == SearchTypes /\ UNCHANGED task => TasksKept
BY TaskRows DEF TasksKept

LEMMA EndsTasks == ASSUME SearchTypes, NEW c \in Changes, Ends(c) PROVE TasksKept
<1>1. PICK h \in Handoff :
        /\ handoff' = [handoff EXCEPT ![c] = h] /\ task' = [task EXCEPT ![c] = NoTask]
        /\ (h = handoff[c] /\ handoff[c].pc # "inline") \/ h = NoHandoff \/ h.pc = "ack"
  BY DEF Ends
<1>2. /\ handoff'[c].pc # "inline" /\ task'[c] = NoTask
      /\ \A d \in Changes \ {c} : task'[d] = task[d]
  BY <1>1 DEF SearchTypes, NoHandoff
<1> QED BY <1>2, TaskRows DEF TasksKept

LEMMA TasksStep == SearchTypes /\ [SearchNext]_searchVars => TasksKept
<1> SUFFICES ASSUME SearchTypes, [SearchNext]_searchVars PROVE TasksKept
  OBVIOUS
<1>1. ASSUME NEW c \in Changes, NEW r \in Rows, NEW a \in Actions, commit_change(c, r, a) PROVE TasksKept
  BY <1>1, CommitEffect, TasksStill
<1>2. ASSUME NEW c \in Changes, after_non_default_commit(c) PROVE TasksKept
  BY <1>2, AfterCommitEffect, TasksStill
<1>3. ASSUME NEW c \in Changes, _dispatch_prepared_work(c) PROVE TasksKept
  <2>1. CASE UNCHANGED task
    BY <2>1, TasksStill
  <2>2. CASE ~UNCHANGED task
    <3>1. PICK h, t :
            /\ handoff' = [handoff EXCEPT ![c] = h] /\ h.pc = IF mode.async THEN "ack" ELSE "inline"
            /\ task' = [task EXCEPT ![c] = t] /\ handoff[c].pc = "dispatch" /\ t.pc = "start"
            /\ t.row = handoff[c].row /\ t.kind = handoff[c].work /\ t.gen = handoff[c].token.gen
      BY <1>3, <2>2, DispatchEffect
    <3>2. handoff'[c] = h /\ h.pc # "dispatch" /\ task'[c] = t /\ \A d \in Changes \ {c} : task'[d] = task[d]
      BY <3>1 DEF SearchTypes
    <3> QED BY <3>1, <3>2, TaskRows DEF TasksKept
  <2> QED BY <2>1, <2>2
<1>4. ASSUME NEW c \in Changes, acknowledge_search_index_dirty(c) PROVE TasksKept
  BY <1>4, AcknowledgeEffect, TasksStill
<1>5. ASSUME NEW c \in Changes, index_manager_index_batch(c) PROVE TasksKept
  <2>1. CASE Ends(c)
    BY <2>1, EndsTasks
  <2>2. CASE ~Ends(c)
    <3>1. /\ task[c].kind = "index" /\ task[c].row \in Rows
          /\ \E t \in Task : /\ task' = [task EXCEPT ![c] = t] /\ t.pc = "write"
                             /\ t.kind = "index" /\ t.row = task[c].row /\ t.gen = task[c].gen
      BY <1>5, <2>2, IndexEffect
    <3>2. PICK t \in Task : /\ task' = [task EXCEPT ![c] = t] /\ t.kind = "index"
                            /\ t.row = task[c].row /\ t.gen = task[c].gen
      BY <3>1
    <3> QED BY <3>1, <3>2, TaskMoves
  <2> QED BY <2>1, <2>2
<1>6. ASSUME NEW c \in Changes, upsert(c) PROVE TasksKept
  BY <1>6, UpsertEffect, EndsTasks
<1>7. ASSUME NEW c \in Changes, delete_documents_task(c) PROVE TasksKept
  <2>1. CASE Ends(c)
    BY <2>1, EndsTasks
  <2>2. CASE ~Ends(c)
    <3>1. PICK t : /\ task' = [task EXCEPT ![c] = t] /\ UNCHANGED mode /\ task[c].row \in Rows
                   /\ t.row = task[c].row /\ t.gen = task[c].gen /\ t.kind = task[c].kind
      BY <1>7, <2>2, DeleteCheckEffect DEF Elsewhere
    <3> QED BY <3>1, TaskMoves
  <2> QED BY <2>1, <2>2
<1>8. ASSUME NEW c \in Changes, delete_documents(c) PROVE TasksKept
  <2>1. PICK t : /\ task' = [task EXCEPT ![c] = t] /\ UNCHANGED mode /\ task[c].row \in Rows
                 /\ t.row = task[c].row /\ t.gen = task[c].gen /\ t.kind = task[c].kind
    BY <1>8, DeleteEffect DEF Elsewhere
  <2> QED BY <2>1, TaskMoves
<1>9. ASSUME NEW c \in Changes, recheck_generation(c) PROVE TasksKept
  BY <1>9, RecheckEffect, EndsTasks
<1>10. ASSUME NEW c \in Changes, task_fails(c) PROVE TasksKept
  BY <1>10, FailEffect, EndsTasks
<1>11. ASSUME NEW c \in Changes, mutator_dies(c) PROVE TasksKept
  <2>1. CASE UNCHANGED task
    BY <2>1, TasksStill
  <2>2. CASE task' = [task EXCEPT ![c] = NoTask] /\ handoff' = [handoff EXCEPT ![c] = NoHandoff]
    BY <2>2, TaskRows DEF TasksKept, SearchTypes, NoHandoff
  <2> QED BY <1>11, <2>1, <2>2, DeathEffect
<1>12. ASSUME NEW c \in Changes, task_lost(c) PROVE TasksKept
  <2>1. task' = [task EXCEPT ![c] = NoTask] /\ mode.async
    BY <1>12, LossEffect
  <2> QED BY <2>1, TaskRows DEF TasksKept, SearchTypes
<1>13. ASSUME NEW force \in BOOLEAN, ensure_search_index_states(force) PROVE TasksKept
  BY <1>13, EnsureEffect, TasksStill
<1>14. ASSUME NEW q \in 1..Sweeps, _claim_dirty_states(q) PROVE TasksKept
  BY <1>14, ClaimEffect, TasksStill DEF Aside
<1>15. ASSUME NEW q \in 1..Sweeps, reindex_manager_index(q) PROVE TasksKept
  BY <1>15, ReadEffect, TasksStill DEF Aside
<1>16. ASSUME NEW q \in 1..Sweeps, reindex_write(q) PROVE TasksKept
  BY <1>16, WriteEffect, TasksStill DEF Aside
<1>17. ASSUME NEW q \in 1..Sweeps, reconcile_search_indexes(q) PROVE TasksKept
  BY <1>17, ReconcileEffect, TasksStill DEF Aside
<1>18. ASSUME NEW q \in 1..Sweeps, _release_claim_with_error(q) PROVE TasksKept
  BY <1>18, ReleaseEffect, TasksStill DEF Aside
<1>19. ASSUME NEW q \in 1..Sweeps, sweep_dies(q) PROVE TasksKept
  BY <1>19, TasksStill DEF sweep_dies
<1>20. ASSUME claim_expires PROVE TasksKept
  BY <1>20, ExpiryEffect, TasksStill DEF Aside
<1>21. ASSUME deploy_schema PROVE TasksKept
  BY <1>21, TasksStill DEF deploy_schema
<1>22. ASSUME UNCHANGED searchVars PROVE TasksKept
  BY <1>22, TasksStill DEF searchVars
<1> QED BY <1>1, <1>2, <1>3, <1>4, <1>5, <1>6, <1>7, <1>8, <1>9, <1>10, <1>11, <1>12, <1>13, <1>14, <1>15, <1>16, <1>17, <1>18, <1>19, <1>20, <1>21, <1>22
       DEF SearchNext, HandoffStep, TaskStep, SweepStep, Actions

\* A change commits: its callback waits for its mark or its dispatch.
Commits(c) ==
    /\ c = changes + 1 /\ changes' = c /\ handoff'[c].row \in Rows
    /\ rows'[handoff'[c].row].at = c
    /\ handoff'[c].work = "delete" => ~rows'[handoff'[c].row].live
    /\ \A r \in Rows : r # handoff'[c].row => rows'[r] = rows[r]
    /\ \/ /\ mode.default /\ handoff'[c].pc = "dispatch"
          /\ Marked(pair, pair') \/ handoff'[c].row \in excused'
       \/ ~mode.default /\ handoff'[c].pc = "mark" /\ UNCHANGED pair
    /\ UNCHANGED <<docs, task, sweep>> /\ excused \subseteq excused'
    /\ \A d \in Changes \ {c} : handoff'[d] = handoff[d]

\* A callback goes on: mark, dispatch, run or acknowledge.
Advances(c) ==
    /\ handoff'[c].row = handoff[c].row /\ handoff'[c].work = handoff[c].work
    /\ \/ /\ handoff[c].pc = "mark" /\ handoff'[c].pc = "dispatch"
          /\ UNCHANGED <<rows, schema, docs, task, sweep>>
          /\ \A d \in Changes \ {c} : handoff'[d] = handoff[d]
       \/ /\ handoff[c].pc = "dispatch" /\ handoff'[c].pc = IF mode.async THEN "ack" ELSE "inline"
          /\ handoff'[c].token = handoff[c].token /\ task'[c].row = handoff[c].row
       \/ /\ handoff[c].pc = "inline" /\ handoff'[c].pc = "ack"
          /\ handoff'[c].token = handoff[c].token /\ task'[c] = NoTask

\* Only a commit changes a row.
RowsChange == UNCHANGED rows \/ \E c \in Changes : Commits(c)

HandoffsKept ==
    \A c \in Changes : handoff'[c] \in {handoff[c], NoHandoff} \/ Commits(c) \/ Advances(c)

LEMMA HandoffsStill == UNCHANGED handoff => HandoffsKept
BY DEF HandoffsKept

LEMMA EndsHandoffs == ASSUME SearchTypes, NEW c \in Changes, Ends(c) PROVE HandoffsKept
<1>1. PICK h \in Handoff :
        /\ handoff' = [handoff EXCEPT ![c] = h] /\ task' = [task EXCEPT ![c] = NoTask]
        /\ \/ h = handoff[c] \/ h = NoHandoff
           \/ /\ handoff[c].pc = "inline" /\ h.pc = "ack"
              /\ h.row = handoff[c].row /\ h.work = handoff[c].work /\ h.token = handoff[c].token
  BY DEF Ends
<1>2. handoff'[c] = h /\ task'[c] = NoTask /\ \A d \in Changes \ {c} : handoff'[d] = handoff[d]
  BY <1>1 DEF SearchTypes
<1>3. h \in {handoff[c], NoHandoff} \/ Advances(c)
  BY <1>1, <1>2 DEF Advances
<1> QED BY <1>2, <1>3 DEF HandoffsKept

LEMMA HandoffsStep == SearchTypes /\ [SearchNext]_searchVars => HandoffsKept
<1> SUFFICES ASSUME SearchTypes, [SearchNext]_searchVars PROVE HandoffsKept
  OBVIOUS
<1>1. ASSUME NEW c \in Changes, NEW r \in Rows, NEW a \in Actions, commit_change(c, r, a) PROVE HandoffsKept
  <2>1. PICK h \in Handoff :
           /\ c = changes + 1 /\ changes' = c /\ h.row = r
           /\ rows' = [rows EXCEPT ![r] = [at |-> c, live |-> a # "delete"]]
           /\ handoff' = [handoff EXCEPT ![c] = h] /\ (h.work = "delete" => a = "delete")
           /\ \/ mode.default /\ h.pc = "dispatch" /\ MarksRow(c, r, h.token)
              \/ ~mode.default /\ h.pc = "mark" /\ UNCHANGED <<pair, excused>>
           /\ UNCHANGED <<docs, task, sweep>>
    BY <1>1, CommitEffect
  <2>2. handoff'[c] = h /\ rows'[r] = [at |-> c, live |-> a # "delete"]
        /\ \A d \in Changes \ {c} : handoff'[d] = handoff[d]
    BY <2>1 DEF SearchTypes
  <2>4. rows'[r].at = c /\ rows'[r].live = (a # "delete")
    BY <2>2
  <2>3. /\ \A d \in Rows : d # r => rows'[d] = rows[d]
        /\ excused \subseteq excused'
        /\ mode.default => Marked(pair, pair') \/ r \in excused'
    BY <2>1 DEF SearchTypes, MarksRow
  <2>5. Commits(c)
    BY <2>1, <2>2, <2>3, <2>4 DEF Commits
  <2> QED BY <2>2, <2>5 DEF HandoffsKept
<1>2. ASSUME NEW c \in Changes, after_non_default_commit(c) PROVE HandoffsKept
  <2>1. PICK h \in Handoff :
           /\ handoff' = [handoff EXCEPT ![c] = h] /\ handoff[c].pc = "mark" /\ h.pc = "dispatch"
           /\ h.row = handoff[c].row /\ h.work = handoff[c].work
           /\ UNCHANGED <<rows, schema, docs, task, sweep>>
    BY <1>2, AfterCommitEffect
  <2>2. handoff'[c] = h /\ \A d \in Changes \ {c} : handoff'[d] = handoff[d]
    BY <2>1 DEF SearchTypes
  <2>3. Advances(c)
    BY <2>1, <2>2 DEF Advances
  <2> QED BY <2>2, <2>3 DEF HandoffsKept
<1>3. ASSUME NEW c \in Changes, _dispatch_prepared_work(c) PROVE HandoffsKept
  <2>1. CASE handoff' = [handoff EXCEPT ![c] = NoHandoff]
    BY <2>1 DEF HandoffsKept, SearchTypes
  <2>2. CASE ~(handoff' = [handoff EXCEPT ![c] = NoHandoff])
    <3>1. PICK h \in Handoff, t \in Task :
            /\ handoff[c].pc = "dispatch"
            /\ handoff' = [handoff EXCEPT ![c] = h] /\ task' = [task EXCEPT ![c] = t]
            /\ h.pc = IF mode.async THEN "ack" ELSE "inline"
            /\ h.row = handoff[c].row /\ h.work = handoff[c].work /\ h.token = handoff[c].token
            /\ t.row = handoff[c].row
      BY <1>3, <2>2, DispatchEffect
    <3>2. handoff'[c] = h /\ task'[c] = t /\ \A d \in Changes \ {c} : handoff'[d] = handoff[d]
      BY <3>1 DEF SearchTypes
    <3>3. Advances(c)
      BY <3>1, <3>2 DEF Advances
    <3> QED BY <3>2, <3>3 DEF HandoffsKept
  <2> QED BY <2>1, <2>2
<1>4. ASSUME NEW c \in Changes, acknowledge_search_index_dirty(c) PROVE HandoffsKept
  <2>1. handoff' = [handoff EXCEPT ![c] = NoHandoff]
    BY <1>4, AcknowledgeEffect
  <2> QED BY <2>1 DEF HandoffsKept, SearchTypes
<1>5. ASSUME NEW c \in Changes, index_manager_index_batch(c) PROVE HandoffsKept
  BY <1>5, IndexEffect, EndsHandoffs, HandoffsStill
<1>6. ASSUME NEW c \in Changes, upsert(c) PROVE HandoffsKept
  BY <1>6, UpsertEffect, EndsHandoffs
<1>7. ASSUME NEW c \in Changes, delete_documents_task(c) PROVE HandoffsKept
  BY <1>7, DeleteCheckEffect, EndsHandoffs, HandoffsStill
<1>8. ASSUME NEW c \in Changes, delete_documents(c) PROVE HandoffsKept
  BY <1>8, DeleteEffect, HandoffsStill DEF Elsewhere
<1>9. ASSUME NEW c \in Changes, recheck_generation(c) PROVE HandoffsKept
  BY <1>9, RecheckEffect, EndsHandoffs
<1>10. ASSUME NEW c \in Changes, task_fails(c) PROVE HandoffsKept
  BY <1>10, FailEffect, EndsHandoffs
<1>11. ASSUME NEW c \in Changes, mutator_dies(c) PROVE HandoffsKept
  <2>1. handoff' = [handoff EXCEPT ![c] = NoHandoff]
    BY <1>11, DeathEffect
  <2> QED BY <2>1 DEF HandoffsKept, SearchTypes
<1>12. ASSUME NEW c \in Changes, task_lost(c) PROVE HandoffsKept
  BY <1>12, LossEffect, HandoffsStill DEF Elsewhere
<1>13. ASSUME NEW force \in BOOLEAN, ensure_search_index_states(force) PROVE HandoffsKept
  BY <1>13, EnsureEffect, HandoffsStill
<1>14. ASSUME NEW q \in 1..Sweeps, _claim_dirty_states(q) PROVE HandoffsKept
  BY <1>14, ClaimEffect, HandoffsStill DEF Aside
<1>15. ASSUME NEW q \in 1..Sweeps, reindex_manager_index(q) PROVE HandoffsKept
  BY <1>15, ReadEffect, HandoffsStill DEF Aside
<1>16. ASSUME NEW q \in 1..Sweeps, reindex_write(q) PROVE HandoffsKept
  BY <1>16, WriteEffect, HandoffsStill DEF Aside
<1>17. ASSUME NEW q \in 1..Sweeps, reconcile_search_indexes(q) PROVE HandoffsKept
  BY <1>17, ReconcileEffect, HandoffsStill DEF Aside
<1>18. ASSUME NEW q \in 1..Sweeps, _release_claim_with_error(q) PROVE HandoffsKept
  BY <1>18, ReleaseEffect, HandoffsStill DEF Aside
<1>19. ASSUME NEW q \in 1..Sweeps, sweep_dies(q) PROVE HandoffsKept
  BY <1>19, HandoffsStill DEF sweep_dies
<1>20. ASSUME claim_expires PROVE HandoffsKept
  BY <1>20, ExpiryEffect, HandoffsStill DEF Aside
<1>21. ASSUME deploy_schema PROVE HandoffsKept
  BY <1>21, HandoffsStill DEF deploy_schema
<1>22. ASSUME UNCHANGED searchVars PROVE HandoffsKept
  BY <1>22, HandoffsStill DEF searchVars
<1> QED BY <1>1, <1>2, <1>3, <1>4, <1>5, <1>6, <1>7, <1>8, <1>9, <1>10, <1>11, <1>12, <1>13, <1>14, <1>15, <1>16, <1>17, <1>18, <1>19, <1>20, <1>21, <1>22
       DEF SearchNext, HandoffStep, TaskStep, SweepStep, Actions

LEMMA RowsChangeStep == SearchTypes /\ [SearchNext]_searchVars => RowsChange
<1> SUFFICES ASSUME SearchTypes, [SearchNext]_searchVars PROVE RowsChange
  OBVIOUS
<1>1. ASSUME NEW c \in Changes, NEW r \in Rows, NEW a \in Actions, commit_change(c, r, a) PROVE RowsChange
  <2>1. PICK h \in Handoff :
           /\ c = changes + 1 /\ changes' = c /\ h.row = r
           /\ rows' = [rows EXCEPT ![r] = [at |-> c, live |-> a # "delete"]]
           /\ handoff' = [handoff EXCEPT ![c] = h] /\ (h.work = "delete" => a = "delete")
           /\ \/ mode.default /\ h.pc = "dispatch" /\ MarksRow(c, r, h.token)
              \/ ~mode.default /\ h.pc = "mark" /\ UNCHANGED <<pair, excused>>
           /\ UNCHANGED <<docs, task, sweep>>
    BY <1>1, CommitEffect
  <2>2. handoff'[c] = h /\ rows'[r] = [at |-> c, live |-> a # "delete"]
        /\ \A d \in Changes \ {c} : handoff'[d] = handoff[d]
    BY <2>1 DEF SearchTypes
  <2>4. rows'[r].at = c /\ rows'[r].live = (a # "delete")
    BY <2>2
  <2>3. /\ \A d \in Rows : d # r => rows'[d] = rows[d]
        /\ excused \subseteq excused'
        /\ mode.default => Marked(pair, pair') \/ r \in excused'
    BY <2>1 DEF SearchTypes, MarksRow
  <2>5. Commits(c)
    BY <2>1, <2>2, <2>3, <2>4 DEF Commits
  <2> QED BY <2>5 DEF RowsChange
<1>2. ASSUME NEW c \in Changes, after_non_default_commit(c) PROVE RowsChange
  BY <1>2, AfterCommitEffect DEF RowsChange
<1>3. ASSUME NEW c \in Changes, _dispatch_prepared_work(c) PROVE RowsChange
  BY <1>3, DispatchEffect DEF RowsChange
<1>4. ASSUME NEW c \in Changes, acknowledge_search_index_dirty(c) PROVE RowsChange
  BY <1>4, AcknowledgeEffect DEF RowsChange
<1>5. ASSUME NEW c \in Changes, index_manager_index_batch(c) PROVE RowsChange
  BY <1>5, IndexEffect DEF RowsChange, Elsewhere
<1>6. ASSUME NEW c \in Changes, upsert(c) PROVE RowsChange
  BY <1>6, UpsertEffect DEF RowsChange, Elsewhere
<1>7. ASSUME NEW c \in Changes, delete_documents_task(c) PROVE RowsChange
  BY <1>7, DeleteCheckEffect DEF RowsChange, Elsewhere
<1>8. ASSUME NEW c \in Changes, delete_documents(c) PROVE RowsChange
  BY <1>8, DeleteEffect DEF RowsChange, Elsewhere
<1>9. ASSUME NEW c \in Changes, recheck_generation(c) PROVE RowsChange
  BY <1>9, RecheckEffect DEF RowsChange, Elsewhere
<1>10. ASSUME NEW c \in Changes, task_fails(c) PROVE RowsChange
  BY <1>10, FailEffect DEF RowsChange, Elsewhere
<1>11. ASSUME NEW c \in Changes, mutator_dies(c) PROVE RowsChange
  BY <1>11, DeathEffect DEF RowsChange, Elsewhere
<1>12. ASSUME NEW c \in Changes, task_lost(c) PROVE RowsChange
  BY <1>12, LossEffect DEF RowsChange, Elsewhere
<1>13. ASSUME NEW force \in BOOLEAN, ensure_search_index_states(force) PROVE RowsChange
  BY <1>13, EnsureEffect DEF RowsChange
<1>14. ASSUME NEW q \in 1..Sweeps, _claim_dirty_states(q) PROVE RowsChange
  BY <1>14, ClaimEffect DEF RowsChange, Aside
<1>15. ASSUME NEW q \in 1..Sweeps, reindex_manager_index(q) PROVE RowsChange
  BY <1>15, ReadEffect DEF RowsChange, Aside
<1>16. ASSUME NEW q \in 1..Sweeps, reindex_write(q) PROVE RowsChange
  BY <1>16, WriteEffect DEF RowsChange, Aside
<1>17. ASSUME NEW q \in 1..Sweeps, reconcile_search_indexes(q) PROVE RowsChange
  BY <1>17, ReconcileEffect DEF RowsChange, Aside
<1>18. ASSUME NEW q \in 1..Sweeps, _release_claim_with_error(q) PROVE RowsChange
  BY <1>18, ReleaseEffect DEF RowsChange, Aside
<1>19. ASSUME NEW q \in 1..Sweeps, sweep_dies(q) PROVE RowsChange
  BY <1>19 DEF RowsChange, sweep_dies
<1>20. ASSUME claim_expires PROVE RowsChange
  BY <1>20, ExpiryEffect DEF RowsChange, Aside
<1>21. ASSUME deploy_schema PROVE RowsChange
  BY <1>21 DEF RowsChange, deploy_schema
<1>22. ASSUME UNCHANGED searchVars PROVE RowsChange
  BY <1>22 DEF RowsChange, searchVars
<1> QED BY <1>1, <1>2, <1>3, <1>4, <1>5, <1>6, <1>7, <1>8, <1>9, <1>10, <1>11, <1>12, <1>13, <1>14, <1>15, <1>16, <1>17, <1>18, <1>19, <1>20, <1>21, <1>22
       DEF SearchNext, HandoffStep, TaskStep, SweepStep, Actions

LEMMA ModeStep == SearchTypes /\ [SearchNext]_searchVars => UNCHANGED mode
<1> SUFFICES ASSUME SearchTypes, [SearchNext]_searchVars PROVE UNCHANGED mode
  OBVIOUS
<1>1. ASSUME NEW c \in Changes, NEW r \in Rows, NEW a \in Actions, commit_change(c, r, a) PROVE UNCHANGED mode
  BY <1>1, CommitEffect
<1>2. ASSUME NEW c \in Changes, after_non_default_commit(c) PROVE UNCHANGED mode
  BY <1>2, AfterCommitEffect
<1>3. ASSUME NEW c \in Changes, _dispatch_prepared_work(c) PROVE UNCHANGED mode
  BY <1>3, DispatchEffect
<1>4. ASSUME NEW c \in Changes, acknowledge_search_index_dirty(c) PROVE UNCHANGED mode
  BY <1>4, AcknowledgeEffect
<1>5. ASSUME NEW c \in Changes, index_manager_index_batch(c) PROVE UNCHANGED mode
  BY <1>5, IndexEffect DEF Elsewhere
<1>6. ASSUME NEW c \in Changes, upsert(c) PROVE UNCHANGED mode
  BY <1>6, UpsertEffect DEF Elsewhere
<1>7. ASSUME NEW c \in Changes, delete_documents_task(c) PROVE UNCHANGED mode
  BY <1>7, DeleteCheckEffect DEF Elsewhere
<1>8. ASSUME NEW c \in Changes, delete_documents(c) PROVE UNCHANGED mode
  BY <1>8, DeleteEffect DEF Elsewhere
<1>9. ASSUME NEW c \in Changes, recheck_generation(c) PROVE UNCHANGED mode
  BY <1>9, RecheckEffect DEF Elsewhere
<1>10. ASSUME NEW c \in Changes, task_fails(c) PROVE UNCHANGED mode
  BY <1>10, FailEffect DEF Elsewhere
<1>11. ASSUME NEW c \in Changes, mutator_dies(c) PROVE UNCHANGED mode
  BY <1>11, DeathEffect DEF Elsewhere
<1>12. ASSUME NEW c \in Changes, task_lost(c) PROVE UNCHANGED mode
  BY <1>12, LossEffect DEF Elsewhere
<1>13. ASSUME NEW force \in BOOLEAN, ensure_search_index_states(force) PROVE UNCHANGED mode
  BY <1>13, EnsureEffect
<1>14. ASSUME NEW q \in 1..Sweeps, _claim_dirty_states(q) PROVE UNCHANGED mode
  BY <1>14, ClaimEffect DEF Aside
<1>15. ASSUME NEW q \in 1..Sweeps, reindex_manager_index(q) PROVE UNCHANGED mode
  BY <1>15, ReadEffect DEF Aside
<1>16. ASSUME NEW q \in 1..Sweeps, reindex_write(q) PROVE UNCHANGED mode
  BY <1>16, WriteEffect DEF Aside
<1>17. ASSUME NEW q \in 1..Sweeps, reconcile_search_indexes(q) PROVE UNCHANGED mode
  BY <1>17, ReconcileEffect DEF Aside
<1>18. ASSUME NEW q \in 1..Sweeps, _release_claim_with_error(q) PROVE UNCHANGED mode
  BY <1>18, ReleaseEffect DEF Aside
<1>19. ASSUME NEW q \in 1..Sweeps, sweep_dies(q) PROVE UNCHANGED mode
  BY <1>19 DEF sweep_dies
<1>20. ASSUME claim_expires PROVE UNCHANGED mode
  BY <1>20, ExpiryEffect DEF Aside
<1>21. ASSUME deploy_schema PROVE UNCHANGED mode
  BY <1>21 DEF deploy_schema
<1>22. ASSUME UNCHANGED searchVars PROVE UNCHANGED mode
  BY <1>22 DEF searchVars
<1> QED BY <1>1, <1>2, <1>3, <1>4, <1>5, <1>6, <1>7, <1>8, <1>9, <1>10, <1>11, <1>12, <1>13, <1>14, <1>15, <1>16, <1>17, <1>18, <1>19, <1>20, <1>21, <1>22
       DEF SearchNext, HandoffStep, TaskStep, SweepStep, Actions

\* A task reads its row as it is.
ReadsRow(c) ==
    /\ UNCHANGED <<rows, schema, pair>> /\ task[c].pc = "start" /\ task[c].kind = "index"
    /\ task'[c].read.at = rows[task'[c].row].at /\ task'[c].read.schema = schema
    /\ task'[c].read.live = TRUE /\ rows[task'[c].row].live = TRUE

\* What a task has read stays; only a delete comes to delete.
WritesKept ==
    \A c \in Changes :
      \/ task'[c].pc \in {"idle", "start"}
      \/ task'[c] = task[c]
      \/ task'[c].pc = "write" /\ task'[c].kind = "index" /\ ReadsRow(c)
      \/ task'[c].pc = "delete" /\ task'[c].kind = "delete"
      \/ task'[c].pc = "recheck" /\ task'[c].kind = task[c].kind /\ task[c].pc = "delete"

LEMMA WritesStill == UNCHANGED task => WritesKept
BY DEF WritesKept

LEMMA EndsWrites == ASSUME SearchTypes, NEW c \in Changes, Ends(c) PROVE WritesKept
<1>1. task' = [task EXCEPT ![c] = NoTask]
  BY DEF Ends
<1> QED BY <1>1 DEF WritesKept, NoTask, SearchTypes

LEMMA WritesStep == SearchTypes /\ [SearchNext]_searchVars => WritesKept
<1> SUFFICES ASSUME SearchTypes, [SearchNext]_searchVars PROVE WritesKept
  OBVIOUS
<1>1. ASSUME NEW c \in Changes, NEW r \in Rows, NEW a \in Actions, commit_change(c, r, a) PROVE WritesKept
  BY <1>1, CommitEffect, WritesStill
<1>2. ASSUME NEW c \in Changes, after_non_default_commit(c) PROVE WritesKept
  BY <1>2, AfterCommitEffect, WritesStill
<1>3. ASSUME NEW c \in Changes, _dispatch_prepared_work(c) PROVE WritesKept
  <2>1. CASE UNCHANGED task
    BY <2>1, WritesStill
  <2>2. CASE ~UNCHANGED task
    <3>1. PICK t : task' = [task EXCEPT ![c] = t] /\ t.pc = "start"
      BY <1>3, <2>2, DispatchEffect
    <3>2. task'[c] = t /\ \A d \in Changes \ {c} : task'[d] = task[d]
      BY <3>1 DEF SearchTypes
    <3> QED BY <3>1, <3>2 DEF WritesKept
  <2> QED BY <2>1, <2>2
<1>4. ASSUME NEW c \in Changes, acknowledge_search_index_dirty(c) PROVE WritesKept
  BY <1>4, AcknowledgeEffect, WritesStill
<1>5. ASSUME NEW c \in Changes, index_manager_index_batch(c) PROVE WritesKept
  <2>1. CASE Ends(c)
    BY <2>1, EndsWrites
  <2>2. CASE ~Ends(c)
    <3>1. PICK t \in Task :
            /\ task' = [task EXCEPT ![c] = t] /\ t.pc = "write" /\ t.kind = "index" /\ t.row = task[c].row
            /\ t.read = [at |-> rows[t.row].at, live |-> TRUE, schema |-> schema]
      BY <1>5, <2>2, IndexEffect
    <3>2. task'[c] = t /\ \A d \in Changes \ {c} : task'[d] = task[d]
      BY <3>1 DEF SearchTypes
    <3>3. /\ rows[t.row].live = TRUE /\ UNCHANGED <<rows, schema, pair>> /\ task[c].pc = "start" /\ task[c].kind = "index"
      BY <1>5, <2>2, <3>1, IndexEffect DEF Elsewhere, SearchTypes
    <3>5. t.read.at = rows[t.row].at /\ t.read.live = TRUE /\ t.read.schema = schema
      BY <3>1
    <3>6. rows[t.row].live = TRUE
      BY <3>1, <3>3
    <3>4. ReadsRow(c)
      BY <3>2, <3>3, <3>5, <3>6 DEF ReadsRow
    <3> QED BY <3>1, <3>2, <3>4 DEF WritesKept
  <2> QED BY <2>1, <2>2
<1>6. ASSUME NEW c \in Changes, upsert(c) PROVE WritesKept
  BY <1>6, UpsertEffect, EndsWrites
<1>7. ASSUME NEW c \in Changes, delete_documents_task(c) PROVE WritesKept
  <2>1. CASE Ends(c)
    BY <2>1, EndsWrites
  <2>2. CASE ~Ends(c)
    <3>1. PICK t : task' = [task EXCEPT ![c] = t] /\ t.pc = "delete" /\ t.kind = "delete"
      BY <1>7, <2>2, DeleteCheckEffect
    <3>2. task'[c] = t /\ \A d \in Changes \ {c} : task'[d] = task[d]
      BY <3>1 DEF SearchTypes
    <3> QED BY <3>1, <3>2 DEF WritesKept
  <2> QED BY <2>1, <2>2
<1>8. ASSUME NEW c \in Changes, delete_documents(c) PROVE WritesKept
  <2>1. PICK t : task' = [task EXCEPT ![c] = t] /\ t.pc = "recheck" /\ t.kind = task[c].kind /\ task[c].pc = "delete"
    BY <1>8, DeleteEffect
  <2>2. task'[c] = t /\ \A d \in Changes \ {c} : task'[d] = task[d]
    BY <2>1 DEF SearchTypes
  <2> QED BY <2>1, <2>2 DEF WritesKept, NoTask
<1>9. ASSUME NEW c \in Changes, recheck_generation(c) PROVE WritesKept
  BY <1>9, RecheckEffect, EndsWrites
<1>10. ASSUME NEW c \in Changes, task_fails(c) PROVE WritesKept
  BY <1>10, FailEffect, EndsWrites
<1>11. ASSUME NEW c \in Changes, mutator_dies(c) PROVE WritesKept
  <2>1. UNCHANGED task \/ task' = [task EXCEPT ![c] = NoTask]
    BY <1>11, DeathEffect
  <2> QED BY <2>1, WritesStill DEF WritesKept, NoTask, SearchTypes
<1>12. ASSUME NEW c \in Changes, task_lost(c) PROVE WritesKept
  <2>1. task' = [task EXCEPT ![c] = NoTask]
    BY <1>12, LossEffect
  <2> QED BY <2>1 DEF WritesKept, NoTask, SearchTypes
<1>13. ASSUME NEW force \in BOOLEAN, ensure_search_index_states(force) PROVE WritesKept
  BY <1>13, EnsureEffect, WritesStill
<1>14. ASSUME NEW q \in 1..Sweeps, _claim_dirty_states(q) PROVE WritesKept
  BY <1>14, ClaimEffect, WritesStill DEF Aside
<1>15. ASSUME NEW q \in 1..Sweeps, reindex_manager_index(q) PROVE WritesKept
  BY <1>15, ReadEffect, WritesStill DEF Aside
<1>16. ASSUME NEW q \in 1..Sweeps, reindex_write(q) PROVE WritesKept
  BY <1>16, WriteEffect, WritesStill DEF Aside
<1>17. ASSUME NEW q \in 1..Sweeps, reconcile_search_indexes(q) PROVE WritesKept
  BY <1>17, ReconcileEffect, WritesStill DEF Aside
<1>18. ASSUME NEW q \in 1..Sweeps, _release_claim_with_error(q) PROVE WritesKept
  BY <1>18, ReleaseEffect, WritesStill DEF Aside
<1>19. ASSUME NEW q \in 1..Sweeps, sweep_dies(q) PROVE WritesKept
  BY <1>19, WritesStill DEF sweep_dies
<1>20. ASSUME claim_expires PROVE WritesKept
  BY <1>20, ExpiryEffect, WritesStill DEF Aside
<1>21. ASSUME deploy_schema PROVE WritesKept
  BY <1>21, WritesStill DEF deploy_schema
<1>22. ASSUME UNCHANGED searchVars PROVE WritesKept
  BY <1>22, WritesStill DEF searchVars
<1> QED BY <1>1, <1>2, <1>3, <1>4, <1>5, <1>6, <1>7, <1>8, <1>9, <1>10, <1>11, <1>12, <1>13, <1>14, <1>15, <1>16, <1>17, <1>18, <1>19, <1>20, <1>21, <1>22
       DEF SearchNext, HandoffStep, TaskStep, SweepStep, Actions

\* A document is what a task or a rebuild had read, or a delete.
DocsKept ==
    \A r \in Rows :
      \/ docs'[r] = docs[r]
      \/ /\ UNCHANGED <<rows, schema>>
         /\ \/ \E c \in Changes : task[c].row = r /\ task[c].pc = "write" /\ docs'[r] = task[c].read
            \/ \E c \in Changes : /\ task[c].row = r /\ task[c].pc = "delete"
                                  /\ docs'[r].at = c /\ docs'[r].schema = schema
            \/ \E q \in 1..Sweeps : sweep[q].pc = "write" /\ docs'[r] = sweep[q].read[r]

LEMMA DocsStep == SearchTypes /\ [SearchNext]_searchVars => DocsKept
<1> SUFFICES ASSUME SearchTypes, [SearchNext]_searchVars PROVE DocsKept
  OBVIOUS
<1>1. ASSUME NEW c \in Changes, NEW r \in Rows, NEW a \in Actions, commit_change(c, r, a) PROVE DocsKept
  BY <1>1, CommitEffect DEF DocsKept
<1>2. ASSUME NEW c \in Changes, after_non_default_commit(c) PROVE DocsKept
  BY <1>2, AfterCommitEffect DEF DocsKept
<1>3. ASSUME NEW c \in Changes, _dispatch_prepared_work(c) PROVE DocsKept
  BY <1>3, DispatchEffect DEF DocsKept
<1>4. ASSUME NEW c \in Changes, acknowledge_search_index_dirty(c) PROVE DocsKept
  BY <1>4, AcknowledgeEffect DEF DocsKept
<1>5. ASSUME NEW c \in Changes, index_manager_index_batch(c) PROVE DocsKept
  BY <1>5, IndexEffect DEF DocsKept, Elsewhere
<1>6. ASSUME NEW c \in Changes, upsert(c) PROVE DocsKept
  <2>1. /\ docs' = [docs EXCEPT ![task[c].row] = task[c].read] /\ task[c].pc = "write"
        /\ UNCHANGED <<rows, schema>>
    BY <1>6, UpsertEffect DEF Elsewhere
  <2> QED BY <2>1 DEF DocsKept, SearchTypes
<1>7. ASSUME NEW c \in Changes, delete_documents_task(c) PROVE DocsKept
  BY <1>7, DeleteCheckEffect DEF DocsKept, Elsewhere
<1>8. ASSUME NEW c \in Changes, delete_documents(c) PROVE DocsKept
  <2>1. /\ docs' = [docs EXCEPT ![task[c].row] = [at |-> c, live |-> FALSE, schema |-> schema]]
        /\ task[c].pc = "delete" /\ UNCHANGED <<rows, schema>>
    BY <1>8, DeleteEffect DEF Elsewhere
  <2>2. \A r \in Rows : docs'[r] = docs[r] \/ (task[c].row = r /\ docs'[r].at = c /\ docs'[r].schema = schema)
    BY <2>1 DEF SearchTypes
  <2> QED BY <2>1, <2>2 DEF DocsKept
<1>9. ASSUME NEW c \in Changes, recheck_generation(c) PROVE DocsKept
  BY <1>9, RecheckEffect DEF DocsKept, Elsewhere
<1>10. ASSUME NEW c \in Changes, task_fails(c) PROVE DocsKept
  BY <1>10, FailEffect DEF DocsKept, Elsewhere
<1>11. ASSUME NEW c \in Changes, mutator_dies(c) PROVE DocsKept
  BY <1>11, DeathEffect DEF DocsKept, Elsewhere
<1>12. ASSUME NEW c \in Changes, task_lost(c) PROVE DocsKept
  BY <1>12, LossEffect DEF DocsKept, Elsewhere
<1>13. ASSUME NEW force \in BOOLEAN, ensure_search_index_states(force) PROVE DocsKept
  BY <1>13, EnsureEffect DEF DocsKept
<1>14. ASSUME NEW q \in 1..Sweeps, _claim_dirty_states(q) PROVE DocsKept
  BY <1>14, ClaimEffect DEF DocsKept, Aside
<1>15. ASSUME NEW q \in 1..Sweeps, reindex_manager_index(q) PROVE DocsKept
  BY <1>15, ReadEffect DEF DocsKept, Aside
<1>16. ASSUME NEW q \in 1..Sweeps, reindex_write(q) PROVE DocsKept
  BY <1>16, WriteEffect DEF DocsKept, Aside
<1>17. ASSUME NEW q \in 1..Sweeps, reconcile_search_indexes(q) PROVE DocsKept
  BY <1>17, ReconcileEffect DEF DocsKept, Aside
<1>18. ASSUME NEW q \in 1..Sweeps, _release_claim_with_error(q) PROVE DocsKept
  BY <1>18, ReleaseEffect DEF DocsKept, Aside
<1>19. ASSUME NEW q \in 1..Sweeps, sweep_dies(q) PROVE DocsKept
  BY <1>19 DEF DocsKept, sweep_dies
<1>20. ASSUME claim_expires PROVE DocsKept
  BY <1>20, ExpiryEffect DEF DocsKept, Aside
<1>21. ASSUME deploy_schema PROVE DocsKept
  BY <1>21 DEF DocsKept, deploy_schema
<1>22. ASSUME UNCHANGED searchVars PROVE DocsKept
  BY <1>22 DEF DocsKept, searchVars
<1> QED BY <1>1, <1>2, <1>3, <1>4, <1>5, <1>6, <1>7, <1>8, <1>9, <1>10, <1>11, <1>12, <1>13, <1>14, <1>15, <1>16, <1>17, <1>18, <1>19, <1>20, <1>21, <1>22
       DEF SearchNext, HandoffStep, TaskStep, SweepStep, Actions

\* A row stops being excused when a rebuild that nothing undoes has covered it.
ExcusedKept ==
    \/ excused \subseteq excused'
    \/ /\ ~pair'.dirty /\ pair'.claim = 0 /\ pair'.gen = pair.gen /\ UNCHANGED <<rows, docs, handoff, task>>
       /\ \A r \in Rows : r \in excused /\ r \notin excused' =>
            /\ Current(r, docs[r])
            /\ \A c \in Changes : handoff[c].row # r /\ task[c].row # r
            /\ \A q \in 1..Sweeps : sweep[q].pc # "write"
       /\ \A q \in 1..Sweeps : sweep'[q].pc = "write" => sweep[q].pc = "write"

LEMMA ExcusedStep == SearchTypes /\ [SearchNext]_searchVars => ExcusedKept
<1> SUFFICES ASSUME SearchTypes, [SearchNext]_searchVars PROVE ExcusedKept
  OBVIOUS
<1>1. ASSUME NEW c \in Changes, NEW r \in Rows, NEW a \in Actions, commit_change(c, r, a) PROVE ExcusedKept
  BY <1>1, CommitEffect DEF ExcusedKept, MarksRow
<1>2. ASSUME NEW c \in Changes, after_non_default_commit(c) PROVE ExcusedKept
  BY <1>2, AfterCommitEffect DEF ExcusedKept, MarksRow
<1>3. ASSUME NEW c \in Changes, _dispatch_prepared_work(c) PROVE ExcusedKept
  BY <1>3, DispatchEffect DEF ExcusedKept
<1>4. ASSUME NEW c \in Changes, acknowledge_search_index_dirty(c) PROVE ExcusedKept
  BY <1>4, AcknowledgeEffect DEF ExcusedKept
<1>5. ASSUME NEW c \in Changes, index_manager_index_batch(c) PROVE ExcusedKept
  BY <1>5, IndexEffect DEF ExcusedKept, Elsewhere
<1>6. ASSUME NEW c \in Changes, upsert(c) PROVE ExcusedKept
  BY <1>6, UpsertEffect DEF ExcusedKept, Elsewhere
<1>7. ASSUME NEW c \in Changes, delete_documents_task(c) PROVE ExcusedKept
  BY <1>7, DeleteCheckEffect DEF ExcusedKept, Elsewhere
<1>8. ASSUME NEW c \in Changes, delete_documents(c) PROVE ExcusedKept
  BY <1>8, DeleteEffect DEF ExcusedKept, Elsewhere
<1>9. ASSUME NEW c \in Changes, recheck_generation(c) PROVE ExcusedKept
  BY <1>9, RecheckEffect DEF ExcusedKept, Elsewhere
<1>10. ASSUME NEW c \in Changes, task_fails(c) PROVE ExcusedKept
  BY <1>10, FailEffect DEF ExcusedKept, Elsewhere
<1>11. ASSUME NEW c \in Changes, mutator_dies(c) PROVE ExcusedKept
  BY <1>11, DeathEffect DEF ExcusedKept, Elsewhere
<1>12. ASSUME NEW c \in Changes, task_lost(c) PROVE ExcusedKept
  BY <1>12, LossEffect DEF ExcusedKept, Elsewhere
<1>13. ASSUME NEW force \in BOOLEAN, ensure_search_index_states(force) PROVE ExcusedKept
  BY <1>13, EnsureEffect DEF ExcusedKept
<1>14. ASSUME NEW q \in 1..Sweeps, _claim_dirty_states(q) PROVE ExcusedKept
  BY <1>14, ClaimEffect DEF ExcusedKept, Aside
<1>15. ASSUME NEW q \in 1..Sweeps, reindex_manager_index(q) PROVE ExcusedKept
  BY <1>15, ReadEffect DEF ExcusedKept, Aside
<1>16. ASSUME NEW q \in 1..Sweeps, reindex_write(q) PROVE ExcusedKept
  BY <1>16, WriteEffect DEF ExcusedKept, Aside
<1>17. ASSUME NEW q \in 1..Sweeps, reconcile_search_indexes(q) PROVE ExcusedKept
  <2>1. CASE UNCHANGED excused
    BY <2>1 DEF ExcusedKept
  <2>2. CASE ~UNCHANGED excused
    <3>1. /\ ~pair'.dirty /\ pair'.claim = 0 /\ pair'.gen = pair.gen
          /\ UNCHANGED <<rows, docs, handoff, task>>
          /\ excused' = {r \in excused : Writing(r) \/ ~Current(r, docs[r])}
          /\ sweep' = [sweep EXCEPT ![q] = NoSweep]
      BY <1>17, <2>2, ReconcileEffect DEF Aside
    <3>2. \A r \in Rows : r \in excused /\ r \notin excused' => Current(r, docs[r]) /\ ~Writing(r)
      BY <3>1
    <3>3. \A p \in 1..Sweeps : sweep'[p].pc = "write" => sweep[p].pc = "write"
      BY <3>1 DEF NoSweep, SearchTypes
    <3> QED BY <3>1, <3>2, <3>3 DEF ExcusedKept, Writing
  <2> QED BY <2>1, <2>2
<1>18. ASSUME NEW q \in 1..Sweeps, _release_claim_with_error(q) PROVE ExcusedKept
  BY <1>18, ReleaseEffect DEF ExcusedKept, Aside
<1>19. ASSUME NEW q \in 1..Sweeps, sweep_dies(q) PROVE ExcusedKept
  BY <1>19 DEF ExcusedKept, sweep_dies
<1>20. ASSUME claim_expires PROVE ExcusedKept
  BY <1>20, ExpiryEffect DEF ExcusedKept, Aside
<1>21. ASSUME deploy_schema PROVE ExcusedKept
  BY <1>21 DEF ExcusedKept, deploy_schema
<1>22. ASSUME UNCHANGED searchVars PROVE ExcusedKept
  BY <1>22 DEF ExcusedKept, searchVars
<1> QED BY <1>1, <1>2, <1>3, <1>4, <1>5, <1>6, <1>7, <1>8, <1>9, <1>10, <1>11, <1>12, <1>13, <1>14, <1>15, <1>16, <1>17, <1>18, <1>19, <1>20, <1>21, <1>22
       DEF SearchNext, HandoffStep, TaskStep, SweepStep, Actions

-----------------------------------------------------------------------------
(* What work in flight can be. *)

\* A mark names a schema that was deployed, a claim is of a dirty pair, and a
\* callback has at most the task it handed over.
Chores ==
    /\ pair.fp <= schema /\ (pair.dirty => pair.fp # 0) /\ (pair.claim # 0 => pair.dirty)
    /\ \A r \in Rows : rows[r].at <= changes
    /\ \A c \in Changes : task[c].gen <= pair.gen
    /\ \A c \in Changes :
         /\ handoff[c].pc = "mark" => ~mode.default
         /\ handoff[c].pc \in {"mark", "dispatch"} => task[c] = NoTask
         /\ handoff[c].pc = "inline" => ~mode.async /\ task[c].row = handoff[c].row

LEMMA PairTypes ==
    ASSUME SearchTypes
    PROVE  /\ pair.fp \in 0..2 /\ pair.dirty \in BOOLEAN /\ pair.gen \in Nat /\ pair.claim \in Nat
           /\ schema \in 1..2 /\ changes \in Nat
           /\ \A r \in Rows : rows[r].at \in Nat /\ rows[r].live \in BOOLEAN
           /\ \A r \in Rows : docs[r].at \in Nat /\ docs[r].live \in BOOLEAN /\ docs[r].schema \in 0..2
           /\ \A c \in Changes : task[c].gen \in Nat
<1>1. \A t \in Task : t.gen \in Nat
  BY DEF Task, NoTask
<1>2. MaxChanges \in Nat /\ 0..MaxChanges \subseteq Nat
  BY SearchAssumption
<1>3. \A r \in Rows : docs[r] \in [at : 0..MaxChanges, live : BOOLEAN, schema : 0..2]
  BY DEF SearchTypes, SearchDocuments
<1>4. \A r \in Rows : rows[r] \in [at : 0..MaxChanges, live : BOOLEAN]
  BY DEF SearchTypes
<1> QED BY <1>1, <1>2, <1>3, <1>4 DEF SearchTypes, Pair

LEMMA ChoresStep ==
    SearchTypes /\ Committed /\ Bounded /\ Chores /\ [SearchNext]_searchVars
    /\ (\A c \in Changes : task[c].row \in Rows => c <= rows[task[c].row].at) => Chores'
<1> SUFFICES ASSUME SearchTypes, Committed, Bounded, Chores, [SearchNext]_searchVars,
                    \A c \in Changes : task[c].row \in Rows => c <= rows[task[c].row].at
             PROVE  Chores'
  OBVIOUS
<1>1. pair'.fp <= schema' /\ (pair'.dirty => pair'.fp # 0) /\ (pair'.claim # 0 => pair'.dirty)
  BY PairStep, PairTypes DEF PairMoves, Chores, Marked
<1>2. \A r \in Rows : rows'[r].at <= changes'
  BY RowsStep, PairTypes DEF RowsKept, Chores
<1>3. pair'.gen \in {pair.gen, pair.gen + 1} /\ pair.gen \in Nat
  BY GenStep, GenNat DEF GenMoves
<1>4. ASSUME NEW c \in Changes PROVE task'[c].gen <= pair'.gen
  <2>1. NoTask.gen = 0
    BY DEF NoTask
  <2>2. task'[c].gen \in {0, task[c].gen, handoff[c].token.gen}
    BY <2>1, TasksStep DEF TasksKept
  <2>3. task[c].gen <= pair.gen /\ handoff[c].token.gen <= pair.gen
    BY DEF Chores, Bounded
  <2> QED BY <1>3, <2>2, <2>3, PairTypes, GenNat
<1>5. ASSUME NEW c \in Changes
      PROVE  /\ handoff'[c].pc = "mark" => ~mode'.default
             /\ handoff'[c].pc \in {"mark", "dispatch"} => task'[c] = NoTask
             /\ handoff'[c].pc = "inline" => ~mode'.async /\ task'[c].row = handoff'[c].row
  <2>1. UNCHANGED mode
    BY ModeStep
  <2>2. CASE handoff'[c] = handoff[c]
    <3>1. CASE handoff[c].pc \in {"mark", "dispatch"}
      <4>1. task[c] = NoTask /\ NoTask.row \notin Rows /\ (handoff[c].pc = "mark" => ~mode.default)
        BY <3>1, SearchAssumption DEF Chores, NoTask, None
      <4>2. task'[c] = NoTask
        BY <2>2, <4>1, TasksStep DEF TasksKept
      <4> QED BY <2>1, <2>2, <3>1, <4>1, <4>2
    <3>2. CASE handoff[c].pc = "inline"
      <4>1. ~mode.async /\ task[c].row = handoff[c].row
        BY <3>2 DEF Chores
      <4>2. task[c].row \in Rows
        BY <3>2, <4>1, HandoffRows
      <4>3. task'[c].row = task[c].row
        BY <2>2, <3>2, <4>1, <4>2, TasksStep, SearchAssumption DEF TasksKept, NoTask, None
      <4> QED BY <2>1, <2>2, <3>2, <4>1, <4>3
    <3> QED BY <2>2, <3>1, <3>2
  <2>3. CASE handoff'[c] = NoHandoff
    BY <2>3 DEF NoHandoff
  <2>4. CASE Commits(c)
    <3>1. task[c] = NoTask
      <4>1. task[c].row \in Rows => rows[task[c].row].at \in Nat /\ rows[task[c].row].at <= changes
        BY PairTypes DEF Chores
      <4>2. c = changes + 1 /\ changes \in Nat
        BY <2>4, PairTypes DEF Commits
      <4> QED BY <4>1, <4>2, TaskRows DEF Changes
    <3> QED BY <2>1, <2>4, <3>1 DEF Commits
  <2>5. CASE Advances(c)
    BY <2>1, <2>5 DEF Advances, Chores
  <2> QED BY <2>2, <2>3, <2>4, <2>5, HandoffsStep DEF HandoffsKept
<1> QED BY <1>1, <1>2, <1>4, <1>5 DEF Chores

\* The change of work in flight is the row's last or an earlier one.
PastWork(c, r, kind) ==
    c <= rows[r].at /\ (kind = "delete" /\ rows[r].at = c => ~rows[r].live)

\* What was read is the row as it is, or as it was.
PastRead(r, d) ==
    /\ d.at <= rows[r].at /\ d.schema <= schema
    /\ d.at = rows[r].at => d.live = rows[r].live

Past ==
    /\ \A c \in Changes : handoff[c].row \in Rows => PastWork(c, handoff[c].row, handoff[c].work)
    /\ \A c \in Changes : task[c].row \in Rows => PastWork(c, task[c].row, task[c].kind)
    /\ \A c \in Changes : /\ task[c].pc \in {"delete", "recheck"} => task[c].kind = "delete"
                          /\ task[c].pc = "write" => task[c].kind = "index" /\ task[c].read.live
    /\ \A c \in Changes : task[c].pc = "write" => PastRead(task[c].row, task[c].read)
    /\ \A q \in 1..Sweeps : sweep[q].pc = "write" => \A r \in Rows : PastRead(r, sweep[q].read[r])
    /\ \A r \in Rows : docs[r].at <= rows[r].at /\ docs[r].schema <= schema

\* What is past stays past.
LEMMA PastKept ==
    ASSUME SearchTypes, Chores, [SearchNext]_searchVars, NEW r \in Rows
    PROVE  /\ \A c \in Changes, kind \in {"index", "delete", "fallback"} :
                PastWork(c, r, kind) => PastWork(c, r, kind)'
           /\ \A d \in SearchDocuments : PastRead(r, d) => PastRead(r, d)'
           /\ rows'[r].at \in Nat /\ rows'[r].at >= rows[r].at /\ schema' >= schema
<1>1. rows'[r] = rows[r] \/ (rows'[r].at = changes + 1 /\ rows[r].at <= changes)
  BY RowsStep DEF RowsKept, Chores
<1>2. schema' >= schema /\ schema \in Nat /\ schema' \in Nat
  BY PairStep, PairTypes DEF PairMoves
<1>3. rows[r].at \in Nat /\ changes \in Nat
  BY PairTypes
<1>4. \A d \in SearchDocuments : d.at \in Nat /\ d.schema \in Nat
  BY SearchAssumption DEF SearchDocuments
<1>5. \A c \in Changes : c \in Nat
  BY DEF Changes
<1>6. \A c \in Changes, kind \in {"index", "delete", "fallback"} :
        PastWork(c, r, kind) => PastWork(c, r, kind)'
  BY <1>1, <1>3, <1>5 DEF PastWork
<1>7. \A d \in SearchDocuments : PastRead(r, d) => PastRead(r, d)'
  BY <1>1, <1>2, <1>3, <1>4 DEF PastRead
<1> QED BY <1>1, <1>2, <1>3, <1>6, <1>7

LEMMA PastStep ==
    SearchTypes /\ Committed /\ Chores /\ Past /\ [SearchNext]_searchVars => Past'
<1> SUFFICES ASSUME SearchTypes, Committed, Chores, Past, [SearchNext]_searchVars PROVE Past'
  OBVIOUS
<1>1. None \notin Rows /\ NoTask.row = None /\ NoHandoff.row = None /\ NoTask.pc = "idle"
  BY SearchAssumption DEF None, NoTask, NoHandoff
<1>2. ASSUME NEW c \in Changes, handoff'[c].row \in Rows
      PROVE  /\ c <= rows'[handoff'[c].row].at
             /\ handoff'[c].work = "delete" /\ rows'[handoff'[c].row].at = c => ~rows'[handoff'[c].row].live
  <2>1. handoff'[c].work \in {"index", "delete", "fallback"}
    BY <1>1, <1>2, TypesStep DEF SearchTypes, Handoff
  <2>2. PICK s \in Rows, l \in {"index", "delete", "fallback"} : s = handoff'[c].row /\ l = handoff'[c].work
    BY <1>2, <2>1
  <2>3. CASE Commits(c)
    BY <2>3, PairTypes DEF Commits
  <2>4. CASE handoff'[c] = handoff[c] \/ Advances(c)
    <3>1. PastWork(c, s, l)
      BY <2>2, <2>4 DEF Advances, Past
    <3>2. PastWork(c, s, l)'
      BY <3>1, PastKept
    <3> QED BY <2>2, <3>2 DEF PastWork
  <2>5. CASE handoff'[c] = NoHandoff
    BY <1>1, <1>2, <2>5
  <2> QED BY <2>3, <2>4, <2>5, HandoffsStep DEF HandoffsKept
<1>3. ASSUME NEW c \in Changes, task'[c].row \in Rows
      PROVE  /\ c <= rows'[task'[c].row].at
             /\ task'[c].kind = "delete" /\ rows'[task'[c].row].at = c => ~rows'[task'[c].row].live
  <2>1. task'[c].kind \in {"index", "delete"}
    BY <1>1, <1>3, TypesStep DEF SearchTypes, Task
  <2>2. PICK s \in Rows, l \in {"index", "delete", "fallback"} : s = task'[c].row /\ l = task'[c].kind
    BY <1>3, <2>1
  <2>3. \/ task[c].row = s /\ task[c].kind = l
        \/ handoff[c].row = s /\ handoff[c].work = l
    BY <1>1, <2>2, TasksStep DEF TasksKept
  <2>4. PastWork(c, s, l)'
    BY <2>3, PastKept DEF Past
  <2> QED BY <2>2, <2>4 DEF PastWork
<1>4. ASSUME NEW c \in Changes
      PROVE  /\ task'[c].pc \in {"delete", "recheck"} => task'[c].kind = "delete"
             /\ task'[c].pc = "write" => task'[c].kind = "index" /\ task'[c].read.live
  BY WritesStep DEF WritesKept, Past, ReadsRow
<1>5. ASSUME NEW c \in Changes, task'[c].pc = "write"
      PROVE  /\ task'[c].read.at <= rows'[task'[c].row].at /\ task'[c].read.schema <= schema'
             /\ task'[c].read.at = rows'[task'[c].row].at => task'[c].read.live = rows'[task'[c].row].live
  <2>1. task'[c].row \in Rows /\ task'[c].read \in SearchDocuments
    BY <1>1, <1>5, TypesStep DEF SearchTypes, Task
  <2>2. PICK s \in Rows, d \in SearchDocuments : s = task'[c].row /\ d = task'[c].read
    BY <2>1
  <2>3. PastRead(s, d)
    <3>1. CASE task'[c] = task[c]
      BY <1>5, <2>2, <3>1 DEF Past
    <3>2. CASE ReadsRow(c)
      <4>1. d.at = rows[s].at /\ d.schema = schema /\ d.live = rows[s].live
        BY <2>2, <3>2 DEF ReadsRow
      <4> QED BY <4>1, PairTypes DEF PastRead
    <3> QED BY <1>5, <3>1, <3>2, WritesStep DEF WritesKept
  <2>4. PastRead(s, d)'
    BY <2>3, PastKept
  <2> QED BY <2>2, <2>4 DEF PastRead
<1>6. ASSUME NEW q \in 1..Sweeps, sweep'[q].pc = "write", NEW r \in Rows
      PROVE  /\ sweep'[q].read[r].at <= rows'[r].at /\ sweep'[q].read[r].schema <= schema'
             /\ sweep'[q].read[r].at = rows'[r].at => sweep'[q].read[r].live = rows'[r].live
  <2>1. PICK d \in SearchDocuments : d = sweep'[q].read[r]
    <3>1. sweep'[q] \in Sweep
      BY TypesStep DEF SearchTypes
    <3> QED BY <1>6, <3>1 DEF Sweep, NoSweep
  <2>2. PastRead(r, d)
    <3>1. CASE sweep[q].pc = "write" /\ sweep'[q].read = sweep[q].read
      BY <2>1, <3>1 DEF Past
    <3>2. CASE sweep'[q].read[r] = [at |-> rows[r].at, live |-> rows[r].live, schema |-> schema]
      BY <2>1, <3>2, PairTypes DEF PastRead
    <3> QED BY <1>6, <3>1, <3>2, ReadsStep DEF ReadsKept
  <2>3. PastRead(r, d)'
    BY <2>2, PastKept
  <2> QED BY <2>1, <2>3 DEF PastRead
<1>7. ASSUME NEW r \in Rows PROVE  docs'[r].at <= rows'[r].at /\ docs'[r].schema <= schema'
  <2>1. /\ rows[r].at \in Nat /\ rows'[r].at \in Nat /\ rows'[r].at >= rows[r].at
        /\ schema \in Nat /\ schema' \in Nat /\ schema' >= schema
    BY PastKept, PairTypes, PairStep DEF PairMoves
  <2>2. docs'[r].at <= rows[r].at /\ docs'[r].schema <= schema
    <3>1. CASE docs'[r] = docs[r]
      BY <3>1 DEF Past
    <3>2. CASE \E c \in Changes : task[c].row = r /\ task[c].pc = "write" /\ docs'[r] = task[c].read
      BY <3>2 DEF Past, PastRead
    <3>3. CASE \E c \in Changes : task[c].row = r /\ task[c].pc = "delete" /\ docs'[r].at = c /\ docs'[r].schema = schema
      BY <2>1, <3>3 DEF Past, PastWork
    <3>4. CASE \E q \in 1..Sweeps : sweep[q].pc = "write" /\ docs'[r] = sweep[q].read[r]
      BY <3>4 DEF Past, PastRead
    <3> QED BY <3>1, <3>2, <3>3, <3>4, DocsStep DEF DocsKept
  <2>3. docs'[r].at \in Nat /\ docs'[r].schema \in Nat
    <3>1. docs'[r] \in SearchDocuments
      BY TypesStep DEF SearchTypes
    <3> QED BY <3>1, SearchAssumption DEF SearchDocuments
  <2>4. docs'[r].at <= rows'[r].at
    BY <2>1, <2>2, <2>3
  <2>5. docs'[r].schema <= schema'
    BY <2>1, <2>2, <2>3
  <2> QED BY <2>4, <2>5
<1> QED BY <1>2, <1>3, <1>4, <1>5, <1>6, <1>7 DEF Past, PastWork, PastRead

\* A delete that the pair's generation lets through is of the last change: in
\* the default database every later change of the row moved the generation.
Fence ==
    mode.default => \A c \in Changes :
      /\ handoff[c].row \in Rows \ excused /\ handoff[c].token.gen = pair.gen /\ pair.gen # 0
         => c = rows[handoff[c].row].at
      /\ task[c].row \in Rows \ excused /\ task[c].gen = pair.gen /\ pair.gen # 0
         => c = rows[task[c].row].at

LEMMA FenceStep ==
    SearchTypes /\ Committed /\ Bounded /\ Chores /\ Fence /\ [SearchNext]_searchVars => Fence'
<1> SUFFICES ASSUME SearchTypes, Committed, Bounded, Chores, Fence, [SearchNext]_searchVars, mode.default
             PROVE  Fence'
  BY ModeStep DEF Fence
<1>1. None \notin Rows /\ NoTask.row = None /\ NoHandoff.row = None
  BY SearchAssumption DEF None, NoTask, NoHandoff
<1>2. /\ pair'.gen \in {pair.gen, pair.gen + 1} /\ pair.gen \in Nat
      /\ Marked(pair, pair') => pair'.gen = pair.gen + 1
  BY GenStep, GenNat DEF GenMoves
\* Work that went on is of the last change still.
<1>3. ASSUME NEW r \in Rows, r \notin excused', NEW c \in Changes, pair'.gen = pair.gen, pair.gen # 0,
             \/ handoff[c].row = r /\ handoff[c].token.gen = pair.gen
             \/ task[c].row = r /\ task[c].gen = pair.gen
      PROVE  c = rows'[r].at
  <2>1. r \notin excused
    BY <1>3, ExcusedStep DEF ExcusedKept
  <2>2. c = rows[r].at
    BY <1>3, <2>1 DEF Fence
  <2>3. rows'[r] = rows[r]
    BY <1>2, <1>3, RowsChangeStep DEF RowsChange, Commits
  <2> QED BY <2>2, <2>3
<1>4. ASSUME NEW c \in Changes, handoff'[c].row \in Rows \ excused', handoff'[c].token.gen = pair'.gen, pair'.gen # 0
      PROVE  c = rows'[handoff'[c].row].at
  <2>1. CASE Commits(c)
    BY <2>1 DEF Commits
  <2>2. CASE handoff'[c].row = handoff[c].row /\ handoff'[c].token = handoff[c].token
    <3>1. pair'.gen = pair.gen
      BY <1>2, <1>4, <2>2, GenNat DEF Bounded
    <3> QED BY <1>3, <1>4, <2>2, <3>1
  <2>3. CASE handoff'[c] = NoHandoff
    BY <1>1, <1>4, <2>3
  <2> QED BY <2>1, <2>2, <2>3, HandoffsStep DEF HandoffsKept, Advances, Chores
<1>5. ASSUME NEW c \in Changes, task'[c].row \in Rows \ excused', task'[c].gen = pair'.gen, pair'.gen # 0
      PROVE  c = rows'[task'[c].row].at
  <2>1. \/ task'[c].row = task[c].row /\ task'[c].gen = task[c].gen
        \/ task'[c].row = handoff[c].row /\ task'[c].gen = handoff[c].token.gen
    BY <1>1, <1>5, TasksStep DEF TasksKept
  <2>2. pair'.gen = pair.gen
    BY <1>2, <1>5, <2>1, GenNat, PairTypes DEF Bounded, Chores
  <2> QED BY <1>3, <1>5, <2>1, <2>2
<1> QED BY <1>4, <1>5 DEF Fence

\* A claim taken while a mark may still be acknowledged is of that mark's generation.
ClaimedFresh ==
    \A c \in Changes, q \in 1..Sweeps :
      AckReady(c) /\ pair.claim # 0 /\ sweep[q].token = pair.claim => sweep[q].gen = pair.gen

LEMMA ClaimedFreshStep ==
    SearchTypes /\ Bounded /\ Chores /\ Committed /\ ClaimedFresh /\ [SearchNext]_searchVars => ClaimedFresh'
<1> SUFFICES ASSUME SearchTypes, Bounded, Chores, Committed, ClaimedFresh, [SearchNext]_searchVars,
                    NEW c \in Changes, NEW q \in 1..Sweeps, AckReady(c)', pair'.claim # 0,
                    sweep'[q].token = pair'.claim
             PROVE  sweep'[q].gen = pair'.gen
  BY DEF ClaimedFresh
<1>1. handoff'[c].token.ack /\ handoff'[c].token.gen = pair'.gen /\ pair'.dirty
  BY DEF AckReady, Stamped
<1>2. CASE NewToken(c)
  BY <1>1, <1>2 DEF NewToken, Marked, Chores
<1>3. CASE handoff'[c].token = handoff[c].token
  <2>1. pair'.gen = pair.gen /\ ~Marked(pair, pair')
    BY <1>1, <1>3, GenStep, GenNat DEF GenMoves, Bounded
  <2>2. pair.dirty
    BY <1>1, <2>1, ChangedStep DEF ChangedKept
  <2>3. AckReady(c)
    BY <1>1, <1>3, <2>1, <2>2 DEF AckReady, Stamped
  <2>4. CASE sweep'[q].token = sweep[q].token /\ sweep'[q].gen = sweep[q].gen
    <3>1. pair'.claim = pair.claim
      BY <2>4, ClaimStep DEF ClaimMoves
    <3> QED BY <2>1, <2>3, <2>4, <3>1 DEF ClaimedFresh
  <2>5. CASE sweep'[q] = NoSweep
    BY <2>5 DEF NoSweep
  <2>6. CASE sweep'[q].gen = pair'.gen
    BY <2>6
  <2>7. CASE sweep'[q] = sweep[q]
    BY <2>4, <2>7
  <2> QED BY <2>4, <2>5, <2>6, <2>7, SweepsStep DEF SweepsKept
<1>4. CASE handoff'[c].token = NoToken
  BY <1>1, <1>4 DEF NoToken
<1> QED BY <1>2, <1>3, <1>4, TokensStep DEF TokensKept

-----------------------------------------------------------------------------
(* A clean pair is current. *)

\* A change that will be marked, so that a document may still be behind.
Unmarked(c, r) == handoff[c].pc = "mark" /\ handoff[c].row = r /\ c = rows[r].at

\* A task that will write what the row says.
Will(c, r) ==
    /\ task[c].row = r
    /\ \/ task[c].kind = "index" /\ task[c].pc = "start"
       \/ task[c].pc = "write" /\ Current(r, task[c].read)
       \/ task[c].kind = "delete" /\ task[c].pc \in {"start", "delete"} /\ c = rows[r].at

\* A delete that will mark the pair once more.
Doubt(c, r) == task[c].row = r /\ task[c].pc = "recheck" /\ task[c].gen \notin {0, pair.gen}

\* A callback that will hand over, or runs, a task that will.
Own(c, r) ==
    /\ handoff[c].row = r
    /\ \/ handoff[c].pc = "dispatch" /\ c = rows[r].at
       \/ handoff[c].pc = "inline" /\ Will(c, r)

\* Something repairs the document, whoever else stops.
Pend(r) == \E c \in Changes : Unmarked(c, r) \/ (mode.async /\ Will(c, r)) \/ Doubt(c, r)

\* The document is current, and so is whatever may overwrite it, or it is
\* older and excuses the row.
Safe(r) ==
    /\ Current(r, docs[r])
    /\ \A c \in Changes : task[c].pc = "write" /\ task[c].row = r =>
         Current(r, task[c].read) \/ Older(task[c].read, docs[r])
    /\ \A q \in 1..Sweeps : sweep[q].pc = "write" =>
         Current(r, sweep[q].read[r]) \/ Older(sweep[q].read[r], docs[r])

\* A mark waits until it is made, unless its row is excused.
MarksWait ==
    \A c \in Changes : handoff[c].pc = "mark" =>
      handoff'[c] = handoff[c] \/ Marked(pair, pair') \/ handoff[c].row \in excused'

LEMMA EndsWait == ASSUME SearchTypes, NEW c \in Changes, Ends(c) PROVE MarksWait
<1>1. PICK h : handoff' = [handoff EXCEPT ![c] = h] /\ (h = handoff[c] \/ handoff[c].pc = "inline")
  BY DEF Ends
<1> QED BY <1>1 DEF MarksWait, SearchTypes

LEMMA MarksWaitStep == SearchTypes /\ Committed /\ [SearchNext]_searchVars => MarksWait
<1> SUFFICES ASSUME SearchTypes, Committed, [SearchNext]_searchVars PROVE MarksWait
  OBVIOUS
<1>1. ASSUME NEW c \in Changes, NEW r \in Rows, NEW a \in Actions, commit_change(c, r, a) PROVE MarksWait
  <2>1. handoff[c].pc = "idle" /\ \A d \in Changes \ {c} : handoff'[d] = handoff[d]
    BY <1>1, CommitEffect, PairTypes DEF SearchTypes, Committed
  <2> QED BY <2>1 DEF MarksWait
<1>2. ASSUME NEW c \in Changes, after_non_default_commit(c) PROVE MarksWait
  <2>1. \A d \in Changes \ {c} : handoff'[d] = handoff[d]
    BY <1>2, AfterCommitEffect DEF SearchTypes
  <2>2. Marked(pair, pair') \/ handoff[c].row \in excused'
    BY <1>2, AfterCommitEffect DEF MarksRow
  <2> QED BY <2>1, <2>2 DEF MarksWait
<1>3. ASSUME NEW c \in Changes, _dispatch_prepared_work(c) PROVE MarksWait
  <2>1. handoff[c].pc # "mark" /\ \A d \in Changes \ {c} : handoff'[d] = handoff[d]
    BY <1>3, DispatchEffect DEF SearchTypes
  <2> QED BY <2>1 DEF MarksWait
<1>4. ASSUME NEW c \in Changes, acknowledge_search_index_dirty(c) PROVE MarksWait
  <2>1. handoff[c].pc # "mark" /\ \A d \in Changes \ {c} : handoff'[d] = handoff[d]
    BY <1>4, AcknowledgeEffect DEF SearchTypes
  <2> QED BY <2>1 DEF MarksWait
<1>5. ASSUME NEW c \in Changes, index_manager_index_batch(c) PROVE MarksWait
  <2>1. CASE Ends(c)
    BY <2>1, EndsWait
  <2>2. CASE UNCHANGED handoff
    BY <2>2 DEF MarksWait
  <2> QED BY <1>5, <2>1, <2>2, IndexEffect
<1>6. ASSUME NEW c \in Changes, upsert(c) PROVE MarksWait
  BY <1>6, UpsertEffect, EndsWait
<1>7. ASSUME NEW c \in Changes, delete_documents_task(c) PROVE MarksWait
  <2>1. CASE Ends(c)
    BY <2>1, EndsWait
  <2>2. CASE UNCHANGED handoff
    BY <2>2 DEF MarksWait
  <2> QED BY <1>7, <2>1, <2>2, DeleteCheckEffect
<1>8. ASSUME NEW c \in Changes, delete_documents(c) PROVE MarksWait
  BY <1>8, DeleteEffect DEF MarksWait, Elsewhere
<1>9. ASSUME NEW c \in Changes, recheck_generation(c) PROVE MarksWait
  BY <1>9, RecheckEffect, EndsWait
<1>10. ASSUME NEW c \in Changes, task_fails(c) PROVE MarksWait
  BY <1>10, FailEffect, EndsWait
<1>11. ASSUME NEW c \in Changes, mutator_dies(c) PROVE MarksWait
  <2>1. \A d \in Changes \ {c} : handoff'[d] = handoff[d]
    BY <1>11, DeathEffect DEF SearchTypes
  <2>2. handoff[c].pc = "mark" => handoff[c].row \in excused'
    BY <1>11, DeathEffect
  <2> QED BY <2>1, <2>2 DEF MarksWait
<1>12. ASSUME NEW c \in Changes, task_lost(c) PROVE MarksWait
  BY <1>12, LossEffect DEF MarksWait, Elsewhere
<1>13. ASSUME NEW force \in BOOLEAN, ensure_search_index_states(force) PROVE MarksWait
  BY <1>13, EnsureEffect DEF MarksWait
<1>14. ASSUME NEW q \in 1..Sweeps, _claim_dirty_states(q) PROVE MarksWait
  BY <1>14, ClaimEffect DEF MarksWait, Aside
<1>15. ASSUME NEW q \in 1..Sweeps, reindex_manager_index(q) PROVE MarksWait
  BY <1>15, ReadEffect DEF MarksWait, Aside
<1>16. ASSUME NEW q \in 1..Sweeps, reindex_write(q) PROVE MarksWait
  BY <1>16, WriteEffect DEF MarksWait, Aside
<1>17. ASSUME NEW q \in 1..Sweeps, reconcile_search_indexes(q) PROVE MarksWait
  BY <1>17, ReconcileEffect DEF MarksWait, Aside
<1>18. ASSUME NEW q \in 1..Sweeps, _release_claim_with_error(q) PROVE MarksWait
  BY <1>18, ReleaseEffect DEF MarksWait, Aside
<1>19. ASSUME NEW q \in 1..Sweeps, sweep_dies(q) PROVE MarksWait
  BY <1>19 DEF MarksWait, sweep_dies
<1>20. ASSUME claim_expires PROVE MarksWait
  BY <1>20, ExpiryEffect DEF MarksWait, Aside
<1>21. ASSUME deploy_schema PROVE MarksWait
  BY <1>21 DEF MarksWait, deploy_schema
<1>22. ASSUME UNCHANGED searchVars PROVE MarksWait
  BY <1>22 DEF MarksWait, searchVars
<1> QED BY <1>1, <1>2, <1>3, <1>4, <1>5, <1>6, <1>7, <1>8, <1>9, <1>10, <1>11, <1>12, <1>13, <1>14, <1>15, <1>16, <1>17, <1>18, <1>19, <1>20, <1>21, <1>22
       DEF SearchNext, HandoffStep, TaskStep, SweepStep, Actions

\* Who may write a document.
Touched ==
    \/ \E q \in 1..Sweeps : reindex_write(q)
    \/ \A r \in Rows : \/ docs'[r] = docs[r]
                       \/ \E c \in Changes : task[c].row = r /\ (upsert(c) \/ delete_documents(c))

LEMMA TouchedStep == SearchTypes /\ [SearchNext]_searchVars => Touched
<1> SUFFICES ASSUME SearchTypes, [SearchNext]_searchVars PROVE Touched
  OBVIOUS
<1>1. ASSUME NEW c \in Changes, NEW r \in Rows, NEW a \in Actions, commit_change(c, r, a) PROVE Touched
  BY <1>1, CommitEffect DEF Touched, MarksRow
<1>2. ASSUME NEW c \in Changes, after_non_default_commit(c) PROVE Touched
  BY <1>2, AfterCommitEffect DEF Touched, MarksRow
<1>3. ASSUME NEW c \in Changes, _dispatch_prepared_work(c) PROVE Touched
  BY <1>3, DispatchEffect DEF Touched
<1>4. ASSUME NEW c \in Changes, acknowledge_search_index_dirty(c) PROVE Touched
  BY <1>4, AcknowledgeEffect DEF Touched
<1>5. ASSUME NEW c \in Changes, index_manager_index_batch(c) PROVE Touched
  BY <1>5, IndexEffect DEF Touched, Elsewhere
<1>6. ASSUME NEW c \in Changes, upsert(c) PROVE Touched
  <2>1. docs' = [docs EXCEPT ![task[c].row] = task[c].read]
    BY <1>6, UpsertEffect
  <2> QED BY <1>6, <2>1 DEF Touched, SearchTypes
<1>7. ASSUME NEW c \in Changes, delete_documents_task(c) PROVE Touched
  BY <1>7, DeleteCheckEffect DEF Touched, Elsewhere
<1>8. ASSUME NEW c \in Changes, delete_documents(c) PROVE Touched
  <2>1. docs' = [docs EXCEPT ![task[c].row] = [at |-> c, live |-> FALSE, schema |-> schema]]
    BY <1>8, DeleteEffect
  <2> QED BY <1>8, <2>1 DEF Touched, SearchTypes
<1>9. ASSUME NEW c \in Changes, recheck_generation(c) PROVE Touched
  BY <1>9, RecheckEffect DEF Touched, Elsewhere
<1>10. ASSUME NEW c \in Changes, task_fails(c) PROVE Touched
  BY <1>10, FailEffect DEF Touched, Elsewhere
<1>11. ASSUME NEW c \in Changes, mutator_dies(c) PROVE Touched
  BY <1>11, DeathEffect DEF Touched, Elsewhere
<1>12. ASSUME NEW c \in Changes, task_lost(c) PROVE Touched
  BY <1>12, LossEffect DEF Touched, Elsewhere
<1>13. ASSUME NEW force \in BOOLEAN, ensure_search_index_states(force) PROVE Touched
  BY <1>13, EnsureEffect DEF Touched
<1>14. ASSUME NEW q \in 1..Sweeps, _claim_dirty_states(q) PROVE Touched
  BY <1>14, ClaimEffect DEF Touched, Aside
<1>15. ASSUME NEW q \in 1..Sweeps, reindex_manager_index(q) PROVE Touched
  BY <1>15, ReadEffect DEF Touched, Aside
<1>16. ASSUME NEW q \in 1..Sweeps, reindex_write(q) PROVE Touched
  BY <1>16 DEF Touched
<1>17. ASSUME NEW q \in 1..Sweeps, reconcile_search_indexes(q) PROVE Touched
  BY <1>17, ReconcileEffect DEF Touched, Aside
<1>18. ASSUME NEW q \in 1..Sweeps, _release_claim_with_error(q) PROVE Touched
  BY <1>18, ReleaseEffect DEF Touched, Aside
<1>19. ASSUME NEW q \in 1..Sweeps, sweep_dies(q) PROVE Touched
  BY <1>19 DEF Touched, sweep_dies
<1>20. ASSUME claim_expires PROVE Touched
  BY <1>20, ExpiryEffect DEF Touched, Aside
<1>21. ASSUME deploy_schema PROVE Touched
  BY <1>21 DEF Touched, deploy_schema
<1>22. ASSUME UNCHANGED searchVars PROVE Touched
  BY <1>22 DEF Touched, searchVars
<1> QED BY <1>1, <1>2, <1>3, <1>4, <1>5, <1>6, <1>7, <1>8, <1>9, <1>10, <1>11, <1>12, <1>13, <1>14, <1>15, <1>16, <1>17, <1>18, <1>19, <1>20, <1>21, <1>22
       DEF SearchNext, HandoffStep, TaskStep, SweepStep, Actions

\* Who may end a mark.
Cleans ==
    pair.dirty /\ ~pair'.dirty =>
      \/ \E c \in Changes : AckReady(c) /\ handoff[c].pc = "ack" /\ UNCHANGED <<rows, docs, task, sweep>>
      \/ \E q \in 1..Sweeps : sweep[q].pc = "clear" /\ clear_dirty(q)

LEMMA CleansStep == SearchTypes /\ [SearchNext]_searchVars => Cleans
<1> SUFFICES ASSUME SearchTypes, [SearchNext]_searchVars PROVE Cleans
  OBVIOUS
<1>1. ASSUME NEW c \in Changes, NEW r \in Rows, NEW a \in Actions, commit_change(c, r, a) PROVE Cleans
  BY <1>1, CommitEffect DEF Cleans, Marked, MarksRow
<1>2. ASSUME NEW c \in Changes, after_non_default_commit(c) PROVE Cleans
  BY <1>2, AfterCommitEffect DEF Cleans, Marked, MarksRow
<1>3. ASSUME NEW c \in Changes, _dispatch_prepared_work(c) PROVE Cleans
  BY <1>3, DispatchEffect DEF Cleans, Marked
<1>4. ASSUME NEW c \in Changes, acknowledge_search_index_dirty(c) PROVE Cleans
  <2>1. UNCHANGED pair \/ (AckReady(c) /\ handoff[c].pc = "ack" /\ UNCHANGED <<rows, docs, task, sweep>>)
    BY <1>4, AcknowledgeEffect DEF AckReady, Stamped
  <2> QED BY <2>1 DEF Cleans
<1>5. ASSUME NEW c \in Changes, index_manager_index_batch(c) PROVE Cleans
  BY <1>5, IndexEffect DEF Cleans, Marked, Elsewhere
<1>6. ASSUME NEW c \in Changes, upsert(c) PROVE Cleans
  BY <1>6, UpsertEffect DEF Cleans, Marked, Elsewhere
<1>7. ASSUME NEW c \in Changes, delete_documents_task(c) PROVE Cleans
  BY <1>7, DeleteCheckEffect DEF Cleans, Marked, Elsewhere
<1>8. ASSUME NEW c \in Changes, delete_documents(c) PROVE Cleans
  BY <1>8, DeleteEffect DEF Cleans, Marked, Elsewhere
<1>9. ASSUME NEW c \in Changes, recheck_generation(c) PROVE Cleans
  BY <1>9, RecheckEffect DEF Cleans, Marked, Elsewhere
<1>10. ASSUME NEW c \in Changes, task_fails(c) PROVE Cleans
  BY <1>10, FailEffect DEF Cleans, Marked, Elsewhere
<1>11. ASSUME NEW c \in Changes, mutator_dies(c) PROVE Cleans
  BY <1>11, DeathEffect DEF Cleans, Marked, Elsewhere
<1>12. ASSUME NEW c \in Changes, task_lost(c) PROVE Cleans
  BY <1>12, LossEffect DEF Cleans, Marked, Elsewhere
<1>13. ASSUME NEW force \in BOOLEAN, ensure_search_index_states(force) PROVE Cleans
  BY <1>13, EnsureEffect DEF Cleans, Marked
<1>14. ASSUME NEW q \in 1..Sweeps, _claim_dirty_states(q) PROVE Cleans
  BY <1>14, ClaimEffect DEF Cleans, SameMark, Aside
<1>15. ASSUME NEW q \in 1..Sweeps, reindex_manager_index(q) PROVE Cleans
  BY <1>15, ReadEffect DEF Cleans, Marked, Aside
<1>16. ASSUME NEW q \in 1..Sweeps, reindex_write(q) PROVE Cleans
  BY <1>16, WriteEffect DEF Cleans, Marked, Aside
<1>17. ASSUME NEW q \in 1..Sweeps, reconcile_search_indexes(q) PROVE Cleans
  BY <1>17, ReconcileEffect DEF Cleans, SameMark, Aside
<1>18. ASSUME NEW q \in 1..Sweeps, _release_claim_with_error(q) PROVE Cleans
  BY <1>18, ReleaseEffect DEF Cleans, SameMark, Aside
<1>19. ASSUME NEW q \in 1..Sweeps, sweep_dies(q) PROVE Cleans
  BY <1>19 DEF Cleans, Marked, sweep_dies
<1>20. ASSUME claim_expires PROVE Cleans
  BY <1>20, ExpiryEffect DEF Cleans, SameMark, Aside
<1>21. ASSUME deploy_schema PROVE Cleans
  BY <1>21 DEF Cleans, Marked, deploy_schema
<1>22. ASSUME UNCHANGED searchVars PROVE Cleans
  BY <1>22 DEF Cleans, Marked, searchVars
<1> QED BY <1>1, <1>2, <1>3, <1>4, <1>5, <1>6, <1>7, <1>8, <1>9, <1>10, <1>11, <1>12, <1>13, <1>14, <1>15, <1>16, <1>17, <1>18, <1>19, <1>20, <1>21, <1>22
       DEF SearchNext, HandoffStep, TaskStep, SweepStep, Actions

\* Ways in which work ends without a repair.
Goes(c) ==
    \/ pair.fp = 0 \/ Marked(pair, pair')
    \/ ~mode.async /\ handoff'[c] = NoHandoff
    \/ upsert(c) \/ delete_documents(c)

\* Work that repairs a document goes on, or ends in one of these ways.
Serves ==
    \A c \in Changes, r \in Rows : r \notin excused' /\ rows'[r] = rows[r] /\ pair'.fp = pair.fp =>
      /\ Will(c, r) => Will(c, r)' \/ Goes(c)
      /\ Doubt(c, r) => \/ task'[c] = task[c] \/ pair.fp = 0 \/ Marked(pair, pair')

LEMMA ServesOne ==
    ASSUME NEW c \in Changes, NEW r \in Rows, task'[c] = task[c], rows'[r] = rows[r], pair'.fp = pair.fp
    PROVE  Will(c, r) => Will(c, r)'
<1>1. \A d : Current(r, d) => Current(r, d)'
  BY DEF Current
<1> QED BY <1>1 DEF Will, Current

LEMMA ServesStill == UNCHANGED task => Serves
BY ServesOne DEF Serves

LEMMA ServesOthers ==
    ASSUME SearchTypes, NEW c \in Changes, \E t : task' = [task EXCEPT ![c] = t],
           \A r \in Rows : r \notin excused' /\ rows'[r] = rows[r] =>
             /\ Will(c, r) => Will(c, r)' \/ Goes(c)
             /\ Doubt(c, r) => pair.fp = 0 \/ Marked(pair, pair')
    PROVE  Serves
<1>1. \A d \in Changes \ {c} : task'[d] = task[d]
  BY DEF SearchTypes
<1> QED BY <1>1, ServesOne DEF Serves

LEMMA ServesStep == SearchTypes /\ Committed /\ Chores /\ Past /\ [SearchNext]_searchVars => Serves
<1> SUFFICES ASSUME SearchTypes, Committed, Chores, Past, [SearchNext]_searchVars PROVE Serves
  OBVIOUS
<1>1. ASSUME NEW c \in Changes, NEW r \in Rows, NEW a \in Actions, commit_change(c, r, a) PROVE Serves
  BY <1>1, CommitEffect, ServesStill
<1>2. ASSUME NEW c \in Changes, after_non_default_commit(c) PROVE Serves
  BY <1>2, AfterCommitEffect, ServesStill
<1>3. ASSUME NEW c \in Changes, _dispatch_prepared_work(c) PROVE Serves
  <2>1. CASE UNCHANGED task
    BY <2>1, ServesStill
  <2>2. CASE ~UNCHANGED task
    <3>1. PICK t : task' = [task EXCEPT ![c] = t]
      BY <1>3, <2>2, DispatchEffect
    <3>2. task[c] = NoTask
      BY <1>3, DispatchEffect DEF Chores
    <3>3. \A r \in Rows : ~Will(c, r) /\ ~Doubt(c, r)
      BY <3>2, SearchAssumption DEF Will, Doubt, NoTask, None
    <3> QED BY <3>1, <3>3, ServesOthers
  <2> QED BY <2>1, <2>2
<1>4. ASSUME NEW c \in Changes, acknowledge_search_index_dirty(c) PROVE Serves
  BY <1>4, AcknowledgeEffect, ServesStill
<1>5. ASSUME NEW c \in Changes, index_manager_index_batch(c) PROVE Serves
  <2>1. CASE task' = [task EXCEPT ![c] = NoTask] /\ Marked(pair, pair')
    BY <2>1, ServesOthers DEF Goes
  <2>2. CASE ~(task' = [task EXCEPT ![c] = NoTask] /\ Marked(pair, pair'))
    <3>1. PICK t : /\ task' = [task EXCEPT ![c] = t] /\ t.pc = "write" /\ t.row = task[c].row
                   /\ t.read = [at |-> rows[t.row].at, live |-> TRUE, schema |-> schema]
      BY <1>5, <2>2, IndexEffect DEF Ends
    <3>2. /\ task[c].pc = "start" /\ rows[task[c].row].live /\ UNCHANGED <<rows, pair>>
      BY <1>5, <2>2, IndexEffect DEF Elsewhere, Ends
    <3>3. task'[c] = t
      BY <3>1 DEF SearchTypes
    <3>4. \A r \in Rows : ~Doubt(c, r)
      BY <3>2 DEF Doubt
    <3>5. ASSUME NEW r \in Rows, Will(c, r) PROVE Will(c, r)'
      <4>1. task[c].row = r
        BY <3>5 DEF Will
      <4>3. t.row = r /\ t.read.live = TRUE /\ t.read.at = rows[r].at /\ t.read.schema = schema
        BY <3>1, <4>1
      <4>4. rows[r].live = TRUE
        BY <3>2, <4>1, PairTypes
      <4>5. schema >= pair.fp
        BY PairTypes DEF Chores
      <4>2. t.row = r /\ t.read.live = rows[r].live /\ t.read.at = rows[r].at /\ t.read.schema >= pair.fp
        BY <4>3, <4>4, <4>5
      <4> QED BY <3>1, <3>2, <3>3, <4>2 DEF Will, Current
    <3> QED BY <3>1, <3>4, <3>5, ServesOthers DEF Goes
  <2> QED BY <2>1, <2>2
<1>6. ASSUME NEW c \in Changes, upsert(c) PROVE Serves
  <2>1. task' = [task EXCEPT ![c] = NoTask] /\ task[c].pc = "write"
    BY <1>6, UpsertEffect DEF Ends
  <2>2. \A r \in Rows : ~Doubt(c, r)
    BY <2>1 DEF Doubt
  <2> QED BY <1>6, <2>1, <2>2, ServesOthers DEF Goes
<1>7. ASSUME NEW c \in Changes, delete_documents_task(c) PROVE Serves
  <2>1. CASE task' = [task EXCEPT ![c] = NoTask] /\ Marked(pair, pair')
    BY <2>1, ServesOthers DEF Goes
  <2>2. CASE ~(task' = [task EXCEPT ![c] = NoTask] /\ Marked(pair, pair'))
    <3>1. PICK t : /\ task' = [task EXCEPT ![c] = t] /\ t.pc = "delete"
                   /\ t.kind = "delete" /\ t.row = task[c].row
      BY <1>7, <2>2, DeleteCheckEffect DEF Ends
    <3>2. task[c].pc = "start" /\ task[c].kind = "delete"
      BY <1>7, DeleteCheckEffect
    <3>3. task'[c] = t
      BY <3>1 DEF SearchTypes
    <3>4. \A r \in Rows : ~Doubt(c, r)
      BY <3>2 DEF Doubt
    <3>5. \A r \in Rows : Will(c, r) /\ rows'[r] = rows[r] => Will(c, r)'
      BY <3>1, <3>2, <3>3 DEF Will
    <3> QED BY <3>1, <3>4, <3>5, ServesOthers DEF Goes
  <2> QED BY <2>1, <2>2
<1>8. ASSUME NEW c \in Changes, delete_documents(c) PROVE Serves
  <2>1. \E t : task' = [task EXCEPT ![c] = t]
    BY <1>8, DeleteEffect
  <2>2. \A r \in Rows : ~Doubt(c, r)
    BY <1>8, DeleteEffect DEF Doubt
  <2> QED BY <1>8, <2>1, <2>2, ServesOthers DEF Goes
<1>9. ASSUME NEW c \in Changes, recheck_generation(c) PROVE Serves
  <2>1. task' = [task EXCEPT ![c] = NoTask]
    BY <1>9, RecheckEffect DEF Ends
  <2>2. \A r \in Rows : ~Will(c, r)
    BY <1>9, RecheckEffect DEF Will, Past
  <2>3. task[c].gen \in {0, pair.gen} \/ Marked(pair, pair')
    BY <1>9, RecheckEffect
  <2>4. task[c].gen \in {0, pair.gen} => \A r \in Rows : ~Doubt(c, r)
    BY DEF Doubt
  <2> QED BY <2>1, <2>2, <2>3, <2>4, ServesOthers DEF Goes
<1>10. ASSUME NEW c \in Changes, task_fails(c) PROVE Serves
  <2>1. task' = [task EXCEPT ![c] = NoTask]
    BY <1>10, FailEffect DEF Ends
  <2>2. pair.fp = 0 \/ Marked(pair, pair')
    BY <1>10, FailEffect
  <2> QED BY <2>1, <2>2, ServesOthers DEF Goes
<1>11. ASSUME NEW c \in Changes, mutator_dies(c) PROVE Serves
  <2>1. CASE UNCHANGED task
    BY <2>1, ServesStill
  <2>2. CASE handoff[c].pc = "inline" /\ task' = [task EXCEPT ![c] = NoTask]
    <3>1. ~mode.async /\ task[c].row = handoff[c].row
      BY <2>2 DEF Chores
    <3>2. handoff'[c] = NoHandoff
      BY <1>11, DeathEffect DEF SearchTypes
    <3>3. \A r \in Rows : r \notin excused' => ~Doubt(c, r)
      BY <1>11, <2>2, <3>1, DeathEffect DEF Doubt
    <3> QED BY <2>2, <3>1, <3>2, <3>3, ServesOthers DEF Goes
  <2> QED BY <1>11, <2>1, <2>2, DeathEffect
<1>12. ASSUME NEW c \in Changes, task_lost(c) PROVE Serves
  <2>1. task' = [task EXCEPT ![c] = NoTask] /\ task[c].row \in excused'
    BY <1>12, LossEffect
  <2>2. \A r \in Rows : r \notin excused' => ~Will(c, r) /\ ~Doubt(c, r)
    BY <2>1 DEF Will, Doubt
  <2> QED BY <2>1, <2>2, ServesOthers
<1>13. ASSUME NEW force \in BOOLEAN, ensure_search_index_states(force) PROVE Serves
  BY <1>13, EnsureEffect, ServesStill
<1>14. ASSUME NEW q \in 1..Sweeps, _claim_dirty_states(q) PROVE Serves
  BY <1>14, ClaimEffect, ServesStill DEF Aside
<1>15. ASSUME NEW q \in 1..Sweeps, reindex_manager_index(q) PROVE Serves
  BY <1>15, ReadEffect, ServesStill DEF Aside
<1>16. ASSUME NEW q \in 1..Sweeps, reindex_write(q) PROVE Serves
  BY <1>16, WriteEffect, ServesStill DEF Aside
<1>17. ASSUME NEW q \in 1..Sweeps, reconcile_search_indexes(q) PROVE Serves
  BY <1>17, ReconcileEffect, ServesStill DEF Aside
<1>18. ASSUME NEW q \in 1..Sweeps, _release_claim_with_error(q) PROVE Serves
  BY <1>18, ReleaseEffect, ServesStill DEF Aside
<1>19. ASSUME NEW q \in 1..Sweeps, sweep_dies(q) PROVE Serves
  BY <1>19, ServesStill DEF sweep_dies
<1>20. ASSUME claim_expires PROVE Serves
  BY <1>20, ExpiryEffect, ServesStill DEF Aside
<1>21. ASSUME deploy_schema PROVE Serves
  BY <1>21, ServesStill DEF deploy_schema
<1>22. ASSUME UNCHANGED searchVars PROVE Serves
  BY <1>22, ServesStill DEF searchVars
<1> QED BY <1>1, <1>2, <1>3, <1>4, <1>5, <1>6, <1>7, <1>8, <1>9, <1>10, <1>11, <1>12, <1>13, <1>14, <1>15, <1>16, <1>17, <1>18, <1>19, <1>20, <1>21, <1>22
       DEF SearchNext, HandoffStep, TaskStep, SweepStep, Actions

\* A document that was read from the row as it is now.
Covers(r, d) == d.at = rows[r].at /\ d.live = rows[r].live /\ d.schema >= pair.fp

LEMMA CoversCurrent == ASSUME NEW r, NEW d, Covers(r, d) PROVE Current(r, d)
BY DEF Covers, Current

LEMMA DocumentTypes ==
    ASSUME NEW d \in SearchDocuments PROVE d.at \in Nat /\ d.live \in BOOLEAN /\ d.schema \in Nat
<1>1. d.at \in 0..MaxChanges /\ d.live \in BOOLEAN /\ d.schema \in 0..2
  BY DEF SearchDocuments
<1> QED BY <1>1, SearchAssumption

LEMMA CoversOlder ==
    ASSUME SearchTypes, NEW r \in Rows, NEW d \in SearchDocuments, NEW w \in SearchDocuments,
           Covers(r, d), PastRead(r, w)
    PROVE  Current(r, w) \/ Older(w, d)
<1>1. /\ d.at \in Nat /\ d.schema \in Nat /\ w.at \in Nat /\ w.schema \in Nat /\ pair.fp \in Nat
  BY DocumentTypes, PairTypes
<1> QED BY <1>1 DEF Covers, PastRead, Current, Older

\* What may be read of a row that stays.
LEMMA CurrentKept ==
    ASSUME SearchTypes, Chores, NEW r \in Rows, rows'[r] = rows[r], pair'.fp = pair.fp
    PROVE  /\ \A w : Current(r, w) => w.live = rows'[r].live /\ (w.live => w.at = rows'[r].at /\ w.schema >= pair'.fp)
           /\ \A w : w.at = rows[r].at /\ w.live = rows[r].live /\ w.schema = schema => Current(r, w)
<1>1. schema >= pair.fp
  BY PairTypes DEF Chores
<1> QED BY <1>1 DEF Current

\* A document and all that may overwrite it.
LEMMA SafeBy ==
    ASSUME SearchTypes, Chores, [SearchNext]_searchVars, NEW r \in Rows, NEW d,
           docs'[r] = d, Current(r, d), rows'[r] = rows[r], pair'.fp = pair.fp,
           \A c \in Changes : task[c].pc = "write" /\ task[c].row = r =>
             Current(r, task[c].read) \/ Older(task[c].read, d),
           \A q \in 1..Sweeps : sweep[q].pc = "write" =>
             Current(r, sweep[q].read[r]) \/ Older(sweep[q].read[r], d)
    PROVE  Safe(r)'
<1> DEFINE Fits(w) == w.live = rows'[r].live /\ (w.live => w.at = rows'[r].at /\ w.schema >= pair'.fp)
<1>1. \A w : Current(r, w) => Fits(w)
  BY CurrentKept
<1>4. ASSUME NEW c \in Changes, task'[c].pc = "write", task'[c].row = r
      PROVE  Fits(task'[c].read) \/ Older(task'[c].read, d)
  <2>1. CASE task'[c] = task[c]
    BY <1>1, <1>4, <2>1
  <2>2. CASE ReadsRow(c)
    <3>1. PICK w : w = task'[c].read
      OBVIOUS
    <3>2. w.at = rows[r].at /\ w.live = rows[r].live /\ w.schema = schema
      BY <1>4, <2>2, <3>1 DEF ReadsRow
    <3>3. Fits(w)
      BY <3>2, <1>1, CurrentKept
    <3> QED BY <3>1, <3>3
  <2> QED BY <1>4, <2>1, <2>2, WritesStep DEF WritesKept
<1>5. ASSUME NEW q \in 1..Sweeps, sweep'[q].pc = "write"
      PROVE  Fits(sweep'[q].read[r]) \/ Older(sweep'[q].read[r], d)
  <2>1. PICK w : w = sweep'[q].read[r]
    OBVIOUS
  <2>2. CASE sweep[q].pc = "write" /\ sweep'[q].read = sweep[q].read
    BY <1>1, <2>2
  <2>3. CASE sweep'[q].read[r] = [at |-> rows[r].at, live |-> rows[r].live, schema |-> schema]
    <3>1. w.at = rows[r].at /\ w.live = rows[r].live /\ w.schema = schema
      BY <2>1, <2>3
    <3>2. Fits(w)
      BY <3>1, <1>1, CurrentKept
    <3> QED BY <2>1, <3>2
  <2> QED BY <1>5, <2>2, <2>3, ReadsStep DEF ReadsKept
<1>6. Fits(d)
  BY <1>1
<1> QED BY <1>4, <1>5, <1>6 DEF Safe, Current, Older

\* A document read from the row as it is, and everything else that may be written.
LEMMA CoversSafe ==
    ASSUME SearchTypes, Chores, Past, [SearchNext]_searchVars, NEW r \in Rows, NEW d \in SearchDocuments,
           docs'[r] = d, Covers(r, d), rows'[r] = rows[r], pair'.fp = pair.fp
    PROVE  Safe(r)'
<1>1. ASSUME NEW c \in Changes, task[c].pc = "write", task[c].row = r
      PROVE  Current(r, task[c].read) \/ Older(task[c].read, d)
  <2>1. task[c].read \in SearchDocuments
    BY <1>1 DEF SearchTypes, Task, NoTask
  <2> QED BY <1>1, <2>1, CoversOlder DEF Past
<1>2. ASSUME NEW q \in 1..Sweeps, sweep[q].pc = "write"
      PROVE  Current(r, sweep[q].read[r]) \/ Older(sweep[q].read[r], d)
  <2>1. sweep[q].read[r] \in SearchDocuments
    BY <1>2 DEF SearchTypes, Sweep, NoSweep
  <2> QED BY <1>2, <2>1, CoversOlder DEF Past
<1> QED BY <1>1, <1>2, CoversCurrent, SafeBy

\* The write of a task leaves its row repaired.
LEMMA FineUpsert ==
    ASSUME SearchTypes, Chores, Past, [SearchNext]_searchVars, NEW c \in Changes, upsert(c),
           NEW r \in Rows, task[c].row = r, r \notin excused', Safe(r) \/ Will(c, r)
    PROVE  Safe(r)'
<1>1. PICK d \in SearchDocuments : d = task[c].read
  BY UpsertEffect
<1>2. /\ docs'[r] = d /\ rows'[r] = rows[r] /\ pair'.fp = pair.fp /\ task[c].pc = "write"
      /\ ~Older(d, docs[r])
  BY <1>1, UpsertEffect DEF Elsewhere, SearchTypes
<1>3. Current(r, d) /\ d.live
  BY <1>1, <1>2 DEF Safe, Will, Past
<1>4. Covers(r, d)
  BY <1>3 DEF Current, Covers
<1> QED BY <1>2, <1>4, CoversSafe

\* The delete of a task leaves its row repaired, or in doubt.
LEMMA FineDelete ==
    ASSUME SearchTypes, Chores, Past, Fence, [SearchNext]_searchVars, NEW c \in Changes,
           delete_documents(c), NEW r \in Rows, task[c].row = r, r \notin excused, r \notin excused',
           Safe(r) \/ Will(c, r)
    PROVE  Safe(r)' \/ Pend(r)'
<1>1. PICK d \in SearchDocuments : d.at = c /\ d.live = FALSE /\ d.schema = schema /\ d = docs'[r]
  <2>1. docs'[r] = [at |-> c, live |-> FALSE, schema |-> schema]
    BY DeleteEffect DEF SearchTypes
  <2>2. docs'[r] \in SearchDocuments
    BY TypesStep DEF SearchTypes
  <2> QED BY <2>1, <2>2
<1>2. /\ rows'[r] = rows[r] /\ pair' = pair /\ task[c].pc = "delete" /\ task[c].gen # 0
      /\ task'[c].row = r /\ task'[c].pc = "recheck" /\ task'[c].gen = task[c].gen
      /\ mode.default \/ c >= docs[r].at
  <2>1. PICK t : /\ task' = [task EXCEPT ![c] = t] /\ t.pc = "recheck"
                 /\ t.row = task[c].row /\ t.gen = task[c].gen
    BY DeleteEffect
  <2>2. task'[c] = t
    BY <2>1 DEF SearchTypes
  <2>3. ~(~mode.default /\ c < docs[r].at) /\ task[c].gen # 0 /\ UNCHANGED <<rows, pair>>
        /\ task[c].pc = "delete"
    BY DeleteEffect DEF Elsewhere
  <2> QED BY <2>1, <2>2, <2>3, PairTypes DEF Changes
<1>3. CASE task[c].gen # pair.gen
  <2>1. Doubt(c, r)'
    BY <1>2, <1>3 DEF Doubt
  <2> QED BY <2>1 DEF Pend
<1>4. CASE task[c].gen = pair.gen
  <2>1. c <= rows[r].at /\ (rows[r].at = c => ~rows[r].live) /\ c \in Nat /\ rows[r].at \in Nat
    BY <1>2, PairTypes DEF Past, PastWork, Changes
  <2>2. CASE c = rows[r].at
    <3>1. Covers(r, d)
      BY <1>1, <2>1, <2>2, PairTypes DEF Covers, Chores
    <3> QED BY <1>1, <1>2, <3>1, CoversSafe
  <2>3. CASE c # rows[r].at
    <3>1. ~mode.default /\ c >= docs[r].at
      BY <1>2, <1>4, <2>3 DEF Fence
    <3>2. Safe(r)
      BY <1>2, <2>3 DEF Will
    <3>3. rows[r].live = FALSE
      BY <2>1, <2>3, <3>1, <3>2, PairTypes DEF Safe, Current
    <3>4. \A w \in SearchDocuments : Older(w, docs[r]) => Older(w, d)
      <4>1. docs[r].at \in Nat /\ docs[r].schema \in Nat /\ schema \in Nat /\ docs[r].schema <= schema
        BY PairTypes DEF Past
      <4> QED BY <1>1, <2>1, <3>1, <4>1, DocumentTypes DEF Older
    <3>5. Current(r, d)
      BY <1>1, <3>3 DEF Current
    <3>6. ASSUME NEW e \in Changes, task[e].pc = "write", task[e].row = r
          PROVE  Current(r, task[e].read) \/ Older(task[e].read, d)
      <4>1. task[e].read \in SearchDocuments
        BY <3>6 DEF SearchTypes, Task, NoTask
      <4> QED BY <3>2, <3>4, <3>6, <4>1 DEF Safe
    <3>7. ASSUME NEW q \in 1..Sweeps, sweep[q].pc = "write"
          PROVE  Current(r, sweep[q].read[r]) \/ Older(sweep[q].read[r], d)
      <4>1. sweep[q].read[r] \in SearchDocuments
        BY <3>7 DEF SearchTypes, Sweep, NoSweep
      <4> QED BY <3>2, <3>4, <3>7, <4>1 DEF Safe
    <3> QED BY <1>1, <1>2, <3>5, <3>6, <3>7, SafeBy
  <2> QED BY <2>2, <2>3
<1> QED BY <1>3, <1>4

\* A rebuild that read the row as it is, or nothing older than the document.
LEMMA FineWrite ==
    ASSUME SearchTypes, Chores, Past, [SearchNext]_searchVars, NEW q \in 1..Sweeps, reindex_write(q),
           NEW r \in Rows, r \notin excused', Covers(r, sweep[q].read[r]) \/ (Safe(r) /\ Superseded(q))
    PROVE  Safe(r)'
<1>1. PICK d \in SearchDocuments : d = sweep[q].read[r]
  BY WriteEffect
<1>2. /\ docs'[r] = d /\ rows'[r] = rows[r] /\ pair'.fp = pair.fp /\ sweep[q].pc = "write"
      /\ Superseded(q) => ~Older(d, docs[r])
  BY <1>1, WriteEffect DEF Aside
<1>3. CASE Covers(r, d)
  BY <1>2, <1>3, CoversSafe
<1>4. CASE Safe(r) /\ ~Older(d, docs[r])
  <2>1. Current(r, d)
    BY <1>1, <1>2, <1>4 DEF Safe
  <2>2. \A w \in SearchDocuments : Older(w, docs[r]) => Older(w, d)
    BY <1>4, PairTypes, DocumentTypes DEF Older
  <2>3. ASSUME NEW e \in Changes, task[e].pc = "write", task[e].row = r
        PROVE  Current(r, task[e].read) \/ Older(task[e].read, d)
    <3>1. task[e].read \in SearchDocuments
      BY <2>3 DEF SearchTypes, Task, NoTask
    <3> QED BY <1>4, <2>2, <2>3, <3>1 DEF Safe
  <2>4. ASSUME NEW p \in 1..Sweeps, sweep[p].pc = "write"
        PROVE  Current(r, sweep[p].read[r]) \/ Older(sweep[p].read[r], d)
    <3>1. sweep[p].read[r] \in SearchDocuments
      BY <2>4 DEF SearchTypes, Sweep, NoSweep
    <3> QED BY <1>4, <2>2, <2>4, <3>1 DEF Safe
  <2> QED BY <1>2, <2>1, <2>3, <2>4, SafeBy
<1> QED BY <1>1, <1>2, <1>3, <1>4

\* Who writes a document that a task of its row would repair.
Repairs(r) == \E d \in Changes : task[d].row = r /\ Will(d, r) /\ (upsert(d) \/ delete_documents(d))

\* What repairs a row without a callback goes on, or writes.
LEMMA PendKept ==
    ASSUME SearchTypes, Committed, Chores, Past, [SearchNext]_searchVars, NEW r \in Rows, r \notin excused',
           rows'[r] = rows[r], pair.fp # 0, pair'.fp = pair.fp, pair'.gen = pair.gen, ~Marked(pair, pair'),
           Pend(r)
    PROVE  Pend(r)' \/ Repairs(r)
<1>1. PICK c \in Changes : Unmarked(c, r) \/ (mode.async /\ Will(c, r)) \/ Doubt(c, r)
  BY DEF Pend
<1>2. CASE Unmarked(c, r)
  <2>1. handoff'[c] = handoff[c]
    BY <1>2, MarksWaitStep DEF MarksWait, Unmarked
  <2>2. Unmarked(c, r)'
    BY <1>2, <2>1 DEF Unmarked
  <2> QED BY <2>2 DEF Pend
<1>3. CASE mode.async /\ Will(c, r)
  <2>1. Will(c, r)' \/ Goes(c)
    BY <1>3, ServesStep DEF Serves
  <2>2. CASE Will(c, r)'
    BY <1>3, <2>2, ModeStep DEF Pend
  <2>3. CASE Goes(c)
    BY <1>3, <2>3 DEF Goes, Repairs, Will
  <2> QED BY <2>1, <2>2, <2>3
<1>4. CASE Doubt(c, r)
  <2>1. task'[c] = task[c]
    BY <1>4, ServesStep DEF Serves
  <2>2. Doubt(c, r)'
    BY <1>4, <2>1 DEF Doubt
  <2> QED BY <2>2 DEF Pend
<1> QED BY <1>1, <1>2, <1>3, <1>4

\* So does a callback whose token may still clear the mark.
LEMMA OwnKept ==
    ASSUME SearchTypes, Committed, Chores, Past, [SearchNext]_searchVars, NEW r \in Rows, r \notin excused',
           rows'[r] = rows[r], pair.fp # 0, pair'.fp = pair.fp, ~Marked(pair, pair'),
           NEW c \in Changes, Own(c, r), handoff'[c].token.ack
    PROVE  Pend(r)' \/ Own(c, r)' \/ Repairs(r)
<1>1. handoff'[c] # NoHandoff /\ None \notin Rows /\ NoTask.row = None
  BY SearchAssumption DEF NoHandoff, NoToken, NoTask, None
<1>2. handoff[c].row = r /\ handoff[c].pc \in {"dispatch", "inline"}
  BY DEF Own
<1>3. Will(c, r) => Will(c, r)' \/ Repairs(r)
  BY <1>1, ServesStep DEF Serves, Goes, Repairs, Will
<1>4. CASE handoff'[c] = handoff[c]
  BY <1>2, <1>3, <1>4 DEF Own
<1>5. CASE Commits(c)
  <2>1. c = changes + 1 /\ c <= changes
    BY <1>2, <1>5 DEF Commits, Committed
  <2> QED BY <2>1, PairTypes
<1>6. CASE Advances(c) /\ handoff[c].pc = "dispatch"
  <2>1. /\ handoff'[c].pc = IF mode.async THEN "ack" ELSE "inline"
        /\ handoff'[c].row = r /\ task'[c].row = r /\ task[c] = NoTask /\ c = rows'[r].at
    BY <1>2, <1>6 DEF Advances, Chores, Own
  <2>2. task'[c].pc = "start"
    BY <1>1, <2>1, TasksStep DEF TasksKept
  <2>3. task'[c].kind \in {"index", "delete"}
    BY <1>1, <2>1, TypesStep DEF SearchTypes, Task
  <2>4. Will(c, r)'
    BY <2>1, <2>2, <2>3 DEF Will
  <2> QED BY <2>1, <2>4, ModeStep DEF Own, Pend
<1>7. CASE Advances(c) /\ handoff[c].pc = "inline"
  <2>1. task'[c] = NoTask
    BY <1>7 DEF Advances
  <2>2. ~Will(c, r)'
    BY <1>1, <2>1 DEF Will
  <2>3. Will(c, r)
    BY <1>7 DEF Own
  <2> QED BY <1>3, <2>2, <2>3
<1> QED BY <1>1, <1>2, <1>4, <1>5, <1>6, <1>7, HandoffsStep DEF HandoffsKept

\* A row that is repaired, or will be, stays so while nothing marks the pair.
LEMMA RowOn ==
    ASSUME SearchTypes, Committed, Chores, Past, Fence, [SearchNext]_searchVars, NEW r \in Rows,
           r \notin excused, r \notin excused', pair.fp # 0, pair'.fp = pair.fp, pair'.gen = pair.gen,
           ~Marked(pair, pair'),
           \A q \in 1..Sweeps : reindex_write(q) =>
             Covers(r, sweep[q].read[r]) \/ Superseded(q) \/ (\E c \in Changes : Unmarked(c, r))
    PROVE  /\ Safe(r) \/ Pend(r) => Safe(r)' \/ Pend(r)'
           /\ \A c \in Changes : Own(c, r) /\ handoff'[c].token.ack => Safe(r)' \/ Pend(r)' \/ Own(c, r)'
<1>1. CASE rows'[r] # rows[r]
  <2>1. PICK c \in Changes : Commits(c)
    BY <1>1, RowsChangeStep DEF RowsChange
  <2>2. handoff'[c].row = r
    BY <1>1, <2>1 DEF Commits
  <2>3. handoff'[c].pc = "mark" /\ c = rows'[r].at
    BY <2>1, <2>2 DEF Commits
  <2>4. Unmarked(c, r)'
    BY <2>2, <2>3 DEF Unmarked
  <2> QED BY <2>4 DEF Pend
<1>2. CASE rows'[r] = rows[r]
  <2>1. Repairs(r) => Safe(r)' \/ Pend(r)'
    BY FineUpsert, FineDelete DEF Repairs
  <2>2. Pend(r) => Safe(r)' \/ Pend(r)'
    BY <1>2, <2>1, PendKept
  <2>3. \A c \in Changes : Own(c, r) /\ handoff'[c].token.ack => Safe(r)' \/ Pend(r)' \/ Own(c, r)'
    BY <1>2, <2>1, OwnKept
  <2>4. ASSUME Safe(r) PROVE Safe(r)' \/ Pend(r)'
    <3>1. CASE docs'[r] = docs[r]
      BY <1>2, <2>4, <3>1, SafeBy DEF Safe
    <3>2. CASE \E c \in Changes : task[c].row = r /\ (upsert(c) \/ delete_documents(c))
      BY <2>4, <3>2, FineUpsert, FineDelete
    <3>3. CASE \E q \in 1..Sweeps : reindex_write(q)
      <4>1. PICK q \in 1..Sweeps : reindex_write(q)
        BY <3>3
      <4>2. CASE Covers(r, sweep[q].read[r]) \/ Superseded(q)
        BY <2>4, <4>1, <4>2, FineWrite
      <4>3. CASE \E c \in Changes : Unmarked(c, r)
        BY <2>2, <4>3 DEF Pend
      <4> QED BY <4>1, <4>2, <4>3
    <3> QED BY <3>1, <3>2, <3>3, TouchedStep DEF Touched
  <2> QED BY <2>2, <2>3, <2>4
<1> QED BY <1>1, <1>2

\* A rebuild that may still clear the mark read every row as it is, or the row
\* changed in another database and its mark is on its way.
ExactReads ==
    \A q \in 1..Sweeps : sweep[q].pc = "write" /\ clear_dirty(q) =>
      \A r \in Rows \ excused : (\E c \in Changes : Unmarked(c, r)) \/ Covers(r, sweep[q].read[r])

\* A sweep that is about to end the mark.
ClearReady(q) == sweep[q].pc = "clear" /\ clear_dirty(q)

\* A clean pair, or one about to be cleaned, has no row that nothing repairs.
FineClean ==
    pair.fp # 0 /\ (~pair.dirty \/ \E q \in 1..Sweeps : ClearReady(q)) =>
      \A r \in Rows \ excused : Safe(r) \/ Pend(r)

\* Nor has one whose mark is about to be acknowledged.
FineAck ==
    \A c \in Changes : AckReady(c) => \A r \in Rows \ excused : Safe(r) \/ Pend(r) \/ Own(c, r)

\* The claim and the generation of a sweep that may clear were its own before.
LEMMA ClearBefore ==
    ASSUME SearchTypes, Bounded, [SearchNext]_searchVars, NEW q \in 1..Sweeps, clear_dirty(q)',
           sweep[q].pc # "idle", sweep'[q].token = sweep[q].token, sweep'[q].gen = sweep[q].gen
    PROVE  clear_dirty(q) /\ pair'.gen = pair.gen /\ ~Marked(pair, pair') /\ pair'.claim # 0
<1>1. pair'.claim = sweep[q].token /\ pair'.gen = sweep[q].gen /\ sweep[q].token # 0
  BY GenNat DEF clear_dirty
<1>2. pair.claim = sweep[q].token
  BY <1>1, ClaimStep DEF ClaimMoves
<1>3. pair'.gen = pair.gen /\ ~Marked(pair, pair')
  BY <1>1, GenStep, GenNat DEF GenMoves, Bounded
<1> QED BY <1>1, <1>2, <1>3 DEF clear_dirty

LEMMA ExactReadsStep ==
    SearchTypes /\ Committed /\ Bounded /\ Chores /\ ExactReads /\ [SearchNext]_searchVars => ExactReads'
<1> SUFFICES ASSUME SearchTypes, Committed, Bounded, Chores, ExactReads, [SearchNext]_searchVars,
                    NEW q \in 1..Sweeps, sweep'[q].pc = "write", clear_dirty(q)',
                    NEW r \in Rows, r \notin excused'
             PROVE  (\E c \in Changes : Unmarked(c, r)') \/ Covers(r, sweep[q].read[r])'
  BY DEF ExactReads
<1>1. CASE /\ sweep[q].pc = "write" /\ sweep'[q].token = sweep[q].token
           /\ sweep'[q].gen = sweep[q].gen /\ sweep'[q].read = sweep[q].read
  <2>1. clear_dirty(q) /\ ~Marked(pair, pair') /\ pair'.claim # 0
    BY <1>1, ClearBefore
  <2>2. r \notin excused
    BY <2>1, ExcusedStep DEF ExcusedKept
  <2>3. pair'.fp = pair.fp
    BY <2>1, PairStep DEF PairMoves
  <2>4. CASE rows'[r] # rows[r]
    <3>1. PICK c \in Changes : Commits(c)
      BY <2>4, RowsChangeStep DEF RowsChange
    <3>2. handoff'[c].row = r /\ handoff'[c].pc = "mark" /\ c = rows'[r].at
      BY <2>1, <2>4, <3>1 DEF Commits
    <3> QED BY <3>2 DEF Unmarked
  <2>5. CASE rows'[r] = rows[r]
    <3>1. CASE Covers(r, sweep[q].read[r])
      BY <1>1, <2>3, <2>5, <3>1 DEF Covers
    <3>2. ASSUME NEW c \in Changes, Unmarked(c, r) PROVE Unmarked(c, r)'
      <4>1. handoff'[c] = handoff[c]
        BY <2>1, <3>2, MarksWaitStep DEF MarksWait, Unmarked
      <4> QED BY <2>5, <3>2, <4>1 DEF Unmarked
    <3> QED BY <1>1, <2>1, <2>2, <3>1, <3>2 DEF ExactReads
  <2> QED BY <2>4, <2>5
<1>2. CASE /\ UNCHANGED <<rows, schema, pair>>
           /\ sweep'[q].read[r] = [at |-> rows[r].at, live |-> rows[r].live, schema |-> schema]
  <2>1. schema >= pair.fp
    BY PairTypes DEF Chores
  <2>2. PICK d : d = sweep'[q].read[r]
    OBVIOUS
  <2>3. d.at = rows'[r].at /\ d.live = rows'[r].live /\ d.schema >= pair'.fp
    BY <1>2, <2>1, <2>2
  <2> QED BY <2>2, <2>3 DEF Covers
<1> QED BY <1>1, <1>2, ReadsStep DEF ReadsKept

\* What a step leaves alone stays repaired.
LEMMA FineStill ==
    ASSUME SearchTypes, Chores, [SearchNext]_searchVars, NEW r \in Rows, UNCHANGED <<docs, task, sweep>>,
           rows'[r] = rows[r], pair'.fp = pair.fp, pair'.gen \in {pair.gen, pair.gen + 1},
           \A d \in Changes : Unmarked(d, r) => handoff'[d] = handoff[d],
           Safe(r) \/ Pend(r)
    PROVE  Safe(r)' \/ Pend(r)'
<1>1. CASE Safe(r)
  BY <1>1, SafeBy DEF Safe
<1>2. CASE Pend(r)
  <2>1. PICK c \in Changes : Unmarked(c, r) \/ (mode.async /\ Will(c, r)) \/ Doubt(c, r)
    BY <1>2 DEF Pend
  <2>2. Unmarked(c, r) => Unmarked(c, r)'
    BY DEF Unmarked
  <2>3. Will(c, r) => Will(c, r)'
    BY ServesOne
  <2>4. Doubt(c, r) => Doubt(c, r)'
    <3>1. task[c].gen \in Nat /\ pair.gen \in Nat /\ task[c].gen <= pair.gen
      BY PairTypes DEF Chores
    <3> QED BY <3>1 DEF Doubt
  <2> QED BY <2>1, <2>2, <2>3, <2>4, ModeStep DEF Pend
<1> QED BY <1>1, <1>2

\* The first mark of a clean pair leaves only its own row behind.
LEMMA NewTokenFine ==
    ASSUME SearchTypes, Committed, Bounded, Chores, FineClean, [SearchNext]_searchVars,
           NEW c \in Changes, NewToken(c), handoff'[c].token.ack, NEW r \in Rows, r \notin excused'
    PROVE  Safe(r)' \/ Pend(r)' \/ Own(c, r)'
<1>1. /\ Marked(pair, pair') /\ handoff'[c].token.gen = pair'.gen /\ ~pair.dirty /\ pair'.fp = pair.fp
      /\ pair'.gen = pair.gen + 1 /\ pair'.dirty /\ pair.fp # 0
  BY DEF NewToken, Marked
<1>2. r \notin excused
  BY <1>1, ExcusedStep DEF ExcusedKept
<1>3. Safe(r) \/ Pend(r)
  BY <1>1, <1>2 DEF FineClean
<1>4. handoff'[c].token # handoff[c].token /\ handoff'[c] # NoHandoff
  <2>1. handoff[c].token.gen <= pair.gen /\ handoff[c].token.gen \in Nat /\ pair.gen \in Nat
    BY GenNat DEF Bounded
  <2>2. handoff'[c].token.gen # handoff[c].token.gen
    BY <1>1, <2>1
  <2> QED BY <2>2 DEF NoHandoff, NoToken
<1>5. CASE Commits(c)
  <2>1. /\ UNCHANGED <<docs, task, sweep>> /\ handoff'[c].pc = "dispatch"
        /\ c = rows'[handoff'[c].row].at /\ c = changes + 1
        /\ \A s \in Rows : s # handoff'[c].row => rows'[s] = rows[s]
        /\ \A d \in Changes \ {c} : handoff'[d] = handoff[d]
    <3>1. pair' # pair
      BY <1>1
    <3> QED BY <1>5, <3>1 DEF Commits
  <2>2. CASE r = handoff'[c].row
    BY <2>1, <2>2 DEF Own
  <2>3. CASE r # handoff'[c].row
    <3>1. ~Unmarked(c, r)
      BY <2>1, PairTypes DEF Unmarked, Committed
    <3> QED BY <1>1, <1>3, <2>1, <2>3, <3>1, FineStill
  <2> QED BY <2>2, <2>3
<1>6. CASE Advances(c)
  <2>1. /\ UNCHANGED <<rows, docs, task, sweep>> /\ handoff'[c].pc = "dispatch"
        /\ handoff'[c].row = handoff[c].row
        /\ \A d \in Changes \ {c} : handoff'[d] = handoff[d]
    BY <1>4, <1>6 DEF Advances
  <2>2. CASE Unmarked(c, r)
    BY <2>1, <2>2 DEF Own, Unmarked
  <2>3. CASE ~Unmarked(c, r)
    BY <1>1, <1>3, <2>1, <2>3, FineStill
  <2> QED BY <2>2, <2>3
<1> QED BY <1>4, <1>5, <1>6, HandoffsStep DEF HandoffsKept

LEMMA FineCleanStep ==
    SearchTypes /\ Committed /\ Bounded /\ Chores /\ Past /\ Fence /\ ExactReads /\ FineClean /\ FineAck
    /\ [SearchNext]_searchVars => FineClean'
<1> SUFFICES ASSUME SearchTypes, Committed, Bounded, Chores, Past, Fence, ExactReads, FineClean, FineAck,
                    [SearchNext]_searchVars, pair'.fp # 0,
                    ~pair'.dirty \/ (\E q \in 1..Sweeps : ClearReady(q)'),
                    NEW r \in Rows, r \notin excused'
             PROVE  Safe(r)' \/ Pend(r)'
  BY DEF FineClean
\* A sweep that is ready was ready, or has just written.
<1>1. ASSUME NEW q \in 1..Sweeps, ClearReady(q)'
      PROVE  /\ clear_dirty(q) /\ pair'.gen = pair.gen /\ ~Marked(pair, pair') /\ pair'.claim # 0
             /\ sweep[q].pc = "clear" \/ (sweep[q].pc = "write" /\ reindex_write(q))
  <2>1. sweep'[q].pc = "clear" /\ clear_dirty(q)'
    BY <1>1 DEF ClearReady
  <2>2. /\ sweep[q].pc = "clear" \/ (sweep[q].pc = "write" /\ reindex_write(q))
        /\ sweep'[q].token = sweep[q].token /\ sweep'[q].gen = sweep[q].gen
    BY <2>1, ReadsStep DEF ReadsKept
  <2> QED BY <2>1, <2>2, ClearBefore
<1>2. ~Marked(pair, pair')
  BY <1>1 DEF Marked
<1>3. pair'.fp = pair.fp
  BY <1>2, PairStep DEF PairMoves
<1>4. pair'.gen = pair.gen
  <2>1. CASE \E q \in 1..Sweeps : ClearReady(q)'
    BY <1>1, <2>1
  <2>2. CASE ~pair'.dirty
    BY <1>2, <2>2, PairStep DEF PairMoves, Chores
  <2> QED BY <2>1, <2>2
<1>5. CASE r \in excused
  <2>1. /\ Current(r, docs[r]) /\ rows'[r] = rows[r] /\ docs'[r] = docs[r]
        /\ \A c \in Changes : task[c].row # r
        /\ \A q \in 1..Sweeps : sweep[q].pc # "write"
    BY <1>5, ExcusedStep DEF ExcusedKept
  <2> QED BY <1>3, <2>1, SafeBy
<1>6. CASE r \notin excused
  <2>1. ASSUME NEW q \in 1..Sweeps, reindex_write(q)
        PROVE  Covers(r, sweep[q].read[r]) \/ Superseded(q) \/ (\E c \in Changes : Unmarked(c, r))
    <3>1. sweep[q].pc = "write" /\ sweep[q].token # 0 /\ UNCHANGED pair
      BY <2>1, WriteEffect, GenNat
    <3>2. CASE ~pair.dirty
      BY <3>1, <3>2 DEF Chores, Superseded
    <3>3. CASE \E p \in 1..Sweeps : ClearReady(p)'
      <4>1. PICK p \in 1..Sweeps : ClearReady(p)'
        BY <3>3
      <4>2. CASE p = q
        BY <1>1, <1>6, <3>1, <4>1, <4>2 DEF ExactReads
      <4>3. CASE p # q
        <5>1. sweep[p].token = pair.claim
          BY <1>1, <4>1 DEF clear_dirty
        <5>2. sweep[p].token # sweep[q].token
          BY <3>1, <4>3 DEF Bounded
        <5> QED BY <5>1, <5>2 DEF Superseded
      <4> QED BY <4>2, <4>3
    <3> QED BY <3>1, <3>2, <3>3
  <2>2. Safe(r) \/ Pend(r) => Safe(r)' \/ Pend(r)'
    BY <1>2, <1>3, <1>4, <1>6, <2>1, RowOn
  <2>3. CASE ~pair.dirty
    BY <1>3, <1>6, <2>2, <2>3 DEF FineClean
  <2>4. CASE \E q \in 1..Sweeps : ClearReady(q)
    BY <1>3, <1>6, <2>2, <2>4 DEF FineClean
  <2>5. CASE pair.dirty /\ ~pair'.dirty /\ \E c \in Changes : AckReady(c) /\ handoff[c].pc = "ack"
    <3>1. PICK c \in Changes : AckReady(c) /\ handoff[c].pc = "ack"
      BY <2>5
    <3>2. ~Own(c, r)
      BY <3>1 DEF Own
    <3> QED BY <1>6, <2>2, <3>1, <3>2 DEF FineAck
  <2>6. CASE \E q \in 1..Sweeps : sweep[q].pc = "write" /\ clear_dirty(q) /\ reindex_write(q)
    <3>1. PICK q \in 1..Sweeps : sweep[q].pc = "write" /\ clear_dirty(q) /\ reindex_write(q)
      BY <2>6
    <3>2. CASE Covers(r, sweep[q].read[r])
      BY <3>1, <3>2, FineWrite
    <3>3. CASE \E c \in Changes : Unmarked(c, r)
      BY <2>2, <3>3 DEF Pend
    <3> QED BY <1>6, <3>1, <3>2, <3>3 DEF ExactReads
  <2>7. pair.dirty /\ ~pair'.dirty =>
          \/ \E c \in Changes : AckReady(c) /\ handoff[c].pc = "ack"
          \/ \E q \in 1..Sweeps : ClearReady(q)
    BY CleansStep DEF Cleans, ClearReady
  <2>8. (\E q \in 1..Sweeps : ClearReady(q)') =>
          \/ \E q \in 1..Sweeps : ClearReady(q)
          \/ \E q \in 1..Sweeps : sweep[q].pc = "write" /\ clear_dirty(q) /\ reindex_write(q)
    BY <1>1 DEF ClearReady
  <2> QED BY <2>3, <2>4, <2>5, <2>6, <2>7, <2>8
<1> QED BY <1>5, <1>6

LEMMA FineAckStep ==
    SearchTypes /\ Committed /\ Bounded /\ Chores /\ Past /\ Fence /\ ClaimedFresh /\ ExactReads
    /\ FineClean /\ FineAck /\ [SearchNext]_searchVars => FineAck'
<1> SUFFICES ASSUME SearchTypes, Committed, Bounded, Chores, Past, Fence, ClaimedFresh, ExactReads,
                    FineClean, FineAck, [SearchNext]_searchVars,
                    NEW c \in Changes, AckReady(c)', NEW r \in Rows, r \notin excused'
             PROVE  Safe(r)' \/ Pend(r)' \/ Own(c, r)'
  BY DEF FineAck
<1>1. handoff'[c].token.ack /\ handoff'[c].token.gen = pair'.gen /\ pair'.dirty
  BY DEF AckReady, Stamped
<1>2. CASE NewToken(c)
  BY <1>1, <1>2, NewTokenFine
<1>3. CASE handoff'[c].token = handoff[c].token
  <2>1. pair'.gen = pair.gen /\ ~Marked(pair, pair')
    BY <1>1, <1>3, GenStep, GenNat DEF GenMoves, Bounded
  <2>2. pair.dirty /\ pair.fp # 0
    BY <1>1, <2>1, ChangedStep DEF ChangedKept, Chores
  <2>3. AckReady(c)
    BY <1>1, <1>3, <2>1, <2>2 DEF AckReady, Stamped
  <2>4. r \notin excused
    BY <1>1, ExcusedStep DEF ExcusedKept
  <2>5. pair'.fp = pair.fp
    BY <2>1, PairStep DEF PairMoves
  <2>6. ASSUME NEW q \in 1..Sweeps, reindex_write(q)
        PROVE  Covers(r, sweep[q].read[r]) \/ Superseded(q) \/ (\E d \in Changes : Unmarked(d, r))
    <3>1. sweep[q].pc = "write" /\ sweep[q].token # 0
      BY <2>6, WriteEffect, GenNat
    <3>2. CASE ~Superseded(q)
      <4>1. pair.claim = sweep[q].token /\ pair.claim # 0
        BY <3>1, <3>2 DEF Superseded
      <4>2. clear_dirty(q)
        BY <2>3, <4>1 DEF ClaimedFresh, clear_dirty
      <4> QED BY <2>4, <3>1, <4>2 DEF ExactReads
    <3> QED BY <3>2
  <2>7. Safe(r) \/ Pend(r) \/ Own(c, r)
    BY <2>3, <2>4 DEF FineAck
  <2> QED BY <1>1, <2>1, <2>2, <2>4, <2>5, <2>6, <2>7, RowOn
<1>4. CASE handoff'[c].token = NoToken
  BY <1>1, <1>4 DEF NoToken
<1> QED BY <1>2, <1>3, <1>4, TokensStep DEF TokensKept

\* The inductive invariant of a current index.
SearchInv ==
    /\ MarksInv /\ Chores /\ Past /\ Fence /\ ClaimedFresh
    /\ ExactReads /\ FineClean /\ FineAck

LEMMA SearchInvInit == SearchInit => SearchInv
<1> SUFFICES ASSUME SearchInit PROVE SearchInv
  OBVIOUS
<1>1. MarksInv
  BY MarksInit
<1>2. /\ pair.gen = 0 /\ ~pair.dirty /\ pair.claim = 0 /\ schema = 1 /\ changes = 0
      /\ \A r \in Rows : rows[r].at = 0 /\ rows[r].live = TRUE
  BY DEF SearchInit
<1>3. \A c \in Changes : handoff[c] = NoHandoff /\ task[c] = NoTask
  BY DEF SearchInit
<1>4. \A q \in 1..Sweeps : sweep[q] = NoSweep
  BY DEF SearchInit
<1>5. /\ NoHandoff.pc = "idle" /\ NoHandoff.row \notin Rows
      /\ NoTask.pc = "idle" /\ NoTask.row \notin Rows /\ NoTask.gen = 0 /\ NoSweep.pc = "idle"
  BY SearchAssumption DEF NoHandoff, NoTask, NoSweep, None
<1>6. PICK known \in BOOLEAN :
         /\ pair.fp = IF known THEN 1 ELSE 0
         /\ \A r \in Rows : docs[r].at = 0 /\ docs[r].live = known /\ docs[r].schema = 1
  <2>1. PICK known \in BOOLEAN :
         /\ pair = [fp |-> IF known THEN 1 ELSE 0, dirty |-> FALSE, reason |-> None, gen |-> 0,
                    claim |-> 0, live |-> FALSE]
         /\ docs = [r \in Rows |-> [at |-> 0, live |-> known, schema |-> 1]]
    BY DEF SearchInit
  <2> QED BY <2>1
<1>7. Chores
  BY <1>2, <1>3, <1>5, <1>6 DEF Chores
<1>8. Past
  BY <1>2, <1>3, <1>4, <1>5, <1>6 DEF Past
<1>9. Fence /\ ClaimedFresh /\ ExactReads /\ FineAck
  BY <1>2, <1>3, <1>4, <1>5 DEF Fence, ClaimedFresh, ExactReads, FineAck, AckReady
<1>10. FineClean
  <2> SUFFICES ASSUME pair.fp # 0, NEW r \in Rows PROVE Safe(r)
    BY DEF FineClean
  <2>3. known = TRUE
    BY <1>6
  <2>1. docs[r].at = 0 /\ docs[r].live = TRUE /\ docs[r].schema = 1 /\ pair.fp = 1
    BY <1>6, <2>3
  <2>2. Current(r, docs[r])
    <3>1. rows[r].live \in BOOLEAN /\ docs[r].live \in BOOLEAN
      BY <1>1, PairTypes DEF MarksInv
    <3> QED BY <1>2, <2>1, <3>1 DEF Current
  <2> QED BY <1>3, <1>4, <1>5, <2>2 DEF Safe
<1> QED BY <1>1, <1>7, <1>8, <1>9, <1>10 DEF SearchInv

LEMMA SearchInvStep == SearchInv /\ [SearchNext]_searchVars => SearchInv'
<1> SUFFICES ASSUME SearchInv, [SearchNext]_searchVars PROVE SearchInv'
  OBVIOUS
<1>1. MarksInv'
  BY MarksStep DEF SearchInv
<1>2. SearchTypes /\ Committed /\ Bounded
  BY DEF SearchInv, MarksInv
<1>3. \A c \in Changes : task[c].row \in Rows => c <= rows[task[c].row].at
  BY DEF SearchInv, Past, PastWork
<1>4. Chores' /\ Past' /\ Fence' /\ ClaimedFresh'
  BY <1>2, <1>3, ChoresStep, PastStep, FenceStep, ClaimedFreshStep DEF SearchInv
<1>5. ExactReads' /\ FineClean' /\ FineAck'
  BY <1>2, ExactReadsStep, FineCleanStep, FineAckStep DEF SearchInv
<1> QED BY <1>1, <1>4, <1>5 DEF SearchInv

\* What repairs a row is at work on it.
LEMMA CleanWhenFine == SearchInv => SearchSound
<1> SUFFICES ASSUME SearchInv PROVE SearchSound
  OBVIOUS
<1>1. SearchTypeOK
  BY TypesSound DEF SearchInv, MarksInv
<1>2. ASSUME pair.fp # 0, ~pair.dirty, NEW r \in Rows \ excused, ~Writing(r)
      PROVE  Current(r, docs[r])
  <2>1. ~Pend(r)
    BY <1>2 DEF Pend, Unmarked, Will, Doubt, Writing
  <2> QED BY <1>2, <2>1 DEF SearchInv, FineClean, Safe
<1> QED BY <1>1, <1>2 DEF SearchSound, CleanIsCurrent

\* Once a pair is clean and no work on a row is left, its document says what the
\* row says, unless work was lost or overtaken, with any number of rows, changes,
\* sweeps, failures and deployments (search/invalidation.py, async_tasks.py,
\* reconciliation.py).
THEOREM SearchSoundCorrect == SearchSpec => []SearchSound
BY SearchInvInit, SearchInvStep, CleanWhenFine, PTL DEF SearchSpec
=============================================================================
