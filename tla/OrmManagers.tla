----------------------------- MODULE OrmManagers -----------------------------
(***************************************************************************)
(* A row of an ORM interface, its history and the manager objects that one *)
(* application thread makes of it, while another process writes the row    *)
(* through the same code (manager/general_manager.py, as_of.py,            *)
(* cache/signals.py, interface/capabilities/orm: mutations, history, the   *)
(* reading part of support).  The application may hold an atomic block of  *)
(* its own, a calculation run and a historical context.                    *)
(*                                                                         *)
(* A row carries the number of the write that stored it.  A statement runs *)
(* in the transaction of its thread; the one that writes the row keeps it  *)
(* locked until that transaction ends.                                     *)
(***************************************************************************)
EXTENDS Integers, Sequences, FiniteSets, SequencesExt

CONSTANTS
  Objects,        \* the manager objects the application keeps
  Targets,        \* the rows a many-to-many field can refer to
  Calls,          \* who calls with which comment: [by, why], "none" without one
  SoftDelete,     \* whether the interface deactivates instead of deleting
  LookupBuffer,   \* historical_lookup_buffer_seconds, in ticks
  MaxNow, MaxOrmWrites   \* bounds of the exploration

VARIABLES
  now,       \* the clock
  db,        \* committed data: the row and its history, oldest record first
  tx,        \* the application's transaction: enclosing states and the current one
  op,        \* the create, update or delete under way
  obj,       \* the manager objects
  run,       \* the calculation run: rows it has read, by search date
  asof,      \* the active historical context, NoDate without one
  log        \* what happened: committed writes, who wrote last, what was shown

ormVars == <<now, db, tx, op, obj, run, asof, log>>

NoDate == -1
Dates == 0 .. MaxNow
NoRow == [here |-> FALSE, ver |-> 0, active |-> FALSE, links |-> {}]
Nobody == [by |-> "none", why |-> "none"]
NoOp == [at |-> "idle"]
NoObj == [state |-> "none", date |-> NoDate, shows |-> NoRow, settled |-> FALSE, own |-> 0]

OrmInit ==
  /\ now = 0
  /\ db = [row |-> NoRow, hist |-> <<>>]
  /\ tx = <<>>
  /\ op = NoOp
  /\ obj = [o \in Objects |-> NoObj]
  /\ run = [active |-> FALSE, memo |-> [d \in {} |-> NoRow]]
  /\ asof = NoDate
  /\ log = [next |-> 1, done |-> {}, own |-> 0, last |-> Nobody, pending |-> Nobody,
            views |-> [d \in Dates |-> {}]]

-----------------------------------------------------------------------------
(* Transactions.  tx is the stack of what each open block would restore,    *)
(* with the data as this thread sees it on top.                             *)

InTx == tx # <<>>
Seen == IF InTx THEN Last(tx) ELSE db
Locked == InTx /\ Last(tx).row.ver # db.row.ver

\* A run remembers what is read inside of the application's block.
MemoInBlocks == FALSE

\* connection.atomic_blocks without the wrappers of test cases.
_connection_has_application_atomic_block == InTx

Begin == tx' = IF InTx THEN Append(tx, Last(tx)) ELSE <<db, db>>

Write(data) == tx' = [tx EXCEPT ![Len(tx)] = data]

\* The end of the innermost block: its data become those of the enclosing one.
Leaves(data) == IF Len(tx) = 2 THEN <<>> ELSE Append(SubSeq(tx, 1, Len(tx) - 2), data)
Restored == tx[Len(tx) - 1]

\* One historical record, written with the row's values by a statement.
Record(type, row, by, why) ==
  [type |-> type, ver |-> row.ver, active |-> row.active, links |-> row.links,
   date |-> now, by |-> by, why |-> why]

\* update_change_reason: the newest record with the instance's values.
update_change_reason(hist, row, why) ==
  LET same == {i \in DOMAIN hist : hist[i].ver = row.ver /\ hist[i].active = row.active}
  IN  IF why = "none" THEN hist
      ELSE [hist EXCEPT ![CHOOSE i \in same : \A j \in same : j <= i].why = why]

\* set() removes what is no longer referred to, then adds what is new; each of
\* the two that changes something leaves a record.
SetLinks(data, links, by) ==
  LET row == data.row
      kept == [row EXCEPT !.links = row.links \intersect links]
      full == [row EXCEPT !.links = links]
      removed == IF kept = row THEN <<>> ELSE <<Record("~", kept, by, "none")>>
      added == IF full = kept THEN <<>> ELSE <<Record("~", full, by, "none")>>
  IN  [row |-> full, hist |-> data.hist \o removed \o added]

-----------------------------------------------------------------------------
(* Reading.                                                                 *)

\* Every date is answered from the history at once.
NoBuffer(d) == d # NoDate /\ d <= now

\* get_data: a date older than the buffer is answered from the history, any
\* other one by the current row.
Settled(d) == d # NoDate /\ d <= now - LookupBuffer

get_historical_record(data, d) ==
  LET older == SelectSeq(data.hist, LAMBDA h : h.date <= d) IN
  IF older = <<>> THEN NoRow
  ELSE [here |-> TRUE, ver |-> Last(older).ver, active |-> Last(older).active,
        links |-> Last(older).links]

Loaded(d) == IF Settled(d) THEN get_historical_record(Seen, d) ELSE Seen.row

\* OrmReadCapability.get_data: a run remembers the instance, unless the
\* application is inside an atomic block.
UsesMemo == run.active /\ ~ _connection_has_application_atomic_block
get_data(d) == IF UsesMemo /\ d \in DOMAIN run.memo THEN run.memo[d] ELSE Loaded(d)

Remembered(d) ==
  IF UsesMemo /\ Loaded(d).here /\ d \notin DOMAIN run.memo
  THEN [run EXCEPT !.memo = [e \in DOMAIN @ \union {d} |->
                               IF e = d THEN Loaded(d) ELSE @[e]]]
  ELSE run

\* An update leaves the remembered instance in the run.
DiscardNothing == run

\* discard_orm_instance_cache, for every search date.
Discarded == [run EXCEPT !.memo = [d \in {} |-> NoRow]]

\* resolve_search_date: an explicit date in a context has to be the context's.
resolve_search_date(d) == IF d = NoDate THEN asof ELSE d
DatesAllowed(d) == d = NoDate \/ asof = NoDate \/ d = asof

\* A date that is past the buffer when it is read from the database; a run that
\* lasts longer than the buffer still shows what it read before.
ReadSettled(d) == Settled(d) /\ ~ (UsesMemo /\ d \in DOMAIN run.memo)

Shown(l, d, row) == IF ReadSettled(d) THEN [l EXCEPT !.views[d] = @ \union {row}] ELSE l

Object(date, row, own) ==
  [state |-> "valid", date |-> date, shows |-> row, settled |-> ReadSettled(date),
   own |-> own]

Loads(o, date) ==
  /\ op.at = "idle" /\ get_data(date).here
  /\ obj' = [obj EXCEPT ![o] = Object(date, get_data(date), 0)]
  /\ run' = Remembered(date)
  /\ log' = Shown(log, date, get_data(date))
  /\ UNCHANGED <<now, db, tx, op, asof>>

\* GeneralManager.__init__ and the interface's: cls(pk) or cls(pk, search_date).
Construct(o, d) ==
  DatesAllowed(d) /\ d <= now /\ Loads(o, resolve_search_date(d))

\* A bucket of a settled date lists the newest record of a row, unless it is the
\* one of its deletion; its objects are hydrated from it.
latest_historical_instances(data, d) ==
  LET older == SelectSeq(data.hist, LAMBDA h : h.date <= d) IN
  IF older # <<>> /\ Last(older).type # "-" THEN {get_historical_record(data, d)} ELSE {}

_from_trusted_orm_instance(o, d) ==
  LET date == resolve_search_date(d) IN
  /\ op.at = "idle" /\ DatesAllowed(d) /\ Settled(date)
  /\ \E row \in latest_historical_instances(Seen, date) :
       /\ obj' = [obj EXCEPT ![o] = [Object(date, row, 0) EXCEPT !.settled = TRUE]]
       /\ log' = [log EXCEPT !.views[date] = @ \union {row}]
  /\ UNCHANGED <<now, db, tx, op, run, asof>>

\* __reduce__ and _reconstruct_general_manager: the copy is read again with the
\* effective date of the original, in a context of the same date only.
Unpickle(o, p) ==
  /\ obj[p].state # "none"
  /\ asof = NoDate \/ obj[p].date = asof
  /\ Loads(o, obj[p].date)

\* A context does not check the date of the objects read in it.
AnyDateReadable(o) == TRUE

\* _ensure_as_of_compatible and _ensure_manager_state_valid, before a read.
_ensure_as_of_compatible(o) == asof = NoDate \/ obj[o].date = asof
_ensure_manager_state_valid(o) == _ensure_as_of_compatible(o) /\ obj[o].state = "valid"

\* resolve_many_to_many: the relations of an object are read when it is asked for
\* them, those of a record for good.
resolve_many_to_many(o) ==
  IF obj[o].settled THEN obj[o].shows.links
  ELSE IF obj[o].date = NoDate THEN Seen.row.links
  ELSE get_historical_record(Seen, obj[o].date).links

-----------------------------------------------------------------------------
(* Writing: data_change around create, update and delete.                   *)

reject_historical_mutation == asof # NoDate

\* The call enters data_change: its block is opened, the row is read there.
StartCall(kind, o, links, call) ==
  /\ op.at = "idle" /\ ~ reject_historical_mutation
  /\ log.next <= MaxOrmWrites
  /\ Begin
  /\ op' = [at |-> "loaded", kind |-> kind, obj |-> o, links |-> links,
            by |-> call.by, why |-> call.why, row |-> Seen.row]
  /\ UNCHANGED <<now, db, obj, run, asof, log>>

\* GeneralManager.create: a row is created once, its key is never used again.
Create(o, links, call) ==
  Seen.hist = <<>> /\ StartCall("create", o, links, call)

\* GeneralManager.update and delete read the row again with manager.get.
Change(kind, o, links, call) ==
  /\ obj[o].state = "valid" /\ Seen.row.here
  /\ StartCall(kind, o, links, call)

\* save_with_history: the actor is assigned, the row validated and saved with
\* all its fields; simple-history adds a record of the same values.
SavedRow ==
  [here |-> op.kind # "delete" \/ SoftDelete, ver |-> log.next,
   active |-> op.kind = "create" \/ (op.kind = "update" /\ op.row.active),
   links |-> IF op.kind = "create" \/ (op.kind = "delete" /\ ~ SoftDelete)
             THEN {} ELSE Seen.row.links]

HistoryType == CASE op.kind = "create" -> "+"
                 [] op.kind = "delete" /\ ~ SoftDelete -> "-"
                 [] OTHER -> "~"

\* A deletion always has a comment; a hard one hands it to the record it leaves,
\* the others leave theirs to update_change_reason.
Comment == IF op.kind = "delete" THEN "deleted" ELSE op.why

save_with_history ==
  /\ op.at = "loaded"
  /\ Write([row |-> SavedRow,
            hist |-> Append(Seen.hist, Record(HistoryType, SavedRow, op.by,
                                              IF SavedRow.here THEN "none" ELSE Comment))])
  /\ op' = [op EXCEPT !.at = IF SavedRow.here THEN "saved" ELSE "written", !.row = SavedRow]
  /\ log' = [log EXCEPT !.next = @ + 1]
  /\ UNCHANGED <<now, db, obj, run, asof>>

CommentSave ==
  /\ op.at = "saved"
  /\ Write([Seen EXCEPT !.hist = update_change_reason(@, op.row, Comment)])
  /\ op' = [op EXCEPT !.at = IF op.kind = "delete" THEN "written" ELSE "commented"]
  /\ UNCHANGED <<now, db, obj, run, asof, log>>

\* The comment is put on the save's record only, before the relations are set.
RelationsUncommented ==
  /\ op.at = "commented"
  /\ Write(IF op.links = <<>> THEN Seen ELSE SetLinks(Seen, op.links[1], op.by))
  /\ op' = [op EXCEPT !.at = "written"]
  /\ UNCHANGED <<now, db, obj, run, asof, log>>

\* apply_many_to_many sets the relations of the payload and comments again.
apply_many_to_many ==
  /\ op.at = "commented"
  /\ LET set == IF op.links = <<>> THEN Seen ELSE SetLinks(Seen, op.links[1], op.by)
     IN  Write([set EXCEPT !.hist = update_change_reason(@, op.row, Comment)])
  /\ op' = [op EXCEPT !.at = "written"]
  /\ UNCHANGED <<now, db, obj, run, asof, log>>

\* The run forgets the instance; then create constructs a manager, update reads
\* its state again (with the date of the object), delete ends the object.
FinishCall ==
  LET date == IF op.kind = "create" THEN NoDate ELSE obj[op.obj].date
      row == Loaded(date)
  IN
  /\ op.at = "written"
  /\ run' = Discarded
  /\ \/ /\ op.kind = "delete"
        /\ obj' = [obj EXCEPT ![op.obj].state = "deleted"]
        /\ UNCHANGED log
     \/ /\ op.kind # "delete" /\ row.here
        /\ obj' = [obj EXCEPT ![op.obj] = Object(date, row, op.row.ver)]
        /\ log' = Shown(log, date, row)
  /\ op' = [op EXCEPT !.at = "reloaded"]
  /\ UNCHANGED <<now, db, tx, asof>>

\* post_data_change and data_change_transaction_finishing have run: the block is
\* left, and outside of the application's own block the write is committed.
Committed(l, by) ==
  [l EXCEPT !.done = @ \union {Seen.row.ver}, !.own = Seen.row.ver, !.last = by]

EndCall ==
  LET by == [by |-> op.by, why |-> Comment] IN
  /\ op.at = "reloaded"
  /\ tx' = Leaves(Seen)
  /\ \/ Len(tx) = 2 /\ db' = Seen /\ log' = Committed(log, by)
     \/ Len(tx) > 2 /\ log' = [log EXCEPT !.pending = by] /\ UNCHANGED db
  /\ op' = NoOp
  /\ UNCHANGED <<now, obj, run, asof>>

\* Validation, the database or a receiver of post_data_change fails: the block
\* is rolled back, objects and the run stay as they are.
FailCall ==
  /\ op.at # "idle"
  /\ tx' = Leaves(Restored)
  /\ op' = NoOp
  /\ UNCHANGED <<now, db, obj, run, asof, log>>

-----------------------------------------------------------------------------
(* The rest of the application, and the other process.                      *)

OpenBlock ==
  /\ op.at = "idle" /\ ~ InTx /\ asof = NoDate /\ Begin
  /\ UNCHANGED <<now, db, op, obj, run, asof, log>>

CommitBlock ==
  /\ op.at = "idle" /\ InTx
  /\ db' = Seen /\ tx' = <<>>
  /\ log' = IF Locked THEN Committed(log, log.pending) ELSE log
  /\ UNCHANGED <<now, op, obj, run, asof>>

RollbackBlock ==
  /\ op.at = "idle" /\ InTx
  /\ tx' = <<>>
  /\ UNCHANGED <<now, db, op, obj, run, asof, log>>

EnterRun ==
  /\ op.at = "idle" /\ ~ run.active
  /\ run' = [active |-> TRUE, memo |-> [d \in {} |-> NoRow]]
  /\ UNCHANGED <<now, db, tx, op, obj, asof, log>>

LeaveRun ==
  /\ op.at = "idle" /\ run.active
  /\ run' = [active |-> FALSE, memo |-> [d \in {} |-> NoRow]]
  /\ UNCHANGED <<now, db, tx, op, obj, asof, log>>

\* as_of around reads; a nested one needs the same date and changes nothing.
as_of(d) ==
  /\ op.at = "idle" /\ asof = NoDate /\ ~ InTx
  /\ asof' = d
  /\ UNCHANGED <<now, db, tx, op, obj, run, log>>

LeaveAsOf ==
  /\ op.at = "idle" /\ asof # NoDate
  /\ asof' = NoDate
  /\ UNCHANGED <<now, db, tx, op, obj, run, log>>

\* A process with the same code changes the row in one committed step; a row
\* this thread has written is locked until the end of the transaction.
OtherWrites(links) ==
  LET row == [db.row EXCEPT !.ver = log.next]
      hist == Append(db.hist, Record("~", row, "bob", "none"))
      data == SetLinks([row |-> row, hist |-> hist], links, "bob")
  IN
  /\ db.row.here /\ ~ Locked /\ log.next <= MaxOrmWrites
  /\ db' = data
  /\ tx' = [i \in DOMAIN tx |-> data]
  /\ log' = [log EXCEPT !.next = @ + 1, !.done = @ \union {row.ver},
                        !.last = [by |-> "bob", why |-> "none"]]
  /\ UNCHANGED <<now, op, obj, run, asof>>

\* A transaction does not stay open for longer than the lookup buffer.
Tick ==
  /\ now < MaxNow /\ ~ InTx
  /\ now' = now + 1
  /\ UNCHANGED <<db, tx, op, obj, run, asof, log>>

Relations == {<<>>} \union {<<links>> : links \in SUBSET Targets}

Application ==
  \/ \E o \in Objects, d \in Dates \union {NoDate} : Construct(o, d)
  \/ \E o \in Objects, d \in Dates \union {NoDate} : _from_trusted_orm_instance(o, d)
  \/ \E o, p \in Objects : Unpickle(o, p)
  \/ \E o \in Objects, call \in Calls, links \in Relations :
       Create(o, links, call) \/ Change("update", o, links, call)
  \/ \E o \in Objects, call \in Calls : Change("delete", o, <<>>, call)
  \/ save_with_history \/ CommentSave \/ apply_many_to_many
  \/ FinishCall \/ EndCall \/ FailCall
  \/ OpenBlock \/ CommitBlock \/ RollbackBlock
  \/ EnterRun \/ LeaveRun
  \/ \E d \in 0 .. now : as_of(d)
  \/ LeaveAsOf

OrmNext == Application \/ (\E links \in SUBSET Targets : OtherWrites(links)) \/ Tick

-----------------------------------------------------------------------------
(* Properties.                                                              *)

\* What is committed agrees with itself: the newest record of the history has
\* the row's values and relations, and carries the actor and the reason of the
\* call that wrote them last (docs/howto/orm_atomic_writes.md).
RecordedTogether ==
  IF db.hist = <<>> THEN ~ db.row.here
  ELSE LET h == Last(db.hist) IN
       /\ h.ver = db.row.ver /\ h.active = db.row.active /\ h.links = db.row.links
       /\ h.type = "-" <=> ~ db.row.here
       /\ h.by = log.last.by /\ h.why = log.last.why

\* A run never remembers a row that was not committed, nor one older than the
\* last write of its own thread; and a current object shows the write it made.
RunSeesOwnWrites ==
  /\ NoDate \in DOMAIN run.memo =>
       run.memo[NoDate].ver \in log.done /\ run.memo[NoDate].ver >= log.own
  /\ \A o \in Objects : obj[o].date = NoDate => obj[o].shows.ver >= obj[o].own

\* A date past the lookup buffer shows one state of the row however often it is
\* read, and in a historical context all objects that can be read show it.
HistoryStandsStill ==
  /\ \A d \in Dates : Cardinality(log.views[d]) <= 1
  /\ asof # NoDate =>
       \A o \in Objects :
         _ensure_manager_state_valid(o) /\ obj[o].settled =>
           /\ obj[o].shows \in log.views[asof]
           /\ \A row \in log.views[asof] : resolve_many_to_many(o) = row.links

=============================================================================
