---------------------------- MODULE ReadOnlySync ----------------------------
(***************************************************************************)
(* Read-only interfaces (interface/capabilities/read_only/management.py):  *)
(* at start-up every process writes the rows declared in the code into the *)
(* table of the interface, in one transaction, after the interfaces it     *)
(* refers to.  Several processes of a deployment start at the same time.   *)
(*                                                                         *)
(* "units" stands for an interface without relations, "parts" for one with *)
(* a foreign key to "units".  A declared row has its unique field (key),   *)
(* an editable field that may be omitted, and for "parts" a reference.     *)
(* Transactions read committed rows and their own writes; a written row    *)
(* belongs to its transaction until that ends.                             *)
(***************************************************************************)
EXTENDS Naturals, Sequences, FiniteSets

CONSTANTS
    Starters,        \* processes that start up
    RowKeys,         \* values of the unique field
    Declarations,    \* possible declared data: [units, parts] sequences of rows
    MaxRestarts,     \* bound on restarts of a process
    MaxSyncFaults    \* bound on transactions the database fails

VARIABLES
    data,       \* _data of both interfaces, the same code in every process
    schemaOk,   \* does the table of the interface have the model's columns?
    table,      \* committed rows: interface -> key -> row
    starter,    \* process -> where it is in sync_data
    restarts, syncFaults

syncVars == <<data, schemaOk, table, starter, restarts, syncFaults>>

Interfaces == {"units", "parts"}
Omitted == "omitted"
FieldValues == {"old", "new"}
DeclaredRow == [key : RowKeys, value : FieldValues \cup {Omitted}, ref : RowKeys \cup {Omitted}]

ASSUME SyncAssumption == Declarations \subseteq [Interfaces -> Seq(DeclaredRow)]

Missing == [value |-> Omitted, ref |-> Omitted, active |-> FALSE]
StoredRow(v, ref, active) == [value |-> v, ref |-> ref, active |-> active]
Idle == [at |-> "idle", todo |-> << >>, n |-> 0, writes |-> [k \in RowKeys |-> Missing],
         read |-> Missing, sweep |-> {}, done |-> {}]

Doing(p, stage) == starter[p].at = stage
Goes(p, new) == starter' = [starter EXCEPT ![p] = new]
Interface(p) == Head(starter[p].todo)
Rows(p) == data[Interface(p)]
Current(p) == Rows(p)[starter[p].n]

-----------------------------------------------------------------------------
(* The table as a transaction sees it *)

Wrote(p, k) == starter[p].writes[k] # Missing
Sees(p, k) == IF Wrote(p, k) THEN starter[p].writes[k] ELSE table[Interface(p)][k]
\* Another transaction on the same table has written the row and not ended.
TakenByOther(p, k) ==
    \E q \in Starters \ {p} : starter[q].todo # << >> /\ Interface(q) = Interface(p) /\ Wrote(q, k)
Declared(rows, k) == \E i \in DOMAIN rows : rows[i].key = k

-----------------------------------------------------------------------------
(* Actions *)

\* get_startup_hooks: the hook of "parts" runs, which synchronises "units" before
\* (_related_readonly_interfaces; a cycle would stop at _sync_stack).
get_startup_hooks(p) ==
    /\ Doing(p, "idle") /\ starter[p].done = {}
    /\ Goes(p, [Idle EXCEPT !.at = "check", !.todo = <<"units", "parts">>])
    /\ UNCHANGED <<data, schemaOk, table, restarts, syncFaults>>

\* The next interface, or the end of the hook.
Leave(p, result) ==
    LET rest == Tail(starter[p].todo)
    IN  [Idle EXCEPT !.at = IF rest = << >> THEN "idle" ELSE "check", !.todo = rest,
                     !.done = starter[p].done \cup {<<Interface(p), result>>}]

\* An exception ends the hook, and with it the start of the process.
Fails(p) == [Idle EXCEPT !.done = starter[p].done \cup {<<"hook", "failed">>}]

\* ensure_schema_is_up_to_date: without the columns the interface is left alone.
ensure_schema_is_up_to_date(p) ==
    /\ Doing(p, "check")
    /\ Goes(p, IF schemaOk[Interface(p)] THEN [starter[p] EXCEPT !.at = "compare"] ELSE Leave(p, "skipped"))
    /\ UNCHANGED <<data, schemaOk, table, restarts, syncFaults>>

Fits(row, declared) ==
    /\ declared.value \in {Omitted, row.value}
    /\ declared.ref \in {Omitted, row.ref}

\* Mutant: every declared row is there, but are there others?
MatchesDeclaredOnly(p) ==
    /\ Interface(p) = "units"
    /\ \A i \in DOMAIN Rows(p) : LET k == Rows(p)[i].key
                                 IN  table["units"][k].active /\ Fits(table["units"][k], Rows(p)[i])

\* _active_database_matches_payload: only tables without relations are compared; a key
\* declared twice is never a match.
_active_database_matches_payload(p) ==
    /\ Interface(p) = "units"
    /\ \A i, j \in DOMAIN Rows(p) : Rows(p)[i].key = Rows(p)[j].key => i = j
    /\ \A k \in RowKeys : table["units"][k].active <=> Declared(Rows(p), k)
    /\ \A i \in DOMAIN Rows(p) : Fits(table["units"][Rows(p)[i].key], Rows(p)[i])

Compare(p) ==
    /\ Doing(p, "compare")
    /\ Goes(p, IF _active_database_matches_payload(p) THEN Leave(p, "synced")
               ELSE IF Rows(p) = << >> THEN [starter[p] EXCEPT !.at = "sweep"]
               ELSE [starter[p] EXCEPT !.at = "row", !.n = 1])
    /\ UNCHANGED <<data, schemaOk, table, restarts, syncFaults>>

\* _resolve_relations: exactly one active row of the other interface has the key.
_resolve_to_instance(k) == table["units"][k].active

\* The row is looked up among all rows, active or not.
LookUp(p) ==
    /\ Doing(p, "row")
    /\ Goes(p, IF Interface(p) = "parts" /\ Current(p).ref # Omitted /\ ~_resolve_to_instance(Current(p).ref) THEN Fails(p)
               ELSE [starter[p] EXCEPT !.at = "write", !.read = Sees(p, Current(p).key)])
    /\ UNCHANGED <<data, schemaOk, table, restarts, syncFaults>>

\* The declared fields are assigned to the row, which will be active.
Assigned(row, declared) ==
    StoredRow(IF declared.value = Omitted THEN row.value ELSE declared.value,
              IF declared.ref = Omitted THEN row.ref ELSE declared.ref, TRUE)
Written(p, k, row) == [starter[p].writes EXCEPT ![k] = row]
NextRow(p, writes) ==
    IF starter[p].n < Len(Rows(p)) THEN [starter[p] EXCEPT !.at = "row", !.n = @ + 1, !.writes = writes]
    ELSE [starter[p] EXCEPT !.at = "sweep", !.writes = writes]

\* The row is there.  When a field of the copy that was read differs, all the columns of
\* the copy are saved; then, or when the copy is inactive, the row is made active.
UpdateRow(p) ==
    LET k == Current(p).key
        read == starter[p].read
        row == IF Fits(read, Current(p)) THEN Sees(p, k) ELSE Assigned(read, Current(p))
        unchanged == Fits(read, Current(p)) /\ read.active
    IN  /\ Doing(p, "write") /\ read # Missing
        /\ unchanged \/ ~TakenByOther(p, k)
        /\ Goes(p, NextRow(p, IF unchanged THEN starter[p].writes ELSE Written(p, k, StoredRow(row.value, row.ref, TRUE))))
        /\ UNCHANGED <<data, schemaOk, table, restarts, syncFaults>>

\* The row is not there: it is created, after another transaction that creates it has
\* ended.  A row created meanwhile is an integrity error, after which the transaction
\* refuses every query, the lookup that should find that row included.
CreateRow(p) ==
    LET k == Current(p).key
    IN  /\ Doing(p, "write") /\ starter[p].read = Missing
        /\ ~TakenByOther(p, k)
        /\ Goes(p, IF Sees(p, k) # Missing THEN Fails(p)
                   ELSE NextRow(p, Written(p, k, StoredRow(IF Current(p).value = Omitted THEN "old" ELSE Current(p).value,
                                                           Current(p).ref, TRUE))))
        /\ UNCHANGED <<data, schemaOk, table, restarts, syncFaults>>

\* The active rows are listed, with all their columns.
ListActive(p) ==
    /\ Doing(p, "sweep")
    /\ Goes(p, [starter[p] EXCEPT !.at = "deactivate",
                                  !.sweep = {<<k, Sees(p, k)>> : k \in {j \in RowKeys : Sees(p, j).active /\ ~Declared(Rows(p), j)}}])
    /\ UNCHANGED <<data, schemaOk, table, restarts, syncFaults>>

\* Each one that is not declared is saved as inactive.
Deactivate(p) ==
    /\ Doing(p, "deactivate") /\ starter[p].sweep # {}
    /\ \E entry \in starter[p].sweep :
         /\ ~TakenByOther(p, entry[1])
         /\ Goes(p, [starter[p] EXCEPT !.sweep = @ \ {entry}, !.writes = Written(p, entry[1], [entry[2] EXCEPT !.active = FALSE])])
    /\ UNCHANGED <<data, schemaOk, table, restarts, syncFaults>>

\* The processed rows are made active once more, and the transaction commits.
FinishSync(p) ==
    LET processed == {k \in RowKeys : Declared(Rows(p), k)}
        final(k) == IF k \in processed /\ Sees(p, k) # Missing THEN [Sees(p, k) EXCEPT !.active = TRUE] ELSE Sees(p, k)
    IN  /\ Doing(p, "deactivate") /\ starter[p].sweep = {}
        /\ \A k \in processed : ~TakenByOther(p, k)
        /\ table' = [table EXCEPT ![Interface(p)] = [k \in RowKeys |-> final(k)]]
        /\ Goes(p, Leave(p, "synced"))
        /\ UNCHANGED <<data, schemaOk, restarts, syncFaults>>

\* The database ends the transaction (a deadlock, a lost connection): rolled back.
TransactionLost(p) ==
    /\ starter[p].at \in {"row", "write", "sweep", "deactivate"} /\ syncFaults < MaxSyncFaults
    /\ syncFaults' = syncFaults + 1
    /\ Goes(p, Fails(p))
    /\ UNCHANGED <<data, schemaOk, table, restarts>>

\* A process that could not start, or one that is redeployed, starts again.
Restart(p) ==
    /\ Doing(p, "idle") /\ starter[p].done # {} /\ restarts < MaxRestarts
    /\ restarts' = restarts + 1
    /\ Goes(p, Idle)
    /\ UNCHANGED <<data, schemaOk, table, syncFaults>>

-----------------------------------------------------------------------------
(* Specification *)

\* Tables an earlier version of the code may have left: any rows of "units", at most one
\* active or inactive row of "parts".
SyncInit ==
    /\ data \in Declarations
    /\ schemaOk \in {[i \in Interfaces |-> TRUE], [i \in Interfaces |-> i = "parts"]}
    /\ table \in {[units |-> u, parts |-> t] :
                   u \in [RowKeys -> {Missing} \cup {StoredRow(v, Omitted, a) : v \in FieldValues, a \in BOOLEAN}],
                   t \in {[k \in RowKeys |-> Missing]} \cup {[k \in RowKeys |-> StoredRow("old", k, a)] : a \in BOOLEAN}}
    /\ starter = [p \in Starters |-> Idle]
    /\ restarts = 0 /\ syncFaults = 0

SyncStep(p) ==
    \/ get_startup_hooks(p) \/ ensure_schema_is_up_to_date(p) \/ Compare(p)
    \/ LookUp(p) \/ UpdateRow(p) \/ CreateRow(p)
    \/ ListActive(p) \/ Deactivate(p) \/ FinishSync(p)
SyncNext == \E p \in Starters : SyncStep(p) \/ TransactionLost(p) \/ Restart(p)

SyncSpec == SyncInit /\ [][SyncNext]_syncVars

-----------------------------------------------------------------------------
(* Properties *)

\* The last declaration of a key counts.
LastDeclared(rows, k) ==
    LET i == CHOOSE n \in DOMAIN rows : rows[n].key = k /\ \A m \in DOMAIN rows : rows[m].key = k => m <= n IN rows[i]
Carries(i) ==
    \A k \in RowKeys : /\ table[i][k].active <=> Declared(data[i], k)
                       /\ Declared(data[i], k) => Fits(table[i][k], LastDeclared(data[i], k))

\* Once a process has synchronised an interface, its active rows are the declared ones
\* with the declared fields, and stay so: processes that read older rows and are still
\* writing, transactions that fail and processes that start again undo nothing.
SyncedStaysDeclared ==
    \A p \in Starters, i \in Interfaces : <<i, "synced">> \in starter[p].done => Carries(i)
=============================================================================
