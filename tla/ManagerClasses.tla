--------------------------- MODULE ManagerClasses ---------------------------
(***************************************************************************)
(* The life of manager classes: definition, the lazy creation of their     *)
(* attributes, and the validation of their rules' message templates, which *)
(* from readiness on has to precede every public use of a class.  Classes  *)
(* are used by several threads: the slow paths run under one re-entrant    *)
(* lock, the fast paths read the class without it.  Validating a class     *)
(* reads schemas, and reading a schema may use the class itself, or        *)
(* another one, from the thread that holds the lock.                       *)
(***************************************************************************)
EXTENDS Integers, Sequences, SequencesExt, FiniteSets

CONSTANTS
  Threads,     \* request threads
  Classes,     \* manager classes
  Early,       \* those whose module is imported before readiness
  Reads,       \* the classes used by the schema of a class
  Broken       \* classes with a template the schema may not support

VARIABLES
  cls,         \* each class's own dictionary
  pending,     \* pending_attribute_initialization
  all,         \* all_classes
  ready,       \* apps.ready
  startup,     \* how far the main thread is
  supported,   \* broken classes whose template the schema has come to support
  lock,        \* thread that holds the initialization lock, or "free"
  use          \* what each thread is doing

classVars == <<cls, pending, all, ready, startup, supported, lock, use>>

Undefined == [attrs |-> FALSE, props |-> FALSE, init |-> FALSE, validated |-> FALSE,
              busy |-> FALSE, described |-> FALSE]
Idle == [pc |-> "idle", class |-> "none", name |-> "none", late |-> FALSE,
         before |-> Undefined, queue |-> <<>>, described |-> FALSE, then |-> "none"]

Supported(c) == c \notin Broken \/ c \in supported

-----------------------------------------------------------------------------
(* What is done to a class under the lock; x is [cls, pending, ok]. *)

\* _attributes, then a descriptor per attribute, then the flag; the class is
\* no longer pending.
Initialized(x, c) ==
  [x EXCEPT !.cls[c].attrs = TRUE, !.cls[c].props = TRUE, !.cls[c].init = TRUE,
            !.pending = SelectSeq(@, LAMBDA d : d # c)]

\* Mutant: the class stays off the list of pending classes.
RestoredButQueue(x, c, before, queue, described) ==
  [x EXCEPT !.cls[c] = [before EXCEPT !.busy = FALSE], !.ok = FALSE]

\* _restore_rule_validation_initialization_state_locked: the descriptors, the
\* three flags, the field descriptors of the interface, and every place the
\* class had among the pending ones.
Restored(x, c, before, queue, described) ==
  LET others == SelectSeq(x.pending, LAMBDA d : d # c)
      places == SelectSeq([k \in DOMAIN queue |-> k], LAMBDA k : queue[k] = c)
      Limit(k) == IF k <= Len(others) + 1 THEN k ELSE Len(others) + 1
  IN [x EXCEPT
       !.cls[c] = [@ EXCEPT !.attrs = before.attrs, !.props = before.props,
                            !.init = before.init, !.validated = before.validated,
                            !.described = described, !.busy = FALSE],
       !.pending = FoldLeft(LAMBDA acc, k : InsertAt(acc, Limit(k), c), others, places),
       !.ok = FALSE]

\* A nested use, by the validation of another class, of class d: it finds the
\* lock its own, and leaves alone what is being validated further up.
Nested(x, d) ==
  LET validated == IF x.cls[d].validated \/ x.cls[d].busy \/ ~ready THEN x
                   ELSE IF Supported(d) THEN [x EXCEPT !.cls[d].validated = TRUE]
                   ELSE [x EXCEPT !.ok = FALSE]
  IN IF ~x.ok THEN x
     ELSE IF ~validated.ok \/ x.cls[d].init THEN validated
     ELSE Initialized([validated EXCEPT !.cls[d].described = TRUE], d)

Templates(x, c) == FoldLeft(Nested, x, SetToSeq(Reads[c] \cap ToSet(all)))

State == [cls |-> cls, pending |-> pending, ok |-> TRUE]
Becomes(x) == cls' = x.cls /\ pending' = x.pending

-----------------------------------------------------------------------------
(* Definition and startup. *)

Define(c) ==
  /\ c \notin ToSet(all)
  /\ IF c \in Early THEN startup = "importing" ELSE startup = "serving"
  /\ all' = Append(all, c)
  /\ pending' = Append(pending, c)
  /\ UNCHANGED <<cls, ready, startup, supported, lock, use>>

\* The first loop of initialize_general_manager_classes: each pending class gets
\* its attributes, and stays on the list.  A use of another class by the schema
\* takes that one off the list, which is being iterated: at.at counts places.
InitializePending ==
  /\ startup \in {"importing", "initializing"}
  /\ Early \subseteq ToSet(all)
  /\ lock = "free"
  /\ LET left == SelectSeq(pending, LAMBDA c : ~cls[c].init)
     IN IF left = <<>>
          THEN startup' = "validating" /\ UNCHANGED <<cls, pending>>
          ELSE LET c == left[1]
                   x == Templates(State, c)
               IN /\ startup' = "initializing"
                  /\ cls' = [x.cls EXCEPT ![c].attrs = TRUE, ![c].props = TRUE, ![c].init = TRUE]
                  /\ pending' = x.pending
  /\ UNCHANGED <<all, ready, supported, lock, use>>

\* The last loops: every class's templates, and then Django is ready.  An
\* invalid template ends the start.
ValidateAll ==
  /\ startup = "validating"
  /\ lock = "free"
  /\ IF \A c \in ToSet(all) : Supported(c)
       THEN /\ cls' = [c \in Classes |-> [cls[c] EXCEPT !.validated = c \in ToSet(all)]]
            /\ startup' = "serving" /\ ready' = TRUE
       ELSE startup' = "failed" /\ UNCHANGED <<cls, ready>>
  /\ UNCHANGED <<pending, all, supported, lock, use>>

\* The schema a broken template needs becomes available.
SchemaComplete(c) ==
  /\ c \in Broken \ supported
  /\ supported' = supported \cup {c}
  /\ UNCHANGED <<cls, pending, all, ready, startup, lock, use>>

-----------------------------------------------------------------------------
(* Uses of a class. *)

Go(t, pc) == use' = [use EXCEPT ![t].pc = pc]
Unlocked == UNCHANGED <<cls, pending, all, ready, startup, supported, lock>>
Fixed == UNCHANGED <<all, ready, startup, supported>>

\* A public attribute of the class: a declared field, or a method.  Or a method
\* wrapped by _validate_rule_templates_before_public_use ("wrapped").
Begin(t, c, name) ==
  /\ use[t].pc = "idle"
  /\ c \in ToSet(all)
  /\ startup \in {"validating", "serving"}
  /\ use' = [use EXCEPT ![t] = [Idle EXCEPT
       !.pc = IF name = "wrapped" THEN "ready" ELSE "look",
       !.class = c, !.name = name, !.late = ready]]
  /\ Unlocked

\* __getattribute__: an initialized class that has the name needs no lock but
\* for its validation; another one is initialized first.
Look(t) ==
  LET c == use[t].class IN
  /\ use[t].pc = "look"
  /\ Go(t, IF cls[c].init /\ (use[t].name # "field" \/ cls[c].props) THEN "ready" ELSE "enter")
  /\ Unlocked

CheckReady(t) ==
  /\ use[t].pc = "ready"
  /\ Go(t, IF ready THEN "validated" ELSE "get")
  /\ Unlocked

\* Mutant: a validation under way is taken for a finished one.
CheckValidatedOrBusy(t) ==
  LET c == use[t].class IN
  /\ use[t].pc = "validated"
  /\ Go(t, IF cls[c].validated \/ cls[c].busy THEN "get" ELSE "await")
  /\ Unlocked

\* The unlocked look of ensure_rule_templates_validated.
CheckValidated(t) ==
  /\ use[t].pc = "validated"
  /\ Go(t, IF cls[use[t].class].validated THEN "get" ELSE "await")
  /\ Unlocked

\* The lock of ensure_rule_templates_validated.
AwaitLock(t) ==
  /\ use[t].pc = "await" /\ lock = "free"
  /\ lock' = t
  /\ use' = [use EXCEPT ![t].pc = "snapshot", ![t].then = "unlock"]
  /\ UNCHANGED <<cls, pending>> /\ Fixed

\* ensure_attributes_initialized, under its lock.
EnterLock(t) ==
  LET c == use[t].class IN
  /\ use[t].pc = "enter" /\ lock = "free"
  /\ lock' = t
  /\ use' = [use EXCEPT
       ![t].pc = IF ready THEN "snapshot" ELSE "attributes",
       ![t].described = cls[c].described,
       ![t].then = "attributes"]
  /\ cls' = IF cls[c].attrs THEN cls ELSE [cls EXCEPT ![c].described = TRUE]
  /\ UNCHANGED pending /\ Fixed

\* _ensure_rule_templates_validated_locked up to the first rule.
Snapshot(t) ==
  LET c == use[t].class IN
  /\ use[t].pc = "snapshot"
  /\ IF cls[c].validated \/ cls[c].busy
       THEN Go(t, use[t].then) /\ UNCHANGED cls
       ELSE /\ use' = [use EXCEPT ![t].pc = "rules", ![t].before = cls[c], ![t].queue = pending]
            /\ cls' = [cls EXCEPT ![c].busy = TRUE]
  /\ UNCHANGED <<pending, lock>> /\ Fixed

\* The first rule's schema is read, by a use of the classes it needs.
ReadSchemas(t) ==
  LET x == Templates(State, use[t].class) IN
  /\ use[t].pc = "rules"
  /\ Becomes(x)
  /\ Go(t, IF x.ok THEN "decide" ELSE "restore")
  /\ UNCHANGED lock /\ Fixed

Decide(t) ==
  LET c == use[t].class IN
  /\ use[t].pc = "decide"
  /\ IF Supported(c)
       THEN /\ cls' = [cls EXCEPT ![c].validated = TRUE, ![c].busy = FALSE]
            /\ Go(t, use[t].then)
       ELSE Go(t, "restore") /\ UNCHANGED cls
  /\ UNCHANGED <<pending, lock>> /\ Fixed

\* The failure path, which ends in ensure_attributes_initialized with the
\* interface's field descriptors as they were when it was entered.
Restore(t) ==
  LET u == use[t]
      described == IF u.then = "attributes" /\ ~u.before.attrs THEN u.described
                   ELSE u.before.described
  IN /\ u.pc = "restore"
     /\ Becomes(Restored(State, u.class, u.before, u.queue, described))
     /\ Go(t, "raise")
     /\ UNCHANGED lock /\ Fixed

\* The tail of ensure_attributes_initialized: a name that is no attribute is
\* left to the type, otherwise the class is completed.
Attributes(t) ==
  LET c == use[t].class IN
  /\ use[t].pc = "attributes"
  /\ IF use[t].name = "field" THEN Becomes(Initialized(State, c))
                              ELSE UNCHANGED <<cls, pending>>
  /\ Go(t, "unlock")
  /\ UNCHANGED lock /\ Fixed

Unlock(t) ==
  /\ use[t].pc \in {"unlock", "raise"}
  /\ lock' = "free"
  /\ Go(t, IF use[t].pc = "unlock" THEN "get" ELSE "raised")
  /\ UNCHANGED <<cls, pending>> /\ Fixed

\* type.__getattribute__; a field that is gone again goes to __getattr__, which
\* initializes the class and tries once more.
Get(t) ==
  LET c == use[t].class IN
  /\ use[t].pc = "get"
  /\ Go(t, IF use[t].name = "field" /\ ~cls[c].props THEN "enter" ELSE "got")
  /\ Unlocked

End(t) ==
  /\ use[t].pc \in {"got", "raised"}
  /\ use' = [use EXCEPT ![t] = Idle]
  /\ Unlocked

-----------------------------------------------------------------------------
ClassInit ==
  /\ cls = [c \in Classes |-> Undefined] /\ pending = <<>> /\ all = <<>>
  /\ ready = FALSE /\ startup = "importing" /\ supported = {} /\ lock = "free"
  /\ use = [t \in Threads |-> Idle]

ClassNext ==
  \/ \E c \in Classes : Define(c) \/ SchemaComplete(c)
  \/ InitializePending \/ ValidateAll
  \/ \E t \in Threads, c \in Classes, name \in {"field", "method", "wrapped"} : Begin(t, c, name)
  \/ \E t \in Threads :
       \/ Look(t) \/ CheckReady(t) \/ CheckValidated(t) \/ AwaitLock(t) \/ EnterLock(t)
       \/ Snapshot(t) \/ ReadSchemas(t) \/ Decide(t) \/ Restore(t) \/ Attributes(t)
       \/ Unlock(t) \/ Get(t) \/ End(t)

ClassSpec == ClassInit /\ [][ClassNext]_classVars

-----------------------------------------------------------------------------
(* Properties. *)

\* From readiness on nobody gets anything of a class whose templates have not
\* been validated, also while another thread is validating it or fails to
\* (meta.py:189-210, 232-289).
UsesAreValidated ==
  \A t \in Threads :
    use[t].pc = "got" /\ use[t].late => cls[use[t].class].validated

\* With the lock free a class is wholly initialized or not at all, nothing is
\* left marked as being validated, and a class that is not initialized is still
\* pending (meta.py:367-415, 494-532).
ClassesAreWhole ==
  lock = "free" =>
    \A c \in ToSet(all) :
      /\ ~cls[c].busy
      /\ cls[c].init <=> cls[c].attrs /\ cls[c].props
      /\ ~cls[c].init => c \in ToSet(pending)

\* A failed validation leaves its class as it found it, whatever uses of it by
\* its own schema did meanwhile, so that a later one starts afresh.
FailureLeavesNoTrace ==
  \A t \in Threads :
    use[t].pc = "raise" =>
      LET c == use[t].class IN
      /\ ~cls[c].validated
      /\ cls[c].init = use[t].before.init /\ cls[c].props = use[t].before.props
      /\ Cardinality({k \in DOMAIN pending : pending[k] = c})
           = Cardinality({k \in DOMAIN use[t].queue : use[t].queue[k] = c})

=============================================================================
