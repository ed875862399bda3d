-------------------------- MODULE SchemaMigrations --------------------------
(***************************************************************************)
(* The schema migrations and their tracking table schema_migrations        *)
(* (scripts/apply_db_migrations.py), and the script that takes two of them *)
(* in one transaction (scripts/prepare_product_v1_runtime_migration.py).   *)
(* Nothing but PostgreSQL keeps two runs of these scripts apart.           *)
(*                                                                         *)
(* A file is its place in the order of discover_migration_files.  What its *)
(* SQL does to the database is counted: not at all, once, more than once.  *)
(* A transaction is READ COMMITTED: it sees what is committed at each      *)
(* statement, and two transactions with the same file wait for each other. *)
(***************************************************************************)
EXTENDS Integers, FiniteSets

CONSTANTS
    Runs,         \* processes that run one of the scripts, one after the other
    LastFile,     \* number of migration files
    Bundle,       \* TARGET_MIGRATION_KEYS
    Rerunnable,   \* files whose SQL succeeds where it already took effect
    Commands,     \* what the operators run: see Modes
    Faults        \* "sql": a file may fail for reasons of its own;
                  \* "connection": one breaks; "crash" of a run

ASSUME FileAssumption == LastFile \in Nat \ {0}

Files == 1 .. LastFile
ASSUME BundleAssumption == Bundle \subseteq Files

NoFile == 0
Statuses == {"none", "bootstrapped", "success", "failed"}

\* --apply, --apply-exact without and with --require-sole-pending, the other
\* script, --bootstrap-existing.
Modes == {"apply", "exact", "sole", "bundle", "bootstrap"}

ASSUME CommandAssumption == Commands \subseteq Modes

VARIABLES
    row,          \* execution_status of a file's row, "none" without a row
    effect,       \* 0, 1 or 2 (which is more than once)
    step, mode,   \* where a run is: not running, planned, or in a transaction
                  \* that read the rows again
    todo,         \* files the run still has to execute
    done,         \* files executed in its open transaction
    failing,      \* the file whose exception it handles
    \* history
    overlapped,   \* two runs were active at the same time
    doubted       \* the answer to a COMMIT was lost

vars == <<row, effect, step, mode, todo, done, failing, overlapped, doubted>>

TypeOK ==
    /\ row \in [Files -> Statuses]
    /\ effect \in [Files -> 0 .. 2]
    /\ step \in [Runs -> {"off", "planned", "checked"}]
    /\ mode \in [Runs -> Modes]
    /\ todo \in [Runs -> SUBSET Files]
    /\ done \in [Runs -> SUBSET Files]
    /\ failing \in [Runs -> Files \cup {NoFile}]
    /\ overlapped \in BOOLEAN /\ doubted \in BOOLEAN

\* The table was created and the files that were there, already applied by
\* hand, were bootstrapped; the others are new.
Init ==
    /\ \E k \in 0 .. LastFile :
          /\ row = [f \in Files |-> IF f <= k THEN "bootstrapped" ELSE "none"]
          /\ effect = [f \in Files |-> IF f <= k THEN 1 ELSE 0]
    /\ step = [r \in Runs |-> "off"]
    /\ mode = [r \in Runs |-> "apply"]
    /\ todo = [r \in Runs |-> {}]
    /\ done = [r \in Runs |-> {}]
    /\ failing = [r \in Runs |-> NoFile]
    /\ overlapped = FALSE /\ doubted = FALSE

----------------------------------------------------------------------------
\* Mutant of Pending: what is tracked is not looked at.
PendingAlways == {f \in Files : row[f] \in Statuses}

\* pending_migrations: any row at all, "failed" included, and the file is not
\* pending any more.
Pending == {f \in Files : row[f] = "none"}

\* migration_is_complete
Complete(f) == row[f] \in {"success", "bootstrapped"}

\* unresolved_predecessors, and ensure_consistent_target_state.
BundleAllowed ==
    /\ \A f \in Files : (\A t \in Bundle : f < t) => Complete(f)
    /\ \A t, u \in Bundle : t < u /\ Complete(u) => Complete(t)

Active(r) == step[r] # "off"

\* The run is over; an open transaction of it is rolled back.
Return(r) ==
    /\ step' = [step EXCEPT ![r] = "off"]
    /\ todo' = [todo EXCEPT ![r] = {}]
    /\ done' = [done EXCEPT ![r] = {}]
    /\ failing' = [failing EXCEPT ![r] = NoFile]

\* One execution more; more than two are as bad as two.
CountOnce(n) == IF n = 2 THEN 2 ELSE n + 1

\* COMMIT: what the files in F do shows together with their tracking rows.
Commit(F) ==
    /\ effect' = [f \in Files |-> IF f \in F THEN CountOnce(effect[f]) ELSE effect[f]]
    /\ row' = [f \in Files |-> IF f \in F THEN "success" ELSE row[f]]

\* The next file of run r, when its transaction is ready for one: --apply has
\* one transaction for each file, the bundle one for all.
NextFile(r, f) ==
    /\ f \in todo[r] \ done[r] /\ \A g \in todo[r] \ done[r] : f <= g
    /\ failing[r] = NoFile
    /\ \/ mode[r] = "apply" /\ done[r] = {}
       \/ mode[r] = "bundle"
       \/ mode[r] \in {"exact", "sole"} /\ step[r] = "checked"

\* Its SQL ran in a transaction that is still open: others wait.
Locked(f) == \E q \in Runs : f \in done[q]

\* Whether the SQL can succeed: what it creates may not be there.  078 alters a
\* table that 077 creates, and replaces views of 077 with other column types:
\* only the bundle drops them first.
CanTakeEffect(r, f) ==
    /\ f \in Rerunnable \/ effect[f] = 0
    /\ \A t \in Bundle :
          f \in Bundle /\ t < f =>
              mode[r] = "bundle" /\ (effect[t] > 0 \/ t \in done[r])

----------------------------------------------------------------------------
\* main(): the tracked rows are read on a connection of their own, and what is
\* to be done follows from them.  Runs that find nothing to do are left out.
Start(r) ==
    /\ ~Active(r)
    /\ \E m \in Commands, target \in Files :
          LET wanted == CASE m = "apply" -> Pending
                          [] m \in {"exact", "sole"} -> Pending \cap {target}
                          [] m = "bundle" -> {t \in Bundle : ~Complete(t)}
                          [] m = "bootstrap" -> {}
          IN  /\ wanted # {} \/ m = "bootstrap"
              /\ m = "sole" => Pending = {target}
              /\ m = "bundle" => BundleAllowed
              /\ mode' = [mode EXCEPT ![r] = m]
              /\ todo' = [todo EXCEPT ![r] = wanted]
    /\ step' = [step EXCEPT ![r] = "planned"]
    /\ overlapped' = (overlapped \/ \E q \in Runs : Active(q))
    /\ UNCHANGED <<row, effect, done, failing, doubted>>

\* --apply-exact reads the rows again in its transaction: "already_applied",
\* or not the sole pending file any more, ends the run.
RechecksExact(r) ==
    /\ step[r] = "planned" /\ mode[r] \in {"exact", "sole"}
    /\ IF todo[r] \subseteq Pending /\ (mode[r] = "sole" => Pending = todo[r])
       THEN step' = [step EXCEPT ![r] = "checked"] /\ UNCHANGED <<todo, done, failing>>
       ELSE Return(r)
    /\ UNCHANGED <<row, effect, mode, overlapped, doubted>>

\* --bootstrap-existing reads them too, for the files it will mark.
ReadsForBootstrap(r) ==
    /\ step[r] = "planned" /\ mode[r] = "bootstrap"
    /\ todo' = [todo EXCEPT ![r] = Pending]
    /\ step' = [step EXCEPT ![r] = "checked"]
    /\ UNCHANGED <<row, effect, mode, done, failing, overlapped, doubted>>

\* Mutant of Bootstraps: execution_mode is passed where execution_status belongs.
BootstrapsMode(r) ==
    /\ step[r] = "checked" /\ mode[r] = "bootstrap"
    /\ row' = [f \in Files |-> IF f \in todo[r] THEN "manual_bootstrap" ELSE row[f]]
    /\ Return(r)
    /\ UNCHANGED <<effect, mode, overlapped, doubted>>

\* INSERT ... ON CONFLICT DO UPDATE: a row that came meanwhile is overwritten.
Bootstraps(r) ==
    /\ step[r] = "checked" /\ mode[r] = "bootstrap"
    /\ row' = [f \in Files |-> IF f \in todo[r] THEN "bootstrapped" ELSE row[f]]
    /\ Return(r)
    /\ UNCHANGED <<effect, mode, overlapped, doubted>>

\* Mutant of Executes: the SQL is committed by itself.
ExecutesAutocommitting(r, f) ==
    /\ NextFile(r, f) /\ ~Locked(f)
    /\ CanTakeEffect(r, f)
    /\ done' = [done EXCEPT ![r] = @ \cup {f}]
    /\ effect' = [effect EXCEPT ![f] = CountOnce(@)]
    /\ UNCHANGED <<row, step, mode, todo, failing, overlapped, doubted>>

\* Mutant of Executes: the tracking row is committed before the SQL.
ExecutesTracked(r, f) ==
    /\ NextFile(r, f) /\ ~Locked(f)
    /\ CanTakeEffect(r, f)
    /\ done' = [done EXCEPT ![r] = @ \cup {f}]
    /\ row' = [row EXCEPT ![f] = "success"]
    /\ UNCHANGED <<effect, step, mode, todo, failing, overlapped, doubted>>

\* cur.execute(sql), and the tracking row in the same transaction.
Executes(r, f) ==
    /\ NextFile(r, f) /\ ~Locked(f)
    /\ CanTakeEffect(r, f)
    /\ done' = [done EXCEPT ![r] = @ \cup {f}]
    /\ UNCHANGED <<row, effect, step, mode, todo, failing, overlapped, doubted>>

\* An exception rolls the transaction back; only --apply handles it.
Fails(r, f) ==
    IF mode[r] = "apply"
    THEN /\ failing' = [failing EXCEPT ![r] = f]
         /\ done' = [done EXCEPT ![r] = {}]
         /\ UNCHANGED <<step, todo>>
    ELSE Return(r)

\* The SQL fails: as it has to, or for reasons of its own.
ExecuteFails(r, f) ==
    /\ NextFile(r, f) /\ ~Locked(f)
    /\ "sql" \in Faults \/ ~CanTakeEffect(r, f)
    /\ Fails(r, f)
    /\ UNCHANGED <<row, effect, mode, overlapped, doubted>>

\* The connection block ends.
ReadyToCommit(r) == done[r] # {} /\ (mode[r] = "apply" \/ done[r] = todo[r])

Commits(r) ==
    /\ ReadyToCommit(r)
    /\ Commit(done[r])
    /\ IF done[r] = todo[r]
       THEN Return(r)
       ELSE /\ todo' = [todo EXCEPT ![r] = @ \ done[r]]
            /\ done' = [done EXCEPT ![r] = {}]
            /\ UNCHANGED <<step, failing>>
    /\ UNCHANGED <<mode, overlapped, doubted>>

\* The connection breaks at the COMMIT, before or after it took effect.
CommitUnanswered(r) ==
    /\ "connection" \in Faults
    /\ ReadyToCommit(r)
    /\ Commit(done[r]) \/ UNCHANGED <<effect, row>>
    /\ \E f \in done[r] : Fails(r, f)
    /\ doubted' = TRUE
    /\ UNCHANGED <<mode, overlapped>>

\* The except block: a second connection writes "failed" over whatever the row
\* says by now, and the exception goes on; or there is no second connection.
RecordsFailure(r) ==
    /\ failing[r] # NoFile
    /\ \/ row' = [row EXCEPT ![failing[r]] = "failed"]
       \/ "connection" \in Faults /\ UNCHANGED row
    /\ Return(r)
    /\ UNCHANGED <<effect, mode, overlapped, doubted>>

Crashes(r) ==
    /\ "crash" \in Faults /\ Active(r)
    /\ Return(r)
    /\ UNCHANGED <<row, effect, mode, overlapped, doubted>>

Next ==
    \E r \in Runs :
        \/ Start(r) \/ RechecksExact(r) \/ ReadsForBootstrap(r) \/ Bootstraps(r)
        \/ \E f \in Files : Executes(r, f) \/ ExecuteFails(r, f)
        \/ Commits(r) \/ CommitUnanswered(r) \/ RecordsFailure(r) \/ Crashes(r)

Spec == Init /\ [][Next]_vars

----------------------------------------------------------------------------
(* Properties.                                                             *)

\* A row that says success stands for SQL that took effect, whatever runs
\* overlap, die or lose their connection.
SuccessInEffect == \A f \in Files : row[f] = "success" => effect[f] > 0

\* A file that took effect has left a row, so that it is never pending again.
UntrackedUntouched == \A f \in Files : row[f] = "none" => effect[f] = 0

\* As long as the scripts are run one after the other and no COMMIT is left in
\* doubt, no file takes effect twice, and one that failed has left nothing.
OnceWhenAlone ==
    ~overlapped /\ ~doubted =>
        \A f \in Files : effect[f] < 2 /\ (row[f] = "failed" => effect[f] = 0)

\* No later target is complete while an earlier one is unresolved.
TargetsConsistent == \A t, u \in Bundle : t < u /\ Complete(u) => Complete(t)
=============================================================================
