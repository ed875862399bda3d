----------------------- MODULE SchemaMigrationsProofs -----------------------
(***************************************************************************)
(* Safety of the migration scripts, proved for any number of runs and      *)
(* files, whatever bundle, commands and faults.                            *)
(***************************************************************************)
EXTENDS SchemaMigrations, TLAPS

(* SuccessInEffect and UntrackedUntouched are inductive with TypeOK.       *)
(* OnceWhenAlone needs to know what a lone run can have before it: files   *)
(* that have not taken effect.  The transaction of a run, and the file     *)
(* whose exception it handles, are among its files.                        *)

\* What a run works on, from the moment it starts.
Scoped ==
    \A r \in Runs :
        /\ done[r] \subseteq todo[r]
        /\ failing[r] \in todo[r] \cup {NoFile}
        /\ done[r] # {} => failing[r] = NoFile
        /\ ~Active(r) => todo[r] = {}
        /\ mode[r] = "bootstrap" => done[r] = {} /\ failing[r] = NoFile

\* Runs that never overlap are never active together.
Alone == ~overlapped => \A r, q \in Runs : Active(r) /\ Active(q) => r = q

\* Nothing that a lone run is going to execute has taken effect.
Ahead == ~overlapped /\ ~doubted => \A r \in Runs : \A f \in todo[r] : effect[f] = 0

IInv ==
    /\ TypeOK /\ SuccessInEffect /\ UntrackedUntouched
    /\ Scoped /\ Alone /\ Ahead /\ OnceWhenAlone

\* Counting never goes back to zero.
LEMMA Counts == \A n \in 0 .. 2 : CountOnce(n) \in 1 .. 2 /\ (n = 0 => CountOnce(n) = 1)
  BY DEF CountOnce

LEMMA InitInv == Init => IInv
<1> SUFFICES ASSUME Init PROVE IInv
  OBVIOUS
<1> USE DEF Init
<1>1. TypeOK
  <2>1. PICK k \in 0 .. LastFile :
          /\ row = [f \in Files |-> IF f <= k THEN "bootstrapped" ELSE "none"]
          /\ effect = [f \in Files |-> IF f <= k THEN 1 ELSE 0]
    OBVIOUS
  <2>2. row \in [Files -> Statuses] /\ effect \in [Files -> 0 .. 2]
    BY <2>1 DEF Statuses
  <2> QED
    BY <2>2 DEF TypeOK, Modes
<1>2. SuccessInEffect /\ UntrackedUntouched
  BY DEF SuccessInEffect, UntrackedUntouched
<1>3. Scoped /\ Alone /\ Ahead
  BY DEF Scoped, Alone, Ahead, Active
<1>4. OnceWhenAlone
  BY DEF OnceWhenAlone
<1> QED
  BY <1>1, <1>2, <1>3, <1>4 DEF IInv

\* A run that returns or fails keeps the types and the scope of the runs, and
\* leaves at most itself to be active.
LEMMA ReturnScoped ==
    ASSUME TypeOK, Scoped, NEW r \in Runs, Return(r), UNCHANGED mode
    PROVE  /\ step' \in [Runs -> {"off", "planned", "checked"}]
           /\ todo' \in [Runs -> SUBSET Files] /\ done' \in [Runs -> SUBSET Files]
           /\ failing' \in [Runs -> Files \cup {NoFile}]
           /\ Scoped'
           /\ \A q \in Runs : todo'[q] \subseteq todo[q] /\ (Active(q)' => Active(q))
  BY DEF Return, TypeOK, Scoped, Active

LEMMA FailScoped ==
    ASSUME TypeOK, Scoped, NEW r \in Runs, NEW f \in done[r] \cup (todo[r] \ done[r]), Active(r),
           Fails(r, f), UNCHANGED mode
    PROVE  /\ step' \in [Runs -> {"off", "planned", "checked"}]
           /\ todo' \in [Runs -> SUBSET Files] /\ done' \in [Runs -> SUBSET Files]
           /\ failing' \in [Runs -> Files \cup {NoFile}]
           /\ Scoped'
           /\ \A q \in Runs : todo'[q] \subseteq todo[q] /\ (Active(q)' => Active(q))
<1>1. CASE mode[r] = "apply"
  BY <1>1 DEF Fails, TypeOK, Scoped, Active
<1>2. CASE mode[r] # "apply"
  BY <1>2, ReturnScoped DEF Fails
<1> QED
  BY <1>1, <1>2

\* Steps that leave the database alone, and add no work and no run.
LEMMA QuietStep ==
    ASSUME IInv,
           step' \in [Runs -> {"off", "planned", "checked"}], mode' \in [Runs -> Modes],
           todo' \in [Runs -> SUBSET Files], done' \in [Runs -> SUBSET Files],
           failing' \in [Runs -> Files \cup {NoFile}], Scoped',
           \A q \in Runs : todo'[q] \subseteq todo[q] /\ (Active(q)' => Active(q)),
           UNCHANGED <<row, effect, overlapped>>,
           doubted' \in BOOLEAN, doubted => doubted'
    PROVE  IInv'
<1> USE DEF IInv
<1>1. TypeOK'
  BY DEF TypeOK
<1>2. SuccessInEffect' /\ UntrackedUntouched'
  BY DEF SuccessInEffect, UntrackedUntouched
<1>3. Alone'
  BY DEF Alone
<1>4. Ahead'
  BY DEF Ahead
<1>5. OnceWhenAlone'
  BY DEF OnceWhenAlone
<1> QED
  BY <1>1, <1>2, <1>3, <1>4, <1>5

\* A COMMIT of what a run has executed.
LEMMA CommitStep ==
    ASSUME IInv, NEW r \in Runs, done[r] # {}, Commit(done[r]),
           step' \in [Runs -> {"off", "planned", "checked"}], mode' \in [Runs -> Modes],
           todo' \in [Runs -> SUBSET Files], done' \in [Runs -> SUBSET Files],
           failing' \in [Runs -> Files \cup {NoFile}], Scoped',
           \A q \in Runs : todo'[q] \subseteq todo[q] /\ (Active(q)' => Active(q)),
           ~doubted' => todo'[r] \cap done[r] = {},
           UNCHANGED overlapped, doubted' \in BOOLEAN, doubted => doubted'
    PROVE  IInv'
<1> USE DEF IInv
<1>1. done[r] \subseteq Files /\ done[r] \subseteq todo[r] /\ Active(r)
  BY DEF TypeOK, Scoped
<1>2. \A f \in Files : /\ effect[f] \in 0 .. 2
                       /\ f \in done[r] => effect'[f] = CountOnce(effect[f]) /\ row'[f] = "success"
                       /\ f \notin done[r] => effect'[f] = effect[f] /\ row'[f] = row[f]
  BY DEF Commit, TypeOK
<1>3. effect' \in [Files -> 0 .. 2] /\ row' \in [Files -> Statuses]
  BY Counts DEF Commit, TypeOK, Statuses
<1>4. TypeOK'
  BY <1>3 DEF TypeOK
<1>5. SuccessInEffect' /\ UntrackedUntouched'
  BY <1>2, Counts DEF SuccessInEffect, UntrackedUntouched
<1>6. Alone'
  BY DEF Alone
<1>7. Ahead'
  <2> SUFFICES ASSUME ~overlapped, ~doubted', NEW q \in Runs, NEW f \in todo'[q]
               PROVE  effect'[f] = 0
    BY DEF Ahead
  <2>1. f \in Files /\ f \in todo[q] /\ effect[f] = 0 /\ Active(q)
    BY DEF Ahead, TypeOK, Scoped
  <2>2. q = r
    BY <1>1, <2>1 DEF Alone
  <2> QED
    BY <1>2, <2>1, <2>2
<1>8. OnceWhenAlone'
  <2> SUFFICES ASSUME ~overlapped, ~doubted', NEW f \in Files
               PROVE  effect'[f] < 2 /\ (row'[f] = "failed" => effect'[f] = 0)
    BY DEF OnceWhenAlone
  <2>1. CASE f \in done[r]
    BY <1>1, <1>2, <2>1, Counts DEF Ahead
  <2>2. CASE f \notin done[r]
    BY <1>2, <2>2 DEF OnceWhenAlone
  <2> QED
    BY <2>1, <2>2
<1> QED
  BY <1>4, <1>5, <1>6, <1>7, <1>8

\* A run that starts alone has only files before it that have not taken effect.
LEMMA StartStep == ASSUME IInv, NEW r \in Runs, Start(r) PROVE IInv'
<1> USE DEF IInv
<1>1. PICK m \in Commands, target \in Files :
        /\ mode' = [mode EXCEPT ![r] = m]
        /\ \/ m = "apply" /\ todo' = [todo EXCEPT ![r] = Pending]
           \/ m \in {"exact", "sole"} /\ todo' = [todo EXCEPT ![r] = Pending \cap {target}]
           \/ m = "bundle" /\ todo' = [todo EXCEPT ![r] = {t \in Bundle : ~Complete(t)}]
           \/ m = "bootstrap" /\ todo' = [todo EXCEPT ![r] = {}]
  BY CommandAssumption DEF Start, Modes
<1>2. /\ ~Active(r) /\ step' = [step EXCEPT ![r] = "planned"]
      /\ todo' \in [Runs -> SUBSET Files]
      /\ \A q \in Runs : q # r => todo'[q] = todo[q]
      /\ overlapped' = (overlapped \/ \E q \in Runs : Active(q))
      /\ UNCHANGED <<row, effect, done, failing, doubted>>
  BY <1>1, BundleAssumption DEF Start, Pending, TypeOK
<1>3. TypeOK'
  BY <1>1, <1>2, CommandAssumption DEF TypeOK
<1>4. SuccessInEffect' /\ UntrackedUntouched' /\ OnceWhenAlone'
  BY <1>2 DEF SuccessInEffect, UntrackedUntouched, OnceWhenAlone
<1>5. Scoped'
  BY <1>1, <1>2 DEF Scoped, Active, TypeOK
<1>6. Alone'
  BY <1>2 DEF Alone, Active, TypeOK
<1>7. Ahead'
  <2> SUFFICES ASSUME ~overlapped', ~doubted', NEW q \in Runs, NEW f \in todo'[q]
               PROVE  effect[f] = 0
    BY <1>2 DEF Ahead
  <2>1. q = r
    BY <1>2 DEF Scoped, TypeOK
  <2>2. f \in Files /\ (row[f] = "none" \/ ~Complete(f))
    BY <1>1, <2>1, BundleAssumption DEF Pending, TypeOK
  <2>3. row[f] \in {"none", "failed"}
    BY <2>2 DEF Complete, TypeOK, Statuses
  <2> QED
    BY <1>2, <2>2, <2>3 DEF UntrackedUntouched, OnceWhenAlone
<1> QED
  BY <1>3, <1>4, <1>5, <1>6, <1>7

\* What --bootstrap-existing takes for applied has no row yet.
LEMMA ReadsForBootstrapStep == ASSUME IInv, NEW r \in Runs, ReadsForBootstrap(r) PROVE IInv'
<1> USE DEF IInv, ReadsForBootstrap
<1>1. TypeOK'
  BY DEF TypeOK, Pending
<1>2. SuccessInEffect' /\ UntrackedUntouched' /\ OnceWhenAlone'
  BY DEF SuccessInEffect, UntrackedUntouched, OnceWhenAlone
<1>3. Scoped'
  BY DEF Scoped, Active, TypeOK
<1>4. Alone'
  BY DEF Alone, Active, TypeOK
<1>5. Ahead'
  BY DEF Ahead, UntrackedUntouched, Pending, TypeOK
<1> QED
  BY <1>1, <1>2, <1>3, <1>4, <1>5

\* Rows that are rewritten by the end of a run: as "bootstrapped", whatever they
\* are about, or as "failed", about a file that has not taken effect.
LEMMA RewriteStep ==
    ASSUME IInv, NEW r \in Runs, NEW F \in SUBSET Files, NEW s \in {"bootstrapped", "failed"},
           row' = [f \in Files |-> IF f \in F THEN s ELSE row[f]],
           s = "failed" /\ ~overlapped /\ ~doubted => \A f \in F : effect[f] = 0,
           Return(r), UNCHANGED <<effect, mode, overlapped, doubted>>
    PROVE  IInv'
<1> USE DEF IInv
<1>1. /\ Scoped' /\ \A q \in Runs : todo'[q] \subseteq todo[q] /\ (Active(q)' => Active(q))
  BY ReturnScoped
<1>2. TypeOK'
  BY ReturnScoped DEF TypeOK, Statuses
<1>3. SuccessInEffect' /\ UntrackedUntouched'
  BY DEF SuccessInEffect, UntrackedUntouched
<1>4. Alone' /\ Ahead'
  BY <1>1 DEF Alone, Ahead
<1>5. OnceWhenAlone'
  BY DEF OnceWhenAlone
<1> QED
  BY <1>1, <1>2, <1>3, <1>4, <1>5

LEMMA BootstrapsStep == ASSUME IInv, NEW r \in Runs, Bootstraps(r) PROVE IInv'
<1>1. todo[r] \in SUBSET Files
  BY DEF IInv, TypeOK
<1> QED
  BY <1>1, RewriteStep DEF Bootstraps

LEMMA RecordsFailureStep == ASSUME IInv, NEW r \in Runs, RecordsFailure(r) PROVE IInv'
<1> USE DEF RecordsFailure
<1>1. failing[r] \in Files /\ failing[r] \in todo[r]
  BY DEF IInv, TypeOK, Scoped
<1>2. CASE row' = [row EXCEPT ![failing[r]] = "failed"]
  <2>1. row' = [f \in Files |-> IF f \in {failing[r]} THEN "failed" ELSE row[f]]
    BY <1>2 DEF IInv, TypeOK
  <2>2. ~overlapped /\ ~doubted => \A f \in {failing[r]} : effect[f] = 0
    BY <1>1 DEF IInv, Ahead
  <2> QED
    BY <1>1, <2>1, <2>2, RewriteStep
<1>3. CASE UNCHANGED row
  BY <1>3, QuietStep, ReturnScoped DEF IInv, TypeOK
<1> QED
  BY <1>2, <1>3

\* A COMMIT ends the work of the run, or takes what it committed off it.
LEMMA CommitsStep == ASSUME IInv, NEW r \in Runs, Commits(r) PROVE IInv'
<1> USE DEF IInv, Commits
<1>1. done[r] # {} /\ Active(r)
  BY DEF ReadyToCommit, Scoped
<1>2. CASE done[r] = todo[r]
  <2>1. todo'[r] = {} /\ mode' \in [Runs -> Modes]
    BY <1>2 DEF Return, TypeOK
  <2> QED
    BY <1>1, <1>2, <2>1, ReturnScoped, CommitStep DEF TypeOK
<1>3. CASE done[r] # todo[r]
  <2>1. /\ step' \in [Runs -> {"off", "planned", "checked"}] /\ mode' \in [Runs -> Modes]
        /\ todo' \in [Runs -> SUBSET Files] /\ done' \in [Runs -> SUBSET Files]
        /\ failing' \in [Runs -> Files \cup {NoFile}]
        /\ \A q \in Runs : todo'[q] \subseteq todo[q] /\ (Active(q)' => Active(q))
        /\ todo'[r] \cap done[r] = {}
    BY <1>3 DEF TypeOK, Active
  <2>2. failing[r] = NoFile
    BY <1>1 DEF Scoped
  <2>3. Scoped'
    BY <1>1, <1>3, <2>2 DEF Scoped, TypeOK, Active
  <2> QED
    BY <1>1, <2>1, <2>3, CommitStep DEF TypeOK
<1> QED
  BY <1>2, <1>3

LEMMA CommitUnansweredStep == ASSUME IInv, NEW r \in Runs, CommitUnanswered(r) PROVE IInv'
<1> USE DEF IInv, CommitUnanswered
<1>1. done[r] # {} /\ Active(r)
  BY DEF ReadyToCommit, Scoped
<1>2. PICK f \in done[r] : Fails(r, f)
  OBVIOUS
<1>3. /\ step' \in [Runs -> {"off", "planned", "checked"}]
      /\ todo' \in [Runs -> SUBSET Files] /\ done' \in [Runs -> SUBSET Files]
      /\ failing' \in [Runs -> Files \cup {NoFile}]
      /\ Scoped'
      /\ \A q \in Runs : todo'[q] \subseteq todo[q] /\ (Active(q)' => Active(q))
  BY <1>1, <1>2, FailScoped
<1>4. mode' \in [Runs -> Modes]
  BY DEF TypeOK
<1>5. CASE Commit(done[r])
  BY <1>1, <1>3, <1>4, <1>5, CommitStep
<1>6. CASE UNCHANGED <<effect, row>>
  BY <1>3, <1>4, <1>6, QuietStep
<1> QED
  BY <1>5, <1>6

LEMMA StepInv == IInv /\ [Next]_vars => IInv'
<1> SUFFICES ASSUME IInv, [Next]_vars PROVE IInv'
  OBVIOUS
<1> USE DEF IInv
<1>1. ASSUME NEW r \in Runs, RechecksExact(r) PROVE IInv'
  <2> USE <1>1 DEF RechecksExact
  <2>1. CASE Return(r)
    BY <2>1, QuietStep, ReturnScoped DEF TypeOK
  <2>2. CASE step' = [step EXCEPT ![r] = "checked"] /\ UNCHANGED <<todo, done, failing>>
    <3>1. /\ step' \in [Runs -> {"off", "planned", "checked"}] /\ mode' \in [Runs -> Modes]
          /\ \A q \in Runs : todo'[q] \subseteq todo[q] /\ (Active(q)' <=> Active(q))
      BY <2>2 DEF TypeOK, Active
    <3>2. Scoped'
      BY <2>2, <3>1 DEF Scoped
    <3> QED
      BY <2>2, <3>1, <3>2, QuietStep DEF TypeOK
  <2> QED
    BY <2>1, <2>2
<1>2. ASSUME NEW r \in Runs, NEW f \in Files, Executes(r, f) PROVE IInv'
  <2> USE <1>2 DEF Executes, NextFile
  <2>1. done' \in [Runs -> SUBSET Files]
    BY DEF TypeOK
  <2>2. Scoped' /\ \A q \in Runs : Active(q)' <=> Active(q)
    BY DEF Scoped, Active, TypeOK
  <2> QED
    BY <2>1, <2>2, QuietStep DEF TypeOK
<1>3. ASSUME NEW r \in Runs, NEW f \in Files, ExecuteFails(r, f) PROVE IInv'
  <2> USE <1>3 DEF ExecuteFails, NextFile
  <2>1. Active(r)
    BY DEF Scoped
  <2> QED
    BY <2>1, FailScoped, QuietStep DEF TypeOK
<1>4. ASSUME NEW r \in Runs, Crashes(r) PROVE IInv'
  BY <1>4, QuietStep, ReturnScoped DEF Crashes, TypeOK
<1>5. CASE UNCHANGED vars
  BY <1>5, QuietStep DEF vars, TypeOK, Scoped, Active
<1> QED
  BY <1>1, <1>2, <1>3, <1>4, <1>5, StartStep, ReadsForBootstrapStep, BootstrapsStep,
     CommitsStep, CommitUnansweredStep, RecordsFailureStep
     DEF Next

\* The invariant holds for any number of runs and files, whatever the bundle,
\* which files can be run twice, the commands and the faults.
THEOREM MigrationsInvariant == Spec => []IInv
<1>1. Init => IInv
  BY InitInv
<1>2. IInv /\ [Next]_vars => IInv'
  BY StepInv
<1> QED
  BY <1>1, <1>2, PTL DEF Spec

\* Every variable has its type, and nothing is counted beyond "more than once".
THEOREM MigrationsTyped == Spec => []TypeOK
  BY MigrationsInvariant, PTL DEF IInv

\* A row that says success stands for SQL that took effect: apply_pending and
\* apply_exact write the row in the transaction of the file, and what the
\* except block writes over it is never a success.
THEOREM SuccessTold == Spec => []SuccessInEffect
  BY MigrationsInvariant, PTL DEF IInv

\* Nothing takes effect without a row, so that no file that took effect is ever
\* selected by pending_migrations again.
THEOREM EffectTracked == Spec => []UntrackedUntouched
  BY MigrationsInvariant, PTL DEF IInv

\* Scripts that are run one after the other, and get an answer to each COMMIT,
\* never apply a file twice, and one recorded as failed has left nothing.
THEOREM AppliedOnce == Spec => []OnceWhenAlone
  BY MigrationsInvariant, PTL DEF IInv
=============================================================================
