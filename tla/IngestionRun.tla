------------------------------ MODULE IngestionRun -----------------------------
(***************************************************************************)
(* The commands that write lifecycle evidence of one source.  Every         *)
(* repository method is a transaction of its own, and a process may be      *)
(* killed between any two of them.                                          *)
(*                                                                          *)
(*  ingest     src.ingest_jobs: create the run, fetch everything, save the  *)
(*             matching jobs one by one, then reconcile the active jobs the *)
(*             fetch does not list - by one batch of absences if the fetch  *)
(*             is a verified complete inventory, else by one probe per job  *)
(*             - and finish the run;                                        *)
(*  reconcile  scripts.reconcile_reviewed_personio_detail_health: probe     *)
(*             every active job of a reviewed source;                       *)
(*  probe      the operator's probe of one job, which records the answer    *)
(*             whatever it is;                                              *)
(*  revalidate the probe of the one job an application is prepared for,     *)
(*             which records nothing but its closure.                       *)
(*                                                                          *)
(* The daily pipeline, of which its lock directory admits one, alternates   *)
(* ingest and reconcile; operators run the others when they like.           *)
(***************************************************************************)
EXTENDS JobEvidence

CONSTANTS
    Operators,      \* processes started by hand
    Matching,       \* jobs that pass the keyword filter of the profile
    PageSizes,      \* values an operator gives profile.page_size
    MaxAbsences,    \* MAX_COMPLETE_INVENTORY_ABSENCES
    MaxProbes,      \* MAX_RECURRING_EXACT_DETAIL_PROBES
    MaxReviewed,    \* MAX_PERSONIO_DETAIL_PROBES_PER_SOURCE
    Sites,          \* bound: what the employer's site may show
    MaxChanges,     \* bound: changes of the employer's site
    MaxFaults       \* bound: kills, failed or partial fetches, unanswered probes,
                    \* failed statements, unanswered COMMITs, Silver rows rewritten

Daily == "daily"
Procs == Operators \cup {Daily}
Nobody == "nobody"

ASSUME IngestionAssumption ==
    /\ {Daily, Nobody} \cap Operators = {}
    /\ Matching \subseteq Jobs
    /\ Sites \subseteq [feed : SUBSET Jobs, page : [Jobs -> Pages]]
    /\ PageSizes \subseteq Nat /\ PageSizes # {}
    /\ MaxAbsences \in Nat /\ MaxProbes \in Nat /\ MaxReviewed \in Nat
    /\ MaxChanges \in Nat /\ MaxFaults \in Nat

VARIABLES
    pc,         \* where a process is
    cmd,        \* the command it runs; the daily pipeline, or ran last
    run,        \* status of the ingestion_runs row its last command created
    cause,      \* history: what cut its last ingest short before the run was ended:
                \* "kill", "statement" (that no handler covers) or "exception" (of the
                \* health step); "commit" if its last COMMIT went unanswered
    listed,     \* history: what the feed listed when the process fetched it
    got,        \* full_fetch_records
    valid,      \* ats_feed_authority.authority_validated of those records
    todo,       \* records still to save, or targets still to check
    plan,       \* CompleteInventoryAbsencePlan.missing_targets
    drifted,    \* jobs whose Silver row changed since the targets were loaded
    newer,      \* jobs with evidence newer than the open transaction
    absent,     \* history: absences the run has committed
    cur,        \* the record or target in hand
    answer,     \* the classification of cur, not yet written
    lock,       \* owner of a row lock (SELECT ... FOR UPDATE of an open batch)
    changes, faults

progress == <<pc, todo>>
status   == <<run, cause>>
fetched  == <<listed, got, valid>>
checking == <<plan, drifted, newer, absent>>
probing  == <<cur, answer>>
budget   == <<changes, faults>>
vars == <<worldVars, tableVars, progress, cmd, status, fetched, checking, probing,
          lock, budget>>

Labels == {"idle", "fetch", "record", "observe", "batch", "rows", "load", "check",
           "append", "fail"}

Commands == {"none", "ingest", "reconcile", "probe", "revalidate"}

\* The locals of the processes, and the locks they hold
LocalsTypeOK ==
    /\ pc \in [Procs -> Labels]
    /\ cmd \in [Procs -> Commands]
    /\ listed \in [Procs -> SUBSET Jobs] /\ got \in [Procs -> SUBSET Jobs]
    /\ valid \in [Procs -> BOOLEAN]
    /\ todo \in [Procs -> SUBSET Jobs] /\ plan \in [Procs -> SUBSET Jobs]
    /\ drifted \in [Procs -> SUBSET Jobs] /\ newer \in [Procs -> SUBSET Jobs]
    /\ absent \in [Procs -> SUBSET Jobs]
    /\ cur \in [Procs -> Jobs \cup {0}]
    /\ answer \in [Procs -> Outcomes \cup {"none"}]
    /\ lock \in [Jobs -> Procs \cup {Nobody}]

\* Every variable has its type.
TypeOK ==
    /\ TablesTypeOK /\ LocalsTypeOK
    /\ run \in [Procs -> {"none", "running", "success", "failed"}]
    /\ cause \in [Procs -> {"none", "kill", "statement", "commit", "exception"}]
    /\ changes \in 0..MaxChanges /\ faults \in 0..MaxFaults

Init ==
    /\ kind \in {"inventory", "legacy", "detail"}
    /\ \E site \in Sites : feed = site.feed /\ page = site.page
    /\ raw = {} /\ silver = {} /\ latest = [j \in Jobs |-> "none"]
    /\ pc = [p \in Procs |-> "idle"]
    /\ cmd = [p \in Procs |-> "none"]
    /\ run = [p \in Procs |-> "none"] /\ cause = [p \in Procs |-> "none"]
    /\ listed = [p \in Procs |-> {}] /\ got = [p \in Procs |-> {}]
    /\ valid = [p \in Procs |-> FALSE]
    /\ todo = [p \in Procs |-> {}] /\ plan = [p \in Procs |-> {}]
    /\ drifted = [p \in Procs |-> {}] /\ newer = [p \in Procs |-> {}]
    /\ absent = [p \in Procs |-> {}]
    /\ cur = [p \in Procs |-> 0] /\ answer = [p \in Procs |-> "none"]
    /\ lock = [j \in Jobs |-> Nobody]
    /\ changes = 0 /\ faults = 0

-----------------------------------------------------------------------------
(* Helpers                                                                   *)

Goto(p, label) == pc' = [pc EXCEPT ![p] = label]

Fault == faults < MaxFaults /\ faults' = faults + 1

\* The end of a command, whatever its outcome: its locals and locks are gone.
End(p) ==
    /\ Goto(p, "idle")
    /\ cmd' = IF p = Daily THEN cmd ELSE [cmd EXCEPT ![p] = "none"]
    /\ listed' = [listed EXCEPT ![p] = {}] /\ got' = [got EXCEPT ![p] = {}]
    /\ valid' = [valid EXCEPT ![p] = FALSE]
    /\ todo' = [todo EXCEPT ![p] = {}] /\ plan' = [plan EXCEPT ![p] = {}]
    /\ drifted' = [drifted EXCEPT ![p] = {}] /\ newer' = [newer EXCEPT ![p] = {}]
    /\ absent' = [absent EXCEPT ![p] = {}]
    /\ cur' = [cur EXCEPT ![p] = 0] /\ answer' = [answer EXCEPT ![p] = "none"]
    /\ lock' = [j \in Jobs |-> IF lock[j] = p THEN Nobody ELSE lock[j]]

Because(p, what) ==
    cause' = [cause EXCEPT ![p] = IF cmd[p] = "ingest" THEN what ELSE "none"]

\* Mutant of Raise: no handler around the health step.
RaiseUnmarked(p) == End(p) /\ Because(p, "exception")

\* An exception in the health step: ingest marks its run, a script just ends.
Raise(p) ==
    /\ Because(p, "exception")
    /\ IF cmd[p] = "ingest"
       THEN /\ Goto(p, "fail")
            /\ lock' = [j \in Jobs |-> IF lock[j] = p THEN Nobody ELSE lock[j]]
            /\ UNCHANGED <<cmd, todo, fetched, checking, probing>>
       ELSE End(p)

\* A committed row of evidence of p, newer than every transaction still open.
Supersede(p, j, verdict) ==
    /\ latest' = [latest EXCEPT ![j] = verdict]
    /\ newer' = [q \in Procs |-> IF q # p /\ pc[q] \in {"rows", "append"}
                                 THEN newer[q] \cup {j} ELSE newer[q]]

\* records[: page_size], in feed order
Kept(records, size) == {j \in records : Cardinality({k \in records : k < j}) < size}

\* Mutant of Authority: an empty inventory is as complete as any.
AuthorityOfNothing(p) == Reviewed /\ got[p] = listed[p]

\* verified_complete_inventory_authority: a reviewed feed, validated, every position
\* of it a record, and at least one.
Authority(p) == valid[p] /\ got[p] = listed[p] /\ got[p] # {}

\* Mutant of SightingCounts: migration 099 is missing.
SightingCountsBefore099(p) == ~ Reviewed

\* gold_job_lifecycle_health: which sightings are authoritative - those of jobs whose
\* detail page was fetched, and those of a validated feed.
SightingCounts(p) == ~ Reviewed \/ valid[p]

\* Mutant of Written: an unverifiable answer of any command is written.
WrittenAlways(p, verdict) == verdict \in Outcomes

\* Which answers of a probe are written.
Written(p, verdict) ==
    \/ verdict = "closed" \/ cmd[p] = "probe"
    \/ verdict = "seen_active" /\ cmd[p] # "revalidate"

-----------------------------------------------------------------------------
(* The commands                                                              *)

BeginIngest(p) ==
    /\ pc[p] = "idle"
    /\ p = Daily => cmd[p] # "ingest"
    /\ Goto(p, "fetch")
    /\ cmd' = [cmd EXCEPT ![p] = "ingest"]
    /\ run' = [run EXCEPT ![p] = "running"] /\ Because(p, "none")
    /\ UNCHANGED <<worldVars, tableVars, todo, fetched, checking, probing, lock, budget>>

\* Daily only, after the ingestion, whatever its exit code.
BeginReconcile(p) ==
    /\ pc[p] = "idle" /\ p = Daily /\ cmd[p] = "ingest"
    /\ Goto(p, "load")
    /\ cmd' = [cmd EXCEPT ![p] = "reconcile"]
    /\ run' = [run EXCEPT ![p] = "none"] /\ Because(p, "none")
    /\ UNCHANGED <<worldVars, tableVars, todo, fetched, checking, probing, lock, budget>>

\* ensure_expected_target refuses a row without a source type.
BeginProbe(p, j, command) ==
    /\ pc[p] = "idle" /\ p \in Operators /\ j \in silver /\ kind # "legacy"
    /\ Goto(p, "check")
    /\ cmd' = [cmd EXCEPT ![p] = command]
    /\ run' = [run EXCEPT ![p] = "none"] /\ Because(p, "none")
    /\ todo' = [todo EXCEPT ![p] = {j}]
    /\ UNCHANGED <<worldVars, tableVars, fetched, checking, probing, lock, budget>>

-----------------------------------------------------------------------------
(* ingest: the fetch and the records                                         *)

\* connector.fetch_jobs raises: the run fails at stage source_request.
FetchFails(p) ==
    /\ pc[p] = "fetch" /\ Fault
    /\ run' = [run EXCEPT ![p] = "failed"]
    /\ End(p)
    /\ UNCHANGED <<worldVars, tableVars, cause, changes>>

\* A reviewed feed is one document: all of it or an exception, but it may fail its
\* validation.  The records of the others are found one by one, and some may be lost.
Fetch(p, records, ok, size) ==
    /\ pc[p] = "fetch" /\ records \subseteq feed
    /\ IF Reviewed THEN records = feed ELSE ok
    /\ IF records = feed /\ ok THEN UNCHANGED faults ELSE Fault
    /\ listed' = [listed EXCEPT ![p] = feed]
    /\ got' = [got EXCEPT ![p] = records]
    /\ valid' = [valid EXCEPT ![p] = Reviewed /\ ok]
    /\ todo' = [todo EXCEPT ![p] = Kept(records \cap Matching, size)]
    /\ Goto(p, "record")
    /\ UNCHANGED <<worldVars, tableVars, cmd, status, checking, probing, lock, changes>>

\* save_raw_job: ON CONFLICT DO NOTHING, the existing row is looked up instead.
SaveRawJob(p, j) ==
    /\ pc[p] = "record" /\ j \in todo[p]
    /\ raw' = raw \cup {j}
    /\ cur' = [cur EXCEPT ![p] = j]
    /\ Goto(p, "observe")
    /\ UNCHANGED <<worldVars, silver, latest, todo, cmd, status, fetched, checking,
                   answer, lock, budget>>

SaveJobObservation(p) ==
    /\ pc[p] = "observe"
    /\ IF SightingCounts(p)
       THEN Supersede(p, cur[p], "observed")
       ELSE UNCHANGED <<latest, newer>>
    /\ todo' = [todo EXCEPT ![p] = @ \ {cur[p]}]
    /\ cur' = [cur EXCEPT ![p] = 0]
    /\ Goto(p, "record")
    /\ UNCHANGED <<worldVars, raw, silver, cmd, status, fetched, plan, drifted, absent,
                   answer, lock, budget>>

-----------------------------------------------------------------------------
(* ingest: what the fetch does not list                                      *)

Missing(p) == (IF Authority(p) THEN ActiveTargets ELSE TypedTargets) \ got[p]

\* The targets are loaded once every record is saved; too many missing ones
\* raise before anything is probed or written.
LoadTargets(p) ==
    /\ pc[p] = "record" /\ todo[p] = {}
    /\ IF Cardinality(Missing(p)) > (IF Authority(p) THEN MaxAbsences ELSE MaxProbes)
       THEN Raise(p)
       ELSE LET batch == Authority(p) /\ Missing(p) # {}
            IN  /\ todo' = [todo EXCEPT ![p] = Missing(p)]
                /\ plan' = [plan EXCEPT ![p] = IF batch THEN Missing(p) ELSE {}]
                /\ Goto(p, IF batch THEN "batch" ELSE "check")
                /\ UNCHANGED <<cmd, drifted, newer, absent, fetched, probing, lock, cause>>
    /\ UNCHANGED <<worldVars, tableVars, run, budget>>

\* append_complete_inventory_absence_batch opens its transaction: now() is fixed.
BatchBegin(p) ==
    /\ pc[p] = "batch"
    /\ Goto(p, "rows")
    /\ UNCHANGED <<worldVars, tableVars, todo, cmd, status, fetched, checking,
                   probing, lock, budget>>

\* Mutant of BatchRow: every row of the batch is a transaction of its own.
BatchRowCommits(p, j) ==
    /\ pc[p] = "rows" /\ j \in todo[p] /\ lock[j] = Nobody
    /\ IF j \in drifted[p]
       THEN Raise(p) /\ UNCHANGED latest
       ELSE /\ Supersede(p, j, "not_seen")
            /\ todo' = [todo EXCEPT ![p] = @ \ {j}]
            /\ absent' = [absent EXCEPT ![p] = @ \cup {j}]
            /\ UNCHANGED <<pc, cmd, lock, fetched, plan, drifted, probing, cause>>
    /\ UNCHANGED <<worldVars, raw, silver, run, budget>>

\* One target: wait for its row, read it again, insert; any drift rolls all back.
BatchRow(p, j) ==
    /\ pc[p] = "rows" /\ j \in todo[p] /\ lock[j] = Nobody
    /\ IF j \in drifted[p]
       THEN Raise(p)
       ELSE /\ lock' = [lock EXCEPT ![j] = p]
            /\ todo' = [todo EXCEPT ![p] = @ \ {j}]
            /\ UNCHANGED <<pc, cmd, fetched, checking, probing, cause>>
    /\ UNCHANGED <<worldVars, tableVars, run, budget>>

\* Two batches that wait for each other's rows: the database aborts one.
BatchDeadlock(p, q) ==
    /\ pc[p] = "rows" /\ pc[q] = "rows" /\ p # q
    /\ \E j \in todo[p] : lock[j] = q
    /\ \E j \in todo[q] : lock[j] = p
    /\ Raise(p)
    /\ UNCHANGED <<worldVars, tableVars, run, budget>>

BatchCommit(p) ==
    /\ pc[p] = "rows" /\ todo[p] = {}
    /\ latest' = [j \in Jobs |-> IF j \in plan[p] \ newer[p] THEN "not_seen" ELSE latest[j]]
    /\ lock' = [j \in Jobs |-> IF lock[j] = p THEN Nobody ELSE lock[j]]
    /\ absent' = [absent EXCEPT ![p] = plan[p]]
    /\ plan' = [plan EXCEPT ![p] = {}] /\ newer' = [newer EXCEPT ![p] = {}]
    /\ Goto(p, "check")
    /\ UNCHANGED <<worldVars, raw, silver, todo, cmd, status, fetched, drifted,
                   probing, budget>>

-----------------------------------------------------------------------------
(* One probe per target: ingest without authority, reconcile, probe          *)

\* reconcile loads every active target of a reviewed source.
LoadReviewed(p) ==
    /\ pc[p] = "load"
    /\ LET targets == IF Reviewed THEN ActiveTargets ELSE {}
       IN  IF Cardinality(targets) > MaxReviewed
           THEN Raise(p)
           ELSE /\ todo' = [todo EXCEPT ![p] = targets]
                /\ Goto(p, "check")
                /\ UNCHANGED <<cmd, fetched, checking, probing, lock, cause>>
    /\ UNCHANGED <<worldVars, tableVars, run, budget>>

\* fetch_exact_detail, its classification, and what comes of it
Probe(p, j, answered) ==
    /\ pc[p] = "check" /\ j \in todo[p]
    /\ IF answered THEN UNCHANGED faults ELSE Fault
    /\ LET verdict == ExactDetail(j, answered, cmd[p] = "reconcile")
       IN  IF Written(p, verdict)
           THEN /\ cur' = [cur EXCEPT ![p] = j]
                /\ answer' = [answer EXCEPT ![p] = verdict]
                /\ Goto(p, "append")
           ELSE UNCHANGED <<pc, probing>>
    /\ todo' = [todo EXCEPT ![p] = @ \ {j}]
    /\ UNCHANGED <<worldVars, tableVars, cmd, status, fetched, checking, lock, changes>>

\* append_health_observation: lock the row, read it again, insert.  Its transaction may
\* have begun, and its now() be fixed, before others committed newer evidence.
AppendHealthObservation(p) ==
    /\ pc[p] = "append" /\ lock[cur[p]] = Nobody
    /\ IF cur[p] \in drifted[p]
       THEN Raise(p) /\ UNCHANGED latest
       ELSE /\ \/ Supersede(p, cur[p], answer[p])
               \/ cur[p] \in newer[p] /\ UNCHANGED <<latest, newer>>
            /\ cur' = [cur EXCEPT ![p] = 0] /\ answer' = [answer EXCEPT ![p] = "none"]
            /\ Goto(p, "check")
            /\ UNCHANGED <<cmd, todo, fetched, plan, drifted, absent, lock, cause>>
    /\ UNCHANGED <<worldVars, raw, silver, run, budget>>

\* finish_ingestion_run, or the end of a script
Finish(p) ==
    /\ pc[p] = "check" /\ todo[p] = {}
    /\ run' = IF cmd[p] = "ingest" THEN [run EXCEPT ![p] = "success"] ELSE run
    /\ End(p)
    /\ UNCHANGED <<worldVars, tableVars, cause, budget>>

\* fail_ingestion_run, stage recurring_lifecycle_health
FailIngestionRun(p) ==
    /\ pc[p] = "fail"
    /\ run' = [run EXCEPT ![p] = "failed"] /\ Because(p, "none")
    /\ End(p)
    /\ UNCHANGED <<worldVars, tableVars, budget>>

\* The try block of the health step, with the loading of its targets
InHealthStep(p) ==
    \/ pc[p] \in {"load", "batch", "rows", "append"}
    \/ pc[p] = "check" /\ todo[p] # {}
    \/ pc[p] = "record" /\ todo[p] = {}

\* A statement raises in a process that lives on to its exit code.  The handler of the
\* health step marks the run; nothing does so for the statements after the fetch, those
\* that save a record, and those that end the run.
StatementFails(p) ==
    /\ pc[p] # "idle" /\ Fault
    /\ IF InHealthStep(p) THEN Raise(p) ELSE End(p) /\ Because(p, "statement")
    /\ UNCHANGED <<worldVars, tableVars, run, changes>>

\* The last COMMIT of the health step took effect, but its answer is lost: the handler
\* ends the run as failed all the same.
CommitUnanswered(p) ==
    /\ pc[p] = "check" /\ todo[p] = {} /\ Fault
    /\ run' = IF cmd[p] = "ingest" THEN [run EXCEPT ![p] = "failed"] ELSE run
    /\ End(p) /\ Because(p, "commit")
    /\ UNCHANGED <<worldVars, tableVars, changes>>

\* The process of the command is killed: nothing is left but what was committed.  The
\* script of the daily pipeline goes on with its next command.
Kill(p) ==
    /\ pc[p] # "idle" /\ Fault
    /\ End(p) /\ Because(p, "kill")
    /\ UNCHANGED <<worldVars, tableVars, run, changes>>

-----------------------------------------------------------------------------
(* Around the commands                                                       *)

\* The employer lists and withdraws vacancies, opens and closes their pages.
SiteChanges ==
    /\ changes < MaxChanges /\ changes' = changes + 1
    /\ \E site \in Sites : feed' = site.feed /\ page' = site.page
    /\ UNCHANGED <<kind, tableVars, progress, cmd, status, fetched, checking, probing,
                   lock, faults>>

\* The daily pipeline normalises Bronze after it has reconciled.
SilverWritten(j) ==
    /\ pc[Daily] = "idle" /\ cmd[Daily] = "reconcile" /\ j \in raw \ silver
    /\ silver' = silver \cup {j}
    /\ UNCHANGED <<worldVars, raw, latest, progress, cmd, status, fetched, checking,
                   probing, lock, budget>>

HasTargets(q) == pc[q] \in {"batch", "rows", "check", "append"}

\* A projection rewrites the identity columns of a Silver row nobody has locked.
SilverRewritten(j) ==
    /\ Fault /\ j \in silver /\ lock[j] = Nobody
    /\ drifted' = [q \in Procs |-> IF HasTargets(q) THEN drifted[q] \cup {j} ELSE drifted[q]]
    /\ UNCHANGED <<worldVars, tableVars, progress, cmd, status, fetched, plan, newer,
                   absent, probing, lock, changes>>

-----------------------------------------------------------------------------
Step(p) ==
    \/ \E records \in SUBSET feed, ok \in BOOLEAN, size \in PageSizes :
           Fetch(p, records, ok, size)
    \/ \E j \in Jobs : SaveRawJob(p, j)
    \/ SaveJobObservation(p)
    \/ LoadTargets(p) \/ BatchBegin(p) \/ BatchCommit(p)
    \/ \E j \in Jobs : BatchRow(p, j)
    \/ \E q \in Procs : BatchDeadlock(p, q)
    \/ LoadReviewed(p)
    \/ \E j \in Jobs, answered \in BOOLEAN : Probe(p, j, answered)
    \/ AppendHealthObservation(p) \/ Finish(p) \/ FailIngestionRun(p)

Next ==
    \/ \E p \in Procs : \/ BeginIngest(p) \/ BeginReconcile(p)
                        \/ \E j \in Jobs, command \in {"probe", "revalidate"} : BeginProbe(p, j, command)
                        \/ Step(p) \/ FetchFails(p) \/ StatementFails(p)
                        \/ CommitUnanswered(p) \/ Kill(p)
    \/ SiteChanges
    \/ \E j \in Jobs : SilverWritten(j) \/ SilverRewritten(j)

\* Processes are scheduled and the daily pipeline is started day after day; nobody
\* promises that an operator does anything, or that Silver finds a job relevant.
Fairness ==
    /\ \A p \in Procs : WF_vars(Step(p))
    /\ WF_vars(BeginIngest(Daily)) /\ WF_vars(BeginReconcile(Daily))

Spec == Init /\ [][Next]_vars /\ Fairness

-----------------------------------------------------------------------------
(* Properties                                                                *)

\* A job is recorded as absent only by an ingest that fetched a feed which listed
\* other jobs and not this one: neither the keyword filter, nor the page size, nor
\* a partial or empty answer of the source makes a vacancy look withdrawn.
AbsenceIsTrue ==
    [][\A j \in Jobs :
          latest[j] # "not_seen" /\ latest'[j] = "not_seen"
          => \E p \in Procs : pc[p] = "rows" /\ listed[p] # {} /\ j \notin listed[p]]_vars

\* The absences of one inventory become visible together or not at all, and never
\* replace evidence newer than the transaction that writes them.
AbsencesAreOneBatch ==
    [][\A p \in Procs :
          LET written == {j \in Jobs : latest[j] # "not_seen" /\ latest'[j] = "not_seen"}
          IN  pc[p] = "rows" /\ <<pc[p], todo[p]>> # <<pc'[p], todo'[p]>> /\ written # {}
              => \A j \in plan[p] : latest'[j] = IF j \in newer[p] THEN latest[j] ELSE "not_seen"]_vars

\* Nothing that an inconclusive answer says replaces positive truth, unless an
\* operator asked for exactly that job.
OnlyOperatorsRecordDoubt ==
    [][\A j \in Jobs : latest[j] # "unverifiable" /\ latest'[j] = "unverifiable"
          => \E p \in Operators : cmd[p] = "probe" /\ cur[p] = j]_vars

\* The status of a run agrees with the evidence, whatever drift, deadlock, cap or failed
\* statement ended it (runner.py:538-597): a run that ends as failed has recorded no
\* absence, unless it never learned that its COMMIT took effect, and an exception of the
\* fetch or of the health step always ends it as failed: a run stays "running" only when
\* its process was killed or a statement failed that no handler covers.
RunStatusIsTrue ==
    [][\A p \in Procs : cmd[p] = "ingest" /\ pc[p] # "idle" /\ pc'[p] = "idle" =>
          /\ run'[p] = "failed" => absent[p] = {} \/ cause'[p] = "commit"
          /\ run'[p] = "running" => cause'[p] \in {"kill", "statement"}]_vars

TooManyMissing == Cardinality(ActiveTargets \ feed) > MaxProbes

\* What can prove that a vacancy which is not listed any more is closed: the page says
\* so, or the complete inventory that omits it; Personio's own 404 only in a reviewed
\* source.  Any other 404, a redirect or another title is no proof in a detail source.
Provable(j) ==
    /\ j \notin feed
    /\ \/ page[j] = "closed"
       \/ page[j] = "notfound" /\ Reviewed
       \/ page[j] = "moved" /\ Reviewed /\ feed # {}

\* Once the site is still, a vacancy that is not listed and provably closed ends up not
\* active, whatever was killed, refused or interleaved before - unless more are missing
\* at once than a pass may probe, so that every run refuses to conclude anything
\* (recurring_lifecycle_health.py:135).
GoneIsNoticed ==
    <>[](TooManyMissing
         \/ \A j \in silver : Provable(j) => LifecycleStatus(j) # "active_confirmed")

\* A vacancy that is listed, reachable and within the page size ends up active, even
\* if an ingest that fetched earlier has recorded its absence in between.
ListedIsActive ==
    <>[](\A j \in Kept(feed \cap Matching, CHOOSE n \in PageSizes : \A m \in PageSizes : n <= m) :
            page[j] = "live" => LifecycleStatus(j) = "active_confirmed")
================================================================================
