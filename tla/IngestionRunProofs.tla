--------------------------- MODULE IngestionRunProofs --------------------------
(***************************************************************************)
(* Theorems of IngestionRun, for any jobs, operators, caps, sites and       *)
(* bounds.  The inductive invariant adds to the types the facts that the    *)
(* action properties need: what a batch of absences was planned from        *)
(* (BatchPlanned), what an answer that waits to be written may be           *)
(* (AnswerKnown), who probes (ProbedByHand), that the absences of a run are *)
(* the last thing it records (RecordedLast), and that a run is not ended    *)
(* before its command (RunOpen).                                            *)
(***************************************************************************)
EXTENDS IngestionRun, TLAPS

USE DEF Procs, Daily, Nobody

\* A process that is to write about a job has one in hand.
InHand(p) == pc[p] \in {"observe", "append"} => cur[p] \in Jobs

\* The absences of an open batch are of jobs that the fetched feed, which was not
\* empty, did not list.
BatchPlanned(p) ==
    pc[p] \in {"batch", "rows"} => listed[p] # {} /\ plan[p] \cap listed[p] = {}

\* An answer that waits to be written is one that a probe gives, and an unverifiable
\* one waits in an operator's probe only.
AnswerKnown(p) ==
    pc[p] = "append"
    => /\ answer[p] \in {"seen_active", "closed", "unverifiable"}
       /\ answer[p] = "unverifiable" => cmd[p] = "probe"

\* Only operators probe single jobs.
ProbedByHand(p) == cmd[p] = "probe" => p \in Operators

\* A run that has recorded absences has nothing left to do but to end.
RecordedLast(p) == absent[p] # {} => pc[p] = "check" /\ todo[p] = {}

\* The run of an ingest that goes on is running.
RunOpen(p) == cmd[p] = "ingest" /\ pc[p] # "idle" => run[p] = "running"

Sound(p) ==
    /\ InHand(p) /\ BatchPlanned(p) /\ AnswerKnown(p) /\ ProbedByHand(p)
    /\ RecordedLast(p) /\ RunOpen(p)

Causes == {"none", "kill", "statement", "commit", "exception"}

IInv == TypeOK /\ \A p \in Procs : Sound(p)

\* A command that ends leaves typed locals.
LEMMA EndTyped ==
    ASSUME LocalsTypeOK, NEW p \in Procs, End(p)
    PROVE  LocalsTypeOK'
  BY DEF LocalsTypeOK, End, Goto, Labels, Commands

\* What cut a command short is one of the causes.
LEMMA CauseTyped ==
    ASSUME cause \in [Procs -> Causes], NEW p \in Procs, NEW what \in Causes,
           Because(p, what)
    PROVE  cause' \in [Procs -> Causes]
  BY DEF Because, Causes

\* An exception of the health step leaves typed locals.
LEMMA RaiseTyped ==
    ASSUME LocalsTypeOK, cause \in [Procs -> Causes], NEW p \in Procs, Raise(p)
    PROVE  LocalsTypeOK' /\ cause' \in [Procs -> Causes]
<1>1. cause' \in [Procs -> Causes]
  BY CauseTyped DEF Raise, Causes
<1>2. CASE cmd[p] = "ingest"
  BY <1>1, <1>2 DEF LocalsTypeOK, Raise, Goto, Labels, fetched, checking, probing
<1>3. CASE cmd[p] # "ingest"
  BY <1>1, <1>3, EndTyped DEF Raise
<1> QED BY <1>2, <1>3

\* The targets of a health step are jobs.
LEMMA TargetsAreJobs ==
    ASSUME TablesTypeOK
    PROVE  ActiveTargets \subseteq Jobs /\ TypedTargets \subseteq Jobs
  BY DEF TablesTypeOK, ActiveTargets, TypedTargets

\* A fault is counted within its bound.
LEMMA FaultTyped ==
    ASSUME faults \in 0..MaxFaults, Fault
    PROVE  faults' \in 0..MaxFaults
  BY IngestionAssumption DEF Fault

\* New evidence leaves typed tables and locals.
LEMMA SupersedeTyped ==
    ASSUME TablesTypeOK, LocalsTypeOK, NEW p \in Procs, NEW j \in Jobs,
           NEW verdict \in Evidence, Supersede(p, j, verdict)
    PROVE  latest' \in [Jobs -> Evidence] /\ newer' \in [Procs -> SUBSET Jobs]
<1>1. latest' \in [Jobs -> Evidence]
  BY DEF Supersede, TablesTypeOK
<1>2. newer' \in [Procs -> SUBSET Jobs]
  BY DEF Supersede, LocalsTypeOK
<1> QED BY <1>1, <1>2

-----------------------------------------------------------------------------
(* Types                                                                     *)

LEMMA InitTyped == Init => TypeOK
<1> SUFFICES ASSUME Init PROVE TypeOK
  OBVIOUS
<1>1. TablesTypeOK
  <2>1. PICK site \in Sites : feed = site.feed /\ page = site.page
    BY DEF Init
  <2>2. feed \subseteq Jobs /\ page \in [Jobs -> Pages]
    BY <2>1, IngestionAssumption
  <2> QED
    BY <2>2 DEF Init, TablesTypeOK, Evidence
<1>2. LocalsTypeOK
  BY DEF Init, LocalsTypeOK, Labels, Commands
<1>3. /\ run \in [Procs -> {"none", "running", "success", "failed"}]
      /\ cause \in [Procs -> Causes]
      /\ changes \in 0..MaxChanges /\ faults \in 0..MaxFaults
  BY IngestionAssumption DEF Init, Causes
<1> QED
  BY <1>1, <1>2, <1>3 DEF TypeOK, Causes

LEMMA StepTyped ==
    ASSUME TypeOK, NEW p \in Procs, InHand(p), AnswerKnown(p), Step(p)
    PROVE  TypeOK'
<1> USE DEF TypeOK, Causes, Goto, worldVars, tableVars, status, fetched, checking, probing,
            budget
<1>1. ASSUME NEW records \in SUBSET feed, NEW ok \in BOOLEAN, NEW size \in PageSizes,
             Fetch(p, records, ok, size)
      PROVE  TypeOK'
  <2>1. feed' = feed /\ records \subseteq Jobs /\ feed \subseteq Jobs
    BY <1>1 DEF Fetch, TablesTypeOK
  <2>2. Kept(records \cap Matching, size) \subseteq Jobs
    BY <2>1 DEF Kept
  <2>3. (Reviewed /\ ok) \in BOOLEAN
    BY DEF Reviewed
  <2>4. LocalsTypeOK'
    BY <1>1, <2>1, <2>2, <2>3 DEF Fetch, LocalsTypeOK, Labels
  <2>5. faults' \in 0..MaxFaults
    BY <1>1, FaultTyped DEF Fetch
  <2> QED
    BY <1>1, <2>4, <2>5 DEF Fetch, TablesTypeOK
<1>2. ASSUME NEW j \in Jobs, SaveRawJob(p, j) PROVE TypeOK'
  <2>1. LocalsTypeOK'
    BY <1>2 DEF SaveRawJob, LocalsTypeOK, Labels
  <2>2. TablesTypeOK'
    BY <1>2 DEF SaveRawJob, TablesTypeOK
  <2> QED
    BY <1>2, <2>1, <2>2 DEF SaveRawJob
<1>3. CASE SaveJobObservation(p)
  <2>1. latest' \in [Jobs -> Evidence] /\ newer' \in [Procs -> SUBSET Jobs]
    <3>1. cur[p] \in Jobs /\ "observed" \in Evidence
      BY <1>3 DEF SaveJobObservation, InHand, Evidence
    <3>2. CASE Supersede(p, cur[p], "observed")
      BY <3>1, <3>2, SupersedeTyped
    <3>3. CASE UNCHANGED <<latest, newer>>
      BY <3>3 DEF TablesTypeOK, LocalsTypeOK
    <3> QED
      BY <1>3, <3>2, <3>3 DEF SaveJobObservation
  <2>2. LocalsTypeOK'
    BY <1>3, <2>1 DEF SaveJobObservation, LocalsTypeOK, Labels
  <2> QED
    BY <1>3, <2>1, <2>2 DEF SaveJobObservation, TablesTypeOK
<1>4. CASE LoadTargets(p)
  <2>1. TablesTypeOK' /\ UNCHANGED <<run, budget>>
    BY <1>4 DEF LoadTargets, TablesTypeOK
  <2>2. CASE Raise(p)
    BY <2>1, <2>2, RaiseTyped
  <2>3. CASE ~ Raise(p)
    <3>1. Missing(p) \subseteq Jobs
      BY TargetsAreJobs DEF Missing
    <3> QED
      BY <1>4, <2>1, <2>3, <3>1 DEF LoadTargets, LocalsTypeOK, Labels
  <2> QED
    BY <2>2, <2>3
<1>5. CASE BatchBegin(p)
  BY <1>5 DEF BatchBegin, TablesTypeOK, LocalsTypeOK, Labels
<1>6. CASE BatchCommit(p)
  <2>1. latest' \in [Jobs -> Evidence]
    BY <1>6 DEF BatchCommit, TablesTypeOK, Evidence, Outcomes
  <2>2. LocalsTypeOK'
    BY <1>6 DEF BatchCommit, LocalsTypeOK, Labels
  <2> QED
    BY <1>6, <2>1, <2>2 DEF BatchCommit, TablesTypeOK
<1>7. ASSUME NEW j \in Jobs, BatchRow(p, j) PROVE TypeOK'
  <2>1. TablesTypeOK' /\ UNCHANGED <<run, budget>>
    BY <1>7 DEF BatchRow, TablesTypeOK
  <2>2. CASE j \in drifted[p]
    BY <1>7, <2>1, <2>2, RaiseTyped DEF BatchRow
  <2>3. CASE j \notin drifted[p]
    BY <1>7, <2>1, <2>3 DEF BatchRow, LocalsTypeOK
  <2> QED
    BY <2>2, <2>3
<1>8. ASSUME NEW q \in Procs, BatchDeadlock(p, q) PROVE TypeOK'
  BY <1>8, RaiseTyped DEF BatchDeadlock, TablesTypeOK
<1>9. CASE LoadReviewed(p)
  <2>1. TablesTypeOK' /\ UNCHANGED <<run, budget>>
    BY <1>9 DEF LoadReviewed, TablesTypeOK
  <2>2. CASE Raise(p)
    BY <2>1, <2>2, RaiseTyped
  <2>3. CASE ~ Raise(p)
    BY <1>9, <2>1, <2>3, TargetsAreJobs DEF LoadReviewed, LocalsTypeOK, Labels
  <2> QED
    BY <2>2, <2>3
<1>10. ASSUME NEW j \in Jobs, NEW answered \in BOOLEAN, Probe(p, j, answered) PROVE TypeOK'
  <2>1. faults' \in 0..MaxFaults
    BY <1>10, FaultTyped DEF Probe
  <2>2. ExactDetail(j, answered, cmd[p] = "reconcile") \in Outcomes
    BY DEF ExactDetail, Outcomes
  <2>3. LocalsTypeOK'
    BY <1>10, <2>2 DEF Probe, LocalsTypeOK, Labels
  <2> QED
    BY <1>10, <2>1, <2>3 DEF Probe, TablesTypeOK
<1>11. CASE AppendHealthObservation(p)
  <2>1. CASE cur[p] \in drifted[p]
    BY <1>11, <2>1, RaiseTyped DEF AppendHealthObservation, TablesTypeOK
  <2>2. CASE cur[p] \notin drifted[p]
    <3>1. answer[p] \in Evidence
      BY <1>11 DEF AppendHealthObservation, AnswerKnown, Evidence, Outcomes
    <3>2. latest' \in [Jobs -> Evidence] /\ newer' \in [Procs -> SUBSET Jobs]
      <4>1. CASE Supersede(p, cur[p], answer[p])
        BY <1>11, <3>1, <4>1, SupersedeTyped DEF AppendHealthObservation, InHand
      <4>2. CASE UNCHANGED <<latest, newer>>
        BY <4>2 DEF TablesTypeOK, LocalsTypeOK
      <4> QED
        BY <1>11, <2>2, <4>1, <4>2 DEF AppendHealthObservation
    <3>3. LocalsTypeOK'
      BY <1>11, <2>2, <3>2 DEF AppendHealthObservation, LocalsTypeOK, Labels
    <3> QED
      <4>1. UNCHANGED <<worldVars, raw, silver, run, budget>> /\ cause' = cause
        BY <1>11, <2>2 DEF AppendHealthObservation
      <4>2. TablesTypeOK'
        BY <3>2, <4>1 DEF TablesTypeOK
      <4> QED
        BY <3>3, <4>1, <4>2
  <2> QED
    BY <2>1, <2>2
<1>12. CASE Finish(p)
  BY <1>12, EndTyped DEF Finish, TablesTypeOK
<1>13. CASE FailIngestionRun(p)
  BY <1>13, EndTyped, CauseTyped DEF FailIngestionRun, TablesTypeOK
<1> QED BY <1>1, <1>2, <1>3, <1>4, <1>5, <1>6, <1>7, <1>8, <1>9, <1>10, <1>11, <1>12,
           <1>13 DEF Step

\* What the environment and the starts of commands do, and faults.
LEMMA OtherTyped ==
    ASSUME TypeOK, Next, ~ \E p \in Procs : Step(p)
    PROVE  TypeOK'
<1> USE DEF TypeOK, Causes, Goto, worldVars, tableVars, status, fetched, checking, probing,
            budget, progress
<1>1. ASSUME NEW p \in Procs, BeginIngest(p) PROVE TypeOK'
  BY <1>1, CauseTyped DEF BeginIngest, TablesTypeOK, LocalsTypeOK, Labels, Commands
<1>2. ASSUME NEW p \in Procs, BeginReconcile(p) PROVE TypeOK'
  BY <1>2, CauseTyped DEF BeginReconcile, TablesTypeOK, LocalsTypeOK, Labels, Commands
<1>3. ASSUME NEW p \in Procs, NEW j \in Jobs, NEW command \in {"probe", "revalidate"},
            BeginProbe(p, j, command) PROVE TypeOK'
  BY <1>3, CauseTyped DEF BeginProbe, TablesTypeOK, LocalsTypeOK, Labels, Commands
<1>4. ASSUME NEW p \in Procs, FetchFails(p) PROVE TypeOK'
  <2>1. faults' \in 0..MaxFaults
    BY <1>4, FaultTyped DEF FetchFails
  <2> QED
    BY <1>4, <2>1, EndTyped DEF FetchFails, TablesTypeOK
<1>5. ASSUME NEW p \in Procs, Kill(p) PROVE TypeOK'
  <2>1. faults' \in 0..MaxFaults
    BY <1>5, FaultTyped DEF Kill
  <2> QED
    BY <1>5, <2>1, EndTyped, CauseTyped DEF Kill, TablesTypeOK
<1>9. ASSUME NEW p \in Procs, StatementFails(p) PROVE TypeOK'
  <2>1. faults' \in 0..MaxFaults /\ TablesTypeOK' /\ UNCHANGED <<run, changes>>
    BY <1>9, FaultTyped DEF StatementFails, TablesTypeOK
  <2>2. CASE InHealthStep(p)
    BY <1>9, <2>1, <2>2, RaiseTyped DEF StatementFails
  <2>3. CASE ~ InHealthStep(p)
    BY <1>9, <2>1, <2>3, EndTyped, CauseTyped DEF StatementFails
  <2> QED
    BY <2>2, <2>3
<1>10. ASSUME NEW p \in Procs, CommitUnanswered(p) PROVE TypeOK'
  <2>1. faults' \in 0..MaxFaults
    BY <1>10, FaultTyped DEF CommitUnanswered
  <2> QED
    BY <1>10, <2>1, EndTyped, CauseTyped DEF CommitUnanswered, TablesTypeOK
<1>6. CASE SiteChanges
  <2>1. PICK site \in Sites : feed' = site.feed /\ page' = site.page
    BY <1>6 DEF SiteChanges
  <2>2. feed' \subseteq Jobs /\ page' \in [Jobs -> Pages]
    BY <2>1, IngestionAssumption
  <2>3. changes' \in 0..MaxChanges
    BY <1>6, IngestionAssumption DEF SiteChanges
  <2> QED
    BY <1>6, <2>2, <2>3 DEF SiteChanges, TablesTypeOK, LocalsTypeOK
<1>7. ASSUME NEW j \in Jobs, SilverWritten(j) PROVE TypeOK'
  BY <1>7 DEF SilverWritten, TablesTypeOK, LocalsTypeOK
<1>8. ASSUME NEW j \in Jobs, SilverRewritten(j) PROVE TypeOK'
  <2>1. faults' \in 0..MaxFaults
    BY <1>8, FaultTyped DEF SilverRewritten
  <2> QED
    BY <1>8, <2>1 DEF SilverRewritten, TablesTypeOK, LocalsTypeOK
<1> QED
  BY <1>1, <1>2, <1>3, <1>4, <1>5, <1>6, <1>7, <1>8, <1>9, <1>10 DEF Next

-----------------------------------------------------------------------------
(* The other facts                                                           *)

\* What a process does leaves the others' locals alone, except for what they are
\* told of (newer).
Untouched(q) ==
    /\ pc'[q] = pc[q] /\ cur'[q] = cur[q] /\ answer'[q] = answer[q] /\ cmd'[q] = cmd[q]
    /\ listed'[q] = listed[q] /\ plan'[q] = plan[q] /\ todo'[q] = todo[q]
    /\ absent'[q] = absent[q] /\ run'[q] = run[q]

\* A process that is done with its batch and has nothing in hand.
AtRest(p) ==
    /\ pc'[p] \notin {"observe", "append", "batch", "rows"}
    /\ cmd'[p] \in {cmd[p], "none"}
    /\ absent'[p] = {}
    /\ pc'[p] = "idle" \/ (pc[p] # "idle" /\ cmd'[p] = cmd[p] /\ run'[p] = run[p])

\* What a command leaves of the others' locals when it ends.
Alone(p) == \A q \in Procs \ {p} : run'[q] = run[q] => Untouched(q)

LEMMA EndRests ==
    ASSUME LocalsTypeOK, NEW p \in Procs, End(p)
    PROVE  /\ AtRest(p) /\ pc'[p] = "idle"
           /\ Alone(p)
  BY DEF LocalsTypeOK, End, Goto, AtRest, Untouched, Alone

LEMMA RaiseRests ==
    ASSUME LocalsTypeOK, NEW p \in Procs, Raise(p), UNCHANGED run,
           pc[p] # "idle", absent[p] = {}
    PROVE  /\ AtRest(p) /\ (cmd[p] = "ingest" => pc'[p] = "fail")
           /\ Alone(p)
<1>1. CASE cmd[p] = "ingest"
  BY <1>1 DEF LocalsTypeOK, Raise, Goto, AtRest, Untouched, Alone, fetched, checking, probing
<1>2. CASE cmd[p] # "ingest"
  BY <1>2, EndRests DEF Raise
<1> QED BY <1>1, <1>2

LEMMA UntouchedSound ==
    ASSUME NEW p \in Procs, Sound(p), Untouched(p)
    PROVE  Sound(p)'
  BY DEF Sound, InHand, BatchPlanned, AnswerKnown, ProbedByHand, RecordedLast, RunOpen,
         Untouched

LEMMA AtRestSound ==
    ASSUME NEW p \in Procs, Sound(p), AtRest(p)
    PROVE  Sound(p)'
  BY DEF Sound, InHand, BatchPlanned, AnswerKnown, ProbedByHand, RecordedLast, RunOpen, AtRest

\* A step of a process is sound, and touches no other process.
LEMMA StepSound ==
    ASSUME IInv, NEW p \in Procs, Step(p)
    PROVE  Sound(p)' /\ \A q \in Procs \ {p} : Untouched(q)
<1> DEFINE Holds == Sound(p)' /\ \A q \in Procs \ {p} : Untouched(q)
<1>0. /\ LocalsTypeOK /\ Sound(p)
      /\ run \in [Procs -> {"none", "running", "success", "failed"}]
      /\ absent[p] = {} \/ (pc[p] = "check" /\ todo[p] = {})
  BY DEF IInv, TypeOK, Sound, RecordedLast
<1> USE <1>0 DEF Goto, status, fetched, checking, probing
<1>1. ASSUME NEW records \in SUBSET feed, NEW ok \in BOOLEAN, NEW size \in PageSizes,
             Fetch(p, records, ok, size)
      PROVE  Holds
  <2>1. AtRest(p)
    BY <1>1 DEF Fetch, AtRest, LocalsTypeOK
  <2>2. \A q \in Procs \ {p} : Untouched(q)
    BY <1>1 DEF Fetch, Untouched, LocalsTypeOK
  <2> QED
    BY <2>1, <2>2, AtRestSound
<1>2. ASSUME NEW j \in Jobs, SaveRawJob(p, j) PROVE Holds
  <2>1. \A q \in Procs \ {p} : Untouched(q)
    BY <1>2 DEF SaveRawJob, Untouched, LocalsTypeOK
  <2>2. /\ pc[p] = "record" /\ pc'[p] = "observe" /\ cur'[p] = j
        /\ absent' = absent /\ absent[p] = {} /\ run' = run /\ cmd' = cmd
    BY <1>2 DEF SaveRawJob, LocalsTypeOK
  <2> QED
    BY <2>1, <2>2 DEF Sound, InHand, BatchPlanned, AnswerKnown, ProbedByHand, RecordedLast, RunOpen
<1>3. CASE SaveJobObservation(p)
  <2>1. AtRest(p)
    BY <1>3 DEF SaveJobObservation, AtRest, LocalsTypeOK
  <2>2. \A q \in Procs \ {p} : Untouched(q)
    BY <1>3 DEF SaveJobObservation, Untouched, LocalsTypeOK
  <2> QED
    BY <2>1, <2>2, AtRestSound
<1>4. CASE LoadTargets(p)
  <2>0. UNCHANGED run /\ pc[p] = "record" /\ absent[p] = {}
    BY <1>4 DEF LoadTargets
  <2>1. CASE Raise(p)
    BY <2>0, <2>1, RaiseRests, AtRestSound DEF Alone
  <2>2. CASE ~ Raise(p)
    <3>1. \A q \in Procs \ {p} : Untouched(q)
      BY <1>4, <2>2 DEF LoadTargets, Untouched, LocalsTypeOK
    <3>2. CASE Authority(p) /\ Missing(p) # {}
      <4>1. /\ pc'[p] = "batch" /\ plan'[p] = Missing(p)
            /\ cmd' = cmd /\ listed' = listed /\ absent' = absent
        BY <1>4, <2>2, <3>2 DEF LoadTargets, LocalsTypeOK
      <4>2. listed[p] # {} /\ Missing(p) \cap listed[p] = {}
        BY <3>2 DEF Authority, Missing
      <4> QED
        BY <2>0, <3>1, <4>1, <4>2
           DEF Sound, InHand, BatchPlanned, AnswerKnown, ProbedByHand, RecordedLast, RunOpen
    <3>3. CASE ~ (Authority(p) /\ Missing(p) # {})
      <4>1. AtRest(p)
        BY <1>4, <2>0, <2>2, <3>3 DEF LoadTargets, AtRest, LocalsTypeOK
      <4> QED
        BY <3>1, <4>1, AtRestSound
    <3> QED
      BY <3>2, <3>3
  <2> QED
    BY <2>1, <2>2
<1>5. CASE BatchBegin(p)
  <2>1. \A q \in Procs \ {p} : Untouched(q)
    BY <1>5 DEF BatchBegin, Untouched, LocalsTypeOK
  <2>2. /\ pc[p] = "batch" /\ pc'[p] = "rows" /\ absent' = absent /\ absent[p] = {}
        /\ run' = run /\ cmd' = cmd /\ plan' = plan /\ listed' = listed
    BY <1>5 DEF BatchBegin, LocalsTypeOK
  <2> QED
    BY <2>1, <2>2 DEF Sound, InHand, BatchPlanned, AnswerKnown, ProbedByHand, RecordedLast, RunOpen
<1>6. CASE BatchCommit(p)
  <2>1. \A q \in Procs \ {p} : Untouched(q)
    BY <1>6 DEF BatchCommit, Untouched, LocalsTypeOK
  <2>2. /\ pc[p] = "rows" /\ pc'[p] = "check" /\ todo'[p] = {}
        /\ run' = run /\ cmd' = cmd
    BY <1>6 DEF BatchCommit, LocalsTypeOK
  <2> QED
    BY <2>1, <2>2 DEF Sound, InHand, BatchPlanned, AnswerKnown, ProbedByHand, RecordedLast, RunOpen
<1>7. ASSUME NEW j \in Jobs, BatchRow(p, j) PROVE Holds
  <2>0. UNCHANGED run /\ pc[p] = "rows" /\ absent[p] = {}
    BY <1>7 DEF BatchRow
  <2>1. CASE j \in drifted[p]
    BY <1>7, <2>0, <2>1, RaiseRests, AtRestSound DEF BatchRow, Alone
  <2>2. CASE j \notin drifted[p]
    <3>1. \A q \in Procs \ {p} : Untouched(q)
      BY <1>7, <2>2 DEF BatchRow, Untouched, LocalsTypeOK
    <3>2. /\ UNCHANGED <<pc, cmd, listed, plan, absent>>
      BY <1>7, <2>2 DEF BatchRow
    <3> QED
      BY <2>0, <3>1, <3>2
         DEF Sound, InHand, BatchPlanned, AnswerKnown, ProbedByHand, RecordedLast, RunOpen
  <2> QED
    BY <2>1, <2>2
<1>8. ASSUME NEW q \in Procs, BatchDeadlock(p, q) PROVE Holds
  <2>1. UNCHANGED run /\ pc[p] = "rows" /\ absent[p] = {} /\ Raise(p)
    BY <1>8 DEF BatchDeadlock
  <2> QED
    BY <2>1, RaiseRests, AtRestSound DEF Alone
<1>9. CASE LoadReviewed(p)
  <2>0. UNCHANGED run /\ pc[p] = "load" /\ absent[p] = {}
    BY <1>9 DEF LoadReviewed
  <2>1. CASE Raise(p)
    BY <2>0, <2>1, RaiseRests, AtRestSound DEF Alone
  <2>2. CASE ~ Raise(p)
    <3>1. AtRest(p)
      BY <1>9, <2>0, <2>2 DEF LoadReviewed, AtRest, LocalsTypeOK
    <3>2. \A q \in Procs \ {p} : Untouched(q)
      BY <1>9, <2>2 DEF LoadReviewed, Untouched, LocalsTypeOK
    <3> QED
      BY <3>1, <3>2, AtRestSound
  <2> QED
    BY <2>1, <2>2
<1>10. ASSUME NEW j \in Jobs, NEW answered \in BOOLEAN, Probe(p, j, answered) PROVE Holds
  <2> DEFINE verdict == ExactDetail(j, answered, cmd[p] = "reconcile")
  <2>1. verdict \in {"seen_active", "closed", "unverifiable"}
    BY DEF ExactDetail
  <2>2. \A q \in Procs \ {p} : Untouched(q)
    BY <1>10 DEF Probe, Untouched, LocalsTypeOK
  <2>0. /\ pc[p] = "check" /\ todo[p] # {} /\ absent[p] = {}
        /\ run' = run /\ cmd' = cmd /\ absent' = absent
    BY <1>10 DEF Probe
  <2>3. CASE Written(p, verdict)
    <3>1. pc'[p] = "append" /\ cur'[p] = j /\ answer'[p] = verdict
      BY <1>10, <2>3 DEF Probe, LocalsTypeOK
    <3> HIDE DEF verdict
    <3>2. answer'[p] = "unverifiable" => cmd'[p] = "probe"
      BY <2>0, <2>3, <3>1 DEF Written
    <3> QED
      BY <2>0, <2>1, <2>2, <3>1, <3>2
         DEF Sound, InHand, BatchPlanned, AnswerKnown, ProbedByHand, RecordedLast, RunOpen
  <2>4. CASE ~ Written(p, verdict)
    <3>1. pc' = pc
      BY <1>10, <2>4 DEF Probe
    <3>2. AtRest(p)
      BY <2>0, <3>1 DEF AtRest
    <3> QED
      BY <2>2, <3>2, AtRestSound
  <2> QED
    BY <2>3, <2>4
<1>11. CASE AppendHealthObservation(p)
  <2>0. UNCHANGED run /\ pc[p] = "append" /\ absent[p] = {}
    BY <1>11 DEF AppendHealthObservation
  <2>1. CASE cur[p] \in drifted[p]
    BY <1>11, <2>0, <2>1, RaiseRests, AtRestSound DEF AppendHealthObservation, Alone
  <2>2. CASE cur[p] \notin drifted[p]
    <3>1. AtRest(p)
      BY <1>11, <2>0, <2>2 DEF AppendHealthObservation, AtRest, LocalsTypeOK
    <3>2. \A q \in Procs \ {p} : Untouched(q)
      BY <1>11, <2>2 DEF AppendHealthObservation, Untouched, LocalsTypeOK
    <3> QED
      BY <3>1, <3>2, AtRestSound
  <2> QED
    BY <2>1, <2>2
<1>12. CASE Finish(p)
  <2>1. End(p) /\ \A q \in Procs \ {p} : run'[q] = run[q]
    BY <1>12 DEF Finish
  <2> QED
    BY <2>1, EndRests, AtRestSound DEF Alone
<1>13. CASE FailIngestionRun(p)
  <2>1. End(p) /\ \A q \in Procs \ {p} : run'[q] = run[q]
    BY <1>13 DEF FailIngestionRun
  <2> QED
    BY <2>1, EndRests, AtRestSound DEF Alone
<1> QED BY <1>1, <1>2, <1>3, <1>4, <1>5, <1>6, <1>7, <1>8, <1>9, <1>10, <1>11, <1>12,
           <1>13 DEF Step

\* A statement that fails, too.
LEMMA StatementSound ==
    ASSUME IInv, NEW p \in Procs, StatementFails(p)
    PROVE  /\ AtRest(p) /\ \A q \in Procs \ {p} : Untouched(q)
           /\ cmd[p] = "ingest" /\ pc'[p] = "idle" => cause'[p] = "statement"
<1>1. /\ LocalsTypeOK /\ UNCHANGED run /\ pc[p] # "idle"
      /\ cause \in [Procs -> Causes]
      /\ absent[p] = {} \/ (pc[p] = "check" /\ todo[p] = {})
  BY DEF IInv, TypeOK, Sound, RecordedLast, StatementFails, Causes
<1>2. CASE InHealthStep(p)
  <2>1. Raise(p) /\ absent[p] = {}
    BY <1>1, <1>2 DEF StatementFails, InHealthStep
  <2> QED
    BY <1>1, <2>1, RaiseRests DEF Alone
<1>3. CASE ~ InHealthStep(p)
  <2>1. End(p) /\ Because(p, "statement")
    BY <1>3 DEF StatementFails
  <2> QED
    BY <1>1, <2>1, EndRests DEF Alone, Because
<1> QED
  BY <1>2, <1>3

\* So are the starts, the faults and the environment.
LEMMA OtherSound ==
    ASSUME IInv, Next, ~ \E p \in Procs : Step(p)
    PROVE  \A p \in Procs : Sound(p)'
<1>0. /\ LocalsTypeOK /\ \A p \in Procs : Sound(p)
      /\ run \in [Procs -> {"none", "running", "success", "failed"}]
      /\ \A p \in Procs : pc[p] = "idle" => absent[p] = {}
  BY DEF IInv, TypeOK, Sound, RecordedLast
<1> USE <1>0 DEF Goto, status, fetched, checking, probing, progress
<1>1. ASSUME NEW p \in Procs, BeginIngest(p) \/ BeginReconcile(p) PROVE \A q \in Procs : Sound(q)'
  <2>1. \A q \in Procs \ {p} : Untouched(q)
    BY <1>1 DEF BeginIngest, BeginReconcile, Untouched, LocalsTypeOK
  <2>2. Sound(p)'
    BY <1>1 DEF BeginIngest, BeginReconcile, LocalsTypeOK,
                Sound, InHand, BatchPlanned, AnswerKnown, ProbedByHand, RecordedLast,
                RunOpen
  <2> QED
    BY <2>1, <2>2, UntouchedSound
<1>3. ASSUME NEW p \in Procs, NEW j \in Jobs, NEW command \in {"probe", "revalidate"},
            BeginProbe(p, j, command) PROVE \A q \in Procs : Sound(q)'
  <2>1. \A q \in Procs \ {p} : Untouched(q)
    BY <1>3 DEF BeginProbe, Untouched, LocalsTypeOK
  <2>2. Sound(p)'
    BY <1>3 DEF BeginProbe, LocalsTypeOK,
                Sound, InHand, BatchPlanned, AnswerKnown, ProbedByHand, RecordedLast,
                RunOpen
  <2> QED
    BY <2>1, <2>2, UntouchedSound
<1>4. ASSUME NEW p \in Procs, FetchFails(p) \/ CommitUnanswered(p) \/ Kill(p)
      PROVE  \A q \in Procs : Sound(q)'
  <2>1. End(p) /\ \A q \in Procs \ {p} : run'[q] = run[q]
    BY <1>4 DEF FetchFails, CommitUnanswered, Kill
  <2> QED
    BY <2>1, EndRests, AtRestSound, UntouchedSound DEF Alone
<1>6. ASSUME NEW p \in Procs, StatementFails(p) PROVE \A q \in Procs : Sound(q)'
  BY <1>6, StatementSound, AtRestSound, UntouchedSound
<1>5. CASE SiteChanges \/ \E j \in Jobs : SilverWritten(j) \/ SilverRewritten(j)
  <2>1. \A q \in Procs : Untouched(q)
    BY <1>5 DEF SiteChanges, SilverWritten, SilverRewritten, Untouched
  <2> QED
    BY <2>1, UntouchedSound
<1> QED
  BY <1>1, <1>3, <1>4, <1>5, <1>6 DEF Next

LEMMA InitInv == Init => IInv
<1> SUFFICES ASSUME Init PROVE IInv
  OBVIOUS
<1>1. \A p \in Procs : pc[p] = "idle" /\ cmd[p] = "none" /\ absent[p] = {}
  BY DEF Init
<1> QED
  BY <1>1, InitTyped
     DEF IInv, Sound, InHand, BatchPlanned, AnswerKnown, ProbedByHand, RecordedLast, RunOpen

LEMMA NextInv == IInv /\ [Next]_vars => IInv'
<1> SUFFICES ASSUME IInv, [Next]_vars PROVE IInv'
  OBVIOUS
<1>1. ASSUME NEW p \in Procs, Step(p) PROVE IInv'
  <2>1. TypeOK'
    BY <1>1, StepTyped DEF IInv, Sound
  <2>2. \A q \in Procs : Sound(q)'
    BY <1>1, StepSound, UntouchedSound DEF IInv
  <2> QED
    BY <2>1, <2>2 DEF IInv
<1>2. CASE Next /\ ~ \E p \in Procs : Step(p)
  BY <1>2, OtherTyped, OtherSound DEF IInv
<1>3. CASE UNCHANGED vars
  <2>1. TypeOK'
    BY <1>3 DEF IInv, TypeOK, TablesTypeOK, LocalsTypeOK, vars, worldVars, tableVars, progress,
                status, fetched, checking, probing, budget
  <2>2. \A q \in Procs : Untouched(q)
    BY <1>3 DEF Untouched, vars, progress, status, fetched, checking, probing
  <2> QED
    BY <2>1, <2>2, UntouchedSound DEF IInv
<1> QED
  BY <1>1, <1>2, <1>3

-----------------------------------------------------------------------------
(* Theorems                                                                  *)

LEMMA Invariance == Spec => []IInv
  BY InitInv, NextInv, PTL DEF Spec

\* Evidence changes in three ways only.
LEMMA EvidenceWriters ==
    ASSUME [Next]_vars
    PROVE  \/ UNCHANGED latest
           \/ \E p \in Procs : \/ SaveJobObservation(p) \/ AppendHealthObservation(p)
                               \/ BatchCommit(p)
<1> USE DEF tableVars
<1>1. ASSUME NEW p \in Procs, Step(p),
             ~ (SaveJobObservation(p) \/ AppendHealthObservation(p) \/ BatchCommit(p))
      PROVE  UNCHANGED latest
  BY <1>1 DEF Step, Fetch, SaveRawJob, LoadTargets, BatchBegin, BatchRow, BatchDeadlock,
              LoadReviewed, Probe, Finish, FailIngestionRun
<1>2. CASE Next /\ ~ \E p \in Procs : Step(p)
  BY <1>2 DEF Next, BeginIngest, BeginReconcile, BeginProbe, FetchFails, StatementFails, CommitUnanswered, Kill,
              SiteChanges, SilverWritten, SilverRewritten
<1>3. CASE UNCHANGED vars
  BY <1>3 DEF vars
<1> QED
  BY <1>1, <1>2, <1>3

\* What each of them writes.
LEMMA WhatIsWritten ==
    ASSUME IInv, [Next]_vars, NEW j \in Jobs, latest'[j] # latest[j]
    PROVE  \E p \in Procs :
             \/ latest'[j] = "observed"
             \/ pc[p] = "append" /\ cur[p] = j /\ latest'[j] = answer[p]
             \/ BatchCommit(p) /\ j \in plan[p] /\ latest'[j] = "not_seen"
<1> latest \in [Jobs -> Evidence]
  BY DEF IInv, TypeOK, TablesTypeOK
<1>1. ASSUME NEW p \in Procs, SaveJobObservation(p) PROVE latest'[j] = "observed"
  BY <1>1 DEF SaveJobObservation, Supersede
<1>2. ASSUME NEW p \in Procs, AppendHealthObservation(p)
      PROVE  pc[p] = "append" /\ cur[p] = j /\ latest'[j] = answer[p]
  BY <1>2 DEF AppendHealthObservation, Supersede
<1>3. ASSUME NEW p \in Procs, BatchCommit(p)
      PROVE  j \in plan[p] /\ latest'[j] = "not_seen"
  BY <1>3 DEF BatchCommit
<1> QED
  BY <1>1, <1>2, <1>3, EvidenceWriters

\* Every variable keeps its type, for any jobs, operators, caps, sites and bounds.
THEOREM IngestionTyped == Spec => []TypeOK
  BY Invariance, PTL DEF IInv

\* An absence is recorded only by an ingest that fetched a feed which listed other
\* jobs and not this one: a batch is planned from such a feed, and nothing else
\* writes that outcome.
THEOREM AbsenceTrue == Spec => AbsenceIsTrue
<1>1. IInv /\ [Next]_vars
      => [\A j \in Jobs :
            latest[j] # "not_seen" /\ latest'[j] = "not_seen"
            => \E p \in Procs : pc[p] = "rows" /\ listed[p] # {} /\ j \notin listed[p]]_vars
  <2> SUFFICES ASSUME IInv, [Next]_vars,
                      NEW j \in Jobs, latest[j] # "not_seen", latest'[j] = "not_seen"
               PROVE  \E p \in Procs : pc[p] = "rows" /\ listed[p] # {} /\ j \notin listed[p]
    OBVIOUS
  <2>1. PICK p \in Procs : \/ pc[p] = "append" /\ answer[p] = "not_seen"
                           \/ BatchCommit(p) /\ j \in plan[p]
    BY WhatIsWritten
  <2>2. Sound(p)
    BY DEF IInv
  <2>3. BatchCommit(p) /\ j \in plan[p]
    BY <2>1, <2>2 DEF Sound, AnswerKnown
  <2> QED
    BY <2>2, <2>3 DEF BatchCommit, Sound, BatchPlanned
<1> QED
  BY <1>1, Invariance, PTL DEF Spec, AbsenceIsTrue

\* The absences of a batch are written together, around what is newer.
THEOREM AbsencesTogether == Spec => AbsencesAreOneBatch
<1>1. ASSUME IInv, [Next]_vars, NEW p \in Procs,
             pc[p] = "rows", <<pc[p], todo[p]>> # <<pc'[p], todo'[p]>>,
             NEW k \in Jobs, latest[k] # "not_seen", latest'[k] = "not_seen"
      PROVE  \A j \in plan[p] : latest'[j] = IF j \in newer[p] THEN latest[j] ELSE "not_seen"
  <2>1. PICK q \in Procs : \/ pc[q] = "append" /\ answer[q] = "not_seen"
                           \/ BatchCommit(q) /\ k \in plan[q]
    BY <1>1, WhatIsWritten
  <2>2. BatchCommit(q) /\ Sound(q) /\ LocalsTypeOK
    BY <1>1, <2>1 DEF IInv, Sound, AnswerKnown, TypeOK
  <2>3. q = p
    BY <1>1, <2>2 DEF BatchCommit, Goto, LocalsTypeOK
  <2>4. plan[p] \subseteq Jobs
    BY <2>2 DEF LocalsTypeOK
  <2> QED
    BY <2>2, <2>3, <2>4 DEF BatchCommit
<1>2. IInv /\ [Next]_vars =>
      [\A p \in Procs :
          LET written == {j \in Jobs : latest[j] # "not_seen" /\ latest'[j] = "not_seen"}
          IN  pc[p] = "rows" /\ <<pc[p], todo[p]>> # <<pc'[p], todo'[p]>> /\ written # {}
              => \A j \in plan[p] : latest'[j] = IF j \in newer[p] THEN latest[j] ELSE "not_seen"]_vars
  BY <1>1
<1> QED
  BY <1>2, Invariance, PTL DEF Spec, AbsencesAreOneBatch

\* An inconclusive answer is recorded of the job that an operator probes, only.
THEOREM DoubtByHand == Spec => OnlyOperatorsRecordDoubt
<1>1. IInv /\ [Next]_vars
      => [\A j \in Jobs : latest[j] # "unverifiable" /\ latest'[j] = "unverifiable"
            => \E p \in Operators : cmd[p] = "probe" /\ cur[p] = j]_vars
  <2> SUFFICES ASSUME IInv, [Next]_vars,
                      NEW j \in Jobs, latest[j] # "unverifiable", latest'[j] = "unverifiable"
               PROVE  \E p \in Operators : cmd[p] = "probe" /\ cur[p] = j
    OBVIOUS
  <2>1. PICK p \in Procs : pc[p] = "append" /\ cur[p] = j /\ answer[p] = "unverifiable"
    BY WhatIsWritten
  <2> QED
    BY <2>1 DEF IInv, Sound, AnswerKnown, ProbedByHand
<1> QED
  BY <1>1, Invariance, PTL DEF Spec, OnlyOperatorsRecordDoubt

\* A process that stops working on an ingest does so in one of six ways.
LEMMA HowRunsEnd ==
    ASSUME IInv, [Next]_vars, NEW p \in Procs, pc[p] # "idle", pc'[p] = "idle",
           cmd[p] = "ingest"
    PROVE  \/ Finish(p) \/ FailIngestionRun(p) \/ FetchFails(p)
           \/ StatementFails(p) \/ CommitUnanswered(p) \/ Kill(p)
<1>0. /\ LocalsTypeOK /\ run \in [Procs -> {"none", "running", "success", "failed"}]
      /\ absent[p] = {} \/ (pc[p] = "check" /\ todo[p] = {})
  BY DEF IInv, TypeOK, Sound, RecordedLast
<1>1. ASSUME NEW q \in Procs \ {p},
             Step(q) \/ FetchFails(q) \/ StatementFails(q) \/ CommitUnanswered(q) \/ Kill(q)
      PROVE  FALSE
  <2>1. CASE Step(q)
    BY <2>1, StepSound DEF Untouched
  <2>2. CASE FetchFails(q) \/ CommitUnanswered(q) \/ Kill(q)
    BY <1>0, <2>2, EndRests DEF FetchFails, CommitUnanswered, Kill, Untouched, Alone
  <2>3. CASE StatementFails(q)
    BY <2>3, StatementSound DEF Untouched
  <2> QED
    BY <1>1, <2>1, <2>2, <2>3
<1>2. ASSUME Step(p) PROVE Finish(p) \/ FailIngestionRun(p)
  <2>1. ~ (Raise(p) /\ UNCHANGED run /\ absent[p] = {})
    BY <1>0, RaiseRests
  <2>2. \A label : Goto(p, label) => label = "idle"
    BY <1>0 DEF Goto, LocalsTypeOK
  <2> QED
    BY <1>0, <1>2, <2>1, <2>2
       DEF Step, Fetch, SaveRawJob, SaveJobObservation, LoadTargets, BatchBegin, BatchRow,
           BatchDeadlock, BatchCommit, LoadReviewed, Probe, AppendHealthObservation
<1>3. pc' # pc
  OBVIOUS
<1>4. ASSUME NEW q \in Procs, NEW j \in Jobs, NEW command \in {"probe", "revalidate"},
            BeginProbe(q, j, command) PROVE FALSE
  BY <1>0, <1>4 DEF LocalsTypeOK, BeginProbe, Goto
<1>5. ~ SiteChanges /\ \A j \in Jobs : ~ SilverWritten(j) /\ ~ SilverRewritten(j)
  BY <1>3 DEF SiteChanges, SilverWritten, SilverRewritten, progress
<1>6. ASSUME NEW q \in Procs, BeginIngest(q) \/ BeginReconcile(q) PROVE FALSE
  BY <1>0, <1>6 DEF LocalsTypeOK, BeginIngest, BeginReconcile, Goto
<1>7. Next
  BY <1>3 DEF vars, progress
<1>8. PICK q \in Procs :
        Step(q) \/ FetchFails(q) \/ StatementFails(q) \/ CommitUnanswered(q) \/ Kill(q)
  BY <1>4, <1>5, <1>6, <1>7 DEF Next
<1> QED
  BY <1>1, <1>2, <1>8

\* A run that ends as failed has recorded no absence, since a batch of absences is the
\* last thing a run writes, unless the answer to that COMMIT is lost; and a run is left running by a kill or by a statement that
\* no handler covers only: an exception of the health step never leaves it so.
THEOREM RunsEnd == Spec => RunStatusIsTrue
<1>1. ASSUME IInv, [Next]_vars, NEW p \in Procs, cmd[p] = "ingest", pc[p] # "idle",
             pc'[p] = "idle"
      PROVE  /\ run'[p] = "failed" => absent[p] = {} \/ cause'[p] = "commit"
             /\ run'[p] = "running" => cause'[p] \in {"kill", "statement"}
  <2>1. /\ run[p] = "running" /\ (absent[p] # {} => pc[p] = "check")
        /\ run \in [Procs -> {"none", "running", "success", "failed"}]
        /\ cause \in [Procs -> Causes]
    BY <1>1 DEF IInv, Sound, RecordedLast, RunOpen, TypeOK, Causes
  <2>2. CASE Finish(p)
    BY <1>1, <2>1, <2>2 DEF Finish
  <2>3. CASE FailIngestionRun(p)
    BY <1>1, <2>1, <2>3 DEF FailIngestionRun
  <2>4. CASE FetchFails(p)
    BY <1>1, <2>1, <2>4 DEF FetchFails
  <2>5. CASE StatementFails(p)
    BY <1>1, <2>1, <2>5, StatementSound DEF StatementFails
  <2>6. CASE Kill(p)
    BY <1>1, <2>1, <2>6 DEF Kill, Because
  <2>7. CASE CommitUnanswered(p)
    BY <1>1, <2>1, <2>7 DEF CommitUnanswered, Because
  <2> QED
    BY <1>1, <2>2, <2>3, <2>4, <2>5, <2>6, <2>7, HowRunsEnd
<1>2. IInv /\ [Next]_vars
      => [\A p \in Procs : cmd[p] = "ingest" /\ pc[p] # "idle" /\ pc'[p] = "idle" =>
            /\ run'[p] = "failed" => absent[p] = {} \/ cause'[p] = "commit"
            /\ run'[p] = "running" => cause'[p] \in {"kill", "statement"}]_vars
  BY <1>1
<1> QED
  BY <1>2, Invariance, PTL DEF Spec, RunStatusIsTrue
================================================================================
