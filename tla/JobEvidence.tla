------------------------------ MODULE JobEvidence ------------------------------
(***************************************************************************)
(* The tables that the ingestion of one employer-origin source, the         *)
(* lifecycle checks and the readers of gold_job_lifecycle_health share,     *)
(* and the employer's site they talk about.                                 *)
(*                                                                          *)
(* The view compares the newest authoritative job_observations row of a job *)
(* with its newest job_health_observations row, by observed_at.  Both       *)
(* columns default to now(), the start of the writing transaction, so the   *)
(* newest row of the two decides and one value per job is enough:           *)
(* latest[j].  A transaction that began earlier and commits later must not  *)
(* replace it, which Supersede and the batch of IngestionRun respect.       *)
(***************************************************************************)
EXTENDS Naturals, FiniteSets

CONSTANT Jobs                       \* vacancies of the source, in feed order

ASSUME JobsAssumption == Jobs \subseteq Nat /\ IsFiniteSet(Jobs)

VARIABLES
    kind,       \* "inventory": reviewed Personio feed; "legacy": one whose Bronze rows
                \* are older than their source type; "detail": any other source
    feed,       \* jobs the employer's feed lists now
    page,       \* what the detail page of a job shows now
    raw,        \* jobs with a row in raw_jobs
    silver,     \* jobs with a row in silver_jobs
    latest      \* newest authoritative evidence of a job

worldVars == <<kind, feed, page>>
tableVars == <<raw, silver, latest>>

Outcomes == {"seen_active", "not_seen", "closed", "unverifiable"}
Evidence == {"none", "observed"} \cup Outcomes

\* "live"; "closed": 410, or the closure marker on the unchanged URL; "notfound": a 404
\* with nothing but Personio's own text; "moved": a bare 404, a redirect, another title
Pages == {"live", "closed", "notfound", "moved"}

Reviewed == kind # "detail"

TablesTypeOK ==
    /\ kind \in {"inventory", "legacy", "detail"}
    /\ feed \subseteq Jobs /\ page \in [Jobs -> Pages]
    /\ silver \subseteq raw /\ raw \subseteq Jobs
    /\ latest \in [Jobs -> Evidence]

(***************************************************************************)
(* gold_job_lifecycle_health.lifecycle_status                               *)
(***************************************************************************)
LifecycleStatus(j) ==
    CASE latest[j] = "none"                        -> "stale_needs_refresh"
      [] latest[j] \in {"observed", "seen_active"} -> "active_confirmed"
      [] latest[j] \in {"closed", "not_seen"}      -> "inactive_confirmed"
      [] latest[j] = "unverifiable"                -> "unverifiable"

\* load_active_targets_for_verified_complete_inventory_source
ActiveTargets == {j \in silver : LifecycleStatus(j) = "active_confirmed"}

\* load_active_targets_for_source asks for the source type of the row as well.
TypedTargets == IF kind = "legacy" THEN {} ELSE ActiveTargets

\* Mutant of ExactDetail: a redirect is an outcome the table does not know.
ExactDetailRedirected(j, answered, provider) ==
    IF page[j] = "moved" THEN "redirected"
    ELSE IF ~ answered \/ (page[j] = "notfound" /\ ~ provider) THEN "unverifiable"
    ELSE IF page[j] = "live" THEN "seen_active" ELSE "closed"

\* Mutant of ExactDetail: the closure marker of a page that is gone is not looked for.
ExactDetailOfLivePages(j, answered, provider) ==
    IF answered /\ page[j] = "live" THEN "seen_active" ELSE "unverifiable"

(***************************************************************************)
(* classify_exact_detail: a live page confirms the vacancy, 410 or the      *)
(* closure marker closes it, and a transport error, a bare 404, a redirect  *)
(* or another title is unverifiable, however often it is asked.             *)
(* classify_reviewed_personio_exact_detail (provider) takes Personio's text *)
(* on a 404 for a closure as well.                                          *)
(***************************************************************************)
ExactDetail(j, answered, provider) ==
    IF ~ answered \/ page[j] = "moved" \/ (page[j] = "notfound" /\ ~ provider)
    THEN "unverifiable"
    ELSE IF page[j] = "live" THEN "seen_active" ELSE "closed"
================================================================================
