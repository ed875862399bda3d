-------------------------- MODULE ApplicationTracking --------------------------
(***************************************************************************)
(* Applications (F5): what the operator records by hand and what the        *)
(* mailbox sync finds, in the tables applications, application_submissions  *)
(* and the active rows of application_event_candidates.                     *)
(*                                                                          *)
(* Syncers: "service", whichever thread of the control center holds _LOCK,  *)
(* and "cli", the persistence apply.  A sync is one SERIALIZABLE            *)
(* transaction: it reads a snapshot, plans what its rows should do, ingests *)
(* them one by one, and commits only if the counts of both agree.  An       *)
(* operator's request runs in READ COMMITTED under the row lock of the      *)
(* application.  What a transaction does between its lock and its commit is *)
(* one step, since no other can see or change the rows in between.          *)
(*                                                                          *)
(* Unique indexes and foreign keys are left out: ConstraintsNeverFire.      *)
(***************************************************************************)
EXTENDS Naturals, FiniteSets

CONSTANTS
    Messages, Mail,     \* Mail[m]: what a normalized message says of its application
    Forms, Form,        \* Form[f]: what the operator can record
    Families,           \* pairs of titles that belong together
    Variants,           \* bound: submission details an operator enters
    Operators, Syncers,
    None,               \* an attribute a message or an application lacks
    Budgets             \* bounds, of which a behaviour has one: how often mail arrives,
                        \* operators ask for something, the command line syncs, and
                        \* messages are reclassified, vacancies renamed, syncs killed,
                        \* the scan breaks

Attributes == {"employer", "title", "url", "domain", "thread"}
\* "outcome": interview, assessment, offer, rejection or withdrawal; "contact": a
\* recruiter's contact or an ambiguous message, which never opens an application.
Discovering == {"acknowledgement", "outcome"}
Persisting == Discovering \cup {"contact"}
Classes == Persisting \cup {"other"}
\* A row the scan gives of a message: "invalid" if parse_normalized_mailbox_observation
\* refuses it (a domain, a length, a time), "twice" if there are two of them.
Rows == {"valid", "invalid", "twice"}
Service == "service"

\* mailbox_application_key, application_key_for_job, application_key_for_manual_external
MailKey(m) ==
    IF None \in {Mail[m].employer, Mail[m].title}
    THEN <<"mailbox", Mail[m].thread>>
    ELSE <<"mailbox", Mail[m].employer, Mail[m].title>>
FormKey(f) == <<"form", f>>
NoKey == <<"none">>
Ambiguous == <<"ambiguous">>
Keys == {MailKey(m) : m \in Messages} \cup {FormKey(f) : f \in Forms}
Titles == {Mail[m].title : m \in Messages}
              \cup {Form[f].title : f \in Forms} \cup {Form[f].renamed : f \in Forms}

ASSUME TrackingAssumption ==
    /\ Service \in Syncers /\ IsFiniteSet(Messages)
    /\ \A m \in Messages : Attributes \cup {"class", "later", "row"} = DOMAIN Mail[m]
    /\ \A m \in Messages : {Mail[m].class, Mail[m].later} \subseteq Classes /\ Mail[m].thread # None
    /\ \A m \in Messages : Mail[m].row \in Rows
    /\ \A f \in Forms : {"employer", "title", "renamed", "url"} = DOMAIN Form[f]
    /\ Budgets \subseteq [{"mail", "requests", "cli", "changes"} -> Nat] /\ 0 \notin Variants

VARIABLES
    arrived,        \* messages the normalized scan returns
    scanning,       \* whether the private runtime, its token and its bridge work
    class,          \* what the installed classifier makes of a message
    title,          \* title of the vacancy of a form, in silver_jobs
    apps,           \* rows of applications, joined with the title of silver_jobs
    submissions,    \* rows of application_submissions
    active,         \* active rows of application_event_candidates
    sync,           \* "idle", or whether anything changed since the transaction
                    \* of a syncer began: "changed", "fresh", or "settled": not
                    \* even since a sync of all rows passed before
    rows, todo,     \* its selected rows, and those not yet ingested
    before, view,   \* the tables it read first, and as it sees them with its own writes
    moved,          \* applications and messages others changed since it began
    settled,        \* history: nothing changed since a sync of all rows passed
    opc, request,   \* where an operator's request is, and what it asks for
    budget          \* what is left of the bounds

syncVars == <<sync, rows, todo, before, view, moved, settled>>
opVars == <<opc, request>>
tables == <<apps, submissions, active>>
inputs == <<arrived, scanning, class, title>>
vars == <<inputs, tables, syncVars, opVars, budget>>

Nothing == [apps |-> {}, active |-> {}]
NoRequest == [key |-> NoKey, variant |-> 0]

Init ==
    /\ arrived = {} /\ scanning = TRUE /\ class = [m \in Messages |-> Mail[m].class]
    /\ title = [f \in Forms |-> Form[f].title]
    /\ apps = {} /\ submissions = {} /\ active = {}
    /\ sync = [p \in Syncers |-> "idle"]
    /\ rows = [p \in Syncers |-> {}] /\ todo = [p \in Syncers |-> {}]
    /\ before = [p \in Syncers |-> Nothing] /\ view = [p \in Syncers |-> Nothing]
    /\ moved = [p \in Syncers |-> {}]
    /\ settled = FALSE
    /\ opc = [o \in Operators |-> "idle"]
    /\ request = [o \in Operators |-> NoRequest]
    /\ budget \in Budgets

-----------------------------------------------------------------------------
(* Identity matching                                                         *)

SameFamily(t, u) == None \notin {t, u} /\ (t = u \/ {t, u} \in Families)

Decide(found, otherwise) ==
    IF found = {} THEN otherwise
    ELSE IF Cardinality(found) = 1 THEN (CHOOSE a \in found : TRUE).key
    ELSE Ambiguous

\* match_existing_application_identity: the first rule that finds anything decides.
Match(m, known) ==
    LET mail == Mail[m]
        Same(at) == {a \in known : mail[at] # None /\ a[at] = mail[at]}
    IN  Decide(Same("url"),
        Decide(Same("thread"),
        Decide({a \in Same("domain") : mail.title = None},
        Decide({a \in Same("employer") : SameFamily(a.title, mail.title)}, NoKey))))

\* _existing_application_identities passes neither thread nor domain on.
Blind(known) == {[a EXCEPT !.thread = None, !.domain = None] : a \in known}

ActiveOf(m, cands) == {c \in cands : c.message = m}
Existing(m, cands) == {c.app : c \in ActiveOf(m, cands)} \ {NoKey}

\* Mutant of Resolve: every classification matches anew.
ResolveAgain(m, known, cands) ==
    IF class[m] \notin Discovering THEN NoKey
    ELSE IF Match(m, known) = NoKey /\ class[m] = "acknowledgement" THEN MailKey(m)
    ELSE Match(m, known)

\* The application a message belongs to, among the applications one knows: the one
\* it was matched to before, or for some classes a match, or for one a new one.
Resolve(m, known, cands) ==
    IF Existing(m, cands) # {} THEN CHOOSE k \in Existing(m, cands) : TRUE
    ELSE IF class[m] \notin Discovering THEN NoKey
    ELSE IF Match(m, known) = NoKey /\ class[m] = "acknowledgement" THEN MailKey(m)
    ELSE Match(m, known)

KeysOf(known) == {a.key : a \in known}

-----------------------------------------------------------------------------
(* The plan                                                                  *)

\* Mutant of Selected: a message is processed once.
SelectedUnseen(R, cands) == {m \in R : class[m] \in Persisting /\ ActiveOf(m, cands) = {}}

\* _select_apply_rows, and the first test of plan_rows
Selected(R, cands) == {m \in R : class[m] \in Persisting \/ ActiveOf(m, cands) # {}}

Planned(m, db) ==
    LET key == Resolve(m, db.apps, db.active)
    IN  [message |-> m, class |-> class[m], app |-> IF key = Ambiguous THEN NoKey ELSE key]

\* Mutant of PlanStep: the application is not compared.
PlanStepOfClass(m, db) ==
    LET old == ActiveOf(m, db.active)
    IN  IF old = {} THEN "insert"
        ELSE IF \E c \in old : c.class = class[m] THEN "noop" ELSE "supersede"

\* plan_rows, for one selected row: existing.fingerprint, class and application_key
PlanStep(m, db) ==
    LET old == ActiveOf(m, db.active)
    IN  IF old = {} THEN "insert"
        ELSE IF \E c \in old : /\ c.class = Planned(m, db).class
                               /\ c.app = Planned(m, db).app
        THEN "noop" ELSE "supersede"

\* _assert_plan_is_safe: the plan counts every row of the scan, the invalid ones too.
PlanIsSafe(R, cands) ==
    /\ \A m \in R : Mail[m].row # "invalid"
    /\ \A m \in Selected(R, cands) : Mail[m].row # "twice"

PlanInserts(R, db) == {Planned(m, db).app : m \in R} \ ({NoKey} \cup KeysOf(db.apps))

-----------------------------------------------------------------------------
(* The ingest of one row                                                     *)

\* Mutant of NewCandidate: what is ambiguous counts as a match.
NewCandidateAmbiguous(m, db) ==
    LET key == Resolve(m, Blind(db.apps), db.active)
    IN  [message |-> m, class |-> class[m], app |-> key,
         status |-> IF key = NoKey THEN "unmatched" ELSE "exact"]

NewCandidate(m, db) ==
    LET key == Resolve(m, Blind(db.apps), db.active)
    IN  [message |-> m, class |-> class[m],
         app    |-> IF key = Ambiguous THEN NoKey ELSE key,
         status |-> CASE key = Ambiguous -> "ambiguous"
                      [] key = NoKey     -> "unmatched"
                      [] OTHER           -> "exact"]

MailApplication(m) ==
    [key |-> MailKey(m), employer |-> Mail[m].employer, title |-> Mail[m].title,
     url |-> Mail[m].url, domain |-> Mail[m].domain, thread |-> Mail[m].thread,
     snapshot |-> Mail[m].title]

Ingested(m, db) ==
    LET new == NewCandidate(m, db)
    IN  [apps   |-> IF new.app \in {NoKey} \cup KeysOf(db.apps) THEN db.apps
                    ELSE db.apps \cup {MailApplication(m)},
         active |-> (db.active \ ActiveOf(m, db.active)) \cup {new}]

-----------------------------------------------------------------------------
(* Helpers                                                                   *)

\* A committed change: settled no more, and whoever began earlier does not see it.
Disturbs(changed) ==
    /\ settled' = FALSE
    /\ sync' = [p \in Syncers |-> IF sync[p] = "idle" THEN "idle" ELSE "changed"]
    /\ moved' = [p \in Syncers |-> IF sync[p] = "idle" THEN {} ELSE moved[p] \cup changed]
    /\ UNCHANGED <<rows, todo, before, view>>

Spend(what) == budget[what] > 0 /\ budget' = [budget EXCEPT ![what] = @ - 1]

-----------------------------------------------------------------------------
(* The mailbox and the sync                                                  *)

Arrive(m) ==
    /\ Spend("mail") /\ m \notin arrived /\ arrived' = arrived \cup {m}
    /\ Disturbs({})
    /\ UNCHANGED <<scanning, class, title, tables, opVars>>

\* A checkout that is dirty or cannot be fast-forwarded, a token that has expired
ScanBreaks ==
    /\ Spend("changes") /\ scanning /\ scanning' = FALSE
    /\ UNCHANGED <<arrived, class, title, tables, syncVars, opVars>>

\* A new release classifies a message differently; syncs end with their process.
Reclassify(m) ==
    /\ Spend("changes") /\ class[m] # Mail[m].later /\ \A p \in Syncers : sync[p] = "idle"
    /\ class' = [class EXCEPT ![m] = Mail[m].later]
    /\ Disturbs({})
    /\ UNCHANGED <<arrived, scanning, title, tables, opVars>>

\* The service scans the mailbox; the command line is given a file, a period of time and
\* the digest of the plan they have.
SyncBegin(p, R) ==
    /\ sync[p] = "idle" /\ PlanIsSafe(R, active)
    /\ IF p = Service THEN scanning /\ R = arrived /\ UNCHANGED budget
                      ELSE R \subseteq arrived /\ Spend("cli")
    /\ sync' = [sync EXCEPT ![p] = IF settled THEN "settled" ELSE "fresh"]
    /\ rows' = [rows EXCEPT ![p] = Selected(R, active)]
    /\ todo' = [todo EXCEPT ![p] = Selected(R, active)]
    /\ before' = [before EXCEPT ![p] = [apps |-> apps, active |-> active]]
    /\ view' = [view EXCEPT ![p] = [apps |-> apps, active |-> active]]
    /\ UNCHANGED <<inputs, tables, moved, settled, opVars>>

\* Without a scan, or with a plan that is not safe, a sync ends before it writes a row.
SyncRefused ==
    /\ sync[Service] = "idle" /\ ~ (scanning /\ PlanIsSafe(arrived, active))
    /\ UNCHANGED vars

\* ingest_normalized_mailbox_observation, in the transaction of the sync
Ingest(p, m) ==
    /\ m \in todo[p]
    /\ todo' = [todo EXCEPT ![p] = @ \ {m}]
    /\ view' = [view EXCEPT ![p] = Ingested(m, @)]
    /\ UNCHANGED <<inputs, tables, sync, rows, before, moved, settled, opVars, budget>>

Written(p) == view[p].active \ before[p].active
Created(p) == view[p].apps \ before[p].apps

\* The interpretations whose application was looked up, not kept
Matched(p) == {c \in Written(p) : Existing(c.message, before[p].active) = {}}

\* What a row did
Did(p, m) ==
    IF ActiveOf(m, before[p].active) = {} THEN "insert"
    ELSE IF ActiveOf(m, Written(p)) = {} THEN "noop" ELSE "supersede"

\* The checks before the commit: counts of the plan against counts of the rows.
Agrees(p) ==
    /\ Cardinality(Created(p)) = Cardinality(PlanInserts(rows[p], before[p]))
    /\ \A step \in {"insert", "noop", "supersede"} :
           Cardinality({m \in rows[p] : PlanStep(m, before[p]) = step})
               = Cardinality({m \in rows[p] : Did(p, m) = step})

\* Mutant of Conflicts: matched applications are read without FOR SHARE.
ConflictsOfMail(p) ==
    moved[p] \cap (IF Written(p) = {} THEN rows[p] ELSE Messages) # {}

\* PostgreSQL refuses the transaction: an application it matched or creates, or a
\* candidate it locked, was changed since, or two syncs wrote what the other read.
\* A kept application is only referred to, which tolerates an update.
Conflicts(p) ==
    \/ moved[p] \cap {c.app : c \in Matched(p)} # {}
    \/ moved[p] \cap (IF Written(p) = {} THEN rows[p] ELSE Messages) # {}

Close(p) ==
    /\ rows' = [rows EXCEPT ![p] = {}] /\ todo' = [todo EXCEPT ![p] = {}]
    /\ before' = [before EXCEPT ![p] = Nothing] /\ view' = [view EXCEPT ![p] = Nothing]

SyncPasses(p) ==
    /\ sync[p] # "idle" /\ todo[p] = {} /\ Agrees(p) /\ ~ Conflicts(p)
    /\ apps' = apps \cup Created(p)
    /\ active' = {c \in active : ActiveOf(c.message, Written(p)) = {}} \cup Written(p)
    /\ LET changed == KeysOf(Created(p)) \cup {c.message : c \in Written(p)}
           Others(q) == q # p /\ sync[q] # "idle"
       IN  /\ sync' = [q \in Syncers |-> IF q = p THEN "idle"
                                         ELSE IF Others(q) /\ changed # {} THEN "changed"
                                         ELSE sync[q]]
           /\ moved' = [q \in Syncers |-> IF Others(q) THEN moved[q] \cup changed ELSE {}]
    /\ settled' = (sync[p] # "changed" /\ rows[p] = Selected(arrived, before[p].active))
    /\ Close(p)
    /\ UNCHANGED <<inputs, submissions, opVars, budget>>

\* Counts that differ, or a serialization failure: all is rolled back.
SyncFails(p) ==
    /\ sync[p] # "idle" /\ todo[p] = {} /\ ~ (Agrees(p) /\ ~ Conflicts(p))
    /\ sync' = [sync EXCEPT ![p] = "idle"] /\ moved' = [moved EXCEPT ![p] = {}]
    /\ Close(p)
    /\ UNCHANGED <<inputs, tables, settled, opVars, budget>>

SyncKilled(p) ==
    /\ sync[p] # "idle" /\ Spend("changes")
    /\ sync' = [sync EXCEPT ![p] = "idle"] /\ moved' = [moved EXCEPT ![p] = {}]
    /\ Close(p)
    /\ UNCHANGED <<inputs, tables, settled, opVars>>

-----------------------------------------------------------------------------
(* The operator                                                              *)

\* silver_jobs gives a vacancy another title; a Record in progress holds its row.
Rename(f) ==
    /\ Spend("changes") /\ title[f] # Form[f].renamed
    /\ \A o \in Operators : opc[o] = "lock" => request[o].key # FormKey(f)
    /\ title' = [title EXCEPT ![f] = Form[f].renamed]
    /\ apps' = {IF a.key = FormKey(f) THEN [a EXCEPT !.title = Form[f].renamed] ELSE a : a \in apps}
    /\ Disturbs({})
    /\ UNCHANGED <<arrived, scanning, class, submissions, active, opVars>>

AppsOf(k) == {a \in apps : a.key = k}
SubmissionsOf(k) == {s \in submissions : s.key = k}

Ask(o, label, asked) ==
    /\ opc[o] \in {"idle", "told"} /\ Spend("requests")
    /\ opc' = [opc EXCEPT ![o] = label]
    /\ request' = [request EXCEPT ![o] = asked]
    /\ UNCHANGED <<inputs, tables, syncVars>>

\* "recorded" or "already_recorded"
Confirm(o) == opc' = [opc EXCEPT ![o] = "told"] /\ UNCHANGED request

\* Any other answer
Answer(o) ==
    /\ opc' = [opc EXCEPT ![o] = "idle"] /\ request' = [request EXCEPT ![o] = NoRequest]

AskRecord(o, f, v) == Ask(o, "insert", [key |-> FormKey(f), variant |-> v])

FormApplication(f) ==
    [key |-> FormKey(f), employer |-> Form[f].employer, title |-> title[f],
     url |-> Form[f].url, domain |-> None, thread |-> None, snapshot |-> title[f]]

\* INSERT ... ON CONFLICT DO NOTHING: a new application gets its submission at once,
\* an existing one has to be locked first.
RecordInsert(o, f) ==
    /\ opc[o] = "insert" /\ request[o].key = FormKey(f)
    /\ IF AppsOf(FormKey(f)) = {}
       THEN /\ apps' = apps \cup {FormApplication(f)}
            /\ submissions' = submissions \cup {request[o]}
            /\ Disturbs({FormKey(f)})
            /\ Confirm(o)
       ELSE /\ opc' = [opc EXCEPT ![o] = "lock"]
            /\ UNCHANGED <<apps, submissions, syncVars, request>>
    /\ UNCHANGED <<inputs, active, budget>>

\* SELECT ... FOR UPDATE of the existing application, and what follows to the commit
RecordFinish(o, f) ==
    LET key == FormKey(f)
        same == \A a \in AppsOf(key) : a.snapshot = title[f]
    IN  /\ opc[o] = "lock" /\ request[o].key = key
        /\ IF AppsOf(key) = {} \/ ~ same THEN UNCHANGED submissions /\ Answer(o)
           ELSE IF SubmissionsOf(key) = {}
           THEN submissions' = submissions \cup {request[o]} /\ Confirm(o)
           ELSE /\ UNCHANGED submissions
                /\ IF request[o] \in submissions THEN Confirm(o) ELSE Answer(o)
        /\ UNCHANGED <<inputs, apps, active, syncVars, budget>>

\* The query of the removal sees a submission before it gets the application's lock.
AskRemove(o, k, v) ==
    /\ IF SubmissionsOf(k) = {} THEN v = 0 ELSE [key |-> k, variant |-> v] \in submissions
    /\ Ask(o, "remove", [key |-> k, variant |-> v])

\* Mutant of Taken: the submission is deleted by application, not by its id.
TakenByApplication(o) == SubmissionsOf(request[o].key)

\* DELETE ... WHERE id = the submission seen
Taken(o) == SubmissionsOf(request[o].key) \cap {request[o]}

\* Superseded rows keep their application (NeverRematched), so active ones suffice.
HasEvidence(k) == \E c \in active : c.app = k

\* Another removal that saw the same submission knows an id that means nothing now.
Remove(o) ==
    LET k == request[o].key IN
    /\ opc[o] = "remove"
    /\ opc' = [opc EXCEPT ![o] = "idle"]
    /\ IF AppsOf(k) = {} \/ Taken(o) = {}
       THEN /\ request' = [request EXCEPT ![o] = NoRequest]
            /\ UNCHANGED <<apps, submissions, syncVars>>
       ELSE /\ submissions' = submissions \ Taken(o)
            /\ IF HasEvidence(k)
               THEN UNCHANGED <<apps, syncVars>>
               ELSE apps' = apps \ AppsOf(k) /\ Disturbs({k})
            /\ request' = [q \in Operators |->
                             IF q = o THEN NoRequest
                             ELSE IF opc[q] = "remove" /\ request[q] = request[o]
                             THEN [request[q] EXCEPT !.variant = 0] ELSE request[q]]
    /\ UNCHANGED <<inputs, active, budget>>

\* correct_application_job_title: fills a title the mailbox did not give.
Correct(a, t) ==
    /\ Spend("requests")
    /\ a \in apps /\ a.key \in {MailKey(m) : m \in Messages} /\ a.title = None /\ t # None
    /\ apps' = (apps \ {a}) \cup {[a EXCEPT !.title = t, !.snapshot = t]}
    /\ Disturbs({a.key})
    /\ UNCHANGED <<inputs, submissions, active, opc, request>>

-----------------------------------------------------------------------------
SyncStep(p) == (\E m \in Messages : Ingest(p, m)) \/ SyncPasses(p) \/ SyncFails(p)

Next ==
    \/ ScanBreaks \/ SyncRefused \/ \E m \in Messages : Arrive(m) \/ Reclassify(m)
    \/ \E p \in Syncers : \/ \E R \in SUBSET arrived : SyncBegin(p, R)
                          \/ SyncStep(p) \/ SyncKilled(p)
    \/ \E f \in Forms : \/ Rename(f)
                        \/ \E o \in Operators : \/ RecordInsert(o, f) \/ RecordFinish(o, f)
                                                \/ \E v \in Variants : AskRecord(o, f, v)
    \/ \E o \in Operators : \/ \E k \in Keys, v \in Variants \cup {0} : AskRemove(o, k, v)
                            \/ Remove(o)
    \/ \E a \in apps, t \in Titles : Correct(a, t)

\* The scheduler starts a sync every 30 minutes, which begins its transaction if the
\* scan works and its plan is safe, and that transaction goes on; nobody
\* promises that the operator or the command line do anything.
Fairness ==
    WF_vars(SyncStep(Service) \/ \E R \in SUBSET arrived : SyncBegin(Service, R))

Spec == Init /\ [][Next]_vars /\ Fairness

-----------------------------------------------------------------------------
(* Properties                                                                *)

Values ==
    {None} \cup (UNION {{Mail[m][at] : at \in Attributes} : m \in Messages})
        \cup (UNION {{Form[f].employer, Form[f].title, Form[f].renamed, Form[f].url} : f \in Forms})
Application ==
    [key : Keys, employer : Values, title : Values, url : Values,
     domain : Values, thread : Values, snapshot : Values]
Candidate ==
    [message : Messages, class : Classes, app : Keys \cup {NoKey},
     status : {"exact", "ambiguous", "unmatched"}]
Tables == [apps : SUBSET Application, active : SUBSET Candidate]

\* Every row has values its columns allow, and every transaction and request is in a
\* state the code knows: no candidate refers to what is not an application.
TypeOK ==
    /\ arrived \subseteq Messages /\ scanning \in BOOLEAN /\ class \in [Messages -> Classes] /\ title \in [Forms -> Values]
    /\ apps \subseteq Application /\ active \subseteq Candidate
    /\ submissions \subseteq [key : Keys, variant : Variants]
    /\ sync \in [Syncers -> {"idle", "changed", "fresh", "settled"}]
    /\ rows \in [Syncers -> SUBSET Messages] /\ todo \in [Syncers -> SUBSET Messages]
    /\ before \in [Syncers -> Tables] /\ view \in [Syncers -> Tables]
    /\ moved \in [Syncers -> SUBSET (Keys \cup Messages)]
    /\ settled \in BOOLEAN
    /\ opc \in [Operators -> {"idle", "insert", "lock", "remove", "told"}]
    /\ request \in [Operators -> [key : Keys \cup {NoKey}, variant : Variants \cup {0}]]
    /\ \A o \in Operators : opc[o] \in {"insert", "lock"} => request[o].variant \in Variants
    /\ budget \in [{"mail", "requests", "cli", "changes"} -> Nat]

\* No unique index and no foreign key of the tables is ever what refuses a write of
\* overlapping transactions: the locks and checks of the code keep one application
\* per key, one submission per application, one active interpretation per message,
\* and never delete an application that a submission or evidence refers to.
ConstraintsNeverFire ==
    /\ \A a, b \in apps : a.key = b.key => a = b
    /\ \A s, t \in submissions : s.key = t.key => s = t
    /\ \A c, d \in active : c.message = d.message => c = d
    /\ \A s \in submissions : s.key \in KeysOf(apps)
    /\ \A c \in active : c.app \in {NoKey} \cup KeysOf(apps)

\* Evidence once matched to an application stays with it, whatever the classifier
\* says later and however many syncs and operators interleave.
NeverRematched ==
    [][\A c \in active : c.app # NoKey
          => \E d \in active' : d.message = c.message /\ d.app = c.app]_vars

\* An operator who is told that a submission is recorded finds exactly it, and a
\* removal takes away only the submission it had seen, not one recorded since.
AnswersAreTrue ==
    [][\A o \in Operators :
          /\ opc'[o] = "told" /\ opc[o] # "told" => request[o] \in submissions'
          /\ opc[o] = "remove" /\ opc'[o] = "idle" => submissions \ submissions' \subseteq {request[o]}]_vars

\* A matching application that only the planner finds
OnlyPlanned(m, db) == Resolve(m, db.apps, db.active) # Resolve(m, Blind(db.apps), db.active)
\* An application created for another than the row's own, by the same batch, that a
\* row still to be matched finds; the plan does not know it
FoundInBatch(p, m) ==
    /\ Existing(m, before[p].active) = {} /\ class[m] \in Discovering
    /\ Match(m, Blind({a \in Created(p) : a.key # NewCandidate(m, before[p]).app})) # NoKey
\* A row without application that would be ambiguous now; the plan ignores the status
StatusChanged(p, m) ==
    \E c \in ActiveOf(m, before[p].active) :
        /\ {c.app, NewCandidate(m, before[p]).app} = {NoKey}
        /\ c.status # NewCandidate(m, before[p]).status

\* Plan and ingest, written twice, disagree only where one of three things differs:
\* the identities they compare, applications of the same batch, or a match status.
PlanIsKept ==
    \A p \in Syncers :
        sync[p] # "idle" /\ todo[p] = {} /\ ~ Agrees(p)
        => \E m \in rows[p] : \/ OnlyPlanned(m, before[p]) \/ FoundInBatch(p, m)
                              \/ StatusChanged(p, m)

\* Every message that arrived ends up with the interpretation of the installed
\* classifier, unless one of three things keeps all of them waiting: the scan does not
\* work, a row of it is one that no plan accepts (run_product_v1_f5_mailbox_-
\* persistence_apply.py:264-268), or plan and ingest disagree again and again.
EvidenceArrives ==
    \/ <>[](~ scanning \/ ~ PlanIsSafe(arrived, active))
    \/ []<>(sync[Service] # "idle" /\ todo[Service] = {} /\ ~ Agrees(Service))
    \/ <>[](\A m \in arrived : class[m] \in Persisting
               => \E c \in ActiveOf(m, active) : c.class = class[m])

\* A sync that starts from what a sync of the same rows left passes.
SyncIsIdempotent ==
    \A p \in Syncers : sync[p] = "settled" /\ todo[p] = {} => Agrees(p)
================================================================================
