----------------------- MODULE ApplicationTrackingProofs -----------------------
(***************************************************************************)
(* Theorems of ApplicationTracking, for any messages, forms, operators and  *)
(* bounds.  What a sync writes is right for the tables it read; the         *)
(* inductive invariant adds to the types and to the constraints what still  *)
(* connects those tables with the real ones (SameEvidence, SameKeys), and   *)
(* what its own rows have made of them (the rest of Sound).  A second one,  *)
(* PlanInv, says how each row of a sync was interpreted.                    *)
(***************************************************************************)
EXTENDS ApplicationTracking, FiniteSetTheorems, TLAPS

-----------------------------------------------------------------------------
(* The keys a row may resolve to                                             *)

\* NoKey and Ambiguous are keys of no application.
LEMMA KeysAreReal == NoKey \notin Keys /\ Ambiguous \notin Keys /\ NoKey # Ambiguous
<1>1. \A m \in Messages : MailKey(m)[1] = "mailbox"
  BY DEF MailKey
<1>2. \A f \in Forms : FormKey(f)[1] = "form"
  BY DEF FormKey
<1>3. NoKey[1] = "none" /\ Ambiguous[1] = "ambiguous"
  BY DEF NoKey, Ambiguous
<1> QED
  BY <1>1, <1>2, <1>3 DEF Keys

\* A rule that finds applications answers with one of their keys.
LEMMA DecideFinds ==
    ASSUME NEW known, NEW found \in SUBSET known, NEW otherwise,
           otherwise \in KeysOf(known) \cup {NoKey, Ambiguous}
    PROVE  Decide(found, otherwise) \in KeysOf(known) \cup {NoKey, Ambiguous}
<1>1. CASE found = {}
  BY <1>1 DEF Decide
<1>2. CASE found # {}
  <2>1. (CHOOSE a \in found : TRUE) \in found
    BY <1>2
  <2> QED
    BY <1>2, <2>1 DEF Decide, KeysOf
<1> QED BY <1>1, <1>2

\* So does the whole matching.
LEMMA MatchFinds ==
    ASSUME NEW m, NEW known
    PROVE  Match(m, known) \in KeysOf(known) \cup {NoKey, Ambiguous}
<1> DEFINE mail == Mail[m]
           Same(at) == {a \in known : mail[at] # None /\ a[at] = mail[at]}
           R4 == Decide({a \in Same("employer") : SameFamily(a.title, mail.title)}, NoKey)
           R3 == Decide({a \in Same("domain") : mail.title = None}, R4)
           R2 == Decide(Same("thread"), R3)
           T  == KeysOf(known) \cup {NoKey, Ambiguous}
<1>4. R4 \in T
  BY DecideFinds
<1> HIDE DEF R4
<1>3. R3 \in T
  BY <1>4, DecideFinds
<1> HIDE DEF R3
<1>2. R2 \in T
  BY <1>3, DecideFinds
<1> HIDE DEF R2
<1>1. Decide(Same("url"), R2) \in T
  BY <1>2, DecideFinds
<1> QED
  BY <1>1 DEF Match, R2, R3, R4

\* Blind leaves the keys.
LEMMA BlindKeys ==
    ASSUME NEW known \in SUBSET Application
    PROVE  KeysOf(Blind(known)) = KeysOf(known)
<1>1. \A a \in known : [a EXCEPT !.thread = None, !.domain = None].key = a.key
  BY DEF Application
<1> QED
  BY <1>1 DEF KeysOf, Blind

\* The application of a new interpretation is the one kept, one there is, the one the
\* message would create, or none.
LEMMA NewCandidateApp ==
    ASSUME NEW m \in Messages, NEW db \in Tables
    PROVE  LET c == NewCandidate(m, db) IN
           /\ c.message = m /\ c.class = class[m]
           /\ c.status \in {"exact", "ambiguous", "unmatched"}
           /\ c.app \in {NoKey, MailKey(m)} \cup KeysOf(db.apps) \cup Existing(m, db.active)
           /\ Existing(m, db.active) # {} => c.app \in Existing(m, db.active)
<1> DEFINE key == Resolve(m, Blind(db.apps), db.active)
<1>1. Match(m, Blind(db.apps)) \in KeysOf(db.apps) \cup {NoKey, Ambiguous}
  BY MatchFinds, BlindKeys DEF Tables
<1>2. /\ key \in {NoKey, Ambiguous, MailKey(m)} \cup KeysOf(db.apps) \cup Existing(m, db.active)
      /\ Existing(m, db.active) # {} => key \in Existing(m, db.active)
  BY <1>1 DEF Resolve
<1> HIDE DEF key
<1>3. NewCandidate(m, db) =
        [message |-> m, class |-> class[m],
         app    |-> IF key = Ambiguous THEN NoKey ELSE key,
         status |-> CASE key = Ambiguous -> "ambiguous"
                      [] key = NoKey     -> "unmatched"
                      [] OTHER           -> "exact"]
  BY DEF NewCandidate, key
<1>4. Existing(m, db.active) \subseteq Keys
  BY DEF Existing, ActiveOf, Tables, Candidate
<1> QED
  BY <1>2, <1>3, <1>4, KeysAreReal

-----------------------------------------------------------------------------
(* The inductive invariant                                                   *)

\* What a sync read of a message is still so, unless moved says otherwise.
SameEvidence(p) ==
    \A m \in Messages \ moved[p] : ActiveOf(m, active) = ActiveOf(m, before[p].active)

\* So is whether there is an application of a key.
SameKeys(p) ==
    \A k \in Keys \ moved[p] : k \in KeysOf(apps) <=> k \in KeysOf(before[p].apps)

\* One application per key, one active interpretation per message, and none that
\* refers to an application there is not.
Consistent(db) ==
    /\ \A a, b \in db.apps : a.key = b.key => a = b
    /\ \A c, d \in db.active : c.message = d.message => c = d
    /\ \A c \in db.active : c.app \in {NoKey} \cup KeysOf(db.apps)

\* What the rows make of the tables: the applications stay, each new one is that of
\* an interpretation that matched nothing, matched evidence keeps its application, and
\* what was read of a row not yet ingested stands.
Extends(old, new) ==
    /\ old.apps \subseteq new.apps
    /\ \A a \in new.apps \ old.apps :
          \E c \in new.active \ old.active :
             c.app = a.key /\ Existing(c.message, old.active) = {}
    /\ \A c \in old.active : c.app # NoKey
          => \E d \in new.active : d.message = c.message /\ d.app = c.app

Pending(p) ==
    \A m \in todo[p] : ActiveOf(m, view[p].active) = ActiveOf(m, before[p].active)

Sound(p) ==
    sync[p] # "idle" => /\ SameEvidence(p) /\ SameKeys(p)
                        /\ Consistent(before[p]) /\ Consistent(view[p])
                        /\ Extends(before[p], view[p]) /\ Pending(p)

IInv == TypeOK /\ ConstraintsNeverFire /\ \A p \in Syncers : Sound(p)

LEMMA InitIInv == Init => IInv
<1> SUFFICES ASSUME Init PROVE IInv
  OBVIOUS
<1>1. TypeOK
  <2>1. class \in [Messages -> Classes]
    BY TrackingAssumption DEF Init
  <2>2. title \in [Forms -> Values]
    BY DEF Init, Values
  <2>3. Nothing \in Tables
    BY DEF Nothing, Tables
  <2>4. NoRequest \in [key : Keys \cup {NoKey}, variant : Variants \cup {0}]
    BY DEF NoRequest
  <2>5. budget \in [{"mail", "requests", "cli", "changes"} -> Nat]
    BY TrackingAssumption DEF Init
  <2> QED
    BY <2>1, <2>2, <2>3, <2>4, <2>5 DEF Init, TypeOK
<1>2. ConstraintsNeverFire
  BY DEF Init, ConstraintsNeverFire
<1>3. \A p \in Syncers : Sound(p)
  BY DEF Init, Sound
<1> QED BY <1>1, <1>2, <1>3 DEF IInv

-----------------------------------------------------------------------------
(* Types                                                                     *)

\* What a message and a form say are values.
LEMMA SaidAreValues ==
    /\ \A m \in Messages : MailApplication(m) \in Application
    /\ \A f \in Forms : title[f] \in Values => FormApplication(f) \in Application
    /\ \A f \in Forms : Form[f].renamed \in Values
    /\ Titles \subseteq Values
<1>1. \A m \in Messages : \A at \in Attributes : Mail[m][at] \in Values
  BY DEF Values
<1>2. \A m \in Messages : /\ Mail[m].employer \in Values /\ Mail[m].title \in Values
                          /\ Mail[m].url \in Values /\ Mail[m].domain \in Values
                          /\ Mail[m].thread \in Values
  BY <1>1 DEF Attributes
<1>3. \A f \in Forms : /\ Form[f].employer \in Values /\ Form[f].title \in Values
                       /\ Form[f].renamed \in Values /\ Form[f].url \in Values
  BY DEF Values
<1>4. None \in Values
  BY DEF Values
<1>5. \A m \in Messages : MailKey(m) \in Keys
  BY DEF Keys
<1>6. \A f \in Forms : FormKey(f) \in Keys
  BY DEF Keys
<1>7. \A m \in Messages : MailApplication(m) \in Application
  BY <1>2, <1>5 DEF MailApplication, Application
<1>8. \A f \in Forms : title[f] \in Values => FormApplication(f) \in Application
  BY <1>3, <1>4, <1>6 DEF FormApplication, Application
<1>9. Titles \subseteq Values
  BY <1>2, <1>3 DEF Titles
<1> QED BY <1>3, <1>7, <1>8, <1>9

\* An ingested row leaves tables.
LEMMA IngestedTyped ==
    ASSUME TypeOK, NEW m \in Messages, NEW db \in Tables
    PROVE  Ingested(m, db) \in Tables
<1>1. Existing(m, db.active) \subseteq Keys /\ KeysOf(db.apps) \subseteq Keys /\ MailKey(m) \in Keys
  BY DEF Existing, ActiveOf, Tables, Candidate, Application, KeysOf, Keys
<1>2. DOMAIN NewCandidate(m, db) = {"message", "class", "app", "status"}
  BY DEF NewCandidate
<1>3. NewCandidate(m, db) \in Candidate
  <2>1. class[m] \in Classes
    BY DEF TypeOK
  <2>2. NewCandidate(m, db) =
          [message |-> NewCandidate(m, db).message, class |-> NewCandidate(m, db).class,
           app |-> NewCandidate(m, db).app, status |-> NewCandidate(m, db).status]
    BY DEF NewCandidate
  <2> QED
    BY <1>1, <2>1, <2>2, NewCandidateApp DEF Candidate
<1>4. MailApplication(m) \in Application
  BY SaidAreValues
<1> QED
  BY <1>3, <1>4 DEF Ingested, Tables

\* A committed change leaves the locals of the syncs typed.
LEMMA DisturbsTyped ==
    ASSUME TypeOK, NEW changed \in SUBSET (Keys \cup Messages), Disturbs(changed)
    PROVE  /\ sync' \in [Syncers -> {"idle", "changed", "fresh", "settled"}]
           /\ moved' \in [Syncers -> SUBSET (Keys \cup Messages)]
           /\ settled' \in BOOLEAN
           /\ UNCHANGED <<rows, todo, before, view>>
  BY DEF TypeOK, Disturbs

\* Spending keeps the budget typed.
LEMMA SpendTyped ==
    ASSUME TypeOK, NEW what \in {"mail", "requests", "cli", "changes"}, Spend(what)
    PROVE  budget' \in [{"mail", "requests", "cli", "changes"} -> Nat]
  BY DEF TypeOK, Spend

\* The locals of a sync that ends are typed.
LEMMA CloseTyped ==
    ASSUME TypeOK, NEW p \in Syncers, Close(p)
    PROVE  /\ rows' \in [Syncers -> SUBSET Messages] /\ todo' \in [Syncers -> SUBSET Messages]
           /\ before' \in [Syncers -> Tables] /\ view' \in [Syncers -> Tables]
<1>1. Nothing \in Tables
  BY DEF Nothing, Tables
<1> QED
  BY <1>1 DEF TypeOK, Close

\* Every step keeps the types.
LEMMA NextTyped == TypeOK /\ [Next]_vars => TypeOK'
<1> SUFFICES ASSUME TypeOK, [Next]_vars PROVE TypeOK'
  OBVIOUS
<1> USE DEF vars, inputs, tables, syncVars, opVars
<1>1. ASSUME NEW m \in Messages, Arrive(m) PROVE TypeOK'
  BY <1>1, DisturbsTyped, SpendTyped DEF TypeOK, Arrive
<1>2. ASSUME NEW m \in Messages, Reclassify(m) PROVE TypeOK'
  <2>1. Mail[m].later \in Classes
    BY TrackingAssumption
  <2> QED
    BY <1>2, <2>1, DisturbsTyped, SpendTyped DEF TypeOK, Reclassify
<1>3. ASSUME NEW p \in Syncers, NEW R \in SUBSET arrived, SyncBegin(p, R) PROVE TypeOK'
  <2>1. Selected(R, active) \in SUBSET Messages
    BY DEF Selected, TypeOK
  <2>2. [apps |-> apps, active |-> active] \in Tables
    BY DEF TypeOK, Tables
  <2>3. budget' \in [{"mail", "requests", "cli", "changes"} -> Nat]
    BY <1>3, SpendTyped DEF SyncBegin, TypeOK
  <2> QED
    BY <1>3, <2>1, <2>2, <2>3 DEF TypeOK, SyncBegin
<1>4. ASSUME NEW p \in Syncers, NEW m \in Messages, Ingest(p, m) PROVE TypeOK'
  <2>1. Ingested(m, view[p]) \in Tables
    BY IngestedTyped DEF TypeOK
  <2> QED
    BY <1>4, <2>1 DEF TypeOK, Ingest
<1>5. ASSUME NEW p \in Syncers, SyncPasses(p) PROVE TypeOK'
  <2>1. before[p] \in Tables /\ view[p] \in Tables
    BY DEF TypeOK
  <2>2. /\ Created(p) \subseteq Application /\ Written(p) \subseteq Candidate
        /\ KeysOf(Created(p)) \cup {c.message : c \in Written(p)} \in SUBSET (Keys \cup Messages)
    BY <2>1 DEF Created, Written, Tables, KeysOf, Application, Candidate
  <2>3. apps' \subseteq Application /\ active' \subseteq Candidate
    BY <1>5, <2>2 DEF SyncPasses, TypeOK
  <2>4. /\ sync' \in [Syncers -> {"idle", "changed", "fresh", "settled"}]
        /\ moved' \in [Syncers -> SUBSET (Keys \cup Messages)]
        /\ settled' \in BOOLEAN
    BY <1>5, <2>2 DEF SyncPasses, TypeOK
  <2> QED
    BY <1>5, <2>3, <2>4, CloseTyped DEF TypeOK, SyncPasses
<1>6. ASSUME NEW p \in Syncers, SyncFails(p) PROVE TypeOK'
  BY <1>6, CloseTyped DEF TypeOK, SyncFails
<1>7. ASSUME NEW p \in Syncers, SyncKilled(p) PROVE TypeOK'
  BY <1>7, CloseTyped, SpendTyped DEF TypeOK, SyncKilled
<1>8. ASSUME NEW f \in Forms, Rename(f) PROVE TypeOK'
  <2>1. Form[f].renamed \in Values
    BY SaidAreValues
  <2>2. \A a \in Application : [a EXCEPT !.title = Form[f].renamed] \in Application
    BY <2>1 DEF Application
  <2> QED
    BY <1>8, <2>1, <2>2, DisturbsTyped, SpendTyped DEF TypeOK, Rename
<1>9. ASSUME NEW f \in Forms, NEW o \in Operators, RecordInsert(o, f) PROVE TypeOK'
  <2>1. FormKey(f) \in Keys
    BY DEF Keys
  <2>2. request[o] \in [key : Keys \cup {NoKey}, variant : Variants \cup {0}]
    BY DEF TypeOK
  <2>3. CASE AppsOf(FormKey(f)) = {}
    <3>1. FormApplication(f) \in Application
      BY SaidAreValues DEF TypeOK
    <3>2. request[o] \in [key : Keys, variant : Variants]
      BY <1>9, <2>1, <2>2 DEF TypeOK, RecordInsert
    <3> QED
      BY <1>9, <2>1, <2>3, <3>1, <3>2, DisturbsTyped DEF TypeOK, RecordInsert, Confirm
  <2>4. CASE AppsOf(FormKey(f)) # {}
    BY <1>9, <2>4 DEF TypeOK, RecordInsert
  <2> QED BY <2>3, <2>4
<1>10. ASSUME NEW f \in Forms, NEW o \in Operators, RecordFinish(o, f) PROVE TypeOK'
  <2>1. FormKey(f) \in Keys
    BY DEF Keys
  <2>2. request[o] \in [key : Keys, variant : Variants]
    BY <1>10, <2>1 DEF TypeOK, RecordFinish
  <2>3. /\ opc' \in [Operators -> {"idle", "insert", "lock", "remove", "told"}]
        /\ request' \in [Operators -> [key : Keys \cup {NoKey}, variant : Variants \cup {0}]]
        /\ \A q \in Operators : opc'[q] \in {"insert", "lock"} => request'[q].variant \in Variants
    <3>1. Confirm(o) \/ Answer(o)
      BY <1>10 DEF RecordFinish
    <3>2. CASE Confirm(o)
      BY <3>2 DEF TypeOK, Confirm
    <3>3. CASE Answer(o)
      BY <3>3 DEF TypeOK, Answer, NoRequest
    <3> QED BY <3>1, <3>2, <3>3
  <2> QED
    BY <1>10, <2>2, <2>3 DEF TypeOK, RecordFinish
<1>11. ASSUME NEW f \in Forms, NEW o \in Operators, NEW v \in Variants, AskRecord(o, f, v)
       PROVE  TypeOK'
  <2>1. FormKey(f) \in Keys
    BY DEF Keys
  <2> QED
    BY <1>11, <2>1, SpendTyped DEF TypeOK, AskRecord, Ask
<1>12. ASSUME NEW o \in Operators, NEW k \in Keys, NEW v \in Variants \cup {0}, AskRemove(o, k, v)
       PROVE  TypeOK'
  BY <1>12, SpendTyped DEF TypeOK, AskRemove, Ask
<1>13. ASSUME NEW o \in Operators, Remove(o) PROVE TypeOK'
  <2>1. /\ opc' \in [Operators -> {"idle", "insert", "lock", "remove", "told"}]
        /\ request' \in [Operators -> [key : Keys \cup {NoKey}, variant : Variants \cup {0}]]
        /\ \A q \in Operators : opc'[q] \in {"insert", "lock"} => request'[q].variant \in Variants
    <3>1. opc' = [opc EXCEPT ![o] = "idle"]
      BY <1>13 DEF Remove
    <3>2. \/ request' = [request EXCEPT ![o] = NoRequest]
          \/ request' = [q \in Operators |->
                           IF q = o THEN NoRequest
                           ELSE IF opc[q] = "remove" /\ request[q] = request[o]
                           THEN [request[q] EXCEPT !.variant = 0] ELSE request[q]]
      BY <1>13 DEF Remove
    <3>3. NoRequest \in [key : Keys \cup {NoKey}, variant : Variants \cup {0}]
      BY DEF NoRequest
    <3>4. \A q \in Operators : [request[q] EXCEPT !.variant = 0]
                                \in [key : Keys \cup {NoKey}, variant : Variants \cup {0}]
      BY DEF TypeOK
    <3>5. request' \in [Operators -> [key : Keys \cup {NoKey}, variant : Variants \cup {0}]]
      <4>1. request \in [Operators -> [key : Keys \cup {NoKey}, variant : Variants \cup {0}]]
        BY DEF TypeOK
      <4>2. CASE request' = [request EXCEPT ![o] = NoRequest]
        BY <3>3, <4>1, <4>2
      <4>3. CASE request' = [q \in Operators |->
                              IF q = o THEN NoRequest
                              ELSE IF opc[q] = "remove" /\ request[q] = request[o]
                              THEN [request[q] EXCEPT !.variant = 0] ELSE request[q]]
        <5> DEFINE R == [key : Keys \cup {NoKey}, variant : Variants \cup {0}]
                   G(q) == [request[q] EXCEPT !.variant = 0]
        <5>1. NoRequest \in R /\ (\A q \in Operators : G(q) \in R /\ request[q] \in R)
          BY <3>3, <3>4, <4>1
        <5>2. request' = [q \in Operators |->
                            IF q = o THEN NoRequest
                            ELSE IF opc[q] = "remove" /\ request[q] = request[o]
                            THEN G(q) ELSE request[q]]
          BY <4>3
        <5> HIDE DEF R, G
        <5>3. request' \in [Operators -> R]
          BY <5>1, <5>2
        <5> QED BY <5>3 DEF R
      <4> QED BY <3>2, <4>2, <4>3
    <3>6. \A q \in Operators : opc'[q] \in {"insert", "lock"}
                                => opc[q] = opc'[q] /\ request'[q] = request[q]
      BY <3>1, <3>2 DEF TypeOK
    <3> QED
      BY <3>1, <3>5, <3>6 DEF TypeOK
  <2>2. UNCHANGED syncVars \/ (Disturbs({request[o].key}) /\ request[o].key \in Keys)
    BY <1>13 DEF Remove, AppsOf, TypeOK, Application
  <2>3. /\ sync' \in [Syncers -> {"idle", "changed", "fresh", "settled"}]
        /\ moved' \in [Syncers -> SUBSET (Keys \cup Messages)]
        /\ settled' \in BOOLEAN
        /\ UNCHANGED <<rows, todo, before, view>>
    BY <2>2, DisturbsTyped DEF TypeOK
  <2>4. apps' \subseteq apps /\ submissions' \subseteq submissions
    BY <1>13 DEF Remove
  <2> QED
    BY <1>13, <2>1, <2>3, <2>4 DEF TypeOK, Remove
<1>14. ASSUME NEW a \in apps, NEW t \in Titles, Correct(a, t) PROVE TypeOK'
  <2>1. t \in Values /\ a \in Application
    BY SaidAreValues DEF TypeOK
  <2>2. [a EXCEPT !.title = t, !.snapshot = t] \in Application
    BY <2>1 DEF Application
  <2>3. a.key \in Keys
    BY <2>1 DEF Application
  <2> QED
    BY <1>14, <2>2, <2>3, DisturbsTyped, SpendTyped DEF TypeOK, Correct
<1>15. CASE UNCHANGED vars
  BY <1>15 DEF TypeOK
<1>16. CASE ScanBreaks
  BY <1>16, SpendTyped DEF TypeOK, ScanBreaks
<1> QED
  BY <1>1, <1>2, <1>3, <1>4, <1>5, <1>6, <1>7, <1>8, <1>9, <1>10, <1>11, <1>12, <1>13, <1>14,
     <1>15, <1>16 DEF Next, SyncStep, SyncRefused

-----------------------------------------------------------------------------
(* The rows of a sync                                                        *)

\* An interpretation that creates an application is new, and nothing was kept.
LEMMA IngestSound ==
    ASSUME TypeOK, NEW p \in Syncers, NEW m \in Messages, Ingest(p, m),
           sync[p] # "idle", Sound(p)
    PROVE  Sound(p)'
<1> DEFINE old == before[p]
           db  == view[p]
           new == NewCandidate(m, db)
<1>1. /\ old \in Tables /\ db \in Tables
      /\ before' = before /\ view'[p] = Ingested(m, db) /\ sync' = sync
      /\ todo'[p] = todo[p] \ {m} /\ m \in todo[p]
      /\ UNCHANGED <<apps, active, moved>>
  BY DEF Ingest, TypeOK, inputs, tables
<1>2. /\ SameEvidence(p) /\ SameKeys(p) /\ Consistent(old) /\ Consistent(db)
      /\ Extends(old, db) /\ Pending(p)
  BY DEF Sound
<1>3. /\ new.message = m
      /\ new.app \in {NoKey, MailKey(m)} \cup KeysOf(db.apps) \cup Existing(m, db.active)
      /\ Existing(m, db.active) # {} => new.app \in Existing(m, db.active)
  BY <1>1, NewCandidateApp
<1>4. ActiveOf(m, db.active) = ActiveOf(m, old.active)
  BY <1>1, <1>2 DEF Pending
<1>5. Existing(m, db.active) = Existing(m, old.active)
  BY <1>4 DEF Existing
<1>6. Existing(m, db.active) \subseteq KeysOf(db.apps)
  BY <1>2 DEF Existing, ActiveOf, Consistent
<1> HIDE DEF new
<1>7. /\ view'[p].active = (db.active \ ActiveOf(m, db.active)) \cup {new}
      /\ view'[p].apps = IF new.app \in {NoKey} \cup KeysOf(db.apps) THEN db.apps
                         ELSE db.apps \cup {MailApplication(m)}
  BY <1>1 DEF Ingested, new
<1>8. \A c \in ActiveOf(m, db.active) : c.message = m /\ c \in db.active
  BY DEF ActiveOf
<1>9. \A c \in db.active : c.message = m => c \in ActiveOf(m, db.active)
  BY DEF ActiveOf
<1>10. MailApplication(m).key = MailKey(m)
  BY DEF MailApplication
<1>11. db.apps \subseteq view'[p].apps /\ KeysOf(db.apps) \subseteq KeysOf(view'[p].apps)
  BY <1>7 DEF KeysOf
<1>12. new.app \in {NoKey} \cup KeysOf(view'[p].apps)
  <2>1. CASE new.app \in {NoKey} \cup KeysOf(db.apps)
    BY <2>1, <1>11
  <2>2. CASE new.app \notin {NoKey} \cup KeysOf(db.apps)
    <3>1. new.app = MailKey(m)
      BY <2>2, <1>3, <1>6
    <3> QED
      BY <2>2, <3>1, <1>7, <1>10 DEF KeysOf
  <2> QED BY <2>1, <2>2
<1>13. Consistent(view'[p])
  <2>1. \A a, b \in view'[p].apps : a.key = b.key => a = b
    <3>1. CASE new.app \in {NoKey} \cup KeysOf(db.apps)
      BY <3>1, <1>2, <1>7 DEF Consistent
    <3>2. CASE new.app \notin {NoKey} \cup KeysOf(db.apps)
      <4>1. new.app = MailKey(m)
        BY <3>2, <1>3, <1>6
      <4> QED
        BY <3>2, <4>1, <1>2, <1>7, <1>10 DEF Consistent, KeysOf
    <3> QED BY <3>1, <3>2
  <2>2. \A c, d \in view'[p].active : c.message = d.message => c = d
    BY <1>2, <1>3, <1>7, <1>9 DEF Consistent
  <2>3. \A c \in view'[p].active : c.app \in {NoKey} \cup KeysOf(view'[p].apps)
    BY <1>2, <1>7, <1>11, <1>12 DEF Consistent
  <2> QED BY <2>1, <2>2, <2>3 DEF Consistent
<1>14. Extends(old, view'[p])
  <2>1. old.apps \subseteq view'[p].apps
    BY <1>2, <1>11 DEF Extends
  <2>2. ASSUME NEW a \in view'[p].apps \ old.apps
        PROVE  \E c \in view'[p].active \ old.active :
                  c.app = a.key /\ Existing(c.message, old.active) = {}
    <3>1. CASE a \in db.apps
      <4>1. PICK c \in db.active \ old.active :
                    c.app = a.key /\ Existing(c.message, old.active) = {}
        BY <1>2, <2>2, <3>1 DEF Extends
      <4>2. c \notin ActiveOf(m, db.active)
        BY <1>4, <4>1 DEF ActiveOf
      <4> QED
        BY <1>7, <4>1, <4>2
    <3>2. CASE a \notin db.apps
      <4>1. a = MailApplication(m) /\ new.app \notin {NoKey} \cup KeysOf(db.apps)
        BY <1>7, <2>2, <3>2
      <4>2. new.app = MailKey(m) /\ Existing(m, old.active) = {}
        BY <1>3, <1>5, <1>6, <4>1
      <4>3. new \notin old.active
        <5>1. KeysOf(old.apps) \subseteq KeysOf(db.apps)
          BY <1>2 DEF Extends, KeysOf
        <5> QED
          BY <1>2, <4>1, <5>1 DEF Consistent
      <4> QED
        BY <1>3, <1>7, <1>10, <4>1, <4>2, <4>3
    <3> QED BY <3>1, <3>2
  <2>3. ASSUME NEW c \in old.active, c.app # NoKey
        PROVE  \E d \in view'[p].active : d.message = c.message /\ d.app = c.app
    <3>1. PICK d \in db.active : d.message = c.message /\ d.app = c.app
      BY <1>2, <2>3 DEF Extends
    <3>2. CASE c.message # m
      BY <1>7, <1>8, <3>1, <3>2
    <3>3. CASE c.message = m
      <4>1. c \in ActiveOf(m, old.active) /\ c.app \in Existing(m, old.active)
        BY <2>3, <3>3 DEF ActiveOf, Existing
      <4>2. \A k \in Existing(m, old.active) : k = c.app
        BY <1>2, <4>1 DEF Existing, ActiveOf, Consistent
      <4>3. new.app = c.app
        BY <1>3, <1>5, <4>1, <4>2
      <4> QED
        BY <1>3, <1>7, <3>3, <4>3
    <3> QED BY <3>2, <3>3
  <2> QED BY <2>1, <2>2, <2>3 DEF Extends
<1>15. Pending(p)'
  <2>1. ASSUME NEW n \in todo[p] \ {m}
        PROVE  ActiveOf(n, view'[p].active) = ActiveOf(n, db.active)
    BY <1>3, <1>7, <1>8 DEF ActiveOf
  <2> QED
    BY <1>1, <1>2, <2>1 DEF Pending
<1>16. SameEvidence(p)' /\ SameKeys(p)'
  BY <1>1, <1>2 DEF SameEvidence, SameKeys
<1> QED
  BY <1>1, <1>2, <1>13, <1>14, <1>15, <1>16 DEF Sound

-----------------------------------------------------------------------------
(* The commit of a sync                                                      *)

\* What a commit finds: the rows it wrote are still what it read, the applications it
\* matched or creates are still there or still not.
LEMMA CommitFinds ==
    ASSUME IInv, NEW p \in Syncers, SyncPasses(p)
    PROVE  /\ \A d \in Written(p) : ActiveOf(d.message, active) = ActiveOf(d.message, before[p].active)
           /\ \A k \in KeysOf(Created(p)) : k \notin KeysOf(apps)
           /\ \A d \in Matched(p) : d.app \in Keys
                 => (d.app \in KeysOf(apps) <=> d.app \in KeysOf(before[p].apps))
           /\ \A d \in Written(p) : \A c \in active : c.message = d.message /\ c.app # NoKey
                 => d.app = c.app /\ d \notin Matched(p)
<1>1. /\ before[p] \in Tables /\ view[p] \in Tables /\ TypeOK
      /\ SameEvidence(p) /\ SameKeys(p) /\ Consistent(before[p]) /\ Consistent(view[p])
      /\ Extends(before[p], view[p])
  BY DEF IInv, TypeOK, Sound, SyncPasses
<1>2. /\ moved[p] \cap {c.app : c \in Matched(p)} = {}
      /\ Written(p) # {} => moved[p] \cap Messages = {}
  BY DEF SyncPasses, Conflicts
<1>3. \A d \in Written(p) : d.message \in Messages /\ d.app \in Keys \cup {NoKey}
  BY <1>1 DEF Written, Tables, Candidate
<1>4. \A d \in Written(p) : ActiveOf(d.message, active) = ActiveOf(d.message, before[p].active)
  BY <1>1, <1>2, <1>3 DEF SameEvidence
<1>5. \A d \in Matched(p) : d \in Written(p) /\ d.app \notin moved[p]
  BY <1>2 DEF Matched
<1>6. \A d \in Matched(p) : d.app \in Keys
         => (d.app \in KeysOf(apps) <=> d.app \in KeysOf(before[p].apps))
  BY <1>1, <1>5 DEF SameKeys
<1>7. ASSUME NEW a \in Created(p) PROVE a.key \notin KeysOf(apps)
  <2>1. a \in view[p].apps /\ a \notin before[p].apps /\ a.key \in Keys
    BY <1>1 DEF Created, Tables, Application
  <2>2. PICK c \in Matched(p) : c.app = a.key
    BY <1>1, <2>1 DEF Extends, Matched, Written
  <2>3. a.key \notin KeysOf(before[p].apps)
    BY <1>1, <2>1 DEF Extends, Consistent, KeysOf
  <2> QED
    BY <1>6, <2>1, <2>2, <2>3
<1>8. ASSUME NEW d \in Written(p), NEW c \in active, c.message = d.message, c.app # NoKey
      PROVE  d.app = c.app /\ d \notin Matched(p)
  <2>1. c \in before[p].active
    BY <1>4, <1>8 DEF ActiveOf
  <2>2. c.app \in Existing(d.message, before[p].active)
    BY <1>8, <2>1 DEF Existing, ActiveOf
  <2>3. d.app = c.app
    BY <1>1, <1>8, <2>1 DEF Extends, Consistent, Written
  <2> QED
    BY <2>2, <2>3 DEF Matched
<1> QED
  BY <1>4, <1>6, <1>7, <1>8 DEF KeysOf

\* The constraints hold after a commit.
LEMMA CommitConsistent ==
    ASSUME IInv, NEW p \in Syncers, SyncPasses(p)
    PROVE  ConstraintsNeverFire'
<1>1. /\ before[p] \in Tables /\ view[p] \in Tables /\ TypeOK /\ ConstraintsNeverFire
      /\ Consistent(before[p]) /\ Consistent(view[p]) /\ Extends(before[p], view[p])
  BY DEF IInv, TypeOK, Sound, SyncPasses
<1>2. /\ apps' = apps \cup Created(p) /\ submissions' = submissions
      /\ active' = {c \in active : ActiveOf(c.message, Written(p)) = {}} \cup Written(p)
  BY DEF SyncPasses
<1>3. \A a, b \in apps' : a.key = b.key => a = b
  BY <1>1, <1>2, CommitFinds DEF ConstraintsNeverFire, Consistent, Created, KeysOf
<1>4. \A c, d \in active' : c.message = d.message => c = d
  BY <1>1, <1>2 DEF ConstraintsNeverFire, Consistent, Written, ActiveOf
<1>5. KeysOf(apps) \subseteq KeysOf(apps')
  BY <1>2 DEF KeysOf
<1>6. ASSUME NEW d \in Written(p), d.app # NoKey PROVE d.app \in KeysOf(apps')
  <2>1. d.app \in KeysOf(view[p].apps) /\ d.app \in Keys
    BY <1>1, <1>6 DEF Consistent, Written, Tables, Candidate
  <2>2. CASE d \in Matched(p)
    <3>1. PICK a \in view[p].apps : a.key = d.app
      BY <2>1 DEF KeysOf
    <3>2. CASE a \in before[p].apps
      BY <1>5, <2>1, <2>2, <3>1, <3>2, CommitFinds DEF KeysOf
    <3>3. CASE a \notin before[p].apps
      BY <1>2, <3>1, <3>3 DEF Created, KeysOf
    <3> QED BY <3>2, <3>3
  <2>3. CASE d \notin Matched(p)
    <3>1. PICK c \in before[p].active : c.message = d.message /\ c.app # NoKey
      BY <2>3 DEF Matched, Existing, ActiveOf
    <3>2. c \in active
      BY <3>1, CommitFinds DEF ActiveOf
    <3>3. c.app = d.app
      BY <3>1, <3>2, CommitFinds
    <3> QED
      BY <1>1, <1>5, <1>6, <3>2, <3>3 DEF ConstraintsNeverFire
  <2> QED BY <2>2, <2>3
<1>7. /\ \A s \in submissions' : s.key \in KeysOf(apps')
      /\ \A c \in active' : c.app \in {NoKey} \cup KeysOf(apps')
  BY <1>1, <1>2, <1>5, <1>6 DEF ConstraintsNeverFire
<1> QED
  BY <1>1, <1>2, <1>3, <1>4, <1>7 DEF ConstraintsNeverFire

\* What others read stays the same, or moved says that it does not.
LEMMA CommitSound ==
    ASSUME IInv, NEW p \in Syncers, SyncPasses(p), NEW q \in Syncers
    PROVE  Sound(q)'
<1>1. TypeOK /\ Sound(q)
  BY DEF IInv
<1> DEFINE changed == KeysOf(Created(p)) \cup {c.message : c \in Written(p)}
<1>2. CASE q = p
  BY <1>1, <1>2 DEF Sound, SyncPasses, TypeOK
<1>3. CASE q # p
  <2>1. /\ sync'[q] # "idle" => sync[q] # "idle" /\ moved'[q] = moved[q] \cup changed
        /\ before'[q] = before[q] /\ view'[q] = view[q] /\ todo'[q] = todo[q]
    BY <1>1, <1>3 DEF SyncPasses, Close, TypeOK
  <2>2. /\ apps' = apps \cup Created(p)
        /\ active' = {c \in active : ActiveOf(c.message, Written(p)) = {}} \cup Written(p)
    BY DEF SyncPasses
  <2>3. \A k \in Keys \ changed : k \in KeysOf(apps') <=> k \in KeysOf(apps)
    BY <2>2 DEF KeysOf
  <2>4. \A m \in Messages \ changed : ActiveOf(m, active') = ActiveOf(m, active)
    BY <2>2 DEF ActiveOf
  <2> QED
    BY <1>1, <2>1, <2>3, <2>4 DEF Sound, SameEvidence, SameKeys, Pending
<1> QED BY <1>2, <1>3

-----------------------------------------------------------------------------
(* The other steps                                                           *)

\* A step that tells the syncs what it changed.
LEMMA DisturbsSound ==
    ASSUME IInv, NEW changed, Disturbs(changed), NEW p \in Syncers,
           \A m \in Messages \ changed : ActiveOf(m, active') = ActiveOf(m, active),
           \A k \in Keys \ changed : k \in KeysOf(apps') <=> k \in KeysOf(apps)
    PROVE  Sound(p)'
<1>1. TypeOK /\ Sound(p)
  BY DEF IInv
<1>2. /\ sync'[p] # "idle" => sync[p] # "idle" /\ moved'[p] = moved[p] \cup changed
      /\ UNCHANGED <<todo, before, view>>
  BY <1>1 DEF Disturbs, TypeOK
<1> QED
  BY <1>1, <1>2 DEF Sound, SameEvidence, SameKeys, Pending

\* A step that changes nothing a sync reads.
LEMMA FrameSound ==
    ASSUME IInv, NEW p \in Syncers, UNCHANGED <<apps, active>>,
           sync'[p] # "idle" => sync[p] # "idle",
           sync'[p] # "idle" => /\ todo'[p] = todo[p] /\ before'[p] = before[p]
                                /\ view'[p] = view[p] /\ moved'[p] = moved[p]
    PROVE  Sound(p)'
  BY DEF IInv, Sound, SameEvidence, SameKeys, Pending

\* Renaming and correcting leave the keys.
LEMMA SameKeysAfter ==
    ASSUME IInv, NEW f \in Forms, Rename(f)
    PROVE  KeysOf(apps') = KeysOf(apps) /\ (\A a, b \in apps' : a.key = b.key => a = b)
<1>1. apps \subseteq Application /\ (\A a, b \in apps : a.key = b.key => a = b)
  BY DEF IInv, TypeOK, ConstraintsNeverFire
<1> DEFINE G(a) == IF a.key = FormKey(f) THEN [a EXCEPT !.title = Form[f].renamed] ELSE a
<1>2. \A a \in apps : G(a).key = a.key
  BY <1>1 DEF Application
<1>3. apps' = {G(a) : a \in apps}
  BY DEF Rename
<1> HIDE DEF G
<1> QED
  BY <1>1, <1>2, <1>3 DEF KeysOf

LEMMA NextIInv == IInv /\ [Next]_vars => IInv'
<1> SUFFICES ASSUME IInv, [Next]_vars PROVE ConstraintsNeverFire' /\ \A p \in Syncers : Sound(p)'
  BY NextTyped DEF IInv
<1> USE DEF vars, inputs, tables, syncVars, opVars
<1> TypeOK /\ ConstraintsNeverFire
  BY DEF IInv
<1>0. ASSUME UNCHANGED tables PROVE ConstraintsNeverFire'
  BY <1>0 DEF ConstraintsNeverFire
<1>1. ASSUME NEW m \in Messages, Arrive(m) \/ Reclassify(m)
      PROVE  ConstraintsNeverFire' /\ \A p \in Syncers : Sound(p)'
  BY <1>0, <1>1, DisturbsSound DEF Arrive, Reclassify
<1>2. ASSUME NEW p \in Syncers, NEW R \in SUBSET arrived, SyncBegin(p, R)
      PROVE  ConstraintsNeverFire' /\ \A q \in Syncers : Sound(q)'
  <2>1. ASSUME NEW q \in Syncers, q # p PROVE Sound(q)'
    BY <1>2, <2>1, FrameSound DEF SyncBegin, TypeOK
  <2>2. Sound(p)'
    <3>1. /\ before'[p] = [apps |-> apps, active |-> active]
          /\ view'[p] = [apps |-> apps, active |-> active]
          /\ UNCHANGED <<apps, active>>
      BY <1>2 DEF SyncBegin, TypeOK
    <3>2. Consistent([apps |-> apps, active |-> active])
      BY DEF ConstraintsNeverFire, Consistent
    <3> QED
      BY <3>1, <3>2 DEF Sound, SameEvidence, SameKeys, Extends, Pending
  <2> QED
    BY <1>0, <1>2, <2>1, <2>2 DEF SyncBegin
<1>3. ASSUME NEW p \in Syncers, NEW m \in Messages, Ingest(p, m)
      PROVE  ConstraintsNeverFire' /\ \A q \in Syncers : Sound(q)'
  <2>1. ASSUME NEW q \in Syncers, q # p PROVE Sound(q)'
    BY <1>3, <2>1, FrameSound DEF Ingest, TypeOK
  <2>2. Sound(p)'
    BY <1>3, IngestSound DEF IInv, Sound, Ingest
  <2> QED
    BY <1>0, <1>3, <2>1, <2>2 DEF Ingest
<1>4. ASSUME NEW p \in Syncers, SyncPasses(p)
      PROVE  ConstraintsNeverFire' /\ \A q \in Syncers : Sound(q)'
  BY <1>4, CommitConsistent, CommitSound
<1>5. ASSUME NEW p \in Syncers, SyncFails(p) \/ SyncKilled(p)
      PROVE  ConstraintsNeverFire' /\ \A q \in Syncers : Sound(q)'
  <2>1. ASSUME NEW q \in Syncers PROVE Sound(q)'
    BY <1>5, <2>1, FrameSound DEF SyncFails, SyncKilled, Close, TypeOK
  <2> QED
    BY <1>0, <1>5, <2>1 DEF SyncFails, SyncKilled
<1>6. ASSUME NEW f \in Forms, Rename(f)
      PROVE  ConstraintsNeverFire' /\ \A q \in Syncers : Sound(q)'
  <2>1. ConstraintsNeverFire'
    BY <1>6, SameKeysAfter DEF Rename, ConstraintsNeverFire
  <2> QED
    BY <1>6, <2>1, SameKeysAfter, DisturbsSound DEF Rename
<1>7. ASSUME NEW f \in Forms, NEW o \in Operators, RecordInsert(o, f)
      PROVE  ConstraintsNeverFire' /\ \A q \in Syncers : Sound(q)'
  <2>1. CASE AppsOf(FormKey(f)) = {}
    <3>1. /\ apps' = apps \cup {FormApplication(f)} /\ submissions' = submissions \cup {request[o]}
          /\ active' = active /\ Disturbs({FormKey(f)}) /\ request[o].key = FormKey(f)
      BY <1>7, <2>1 DEF RecordInsert
    <3>2. FormApplication(f).key = FormKey(f) /\ FormKey(f) \notin KeysOf(apps)
      BY <2>1 DEF FormApplication, AppsOf, KeysOf
    <3>3. KeysOf(apps') = KeysOf(apps) \cup {FormKey(f)}
      BY <3>1, <3>2 DEF KeysOf
    <3>4. \A a, b \in apps' : a.key = b.key => a = b
      BY <3>1, <3>2 DEF ConstraintsNeverFire, KeysOf
    <3>5. \A s, t \in submissions' : s.key = t.key => s = t
      BY <3>1, <3>2 DEF ConstraintsNeverFire
    <3>6. ConstraintsNeverFire'
      BY <3>1, <3>3, <3>4, <3>5 DEF ConstraintsNeverFire
    <3> QED
      BY <3>1, <3>3, <3>6, DisturbsSound
  <2>2. CASE AppsOf(FormKey(f)) # {}
    BY <1>0, <1>7, <2>2, FrameSound DEF RecordInsert
  <2> QED BY <2>1, <2>2
<1>8. ASSUME NEW f \in Forms, NEW o \in Operators, RecordFinish(o, f)
      PROVE  ConstraintsNeverFire' /\ \A q \in Syncers : Sound(q)'
  <2>1. ASSUME NEW q \in Syncers PROVE Sound(q)'
    BY <1>8, FrameSound DEF RecordFinish
  <2>2. CASE submissions' = submissions
    BY <1>0, <1>8, <2>1, <2>2 DEF RecordFinish
  <2>3. CASE submissions' # submissions
    <3>1. /\ AppsOf(FormKey(f)) # {} /\ SubmissionsOf(FormKey(f)) = {}
          /\ submissions' = submissions \cup {request[o]} /\ request[o].key = FormKey(f)
          /\ UNCHANGED <<apps, active>>
      BY <1>8, <2>3 DEF RecordFinish
    <3>2. \A s, t \in submissions' : s.key = t.key => s = t
      BY <3>1 DEF ConstraintsNeverFire, SubmissionsOf
    <3>3. FormKey(f) \in KeysOf(apps)
      BY <3>1 DEF AppsOf, KeysOf
    <3> QED
      BY <2>1, <3>1, <3>2, <3>3 DEF ConstraintsNeverFire
  <2> QED BY <2>2, <2>3
<1>9. ASSUME NEW o \in Operators,
             \/ \E f \in Forms, v \in Variants : AskRecord(o, f, v)
             \/ \E k \in Keys, v \in Variants \cup {0} : AskRemove(o, k, v)
      PROVE  ConstraintsNeverFire' /\ \A q \in Syncers : Sound(q)'
  <2>1. UNCHANGED <<tables, syncVars>>
    BY <1>9 DEF AskRecord, AskRemove, Ask
  <2> QED
    BY <1>0, <2>1, FrameSound
<1>10. ASSUME NEW o \in Operators, Remove(o)
       PROVE  ConstraintsNeverFire' /\ \A q \in Syncers : Sound(q)'
  <2> DEFINE k == request[o].key
  <2>1. CASE apps' = apps
    <3>1. submissions' \subseteq submissions /\ active' = active
      BY <1>10 DEF Remove
    <3>2. UNCHANGED syncVars \/ Disturbs({k})
      BY <1>10 DEF Remove
    <3>3. ConstraintsNeverFire'
      BY <2>1, <3>1 DEF ConstraintsNeverFire
    <3> QED
      BY <2>1, <3>1, <3>2, <3>3, FrameSound, DisturbsSound
  <2>2. CASE apps' # apps
    <3>1. /\ Taken(o) # {} /\ ~ HasEvidence(k) /\ Disturbs({k})
          /\ apps' = apps \ AppsOf(k) /\ submissions' = submissions \ Taken(o) /\ active' = active
      BY <1>10, <2>2 DEF Remove
    <3>2. \A s \in submissions' : s.key # k
      BY <3>1 DEF Taken, SubmissionsOf, ConstraintsNeverFire
    <3>3. \A c \in active : c.app # k
      BY <3>1 DEF HasEvidence
    <3>4. KeysOf(apps') = KeysOf(apps) \ {k}
      BY <3>1 DEF KeysOf, AppsOf
    <3>5. ConstraintsNeverFire'
      BY <3>1, <3>2, <3>3, <3>4 DEF ConstraintsNeverFire
    <3> QED
      BY <3>1, <3>4, <3>5, DisturbsSound
  <2> QED BY <2>1, <2>2
<1>11. ASSUME NEW a \in apps, NEW t \in Titles, Correct(a, t)
       PROVE  ConstraintsNeverFire' /\ \A q \in Syncers : Sound(q)'
  <2> DEFINE b == [a EXCEPT !.title = t, !.snapshot = t]
  <2>1. b.key = a.key
    BY DEF TypeOK, Application
  <2> HIDE DEF b
  <2>2. apps' = (apps \ {a}) \cup {b} /\ UNCHANGED <<submissions, active>> /\ Disturbs({a.key})
    BY <1>11 DEF Correct, b
  <2>3. KeysOf(apps') = KeysOf(apps) /\ (\A c, d \in apps' : c.key = d.key => c = d)
    BY <2>1, <2>2 DEF KeysOf, ConstraintsNeverFire
  <2>4. ConstraintsNeverFire'
    BY <2>2, <2>3 DEF ConstraintsNeverFire
  <2> QED
    BY <2>2, <2>3, <2>4, DisturbsSound
<1>12. CASE UNCHANGED vars \/ ScanBreaks
  BY <1>0, <1>12, FrameSound DEF ScanBreaks
<1> QED
  BY <1>1, <1>2, <1>3, <1>4, <1>5, <1>6, <1>7, <1>8, <1>9, <1>10, <1>11, <1>12
     DEF Next, SyncStep, SyncRefused

-----------------------------------------------------------------------------
(* What the ingest decides, and when                                         *)

\* What the two rules find that need neither a thread nor a domain
ByUrl(m, known) == {a \in known : Mail[m].url # None /\ a.url = Mail[m].url}
ByEmployer(m, known) ==
    {a \in known : /\ Mail[m].employer # None /\ a.employer = Mail[m].employer
                   /\ SameFamily(a.title, Mail[m].title)}

\* Rows without thread and domain keep everything else.
LEMMA BlindRows ==
    ASSUME NEW known \in SUBSET Application
    PROVE  \A b \in Blind(known) :
              /\ b.thread = None /\ b.domain = None
              /\ b.key \in Keys /\ \E a \in known : b.key = a.key
<1>1. \A a \in known :
         /\ [a EXCEPT !.thread = None, !.domain = None].thread = None
         /\ [a EXCEPT !.thread = None, !.domain = None].domain = None
         /\ [a EXCEPT !.thread = None, !.domain = None].key = a.key
         /\ a.key \in Keys
  BY DEF Application
<1> QED
  BY <1>1 DEF Blind

\* For them only those two rules count.
LEMMA BlindMatch ==
    ASSUME NEW m, NEW known \in SUBSET Application
    PROVE  Match(m, Blind(known))
             = Decide(ByUrl(m, Blind(known)), Decide(ByEmployer(m, Blind(known)), NoKey))
<1> DEFINE B == Blind(known)
           mail == Mail[m]
           Same(at) == {a \in B : mail[at] # None /\ a[at] = mail[at]}
<1>1. \A b \in B : b["thread"] = None /\ b["domain"] = None
  BY BlindRows
<1> HIDE DEF B
<1>2. Same("thread") = {} /\ {a \in Same("domain") : mail.title = None} = {}
  BY <1>1
<1>3. Same("url") = ByUrl(m, B)
  BY DEF ByUrl
<1>4. {a \in Same("employer") : SameFamily(a.title, mail.title)} = ByEmployer(m, B)
  BY DEF ByEmployer
<1>5. \A otherwise : Decide({}, otherwise) = otherwise
  BY DEF Decide
<1>6. Match(m, B) = Decide(Same("url"),
                    Decide(Same("thread"),
                    Decide({a \in Same("domain") : mail.title = None},
                    Decide({a \in Same("employer") : SameFamily(a.title, mail.title)}, NoKey))))
  BY DEF Match
<1> QED
  BY <1>2, <1>3, <1>4, <1>5, <1>6 DEF B

\* A rule that finds something never answers that there is nothing.
LEMMA DecideNothing ==
    ASSUME NEW found, \A b \in found : b.key \in Keys, NEW otherwise
    PROVE  Decide(found, otherwise) = NoKey <=> found = {} /\ otherwise = NoKey
<1>1. CASE found = {}
  BY <1>1 DEF Decide
<1>2. CASE found # {}
  <2>1. (CHOOSE a \in found : TRUE) \in found
    BY <1>2
  <2> QED
    BY <1>2, <2>1, KeysAreReal DEF Decide
<1> QED BY <1>1, <1>2

\* So nothing matches when neither rule finds anything.
LEMMA MatchesNothing ==
    ASSUME NEW m, NEW known \in SUBSET Application
    PROVE  Match(m, Blind(known)) = NoKey
             <=> ByUrl(m, Blind(known)) = {} /\ ByEmployer(m, Blind(known)) = {}
<1>1. /\ \A b \in ByUrl(m, Blind(known)) : b.key \in Keys
      /\ \A b \in ByEmployer(m, Blind(known)) : b.key \in Keys
  BY BlindRows DEF ByUrl, ByEmployer
<1>2. Decide(ByEmployer(m, Blind(known)), NoKey) = NoKey <=> ByEmployer(m, Blind(known)) = {}
  BY <1>1, DecideNothing
<1>3. Match(m, Blind(known))
        = Decide(ByUrl(m, Blind(known)), Decide(ByEmployer(m, Blind(known)), NoKey))
  BY BlindMatch
<1> HIDE DEF ByUrl, ByEmployer
<1>4. Decide(ByUrl(m, Blind(known)), Decide(ByEmployer(m, Blind(known)), NoKey)) = NoKey
        <=> /\ ByUrl(m, Blind(known)) = {}
            /\ Decide(ByEmployer(m, Blind(known)), NoKey) = NoKey
  BY <1>1, DecideNothing
<1> QED
  BY <1>2, <1>3, <1>4

\* A rule that finds at most one application, of a given key, answers with it.
LEMMA DecideOne ==
    ASSUME NEW b, NEW found \in SUBSET {b}, NEW otherwise
    PROVE  Decide(found, otherwise) \in {b.key, otherwise}
<1>1. CASE found = {}
  BY <1>1 DEF Decide
<1>2. CASE found = {b}
  <2>1. Cardinality({b}) = 1 /\ (CHOOSE a \in {b} : TRUE) = b
    BY FS_Singleton
  <2> QED
    BY <1>2, <2>1 DEF Decide
<1> QED BY <1>1, <1>2

\* Nothing that does not match matters to a match.
LEMMA MatchIgnores ==
    ASSUME NEW m, NEW known \in SUBSET Application, NEW other \in SUBSET Application,
           Match(m, Blind(other)) = NoKey
    PROVE  Match(m, Blind(known \cup other)) = Match(m, Blind(known))
<1>1. Blind(known \cup other) = Blind(known) \cup Blind(other)
  BY DEF Blind
<1>2. ByUrl(m, Blind(other)) = {} /\ ByEmployer(m, Blind(other)) = {}
  BY MatchesNothing
<1>3. /\ ByUrl(m, Blind(known \cup other)) = ByUrl(m, Blind(known))
      /\ ByEmployer(m, Blind(known \cup other)) = ByEmployer(m, Blind(known))
  <2>1. \A A, B : ByUrl(m, A \cup B) = ByUrl(m, A) \cup ByUrl(m, B)
    BY DEF ByUrl
  <2>2. \A A, B : ByEmployer(m, A \cup B) = ByEmployer(m, A) \cup ByEmployer(m, B)
    BY DEF ByEmployer
  <2> HIDE DEF ByUrl, ByEmployer
  <2>3. /\ ByUrl(m, Blind(known \cup other)) = ByUrl(m, Blind(known)) \cup ByUrl(m, Blind(other))
        /\ ByEmployer(m, Blind(known \cup other))
             = ByEmployer(m, Blind(known)) \cup ByEmployer(m, Blind(other))
    BY <1>1, <2>1, <2>2, Zenon
  <2> QED BY <1>2, <2>3
<1>4. known \cup other \in SUBSET Application
  OBVIOUS
<1> QED
  BY <1>3, <1>4, BlindMatch

\* What matches nothing in more applications matches nothing in fewer.
LEMMA MatchShrinks ==
    ASSUME NEW m, NEW more \in SUBSET Application, NEW fewer \in SUBSET more,
           Match(m, Blind(more)) = NoKey
    PROVE  Match(m, Blind(fewer)) = NoKey
<1>1. Blind(fewer) \subseteq Blind(more)
  BY DEF Blind
<1>2. ByUrl(m, Blind(more)) = {} /\ ByEmployer(m, Blind(more)) = {}
  BY MatchesNothing
<1>3. ByUrl(m, Blind(fewer)) = {} /\ ByEmployer(m, Blind(fewer)) = {}
  BY <1>1, <1>2 DEF ByUrl, ByEmployer
<1> QED
  BY <1>3, MatchesNothing

\* A row is interpreted as it would be by itself when nothing it matches was created
\* since but the application it would create.
LEMMA SameInterpretation ==
    ASSUME NEW m \in Messages, NEW old \in Tables, NEW db \in Tables,
           old.apps \subseteq db.apps, Consistent(db), Consistent(old),
           ActiveOf(m, db.active) = ActiveOf(m, old.active),
           Existing(m, old.active) = {} /\ class[m] \in Discovering
             => Match(m, Blind({a \in db.apps \ old.apps : a.key # NewCandidate(m, old).app}))
                  = NoKey
    PROVE  NewCandidate(m, db) = NewCandidate(m, old)
<1> DEFINE key == Resolve(m, Blind(old.apps), old.active)
           own == {a \in db.apps \ old.apps : a.key = NewCandidate(m, old).app}
           other == {a \in db.apps \ old.apps : a.key # NewCandidate(m, old).app}
<1>1. Existing(m, db.active) = Existing(m, old.active)
  BY DEF Existing
<1>2. SUFFICES Resolve(m, Blind(db.apps), db.active) = key
  BY DEF NewCandidate
<1>3. CASE Existing(m, old.active) # {} \/ class[m] \notin Discovering
  BY <1>1, <1>3 DEF Resolve
<1>4. CASE Existing(m, old.active) = {} /\ class[m] \in Discovering
  <2>1. /\ old.apps \in SUBSET Application /\ db.apps \in SUBSET Application
        /\ own \in SUBSET Application /\ other \in SUBSET Application
        /\ db.apps = (old.apps \cup own) \cup other
    BY DEF Tables
  <2>2. Match(m, Blind(db.apps)) = Match(m, Blind(old.apps \cup own))
    BY <1>4, <2>1, MatchIgnores
  <2>3. \A a \in own : a.key \in Keys /\ a.key \notin KeysOf(old.apps)
    BY <2>1 DEF Consistent, KeysOf, Application
  <2>4. NewCandidate(m, old).app = IF key = Ambiguous THEN NoKey ELSE key
    BY DEF NewCandidate
  <2>5. key = IF Match(m, Blind(old.apps)) = NoKey /\ class[m] = "acknowledgement"
              THEN MailKey(m) ELSE Match(m, Blind(old.apps))
    BY <1>4 DEF Resolve
  <2>6. Resolve(m, Blind(db.apps), db.active)
          = IF Match(m, Blind(db.apps)) = NoKey /\ class[m] = "acknowledgement"
            THEN MailKey(m) ELSE Match(m, Blind(db.apps))
    BY <1>1, <1>4 DEF Resolve
  <2>7. Match(m, Blind(old.apps)) \in KeysOf(old.apps) \cup {NoKey, Ambiguous}
    BY <2>1, MatchFinds, BlindKeys
  <2>8. CASE own = {}
    <3>1. old.apps \cup own = old.apps
      BY <2>8
    <3> HIDE DEF own, other
    <3>2. Match(m, Blind(db.apps)) = Match(m, Blind(old.apps))
      BY <2>2, <3>1, Zenon
    <3> QED
      BY <2>5, <2>6, <3>2
  <2>9. CASE own # {}
    <3>1. /\ Match(m, Blind(old.apps)) = NoKey /\ class[m] = "acknowledgement"
          /\ key = MailKey(m) /\ \A a \in own : a.key = MailKey(m)
      <4>1. PICK a \in own : TRUE
        BY <2>9
      <4>2. a.key = NewCandidate(m, old).app /\ a.key \in Keys /\ a.key \notin KeysOf(old.apps)
        BY <2>3, <4>1
      <4>3. key \notin KeysOf(old.apps) \cup {NoKey, Ambiguous}
        BY <2>4, <4>2, KeysAreReal
      <4>4. key = MailKey(m) /\ Match(m, Blind(old.apps)) = NoKey /\ class[m] = "acknowledgement"
        BY <2>5, <2>7, <4>3
      <4>5. NewCandidate(m, old).app = MailKey(m)
        BY <2>4, <4>3, <4>4
      <4> HIDE DEF key
      <4> QED
        BY <4>4, <4>5
    <3>2. PICK a \in own : own = {a}
      BY <2>9, <3>1 DEF Consistent
    <3> DEFINE b == [a EXCEPT !.thread = None, !.domain = None]
    <3>3. Blind(own) = {b} /\ b.key = MailKey(m)
      <4>1. Blind({a}) = {b}
        BY DEF Blind
      <4>2. a \in Application /\ a.key = MailKey(m)
        BY <2>1, <3>1
      <4>3. b.key = a.key
        BY <4>2 DEF Application
      <4> HIDE DEF own
      <4> QED
        BY <3>2, <4>1, <4>2, <4>3
    <3> HIDE DEF own, other, b, key
    <3>4. Match(m, Blind(old.apps \cup own)) = Match(m, Blind(own))
      <4>1. old.apps \cup own = own \cup old.apps
        OBVIOUS
      <4>2. Match(m, Blind(own \cup old.apps)) = Match(m, Blind(own))
        BY <2>1, <3>1, MatchIgnores
      <4> QED BY <4>1, <4>2
    <3>5. Match(m, Blind(own)) \in {MailKey(m), NoKey}
      <4>1. ByUrl(m, {b}) \in SUBSET {b} /\ ByEmployer(m, {b}) \in SUBSET {b}
        BY DEF ByUrl, ByEmployer
      <4>2. Decide(ByEmployer(m, {b}), NoKey) \in {b.key, NoKey}
        BY <4>1, DecideOne
      <4>3. Decide(ByUrl(m, {b}), Decide(ByEmployer(m, {b}), NoKey)) \in {b.key, NoKey}
        BY <4>1, <4>2, DecideOne
      <4>4. Match(m, Blind(own)) = Decide(ByUrl(m, Blind(own)), Decide(ByEmployer(m, Blind(own)), NoKey))
        BY <2>1, BlindMatch
      <4> QED
        BY <3>3, <4>3, <4>4
    <3> QED
      BY <2>2, <2>6, <3>1, <3>4, <3>5
  <2> QED BY <2>8, <2>9
<1> QED BY <1>3, <1>4

-----------------------------------------------------------------------------
(* Plan and ingest                                                           *)

\* Only what matched an application belongs to one.
StatusTold(cands) == \A c \in cands : c.app # NoKey => c.status = "exact"

Done(p) == rows[p] \ todo[p]

\* A sync changes what it read of the rows it ingested and of no other message, and
\* interprets a row as it would by itself until the batch creates what the row matches.
Interpreted(p) ==
    /\ todo[p] \subseteq rows[p]
    /\ StatusTold(before[p].active) /\ StatusTold(view[p].active)
    /\ \A m \in Messages \ Done(p) : ActiveOf(m, view[p].active) = ActiveOf(m, before[p].active)
    /\ \A m \in Done(p) : ~ FoundInBatch(p, m)
          => ActiveOf(m, view[p].active) = {NewCandidate(m, before[p])}

PlanInv ==
    /\ IInv
    /\ StatusTold(active) /\ \A p \in Syncers : sync[p] # "idle" => Interpreted(p)

\* A new interpretation with an application has matched it.
LEMMA NewStatus ==
    ASSUME NEW m, NEW db
    PROVE  NewCandidate(m, db).app # NoKey => NewCandidate(m, db).status = "exact"
<1> DEFINE key == Resolve(m, Blind(db.apps), db.active)
<1> HIDE DEF key
<1>1. NewCandidate(m, db) =
        [message |-> m, class |-> class[m],
         app    |-> IF key = Ambiguous THEN NoKey ELSE key,
         status |-> CASE key = Ambiguous -> "ambiguous"
                      [] key = NoKey     -> "unmatched"
                      [] OTHER           -> "exact"]
  BY DEF NewCandidate, key
<1> QED
  BY <1>1

\* The ingest of a row leaves all that.
LEMMA IngestInterprets ==
    ASSUME IInv, NEW p \in Syncers, NEW m \in Messages, Ingest(p, m),
           sync[p] # "idle", Interpreted(p)
    PROVE  Interpreted(p)'
<1> DEFINE old == before[p]
           db  == view[p]
           new == NewCandidate(m, db)
<1>1. /\ old \in Tables /\ db \in Tables /\ m \in todo[p] /\ todo[p] \subseteq rows[p]
      /\ before' = before /\ rows' = rows /\ class' = class /\ view'[p] = Ingested(m, db)
      /\ todo'[p] = todo[p] \ {m} /\ rows[p] \subseteq Messages
  BY DEF Ingest, IInv, TypeOK, Interpreted, inputs
<1>2. Consistent(old) /\ Consistent(db) /\ Extends(old, db)
  BY DEF IInv, Sound
<1>3. view'[p] \in Tables
  BY <1>1, IngestedTyped DEF IInv
<1>4. /\ new.message = m /\ (new.app # NoKey => new.status = "exact")
      /\ view'[p].active = (db.active \ ActiveOf(m, db.active)) \cup {new}
      /\ db.apps \subseteq view'[p].apps
  BY <1>1, NewCandidateApp, NewStatus DEF Ingested
<1>5. Done(p)' = Done(p) \cup {m} /\ m \notin Done(p)
  BY <1>1 DEF Done
<1>6. \A n : NewCandidate(n, before[p])' = NewCandidate(n, old)
  BY <1>1 DEF NewCandidate, Resolve
<1> HIDE DEF new
<1>7. /\ ActiveOf(m, view'[p].active) = {new}
      /\ \A n \in Messages \ {m} : ActiveOf(n, view'[p].active) = ActiveOf(n, db.active)
  BY <1>4 DEF ActiveOf
<1>8. ASSUME NEW n \in Messages, ~ FoundInBatch(p, n)' PROVE ~ FoundInBatch(p, n)
  <2> DEFINE more == {a \in view'[p].apps \ old.apps : a.key # NewCandidate(n, old).app}
             fewer == {a \in db.apps \ old.apps : a.key # NewCandidate(n, old).app}
  <2>1. more \in SUBSET Application /\ fewer \in SUBSET more
    BY <1>3, <1>4 DEF Tables
  <2>2. FoundInBatch(p, n)' <=> /\ Existing(n, old.active) = {} /\ class[n] \in Discovering
                                /\ Match(n, Blind(more)) # NoKey
    BY <1>1, <1>6 DEF FoundInBatch, Created
  <2>3. FoundInBatch(p, n) <=> /\ Existing(n, old.active) = {} /\ class[n] \in Discovering
                               /\ Match(n, Blind(fewer)) # NoKey
    BY DEF FoundInBatch, Created
  <2> HIDE DEF more, fewer
  <2> QED
    BY <1>8, <2>1, <2>2, <2>3, MatchShrinks
<1>9. ASSUME ~ FoundInBatch(p, m)' PROVE new = NewCandidate(m, old)
  <2>1. ActiveOf(m, db.active) = ActiveOf(m, old.active)
    BY <1>1, <1>5 DEF Interpreted
  <2>2. Existing(m, old.active) = {} /\ class[m] \in Discovering
          => Match(m, Blind({a \in db.apps \ old.apps : a.key # NewCandidate(m, old).app})) = NoKey
    BY <1>8, <1>9 DEF FoundInBatch, Created
  <2>3. old.apps \subseteq db.apps
    BY <1>2 DEF Extends
  <2> QED
    BY <1>1, <1>2, <2>1, <2>2, <2>3, SameInterpretation DEF new
<1>10. StatusTold(before'[p].active) /\ StatusTold(view'[p].active)
  BY <1>1, <1>4 DEF Interpreted, StatusTold
<1>11. ASSUME NEW n \in Messages \ Done(p)'
       PROVE  ActiveOf(n, view'[p].active) = ActiveOf(n, old.active)
  BY <1>5, <1>7 DEF Interpreted
<1>12. ASSUME NEW n \in Done(p)', ~ FoundInBatch(p, n)'
       PROVE  ActiveOf(n, view'[p].active) = {NewCandidate(n, old)}
  <2>1. CASE n = m
    BY <1>7, <1>9, <1>12, <2>1
  <2>2. CASE n # m
    <3>1. n \in Done(p) /\ n \in Messages
      BY <1>1, <1>5, <2>2 DEF Done
    <3> QED
      BY <1>7, <1>8, <1>12, <2>2, <3>1 DEF Interpreted
  <2> QED BY <2>1, <2>2
<1> QED
  BY <1>1, <1>6, <1>10, <1>11, <1>12 DEF Interpreted

\* A step that is none of a sync's leaves it as it was.
LEMMA FrameInterpreted ==
    ASSUME NEW p \in Syncers, sync[p] # "idle" => Interpreted(p), sync'[p] # "idle",
           sync'[p] # "idle" => sync[p] # "idle",
           class' = class, rows'[p] = rows[p], todo'[p] = todo[p],
           before'[p] = before[p], view'[p] = view[p]
    PROVE  Interpreted(p)'
<1>1. \A m : NewCandidate(m, before[p])' = NewCandidate(m, before[p])
  BY DEF NewCandidate, Resolve
<1>2. \A m : FoundInBatch(p, m)' <=> FoundInBatch(p, m)
  BY <1>1 DEF FoundInBatch, Created
<1> QED
  BY <1>1, <1>2 DEF Interpreted, Done

\* Every step keeps the second invariant.
LEMMA NextPlanInv == PlanInv /\ [Next]_vars => PlanInv'
<1> SUFFICES ASSUME PlanInv, [Next]_vars
             PROVE  StatusTold(active') /\ \A p \in Syncers : sync'[p] # "idle" => Interpreted(p)'
  BY NextIInv DEF PlanInv
<1> USE DEF vars, inputs, tables, syncVars, opVars
<1> IInv /\ TypeOK /\ StatusTold(active)
  BY DEF PlanInv, IInv
<1> \A p \in Syncers : sync[p] # "idle" => Interpreted(p)
  BY DEF PlanInv
<1>1. ASSUME NEW m \in Messages, Reclassify(m)
      PROVE  active' = active /\ \A p \in Syncers : sync'[p] = "idle"
  BY <1>1 DEF Reclassify, Disturbs, TypeOK
<1>2. ASSUME NEW p \in Syncers, NEW R \in SUBSET arrived, SyncBegin(p, R)
      PROVE  active' = active /\ \A q \in Syncers : sync'[q] # "idle" => Interpreted(q)'
  <2>1. ASSUME NEW q \in Syncers, q # p, sync'[q] # "idle" PROVE Interpreted(q)'
    BY <1>2, <2>1, FrameInterpreted DEF SyncBegin, TypeOK
  <2>2. Interpreted(p)'
    BY <1>2 DEF SyncBegin, TypeOK, Interpreted, Done
  <2> QED
    BY <1>2, <2>1, <2>2 DEF SyncBegin
<1>3. ASSUME NEW p \in Syncers, NEW m \in Messages, Ingest(p, m)
      PROVE  active' = active /\ \A q \in Syncers : sync'[q] # "idle" => Interpreted(q)'
  <2>1. ASSUME NEW q \in Syncers, q # p, sync'[q] # "idle" PROVE Interpreted(q)'
    BY <1>3, <2>1, FrameInterpreted DEF Ingest, TypeOK
  <2>2. sync'[p] # "idle" => Interpreted(p)'
    BY <1>3, IngestInterprets DEF Ingest
  <2> QED
    BY <1>3, <2>1, <2>2 DEF Ingest
<1>4. ASSUME NEW p \in Syncers, SyncPasses(p) \/ SyncFails(p) \/ SyncKilled(p)
      PROVE  StatusTold(active') /\ \A q \in Syncers : sync'[q] # "idle" => Interpreted(q)'
  <2>1. ASSUME NEW q \in Syncers, sync'[q] # "idle" PROVE Interpreted(q)'
    <3>1. q # p /\ sync[q] # "idle"
      BY <1>4, <2>1 DEF SyncPasses, SyncFails, SyncKilled, TypeOK
    <3> QED
      BY <1>4, <2>1, <3>1, FrameInterpreted DEF SyncPasses, SyncFails, SyncKilled, Close, TypeOK
  <2>2. StatusTold(active')
    <3>1. CASE active' = active
      BY <3>1
    <3>2. CASE SyncPasses(p)
      <4>1. StatusTold(view[p].active)
        BY <3>2 DEF SyncPasses, Interpreted
      <4> QED
        BY <3>2, <4>1 DEF SyncPasses, Written, StatusTold
    <3> QED BY <1>4, <3>1, <3>2 DEF SyncFails, SyncKilled
  <2> QED BY <2>1, <2>2
<1>5. CASE /\ active' = active /\ class' = class /\ UNCHANGED <<rows, todo, before, view>>
           /\ \A p \in Syncers : sync'[p] # "idle" => sync[p] # "idle"
  BY <1>5, FrameInterpreted
<1>6. \/ UNCHANGED <<active, class, sync, rows, todo, before, view>>
      \/ UNCHANGED <<active, class>> /\ \E changed : Disturbs(changed)
      \/ \E m \in Messages : Reclassify(m)
      \/ \E p \in Syncers : \E R \in SUBSET arrived : SyncBegin(p, R)
      \/ \E p \in Syncers : \E m \in Messages : Ingest(p, m)
      \/ \E p \in Syncers : SyncPasses(p) \/ SyncFails(p) \/ SyncKilled(p)
  <2>1. ASSUME NEW m \in Messages, Arrive(m)
        PROVE  UNCHANGED <<active, class>> /\ \E changed : Disturbs(changed)
    BY <2>1 DEF Arrive
  <2>2. ASSUME NEW f \in Forms, Rename(f)
        PROVE  UNCHANGED <<active, class>> /\ \E changed : Disturbs(changed)
    BY <2>2 DEF Rename
  <2>3. ASSUME NEW f \in Forms, NEW o \in Operators, RecordInsert(o, f)
        PROVE  /\ UNCHANGED <<active, class>>
               /\ UNCHANGED <<sync, rows, todo, before, view>> \/ \E changed : Disturbs(changed)
    BY <2>3 DEF RecordInsert
  <2>4. ASSUME NEW f \in Forms, NEW o \in Operators, RecordFinish(o, f)
        PROVE  UNCHANGED <<active, class, sync, rows, todo, before, view>>
    BY <2>4 DEF RecordFinish
  <2>5. ASSUME NEW o \in Operators, NEW label, NEW asked, Ask(o, label, asked)
        PROVE  UNCHANGED <<active, class, sync, rows, todo, before, view>>
    BY <2>5 DEF Ask
  <2>6. ASSUME NEW o \in Operators, Remove(o)
        PROVE  /\ UNCHANGED <<active, class>>
               /\ UNCHANGED <<sync, rows, todo, before, view>> \/ \E changed : Disturbs(changed)
    BY <2>6 DEF Remove
  <2>7. ASSUME NEW a \in apps, NEW t \in Titles, Correct(a, t)
        PROVE  UNCHANGED <<active, class>> /\ \E changed : Disturbs(changed)
    BY <2>7 DEF Correct
  <2>8. CASE UNCHANGED vars \/ ScanBreaks
    BY <2>8 DEF ScanBreaks
  <2> QED
    BY <2>1, <2>2, <2>3, <2>4, <2>5, <2>6, <2>7, <2>8
       DEF Next, SyncStep, SyncRefused, AskRecord, AskRemove
<1>7. ASSUME NEW changed, Disturbs(changed)
      PROVE  /\ UNCHANGED <<rows, todo, before, view>>
             /\ \A p \in Syncers : sync'[p] # "idle" => sync[p] # "idle"
  BY <1>7 DEF Disturbs
<1> QED
  BY <1>1, <1>2, <1>3, <1>4, <1>5, <1>6, <1>7

\* When none of the three cases occurs, each row did what was planned, and the batch
\* created the applications that were planned.
LEMMA CountsAgree ==
    ASSUME PlanInv, NEW p \in Syncers, sync[p] # "idle", todo[p] = {},
           \A m \in rows[p] : /\ ~ OnlyPlanned(m, before[p]) /\ ~ FoundInBatch(p, m)
                              /\ ~ StatusChanged(p, m)
    PROVE  Agrees(p)
<1> DEFINE old == before[p]
           db  == view[p]
           Own(m) == NewCandidate(m, old)
<1>1. /\ old \in Tables /\ db \in Tables /\ rows[p] \subseteq Messages /\ IsFiniteSet(rows[p])
      /\ Consistent(old) /\ Consistent(db) /\ Extends(old, db)
      /\ StatusTold(old.active)
  <2>1. rows[p] \subseteq Messages
    BY DEF PlanInv, IInv, TypeOK
  <2>2. IsFiniteSet(rows[p])
    BY <2>1, FS_Subset, TrackingAssumption
  <2> QED
    BY <2>1, <2>2 DEF PlanInv, IInv, TypeOK, Sound, Interpreted
<1>2. /\ \A m \in rows[p] : ActiveOf(m, db.active) = {Own(m)}
      /\ \A m \in Messages \ rows[p] : ActiveOf(m, db.active) = ActiveOf(m, old.active)
  BY DEF PlanInv, Interpreted, Done
<1>3. \A m \in rows[p] : Planned(m, old).app = Own(m).app /\ Planned(m, old).class = Own(m).class
  BY DEF OnlyPlanned, Planned, NewCandidate
<1>4. \A m \in rows[p] : Own(m) \in db.active /\ Own(m) \in Candidate /\ Own(m).message = m
  BY <1>1, <1>2 DEF ActiveOf, Tables
<1>5. \A m \in rows[p] : Own(m).app # NoKey => Own(m).status = "exact"
  BY NewStatus
<1>6. \A a \in Created(p) : a.key \notin KeysOf(old.apps)
  BY <1>1 DEF Created, Extends, Consistent, KeysOf
<1>7. KeysOf(Created(p)) = PlanInserts(rows[p], old)
  <2>1. ASSUME NEW a \in Created(p) PROVE a.key \in PlanInserts(rows[p], old)
    <3>1. PICK c \in db.active \ old.active : c.app = a.key
      BY <1>1 DEF Created, Extends
    <3>2. c.message \in rows[p]
      <4>1. c.message \in Messages
        BY <1>1, <3>1 DEF Tables, Candidate
      <4> QED
        BY <1>2, <3>1, <4>1 DEF ActiveOf
    <3>3. c = Own(c.message)
      BY <1>2, <3>1, <3>2 DEF ActiveOf
    <3>4. a.key \in Keys
      BY <1>1 DEF Created, Tables, Application
    <3>5. Planned(c.message, old).app = a.key
      BY <1>3, <3>1, <3>2, <3>3
    <3> QED
      BY <1>6, <3>2, <3>4, <3>5, KeysAreReal DEF PlanInserts
  <2>2. ASSUME NEW k \in PlanInserts(rows[p], old) PROVE k \in KeysOf(Created(p))
    <3>1. PICK m \in rows[p] : k = Planned(m, old).app
      BY DEF PlanInserts
    <3>2. k \notin {NoKey} \cup KeysOf(old.apps)
      BY DEF PlanInserts
    <3>3. k \in KeysOf(db.apps)
      BY <1>1, <1>3, <1>4, <3>1, <3>2 DEF Consistent
    <3> QED
      BY <3>2, <3>3 DEF KeysOf, Created
  <2> QED
    BY <2>1, <2>2 DEF KeysOf
<1>8. Cardinality(Created(p)) = Cardinality(PlanInserts(rows[p], old))
  <2> DEFINE K == PlanInserts(rows[p], old)
             M == {m \in rows[p] : Planned(m, old).app \notin {NoKey} \cup KeysOf(old.apps)}
             toKey == [m \in M |-> Planned(m, old).app]
             toApp == [k \in K |-> CHOOSE a \in Created(p) : a.key = k]
  <2>1. IsFiniteSet(K)
    <3>1. IsFiniteSet(M)
      BY <1>1, FS_Subset
    <3>2. toKey \in Surjection(M, K)
      BY DEF PlanInserts, Surjection
    <3> HIDE DEF M, K, toKey
    <3> QED
      BY <3>1, <3>2, FS_Surjection
  <2>2. \A k \in K : toApp[k] \in Created(p) /\ toApp[k].key = k
    BY <1>7 DEF KeysOf
  <2>3. \A a, b \in Created(p) : a.key = b.key => a = b
    BY <1>1 DEF Created, Consistent
  <2>4. \A a \in Created(p) : a.key \in K
    BY <1>7 DEF KeysOf
  <2>5. toApp \in [K -> Created(p)]
    BY <2>2
  <2> HIDE DEF K, toApp
  <2>6. \A a \in Created(p) : toApp[a.key] = a
    BY <2>2, <2>3, <2>4
  <2>7. toApp \in Bijection(K, Created(p))
    BY <2>2, <2>4, <2>5, <2>6 DEF Bijection, Injection, Surjection, IsInjective
  <2> QED
    BY <2>1, <2>7, FS_Bijection DEF ExistsBijection, K
<1>9. ASSUME NEW m \in rows[p] PROVE PlanStep(m, old) = Did(p, m)
  <2>1. CASE ActiveOf(m, old.active) = {}
    BY <2>1 DEF PlanStep, Did
  <2>2. CASE ActiveOf(m, old.active) # {}
    <3>1. PICK c \in ActiveOf(m, old.active) : TRUE
      BY <2>2
    <3>2. c \in old.active /\ c \in Candidate /\ c.message = m /\ ActiveOf(m, old.active) = {c}
      BY <1>1, <3>1 DEF ActiveOf, Consistent, Tables
    <3>3. ActiveOf(m, Written(p)) = {} <=> Own(m) = c
      BY <1>1, <1>2, <1>4, <3>2 DEF ActiveOf, Written
    <3>4. Own(m).app = c.app /\ Own(m).class = c.class => Own(m).status = c.status
      <4>1. CASE c.app # NoKey
        BY <1>1, <1>5, <3>2, <4>1 DEF StatusTold
      <4>2. CASE c.app = NoKey
        BY <3>1, <4>2 DEF StatusChanged
      <4> QED BY <4>1, <4>2
    <3>5. Own(m) = c <=> Own(m).app = c.app /\ Own(m).class = c.class
      <4> HIDE DEF Own
      <4> QED
        BY <1>4, <3>2, <3>4 DEF Candidate
    <3>6. Planned(m, old).class = class[m]
      BY DEF Planned
    <3> HIDE DEF Own
    <3> QED
      BY <1>3, <2>2, <3>2, <3>3, <3>5, <3>6 DEF PlanStep, Did
  <2> QED BY <2>1, <2>2
<1>10. \A step : {m \in rows[p] : PlanStep(m, old) = step} = {m \in rows[p] : Did(p, m) = step}
  BY <1>9
<1> QED
  BY <1>8, <1>10, Zenon DEF Agrees

-----------------------------------------------------------------------------
(* The theorems                                                              *)

THEOREM TrackingInvariant == Spec => []IInv
<1>1. IInv /\ [Next]_vars => IInv'
  BY NextIInv
<1> QED
  BY InitIInv, <1>1, PTL DEF Spec

\* Every row and every transaction of applications and evidence is always of the
\* form the code expects.
THEOREM TrackingTyped == Spec => []TypeOK
<1>1. IInv => TypeOK
  BY DEF IInv
<1> QED
  BY <1>1, TrackingInvariant, PTL

\* The locks and the checks of operators and syncs suffice: no unique index and no
\* foreign key of the tables ever has to refuse a write.
THEOREM ConstraintsKept == Spec => []ConstraintsNeverFire
<1>1. IInv => ConstraintsNeverFire
  BY DEF IInv
<1> QED
  BY <1>1, TrackingInvariant, PTL

\* Plan and ingest are written twice and read their tables at different moments, yet
\* their counts differ only where one of the three named cases occurs.
THEOREM PlanKept == Spec => []PlanIsKept
<1>1. Init => PlanInv
  BY InitIInv DEF PlanInv, Init, StatusTold
<1>2. PlanInv /\ [Next]_vars => PlanInv'
  BY NextPlanInv
<1>3. PlanInv => PlanIsKept
  BY CountsAgree DEF PlanIsKept
<1> QED
  BY <1>1, <1>2, <1>3, PTL DEF Spec

\* Whatever runs at the same time, matched evidence keeps its application.
THEOREM EvidenceStays == Spec => NeverRematched
<1> DEFINE Step == \A c \in active : c.app # NoKey
                      => \E d \in active' : d.message = c.message /\ d.app = c.app
<1>1. ASSUME IInv, [Next]_vars PROVE [Step]_vars
  <2>1. CASE active' = active
    BY <2>1
  <2>2. ASSUME NEW p \in Syncers, SyncPasses(p) PROVE Step
    <3> SUFFICES ASSUME NEW c \in active, c.app # NoKey
                 PROVE  \E d \in active' : d.message = c.message /\ d.app = c.app
      OBVIOUS
    <3>1. active' = {d \in active : ActiveOf(d.message, Written(p)) = {}} \cup Written(p)
      BY <2>2 DEF SyncPasses
    <3>2. CASE ActiveOf(c.message, Written(p)) = {}
      BY <3>1, <3>2
    <3>3. CASE ActiveOf(c.message, Written(p)) # {}
      <4>1. PICK d \in Written(p) : d.message = c.message
        BY <3>3 DEF ActiveOf
      <4>2. d.app = c.app
        BY <1>1, <2>2, <4>1, CommitFinds
      <4> QED
        BY <3>1, <4>1, <4>2
    <3> QED BY <3>2, <3>3
  <2>3. active' = active \/ \E p \in Syncers : SyncPasses(p)
    BY <1>1 DEF Next, SyncStep, vars, tables, Arrive, Reclassify, ScanBreaks, SyncBegin, SyncRefused,
       Ingest, SyncFails, SyncKilled, Rename, RecordInsert, RecordFinish, AskRecord, AskRemove, Ask, Remove, Correct
  <2> QED BY <2>1, <2>2, <2>3
<1> QED
  BY <1>1, TrackingInvariant, PTL DEF Spec, NeverRematched

\* An operator told that a submission is recorded finds exactly it, and a removal
\* takes away only the one it had seen.
THEOREM OperatorsHearTheTruth == Spec => AnswersAreTrue
<1> DEFINE Step == \A o \in Operators :
          /\ opc'[o] = "told" /\ opc[o] # "told" => request[o] \in submissions'
          /\ opc[o] = "remove" /\ opc'[o] = "idle" => submissions \ submissions' \subseteq {request[o]}
<1>1. ASSUME IInv, [Next]_vars PROVE [Step]_vars
  <2> TypeOK
    BY <1>1 DEF IInv
  <2>1. CASE opc' = opc
    BY <2>1
  <2>2. ASSUME NEW q \in Operators, NEW f \in Forms, RecordInsert(q, f) \/ RecordFinish(q, f)
        PROVE  Step
    <3>1. opc' = [opc EXCEPT ![q] = opc'[q]] /\ opc[q] # "remove" /\ submissions \subseteq submissions'
      BY <2>2 DEF RecordInsert, RecordFinish, Confirm, Answer, TypeOK
    <3>2. opc'[q] = "told" => request[q] \in submissions'
      BY <2>2 DEF RecordInsert, RecordFinish, Confirm, Answer, TypeOK
    <3> QED
      BY <3>1, <3>2 DEF TypeOK
  <2>3. ASSUME NEW q \in Operators, Remove(q) PROVE Step
    <3>1. opc' = [opc EXCEPT ![q] = "idle"] /\ submissions \ submissions' \subseteq {request[q]}
      BY <2>3 DEF Remove, Taken
    <3> QED
      BY <3>1 DEF TypeOK
  <2>4. ASSUME NEW q \in Operators, NEW label \in {"insert", "remove"}, NEW asked, Ask(q, label, asked)
        PROVE  Step
    BY <2>4 DEF Ask, TypeOK, tables
  <2>5. \/ opc' = opc
        \/ \E q \in Operators, f \in Forms : RecordInsert(q, f) \/ RecordFinish(q, f)
        \/ \E q \in Operators : Remove(q)
        \/ \E q \in Operators, f \in Forms, v \in Variants : AskRecord(q, f, v)
        \/ \E q \in Operators, k \in Keys, v \in Variants \cup {0} : AskRemove(q, k, v)
    BY <1>1 DEF Next, SyncStep, vars, opVars, Arrive, Reclassify, ScanBreaks, SyncBegin, SyncRefused,
       Ingest, SyncPasses, SyncFails, SyncKilled, Rename, Correct
  <2> QED
    BY <2>1, <2>2, <2>3, <2>4, <2>5 DEF AskRecord, AskRemove
<1> QED
  BY <1>1, TrackingInvariant, PTL DEF Spec, AnswersAreTrue
================================================================================
