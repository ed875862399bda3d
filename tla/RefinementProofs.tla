-------------------------- MODULE RefinementProofs --------------------------
(***************************************************************************)
(* ProductUpdate implements AtomicUpdate, proved for every set of hosts     *)
(* and helpers, every number of releases and every choice of faults: under  *)
(* the mapping of ProductUpdateRefinement, initial states map to initial    *)
(* states and every step to a step of AtomicUpdate or to none.              *)
(***************************************************************************)
EXTENDS RecoverabilityProofs, ProductUpdateRefinement

-----------------------------------------------------------------------------
(* What the locals of a helper say of its trees                              *)

\* A helper that has not read current.json yet.
BeforeRead == {"off", "minted", "token", "lock", "read", "snapshot"}

\* Helper a knows what it did: which trees it has moved out and put in place so far,
\* that a rollback root keeps what was moved there until it is dealt with, and what
\* it means that the rollback had no error, or had one.
Kept(a) ==
    /\ \A p \in Trees :
          /\ applPc[a] \in BeforeOut(p) => p \notin job[a].moved
          /\ applPc[a] \in BeforeOut(p) \cup {InAt[p]} => p \notin job[a].placed
          /\ AtRisk(a, p) => backup[a][p] # None
          /\ applPc[a] \in AfterUndo(p) /\ ~job[a].torn =>
                /\ p \in job[a].moved => backup[a][p] = None
                /\ p \in job[a].placed => p \in job[a].moved
    /\ job[a].torn => CanFail \/ ~ (job[a].placed \subseteq job[a].moved)
    /\ applPc[a] \in CutoverPc \cup ProvePc => job[a].previous # None
    /\ applPc[a] \in BeforeRead => job[a].previous = None
    /\ job[a].previous = None => job[a].moved = {} /\ job[a].placed = {}
    /\ applPc[a] \in TornPc /\ ~CanFail => ~MayRestoreMetadata(a)
    /\ opMutex = a => applPc[a] \notin EndPc \cup {"minted", "token", "lock"}

VInv == RInv /\ \A a \in Appliers : Kept(a)

\* A helper that stays where it is and knows what it knew, or that ends, or that is
\* only now started, has nothing to add.
LEMMA KeptBy ==
    ASSUME NEW b \in Appliers, Kept(b),
           \/ /\ job'[b].previous = job[b].previous /\ job'[b].moved = job[b].moved
              /\ job'[b].placed = job[b].placed /\ job'[b].torn = job[b].torn
              /\ backup'[b] = backup[b]
              /\ live' = live \/ job[b].previous = None
              /\ opMutex' = b => opMutex = b
              /\ \/ applPc'[b] = applPc[b]
                 \/ applPc[b] = "off" /\ applPc'[b] = "minted"
                 \/ applPc[b] = "minted" /\ applPc'[b] = "token"
           \/ applPc'[b] \in EndPc \ {"off"} /\ job'[b] = NoJob /\ opMutex' # b
    PROVE  Kept(b)'
<1> USE DEF Kept, CanFail, MayRestoreMetadata
<1>1. CASE applPc'[b] \in EndPc \ {"off"} /\ job'[b] = NoJob /\ opMutex' # b
  BY <1>1 DEF NoJob, EndPc, BeforeRead, BeforeOut, AfterUndo, AtRisk, InAt, Trees, CutoverPc, ProvePc,
     TornPc, RestoredPc
<1>2. CASE /\ job'[b].previous = job[b].previous /\ job'[b].moved = job[b].moved
           /\ job'[b].placed = job[b].placed /\ job'[b].torn = job[b].torn
           /\ backup'[b] = backup[b]
           /\ live' = live \/ job[b].previous = None
           /\ opMutex' = b => opMutex = b
           /\ \/ applPc'[b] = applPc[b]
              \/ applPc[b] = "off" /\ applPc'[b] = "minted"
              \/ applPc[b] = "minted" /\ applPc'[b] = "token"
  <2>1. ASSUME NEW p \in Trees
        PROVE  /\ applPc'[b] \in BeforeOut(p) => p \notin job'[b].moved
               /\ applPc'[b] \in BeforeOut(p) \cup {InAt[p]} => p \notin job'[b].placed
               /\ AtRisk(b, p)' => backup'[b][p] # None
               /\ applPc'[b] \in AfterUndo(p) /\ ~job'[b].torn =>
                     /\ p \in job'[b].moved => backup'[b][p] = None
                     /\ p \in job'[b].placed => p \in job'[b].moved
    <3>1. CASE applPc'[b] = applPc[b]
      BY <1>2, <3>1 DEF AtRisk
    <3>2. CASE applPc'[b] # applPc[b]
      BY <1>2, <3>2 DEF AtRisk, BeforeOut, AfterUndo, InAt, Trees, RestoredPc, TornPc
    <3> QED
      BY <3>1, <3>2
  <2>2. applPc'[b] \in CutoverPc \cup ProvePc => job'[b].previous # None
    BY <1>2 DEF CutoverPc, ProvePc
  <2>3. applPc'[b] \in TornPc /\ ~CanFail => ~MayRestoreMetadata(b)'
    BY <1>2 DEF TornPc, LiveIs
  <2>5. opMutex' = b => applPc'[b] \notin EndPc \cup {"minted", "token", "lock"}
    BY <1>2 DEF EndPc
  <2>6. applPc'[b] \in BeforeRead => job'[b].previous = None
    BY <1>2 DEF BeforeRead
  <2> HIDE DEF MayRestoreMetadata, CanFail
  <2>4. CanFail' = CanFail
    BY DEF CanFail
  <2> QED
    BY <1>2, <2>1, <2>2, <2>3, <2>4, <2>5, <2>6
<1> QED
  BY <1>1, <1>2

\* The end of hosts and helpers leaves a surviving helper what it did to the trees.
LEMMA JobsWithoutRest ==
    ASSUME job \in [Appliers -> Jobs], NEW S, NEW F
    PROVE  \A a \in Appliers \ F : /\ JobsWithout(S, F)[a].placed = job[a].placed
                                   /\ JobsWithout(S, F)[a].torn = job[a].torn
  BY DEF JobsWithout, Jobs

-----------------------------------------------------------------------------
(* What a step shows                                                         *)

Shows == Atomic!Next \/ UNCHANGED Atomic!vars

\* The installation is seen in another way only when its holder, or what the holder
\* has decided, changes.
LEMMA SameView ==
    ASSUME Busy' = Busy,
           \A a \in Appliers :
              /\ applPc'[a] \in EndPc \cup {"minted"} <=> applPc[a] \in EndPc \cup {"minted"}
              /\ Busy = a => /\ applPc'[a] \in SuccessPc \ {"report_success"}
                                   <=> applPc[a] \in SuccessPc \ {"report_success"}
                             /\ applPc'[a] \in RestoredPc <=> applPc[a] \in RestoredPc
              /\ Busy = a /\ ~Decided => Found(a)' = Found(a),
           Busy = Nobody \/ Decided => OnDisk' = OnDisk
    PROVE  Installed' = Installed /\ Asked' = Asked /\ Decided' = Decided
<1>1. Busy \in Appliers \cup {Nobody} /\ \A a \in Appliers : opMutex = a <=> Busy = a
  BY HolderAssumption DEF Busy
<1>2. \A a \in Appliers : opMutex' = a <=> Busy' = a
  BY HolderAssumption DEF Busy
<1>3. Decided' = Decided
  BY <1>1 DEF Decided
<1>4. Asked' = Asked
  BY <1>1, <1>2 DEF Asked
<1>5. Installed' = Installed
  BY <1>1, <1>3 DEF Installed
<1> QED
  BY <1>3, <1>4, <1>5

\* A helper of which a step changes nothing that counts.
Steady(b) ==
    /\ applPc'[b] = applPc[b]
    /\ job'[b].previous = job[b].previous /\ job'[b].moved = job[b].moved
    /\ job'[b].placed = job[b].placed /\ job'[b].torn = job[b].torn

\* A helper that a host has minted a token for, or gives up before it started it.
Minted(b) ==
    \/ /\ applPc[b] = "off" /\ applPc'[b] = "minted"
       /\ job'[b].previous = job[b].previous /\ job'[b].moved = job[b].moved
       /\ job'[b].placed = job[b].placed /\ job'[b].torn = job[b].torn
    \/ applPc[b] = "minted" /\ applPc'[b] = "dead" /\ job'[b] = NoJob

\* Steps outside the helpers leave the installation alone.
LEMMA OutsideKeeps ==
    ASSUME VInv, UNCHANGED <<live, backup, current>>,
           opMutex' = opMutex \/ (opMutex \notin Appliers /\ opMutex' \notin Appliers),
           result' = result \/ result'.status = "none",
           \A b \in Appliers : Steady(b) \/ Minted(b)
    PROVE  Shows /\ \A b \in Appliers : Kept(b)'
<1>1. ASSUME NEW b \in Appliers
      PROVE  Kept(b)'
  <2>1. Kept(b)
    BY DEF VInv
  <2> QED
    BY <2>1, KeptBy DEF Steady, Minted, Kept, EndPc
<1>2. Busy' = Busy
  BY DEF Busy
<1>3. \A b \in Appliers : Busy = b => Steady(b)
  BY HolderAssumption DEF Busy, VInv, Kept, Minted, EndPc
<1>4. OnDisk' = OnDisk
  BY DEF OnDisk, LiveIs
<1>5. \A b \in Appliers : Busy = b => Found(b)' = Found(b)
  BY <1>3 DEF Found, FoundTree, Steady
<1>6. ASSUME NEW b \in Appliers
      PROVE  /\ applPc'[b] \in EndPc \cup {"minted"} <=> applPc[b] \in EndPc \cup {"minted"}
             /\ Busy = b => /\ applPc'[b] \in SuccessPc \ {"report_success"}
                                  <=> applPc[b] \in SuccessPc \ {"report_success"}
                            /\ applPc'[b] \in RestoredPc <=> applPc[b] \in RestoredPc
  BY <1>3 DEF Steady, Minted, EndPc
<1>7. Installed' = Installed /\ Asked' = Asked /\ Decided' = Decided
  BY <1>2, <1>4, <1>5, <1>6, SameView
<1>8. CASE result' = result
  BY <1>1, <1>2, <1>7, <1>8 DEF Shows, Atomic!vars
<1>9. CASE result'.status = "none"
  BY <1>1, <1>2, <1>7, <1>9 DEF Shows, Atomic!Next, Atomic!Report
<1> QED
  BY <1>8, <1>9

-----------------------------------------------------------------------------
(* Releases, the clock, the agent and the hosts                              *)

LEMMA AgentShows ==
    ASSUME VInv,
      Publish \/ (\E r \in Releases : CooldownElapses(r)) \/ AgentSpawned \/ AgentStep
    PROVE  Shows /\ \A b \in Appliers : Kept(b)'
<1> USE DEF installVars
<1>1. UNCHANGED <<live, backup, current, applPc, job, result>>
  BY DEF Publish, CooldownElapses, AgentSpawned, AgentStep, AgentFindsNothing,
     AgentAcquires, AgentExtractsDesktop, AgentExtractsRuntime, AgentRebuildsHelper,
     AgentHitsLockedHelper, AgentPublishesPending, AgentReturns, AgentAborts, AgentOnly
<1>2. opMutex' = opMutex \/ (opMutex \notin Appliers /\ opMutex' \notin Appliers)
  BY HolderAssumption DEF Publish, CooldownElapses, AgentSpawned, AgentStep, AgentFindsNothing,
     AgentAcquires, AgentExtractsDesktop, AgentExtractsRuntime, AgentRebuildsHelper,
     AgentHitsLockedHelper, AgentPublishesPending, AgentReturns, AgentAborts, AgentOnly,
     Acquire, MutexFree, Relinquish
<1>3. \A b \in Appliers : Steady(b)
  BY <1>1 DEF Steady
<1> QED
  BY <1>1, <1>2, <1>3, OutsideKeeps

\* Only the start of a helper shows: the operator has asked.
LEMMA HostShows ==
    ASSUME VInv, NEW h \in Hosts, HostStep(h) \/ OperatorStep(h) \/ HostCrashes(h)
    PROVE  Shows /\ \A b \in Appliers : Kept(b)'
<1> USE DEF installVars
<1>0. job \in [Appliers -> Jobs] /\ applPc \in [Appliers -> ApplierSteps]
  BY DEF VInv, RInv, IInv, TypeOK
<1>1. CASE PassesGate(h) \/ TakesSession(h) \/ WaitsForSession(h) \/ ShowsPreviousResult(h)
           \/ ServesRuntime(h) \/ StartupFails(h) \/ ReconcilesPending(h) \/ ConsentFails(h)
           \/ OperatorStep(h)
  <2>1. UNCHANGED <<live, backup, current, applPc, job, opMutex>>
    BY <1>1 DEF PassesGate, TakesSession, WaitsForSession, ShowsPreviousResult, ServesRuntime,
       StartupFails, ReconcilesPending, ConsentFails, OperatorStep, UserLaunches, OpensPrompt,
       Declines, Consents, Closes, GateOnly
  <2>2. result' = result \/ result'.status = "none"
    BY <1>1 DEF PassesGate, TakesSession, WaitsForSession, ShowsPreviousResult, ServesRuntime,
       StartupFails, ReconcilesPending, ConsentFails, OperatorStep, UserLaunches, OpensPrompt,
       Declines, Consents, Closes, GateOnly, NoResult
  <2>3. \A b \in Appliers : Steady(b)
    BY <2>1 DEF Steady
  <2> QED
    BY <2>1, <2>2, <2>3, OutsideKeeps
<1>2. CASE RefusedAtGate(h) \/ YieldsToSession(h) \/ WaitTimesOut(h) \/ Exits(h)
  <2>1. /\ HostEnds(h) /\ UNCHANGED <<live, backup, current, applPc, opMutex, result>>
    BY <1>2 DEF RefusedAtGate, YieldsToSession, WaitTimesOut, Exits, GateOnly
  <2>2. \A b \in Appliers : Steady(b)
    <3>1. job' = JobsWithout({h}, {})
      BY <2>1 DEF HostEnds
    <3>2. \A b \in Appliers : job'[b].placed = job[b].placed /\ job'[b].torn = job[b].torn
      BY <1>0, <3>1, JobsWithoutRest
    <3> QED
      BY <1>0, <2>1, <3>2, HostEndsKeeps DEF Steady
  <2> QED
    BY <2>1, <2>2, OutsideKeeps
<1>3. ASSUME NEW a \in Appliers, BeginsHandoff(h, a)
      PROVE  Shows /\ \A b \in Appliers : Kept(b)'
  <2>1. UNCHANGED <<live, backup, current, opMutex, result>>
    BY <1>3 DEF BeginsHandoff
  <2>2. Minted(a)
    BY <1>0, <1>3 DEF BeginsHandoff, Jobs, Minted
  <2>3. \A b \in Appliers \ {a} : Steady(b)
    BY <1>0, <1>3 DEF BeginsHandoff, Steady
  <2> QED
    BY <2>1, <2>2, <2>3, OutsideKeeps
<1>4. ASSUME NEW a \in Appliers, StartsHelper(h, a)
      PROVE  Shows /\ \A b \in Appliers : Kept(b)'
  <2>1. UNCHANGED <<live, backup, current, opMutex, job, result>>
    BY <1>4 DEF StartsHelper
  <2>2. /\ applPc[a] = "minted" /\ applPc'[a] = "token"
        /\ \A b \in Appliers \ {a} : applPc'[b] = applPc[b]
    BY <1>0, <1>4 DEF StartsHelper
  <2>3. \A b \in Appliers : Kept(b)'
    <3>1. \A b \in Appliers : Kept(b)
      BY DEF VInv
    <3> QED
      BY <2>1, <2>2, <3>1, KeptBy
  <2>4. Busy' = Busy /\ Busy # a /\ opMutex # a
    BY <2>1, <2>2, HolderAssumption DEF Busy, VInv, Kept
  <2>5. Asked' = Asked \cup {a} /\ a \notin Asked
    BY <2>1, <2>2, <2>4 DEF Asked, EndPc
  <2>6. Decided' = Decided
    BY <2>2, <2>4, HolderAssumption DEF Decided, Busy
  <2>7. Installed' = Installed
    <3>1. OnDisk' = OnDisk
      BY <2>1 DEF OnDisk, LiveIs
    <3>2. \A b \in Appliers : Found(b)' = Found(b)
      BY <2>1 DEF Found, FoundTree
    <3>3. Busy \in Appliers \cup {Nobody}
      BY DEF Busy
    <3> QED
      BY <2>4, <2>6, <3>1, <3>2, <3>3 DEF Installed
  <2>8. Atomic!Ask(a)
    BY <2>1, <2>4, <2>5, <2>6, <2>7 DEF Atomic!Ask
  <2> QED
    BY <2>3, <2>8 DEF Shows, Atomic!Next
<1>5. ASSUME NEW a \in Appliers, HelperStartFails(h, a)
      PROVE  Shows /\ \A b \in Appliers : Kept(b)'
  <2>1. UNCHANGED <<live, backup, current, opMutex, result>>
    BY <1>5 DEF HelperStartFails
  <2>2. Minted(a) /\ \A b \in Appliers \ {a} : Steady(b)
    BY <1>0, <1>5 DEF HelperStartFails, Minted, Steady
  <2> QED
    BY <2>1, <2>2, OutsideKeeps
<1>6. CASE HostCrashes(h)
  <2> DEFINE lost == {a \in Appliers : applPc[a] = "minted" /\ job[a].parent = h}
  <2>1. UNCHANGED <<live, backup, current, opMutex, result>>
    BY <1>6 DEF HostCrashes
  <2>2. /\ job' = JobsWithout({h}, lost)
        /\ applPc' = [a \in Appliers |-> IF a \in lost THEN "dead" ELSE applPc[a]]
    BY <1>6 DEF HostCrashes
  <2>3. lost \subseteq Appliers /\ \A b \in lost : applPc[b] = "minted"
    OBVIOUS
  <2> HIDE DEF lost
  <2>4. /\ \A b \in lost : job'[b] = NoJob
        /\ \A b \in Appliers \ lost : /\ job'[b].previous = job[b].previous
                                      /\ job'[b].moved = job[b].moved
                                      /\ job'[b].placed = job[b].placed
                                      /\ job'[b].torn = job[b].torn
    BY <1>0, <2>2, <2>3, JobsWithoutKeeps, JobsWithoutRest
  <2>5. \A b \in Appliers : Steady(b) \/ Minted(b)
    BY <1>0, <2>2, <2>3, <2>4 DEF Steady, Minted
  <2> QED
    BY <2>1, <2>5, OutsideKeeps
<1> QED
  BY <1>1, <1>2, <1>3, <1>4, <1>5, <1>6 DEF HostStep

-----------------------------------------------------------------------------
(* The helper: steps that show nothing                                       *)

\* What one helper does leaves the others what they know.
LEMMA OthersKept ==
    ASSUME VInv, NEW a \in Appliers, live' = live \/ opMutex = a,
           \A b \in Appliers \ {a} :
              Steady(b) /\ backup'[b] = backup[b] /\ (opMutex' = b => opMutex = b)
    PROVE  \A b \in Appliers \ {a} : Kept(b)'
<1>1. ASSUME NEW b \in Appliers \ {a}
      PROVE  Kept(b)'
  <2>1. live' = live \/ job[b].previous = None
    BY DEF VInv, RInv, IInv, MutexHeld
  <2> QED
    BY <2>1, KeptBy DEF VInv, Steady
<1> QED
  BY <1>1

\* A step of a helper on its way, that leaves trees and metadata alone.
LEMMA OnItsWay ==
    ASSUME VInv, NEW a \in Appliers, NEW from, NEW to, ApplAt(a, from, to),
           UNCHANGED <<live, backup, current, opMutex>>,
           result' = result \/ result'.status \in {"none", "failed"},
           \A b \in Appliers :
              /\ job'[b].previous = job[b].previous /\ job'[b].moved = job[b].moved
              /\ job'[b].placed = job[b].placed /\ job'[b].torn = job[b].torn,
           from \notin EndPc \cup {"minted"}, to \notin EndPc \cup {"minted"},
           to \in {"token", "lock"} => from \in {"token", "lock"},
           to \in SuccessPc \ {"report_success"} <=> from \in SuccessPc \ {"report_success"},
           to \in RestoredPc <=> from \in RestoredPc,
           to \in CutoverPc \cup ProvePc => from \in CutoverPc \cup ProvePc,
           to \in TornPc => from \in TornPc,
           to \in BeforeRead => from \in BeforeRead,
           \A p \in Trees :
              /\ from \in AfterUndo(p) <=> to \in AfterUndo(p)
              /\ to \in BeforeOut(p) => from \in BeforeOut(p)
              /\ to = InAt[p] => from = InAt[p]
    PROVE  Shows /\ \A b \in Appliers : Kept(b)'
<1>1. applPc[a] = from /\ applPc'[a] = to /\ \A b \in Appliers \ {a} : applPc'[b] = applPc[b]
  BY DEF VInv, RInv, IInv, TypeOK, ApplAt
<1>2. \A b \in Appliers \ {a} : Kept(b)'
  BY <1>1, OthersKept DEF Steady
<1>3. Kept(a)'
  <2>1. Kept(a)
    BY DEF VInv
  <2>2. \A p \in Trees : AtRisk(a, p)' => AtRisk(a, p)
    BY <1>1 DEF AtRisk
  <2>3. MayRestoreMetadata(a)' <=> MayRestoreMetadata(a)
    BY DEF MayRestoreMetadata, LiveIs
  <2>4. CanFail' = CanFail
    BY DEF CanFail
  <2> HIDE DEF MayRestoreMetadata, CanFail
  <2> QED
    BY <1>1, <2>1, <2>2, <2>3, <2>4 DEF Kept
<1>4. Busy' = Busy
  BY DEF Busy
<1>5. OnDisk' = OnDisk
  BY DEF OnDisk, LiveIs
<1>6. \A b \in Appliers : Found(b)' = Found(b)
  BY DEF Found, FoundTree
<1>7. Installed' = Installed /\ Asked' = Asked /\ Decided' = Decided
  BY <1>1, <1>4, <1>5, <1>6, SameView
<1>8. CASE result' = result
  BY <1>2, <1>3, <1>4, <1>7, <1>8 DEF Shows, Atomic!vars
<1>9. CASE result'.status \in {"none", "failed"}
  BY <1>2, <1>3, <1>4, <1>7, <1>9 DEF Shows, Atomic!Next, Atomic!Report
<1> QED
  BY <1>8, <1>9

LEMMA HelperOnItsWay ==
    ASSUME VInv, NEW a \in Appliers,
           \/ ChecksToken(a) \/ LockTimesOut(a) \/ ReadsAccepted(a) \/ ProvesRestart(a)
           \/ RestartUnproved(a) \/ FileOperationFails(a) \/ CleansUp(a) \/ ClearsHandoff(a)
           \/ (\E h \in Hosts : RestartsTarget(a, h)) \/ ReportsFailure(a) \/ DiscardsConsent(a)
    PROVE  Shows /\ \A b \in Appliers : Kept(b)'
<1> DEFINE Way(from, to) ==
              /\ from \notin EndPc \cup {"minted"} /\ to \notin EndPc \cup {"minted"}
              /\ to \in {"token", "lock"} => from \in {"token", "lock"}
              /\ to \in SuccessPc \ {"report_success"} <=> from \in SuccessPc \ {"report_success"}
              /\ to \in RestoredPc <=> from \in RestoredPc
              /\ to \in CutoverPc \cup ProvePc => from \in CutoverPc \cup ProvePc
              /\ to \in TornPc => from \in TornPc
              /\ to \in BeforeRead => from \in BeforeRead
              /\ \A p \in Trees :
                    /\ from \in AfterUndo(p) <=> to \in AfterUndo(p)
                    /\ to \in BeforeOut(p) => from \in BeforeOut(p)
                    /\ to = InAt[p] => from = InAt[p]
           Quiet == /\ UNCHANGED <<live, backup, current, opMutex>>
                    /\ result' = result \/ result'.status \in {"none", "failed"}
                    /\ \A b \in Appliers :
                          /\ job'[b].previous = job[b].previous /\ job'[b].moved = job[b].moved
                          /\ job'[b].placed = job[b].placed /\ job'[b].torn = job[b].torn
<1>0. job \in [Appliers -> Jobs]
  BY DEF VInv, RInv, IInv, TypeOK
<1>1. ASSUME NEW from, NEW to, ApplAt(a, from, to), Way(from, to), Quiet
      PROVE  Shows /\ \A b \in Appliers : Kept(b)'
  BY <1>1, OnItsWay
<1> USE DEF installVars, BeforeOut, AfterUndo, InAt, Trees, EndPc, SuccessPc, RestoredPc, TornPc,
        CutoverPc, ProvePc, BeforeRead
<1>2. CASE ChecksToken(a)
  <2>1. ApplAt(a, "token", "lock") \/ ApplAt(a, "token", "stop_peers")
    BY <1>2 DEF ChecksToken
  <2>2. Quiet
    BY <1>2 DEF ChecksToken
  <2> QED
    BY <2>1, <2>2, <1>1
<1>3. CASE LockTimesOut(a)
  <2>1. ApplAt(a, "lock", "stop_peers") /\ Quiet
    BY <1>3 DEF LockTimesOut
  <2> QED
    BY <2>1, <1>1
<1>4. CASE ReadsAccepted(a)
  <2>1. ApplAt(a, "read", "snapshot") \/ ApplAt(a, "read", "stop_peers")
    BY <1>4 DEF ReadsAccepted
  <2>2. Quiet
    BY <1>0, <1>4 DEF ReadsAccepted, Jobs
  <2> QED
    BY <2>1, <2>2, <1>1
<1>5. CASE ProvesRestart(a)
  <2>1. ApplAt(a, "verify", "report_success") /\ Quiet
    BY <1>5 DEF ProvesRestart
  <2> QED
    BY <2>1, <1>1
<1>6. CASE RestartUnproved(a)
  <2>1. ApplAt(a, "verify", "stop_peers") /\ Quiet
    BY <1>6 DEF RestartUnproved
  <2> QED
    BY <2>1, <1>1
<1>7. CASE FileOperationFails(a)
  <2>1. PICK s \in CutoverPc \cup {"snapshot", "metadata", "restart", "report_success"} :
            ApplAt(a, s, "stop_peers")
    BY <1>7 DEF FileOperationFails
  <2>2. Quiet
    BY <1>7 DEF FileOperationFails
  <2> QED
    BY <2>1, <2>2, <1>1
<1>8. CASE CleansUp(a)
  <2>1. ApplAt(a, "cleanup", "clear_success") /\ Quiet
    BY <1>8 DEF CleansUp
  <2> QED
    BY <2>1, <1>1
<1>9. CASE ClearsHandoff(a)
  <2>1. ApplAt(a, "clear_success", "housekeep") \/ ApplAt(a, "clear_restored", "restart_previous")
    BY <1>9 DEF ClearsHandoff
  <2>2. Quiet
    BY <1>9 DEF ClearsHandoff
  <2> QED
    BY <2>1, <2>2, <1>1
<1>10. ASSUME NEW h \in Hosts, RestartsTarget(a, h)
       PROVE  Shows /\ \A b \in Appliers : Kept(b)'
  <2>1. ApplAt(a, "restart", "verify") /\ Quiet
    BY <1>0, <1>10 DEF RestartsTarget, Jobs
  <2> QED
    BY <2>1, <1>1
<1>11. CASE ReportsFailure(a)
  <2>1. ApplAt(a, "report_restored", "discard") \/ ApplAt(a, "report_torn", "give_up")
    BY <1>11 DEF ReportsFailure
  <2>2. Quiet
    BY <1>11 DEF ReportsFailure, Failure
  <2> QED
    BY <2>1, <2>2, <1>1
<1>12. CASE DiscardsConsent(a)
  <2>1. ApplAt(a, "discard", "clear_restored") /\ Quiet
    BY <1>12 DEF DiscardsConsent
  <2> QED
    BY <2>1, <1>1
<1> QED
  BY <1>2, <1>3, <1>4, <1>5, <1>6, <1>7, <1>8, <1>9, <1>10, <1>11, <1>12

-----------------------------------------------------------------------------
(* The helper: the end                                                       *)

\* A helper that ends lets go of an installation that is as it was found, or falls.
LEMMA EndShows ==
    ASSUME VInv, NEW a \in Appliers, NEW how \in {"done", "dead"}, Ends(a, how),
           UNCHANGED <<live, current>>,
           \A b \in Appliers \ {a} : backup'[b] = backup[b],
           result' = result \/ result'.status = "failed",
           opMutex = a => Decided \/ CanFail \/ Found(a) \in {Broken, OnDisk}
    PROVE  Shows /\ \A b \in Appliers : Kept(b)'
<1>1. /\ applPc'[a] = how /\ job'[a] = NoJob /\ opMutex' = IF opMutex = a THEN Nobody ELSE opMutex
      /\ \A b \in Appliers \ {a} : applPc'[b] = applPc[b] /\ job'[b] = job[b]
  BY DEF VInv, RInv, IInv, TypeOK, Ends, Relinquish
<1>2. \A b \in Appliers \ {a} : Kept(b)'
  BY <1>1, OthersKept, HolderAssumption DEF Steady
<1>3. Kept(a)'
  BY <1>1, KeptBy, HolderAssumption DEF VInv, EndPc
<1>4. OnDisk' = OnDisk /\ OnDisk \in Generations \cup {Broken}
  BY DEF OnDisk, LiveIs, VInv, RInv, IInv, TypeOK
<1>5. CASE opMutex # a
  <2>1. Busy' = Busy /\ Busy # a /\ Busy \in Appliers \cup {Nobody}
    BY <1>1, <1>5, HolderAssumption DEF Busy
  <2>2. Asked' \subseteq Asked
    BY <1>1, <1>5 DEF Asked, EndPc
  <2>3. Decided' = Decided
    BY <1>1, <2>1 DEF Decided
  <2>4. Installed' = Installed
    <3>1. \A b \in Appliers \ {a} : Found(b)' = Found(b)
      BY <1>1 DEF Found, FoundTree
    <3> QED
      BY <1>4, <2>1, <2>3, <3>1 DEF Installed
  <2>5. Atomic!GiveUp
    BY <2>1, <2>2, <2>3, <2>4 DEF Atomic!GiveUp
  <2> QED
    BY <1>2, <1>3, <2>5 DEF Shows, Atomic!Next
<1>6. CASE opMutex = a
  <2>1. Busy = a /\ Busy' = Nobody /\ a # Nobody
    BY <1>1, <1>6, HolderAssumption DEF Busy
  <2>2. ~ Decided'
    BY <2>1 DEF Decided
  <2>3. Asked' = Asked
    BY <1>1, <1>6, HolderAssumption DEF Asked, EndPc
  <2>4. Installed' = OnDisk /\ Installed = IF Decided THEN OnDisk ELSE Found(a)
    BY <1>4, <2>1 DEF Installed
  <2>5. Decided \in BOOLEAN /\ Decided' \in BOOLEAN
    BY DEF Decided
  <2>6. CASE Decided \/ Found(a) = OnDisk
    <3>1. Atomic!End(a)
      BY <2>1, <2>2, <2>3, <2>4, <2>5, <2>6 DEF Atomic!End
    <3> QED
      BY <1>2, <1>3, <3>1 DEF Shows, Atomic!Next
  <2>7. CASE ~ Decided /\ Found(a) # OnDisk
    <3>1. Atomic!Fall(a)
      BY <1>4, <1>6, <2>1, <2>2, <2>3, <2>4, <2>5, <2>7 DEF Atomic!Fall
    <3> QED
      BY <1>2, <1>3, <3>1 DEF Shows, Atomic!Next
  <2> QED
    BY <2>6, <2>7
<1> QED
  BY <1>5, <1>6

\* A rollback that had no error and still could not be verified found nothing whole.
LEMMA GivesUpBroken ==
    ASSUME VInv, NEW a \in Appliers, applPc[a] \in TornPc
    PROVE  CanFail \/ Found(a) \in {Broken, OnDisk}
<1> SUFFICES ASSUME ~ CanFail PROVE Found(a) \in {Broken, OnDisk}
  OBVIOUS
<1> HIDE DEF CanFail
<1>1. Kept(a) /\ ~ MayRestoreMetadata(a)
  BY DEF VInv, Kept
<1>2. job[a] \in Jobs
  BY DEF VInv, RInv, IInv, TypeOK
<1>3. CASE job[a].torn
  <2>1. PICK p \in job[a].placed : p \notin job[a].moved
    BY <1>1, <1>3 DEF Kept
  <2>2. p \in Trees /\ FoundTree(a, p) = None
    BY <1>2, <2>1, JobFields DEF FoundTree
  <2>3. job[a].previous # None
    BY <1>1, <2>1 DEF Kept
  <2> QED
    BY <2>2, <2>3 DEF Found
<1>4. CASE ~ job[a].torn /\ job[a].previous = None
  <2>1. \A p \in Trees : FoundTree(a, p) = live[p]
    BY <1>1, <1>4 DEF Kept, FoundTree
  <2> QED
    BY <1>4, <2>1 DEF Found, OnDisk, LiveIs
<1>5. CASE ~ job[a].torn /\ job[a].previous # None
  <2>1. ~ LiveIs(job[a].previous)
    BY <1>1, <1>5 DEF MayRestoreMetadata
  <2>2. \A p \in Trees : FoundTree(a, p) = live[p]
    BY <1>1, <1>5 DEF Kept, FoundTree, AfterUndo
  <2> QED
    BY <1>5, <2>1, <2>2 DEF Found, LiveIs
<1> QED
  BY <1>3, <1>4, <1>5

LEMMA HelperEnds ==
    ASSUME VInv, NEW a \in Appliers,
           \/ Housekeeps(a) \/ (\E h \in Hosts : RestartsPrevious(a, h)) \/ RetainsHandoff(a)
           \/ RollbackThrows(a) \/ ApplierCrashes(a)
    PROVE  Shows /\ \A b \in Appliers : Kept(b)'
<1> USE DEF installVars
<1>1. opMutex = a => Busy = a /\ Busy # Nobody
  BY HolderAssumption DEF Busy
<1>2. CASE Housekeeps(a)
  <2>1. Ends(a, "done") /\ applPc[a] = "housekeep" /\ UNCHANGED <<live, current, result>>
    BY <1>2 DEF Housekeeps
  <2>2. \A b \in Appliers \ {a} : backup'[b] = backup[b]
    BY <1>2 DEF Housekeeps, VInv, RInv, IInv, TypeOK
  <2>3. opMutex = a => Decided
    BY <1>1, <2>1 DEF Decided, SuccessPc
  <2> QED
    BY <2>1, <2>2, <2>3, EndShows
<1>3. ASSUME NEW h \in Hosts, RestartsPrevious(a, h)
      PROVE  Shows /\ \A b \in Appliers : Kept(b)'
  <2>1. Ends(a, "done") /\ applPc[a] = "restart_previous"
        /\ UNCHANGED <<live, backup, current, result>>
    BY <1>3 DEF RestartsPrevious
  <2>2. opMutex = a => Decided
    BY <1>1, <2>1 DEF Decided, RestoredPc
  <2> QED
    BY <2>1, <2>2, EndShows
<1>4. CASE RetainsHandoff(a)
  <2>1. Ends(a, "done") /\ applPc[a] = "give_up" /\ UNCHANGED <<live, backup, current, result>>
    BY <1>4 DEF RetainsHandoff
  <2>2. CanFail \/ Found(a) \in {Broken, OnDisk}
    BY <2>1, GivesUpBroken DEF TornPc
  <2> QED
    BY <2>1, <2>2, EndShows
<1>5. CASE RollbackThrows(a)
  <2>1. Ends(a, "done") /\ UNCHANGED <<live, backup, current>> /\ "state" \in Faults
    BY <1>5 DEF RollbackThrows
  <2>2. result' = result \/ result'.status = "failed"
    BY <1>5 DEF RollbackThrows, Failure
  <2>3. CanFail
    BY <2>1 DEF CanFail
  <2> QED
    BY <2>1, <2>2, <2>3, EndShows
<1>6. CASE ApplierCrashes(a)
  <2>1. Ends(a, "dead") /\ UNCHANGED <<live, backup, current, result>> /\ "crash" \in Faults
    BY <1>6 DEF ApplierCrashes
  <2>2. CanFail
    BY <2>1 DEF CanFail
  <2> QED
    BY <2>1, <2>2, EndShows
<1> QED
  BY <1>2, <1>3, <1>4, <1>5, <1>6

-----------------------------------------------------------------------------
(* The helper: the cutover                                                   *)

\* What the holder does to the trees before it has decided is not seen as long as
\* what it found can still be told.
LEMMA Unseen ==
    ASSUME VInv, NEW a \in Appliers, opMutex = a, opMutex' = a, result' = result,
           NEW from, NEW to, ApplAt(a, from, to),
           from \notin EndPc \cup {"minted"} \cup (SuccessPc \ {"report_success"}) \cup RestoredPc,
           to \notin EndPc \cup {"minted"} \cup (SuccessPc \ {"report_success"}) \cup RestoredPc,
           Found(a)' = Found(a)
    PROVE  Shows
<1>1. applPc[a] = from /\ applPc'[a] = to /\ \A b \in Appliers \ {a} : applPc'[b] = applPc[b]
  BY DEF VInv, RInv, IInv, TypeOK, ApplAt
<1>2. Busy = a /\ Busy' = a /\ a # Nobody
  BY HolderAssumption DEF Busy
<1>3. ~ Decided
  BY <1>1, <1>2 DEF Decided
<1>4. Installed' = Installed /\ Asked' = Asked /\ Decided' = Decided
  BY <1>1, <1>2, <1>3, SameView
<1> QED
  BY <1>2, <1>4 DEF Shows, Atomic!vars

\* The lock is the beginning.
LEMMA LockShows ==
    ASSUME VInv, NEW a \in Appliers, TakesLock(a)
    PROVE  Shows /\ \A b \in Appliers : Kept(b)'
<1>1. /\ applPc[a] = "lock" /\ applPc'[a] = "read" /\ opMutex = Nobody /\ opMutex' = a
      /\ \A b \in Appliers \ {a} : applPc'[b] = applPc[b]
      /\ UNCHANGED <<live, backup, current, job, result>>
  BY DEF TakesLock, ApplAt, Acquire, MutexFree, VInv, RInv, IInv, TypeOK, installVars
<1>2. \A b \in Appliers \ {a} : Kept(b)'
  BY <1>1, OthersKept DEF Steady
<1>3. job[a].previous = None /\ job[a].moved = {} /\ job[a].placed = {}
  BY <1>1, HolderAssumption DEF VInv, Kept, RInv, IInv, MutexHeld
<1>4. Kept(a)'
  <2>1. Kept(a)
    BY DEF VInv
  <2> QED
    BY <1>1, <1>3, <2>1 DEF Kept, AtRisk, AfterUndo, BeforeOut, InAt, Trees, RestoredPc, TornPc,
       CutoverPc, ProvePc, EndPc, CanFail, BeforeRead
<1>5. Busy = Nobody /\ Busy' = a /\ a # Nobody
  BY <1>1, HolderAssumption DEF Busy
<1>6. ~ Decided /\ ~ Decided' /\ Decided \in BOOLEAN /\ Decided' \in BOOLEAN
  BY <1>1, <1>5 DEF Decided, SuccessPc, RestoredPc
<1>7. a \in Asked /\ Asked' = Asked \ {a}
  BY <1>1, HolderAssumption DEF Asked, EndPc
<1>8. Installed' = Installed
  <2>1. Found(a)' = OnDisk
    BY <1>1, <1>3 DEF Found, FoundTree, OnDisk, LiveIs
  <2> QED
    BY <1>5, <1>6, <2>1 DEF Installed
<1>9. Atomic!Begin(a)
  BY <1>1, <1>5, <1>6, <1>7, <1>8 DEF Atomic!Begin
<1> QED
  BY <1>2, <1>4, <1>9 DEF Shows, Atomic!Next

LEMMA SnapshotShows ==
    ASSUME VInv, NEW a \in Appliers, TakesSnapshot(a)
    PROVE  Shows /\ \A b \in Appliers : Kept(b)'
<1>1. /\ applPc[a] = "snapshot" /\ applPc'[a] = "out_desktop"
      /\ \A b \in Appliers \ {a} : applPc'[b] = applPc[b] /\ job'[b] = job[b]
      /\ job'[a].previous = current /\ job'[a].moved = job[a].moved
      /\ job'[a].placed = job[a].placed /\ job'[a].torn = job[a].torn
      /\ UNCHANGED <<live, backup, current, opMutex, result>>
  BY DEF TakesSnapshot, ApplAt, VInv, RInv, IInv, TypeOK, installVars, Jobs
<1>2. \A b \in Appliers \ {a} : Kept(b)'
  BY <1>1, OthersKept DEF Steady
<1>3. opMutex = a
  BY <1>1 DEF VInv, RInv, IInv, MutexHeld, LockedPc
<1>4. current # None
  BY Numbers DEF VInv, RInv, IInv, TypeOK
<1>5. Kept(a)
  BY DEF VInv
<1>6. \A p \in Trees : p \notin job[a].moved /\ p \notin job[a].placed
  BY <1>1, <1>5 DEF Kept, BeforeOut
<1>7. Kept(a)'
  BY <1>1, <1>4, <1>5, <1>6 DEF Kept, AtRisk, AfterUndo, BeforeOut, InAt, Trees, RestoredPc,
     TornPc, CutoverPc, ProvePc, EndPc, CanFail, BeforeRead
<1>8. Found(a)' = Found(a)
  BY <1>1, <1>4, <1>5, <1>6 DEF Found, FoundTree, Kept, BeforeRead
<1>9. Shows
  BY <1>1, <1>3, <1>8, Unseen DEF TakesSnapshot, EndPc, SuccessPc, RestoredPc
<1> QED
  BY <1>2, <1>7, <1>9

\* The tree is found in the rollback root now.
LEMMA MoveOutShows ==
    ASSUME VInv, NEW a \in Appliers, NEW p \in Trees, MovesOut(a, p)
    PROVE  Shows /\ \A b \in Appliers : Kept(b)'
<1> USE DEF Trees
<1>0. /\ live \in [Trees -> TreeContent] /\ backup \in [Appliers -> [Trees -> TreeContent]]
      /\ job \in [Appliers -> Jobs]
  BY DEF VInv, RInv, IInv, TypeOK
<1>1. /\ applPc[a] = OutAt[p] /\ applPc'[a] = InAt[p]
      /\ \A b \in Appliers \ {a} : applPc'[b] = applPc[b] /\ job'[b] = job[b] /\ backup'[b] = backup[b]
      /\ UNCHANGED <<current, opMutex, result>>
      /\ \A q \in Trees \ {p} : live'[q] = live[q] /\ backup'[a][q] = backup[a][q]
      /\ job'[a].previous = job[a].previous /\ job'[a].placed = job[a].placed
      /\ job'[a].torn = job[a].torn
  BY <1>0 DEF MovesOut, ApplAt, VInv, RInv, IInv, TypeOK, Jobs
<1>2. opMutex = a
  BY <1>1 DEF VInv, RInv, IInv, MutexHeld, LockedPc, CutoverPc, OutAt
<1>3. \A b \in Appliers \ {a} : Kept(b)'
  BY <1>1, <1>2, OthersKept DEF Steady
<1>4. Kept(a)
  BY DEF VInv
<1>5. p \notin job[a].moved /\ p \notin job[a].placed /\ job[a].previous # None
  BY <1>1, <1>4 DEF Kept, BeforeOut, OutAt, CutoverPc
<1>6. \/ live[p] = None /\ live' = live /\ backup' = backup /\ job'[a].moved = job[a].moved
      \/ /\ live[p] # None /\ backup'[a][p] = live[p]
         /\ job'[a].moved = job[a].moved \cup {p}
  BY <1>0 DEF MovesOut, Jobs
<1>7. Kept(a)'
  <2>1. ASSUME NEW q \in Trees
        PROVE  /\ applPc'[a] \in BeforeOut(q) => q \notin job'[a].moved
               /\ applPc'[a] \in BeforeOut(q) \cup {InAt[q]} => q \notin job'[a].placed
               /\ AtRisk(a, q)' => backup'[a][q] # None
               /\ applPc'[a] \notin AfterUndo(q)
    <3>1. CASE q = p
      BY <1>1, <1>4, <1>5, <1>6, <3>1 DEF Kept, AtRisk, BeforeOut, AfterUndo, InAt, OutAt,
         RestoredPc, TornPc
    <3>2. CASE q # p
      BY <1>1, <1>4, <1>6, <3>2 DEF Kept, AtRisk, BeforeOut, AfterUndo, InAt, OutAt,
         RestoredPc, TornPc
    <3> QED
      BY <3>1, <3>2
  <2>2. job'[a].torn => CanFail' \/ ~ (job'[a].placed \subseteq job'[a].moved)
    BY <1>1, <1>4, <1>5, <1>6 DEF Kept, CanFail
  <2>3. applPc'[a] \notin TornPc \cup BeforeRead \cup EndPc \cup {"minted", "token", "lock"}
    BY <1>1 DEF InAt, TornPc, BeforeRead, EndPc
  <2> QED
    BY <1>1, <1>5, <2>1, <2>2, <2>3 DEF Kept
<1>8. Found(a)' = Found(a)
  <2>1. FoundTree(a, p)' = FoundTree(a, p)
    BY <1>1, <1>5, <1>6 DEF FoundTree
  <2>2. \A q \in Trees \ {p} : FoundTree(a, q)' = FoundTree(a, q)
    BY <1>1, <1>6 DEF FoundTree
  <2> QED
    BY <1>1, <1>5, <2>1, <2>2 DEF Found
<1>9. Shows
  BY <1>1, <1>2, <1>8, Unseen DEF MovesOut, EndPc, SuccessPc, RestoredPc, OutAt, InAt
<1> QED
  BY <1>3, <1>7, <1>9

LEMMA MoveInShows ==
    ASSUME VInv, NEW a \in Appliers, NEW p \in Trees, MovesIn(a, p)
    PROVE  Shows /\ \A b \in Appliers : Kept(b)'
<1> USE DEF Trees
<1>0. live \in [Trees -> TreeContent] /\ job \in [Appliers -> Jobs]
  BY DEF VInv, RInv, IInv, TypeOK
<1>1. /\ applPc[a] = InAt[p] /\ applPc'[a] = AfterIn[p]
      /\ \A b \in Appliers \ {a} : applPc'[b] = applPc[b] /\ job'[b] = job[b]
      /\ UNCHANGED <<current, backup, opMutex, result>>
      /\ \A q \in Trees \ {p} : live'[q] = live[q]
      /\ job'[a].previous = job[a].previous /\ job'[a].moved = job[a].moved
      /\ job'[a].placed = job[a].placed \cup {p} /\ job'[a].torn = job[a].torn
  BY <1>0 DEF MovesIn, ApplAt, VInv, RInv, IInv, TypeOK, Jobs
<1>2. opMutex = a
  BY <1>1 DEF VInv, RInv, IInv, MutexHeld, LockedPc, CutoverPc, InAt
<1>3. \A b \in Appliers \ {a} : Kept(b)'
  BY <1>1, <1>2, OthersKept DEF Steady
<1>4. Kept(a)
  BY DEF VInv
<1>5. p \notin job[a].placed /\ job[a].previous # None /\ live[p] = None
  BY <1>1, <1>4 DEF Kept, InAt, CutoverPc, VInv, RInv, Gap
<1>6. p \in job[a].moved => backup[a][p] # None
  BY <1>1, <1>4 DEF Kept, AtRisk, AfterUndo, InAt, RestoredPc, TornPc
<1>7. Kept(a)'
  <2>1. ASSUME NEW q \in Trees
        PROVE  /\ applPc'[a] \in BeforeOut(q) => q \notin job'[a].moved
               /\ applPc'[a] \in BeforeOut(q) \cup {InAt[q]} => q \notin job'[a].placed
               /\ AtRisk(a, q)' => backup'[a][q] # None
               /\ applPc'[a] \notin AfterUndo(q)
    BY <1>1, <1>4 DEF Kept, AtRisk, BeforeOut, AfterUndo, InAt, AfterIn, RestoredPc, TornPc
  <2>2. job'[a].torn => CanFail' \/ ~ (job'[a].placed \subseteq job'[a].moved)
    BY <1>1, <1>4 DEF Kept, CanFail
  <2>3. applPc'[a] \notin TornPc \cup BeforeRead \cup EndPc \cup {"minted", "token", "lock"}
    BY <1>1 DEF AfterIn, TornPc, BeforeRead, EndPc
  <2> QED
    BY <1>1, <1>5, <2>1, <2>2, <2>3 DEF Kept
<1>8. Found(a)' = Found(a)
  <2>1. FoundTree(a, p)' = FoundTree(a, p)
    BY <1>1, <1>5, <1>6 DEF FoundTree
  <2>2. \A q \in Trees \ {p} : FoundTree(a, q)' = FoundTree(a, q)
    BY <1>1 DEF FoundTree
  <2> QED
    BY <1>1, <1>5, <2>1, <2>2 DEF Found
<1>9. Shows
  BY <1>1, <1>2, <1>8, Unseen DEF MovesIn, EndPc, SuccessPc, RestoredPc, InAt, AfterIn
<1> QED
  BY <1>3, <1>7, <1>9

\* current.json follows, and is not what was found.
LEMMA CurrentShows ==
    ASSUME VInv, NEW a \in Appliers, WritesCurrent(a)
    PROVE  Shows /\ \A b \in Appliers : Kept(b)'
<1>1. /\ applPc[a] = "metadata" /\ applPc'[a] = "restart"
      /\ \A b \in Appliers \ {a} : applPc'[b] = applPc[b]
      /\ UNCHANGED <<live, backup, opMutex, job, result>>
  BY DEF WritesCurrent, ApplAt, VInv, RInv, IInv, TypeOK
<1>2. opMutex = a
  BY <1>1 DEF VInv, RInv, IInv, MutexHeld, LockedPc, CutoverPc
<1>3. \A b \in Appliers \ {a} : Kept(b)'
  BY <1>1, OthersKept DEF Steady
<1>4. Kept(a)
  BY DEF VInv
<1>5. Kept(a)'
  BY <1>1, <1>4 DEF Kept, AtRisk, AfterUndo, BeforeOut, InAt, Trees, RestoredPc,
     TornPc, CutoverPc, ProvePc, EndPc, CanFail, BeforeRead
<1>6. Found(a)' = Found(a)
  BY <1>1, <1>4 DEF Found, FoundTree, Kept, CutoverPc
<1>7. Shows
  BY <1>1, <1>2, <1>6, Unseen DEF WritesCurrent, EndPc, SuccessPc, RestoredPc
<1> QED
  BY <1>3, <1>5, <1>7

\* The report is the commit.
LEMMA SuccessShows ==
    ASSUME VInv, NEW a \in Appliers, ReportsSuccess(a)
    PROVE  Shows /\ \A b \in Appliers : Kept(b)'
<1>1. /\ applPc[a] = "report_success" /\ applPc'[a] = "cleanup"
      /\ \A b \in Appliers \ {a} : applPc'[b] = applPc[b]
      /\ UNCHANGED <<live, backup, current, opMutex, job>>
      /\ result' = [status |-> "success", target |-> job[a].target]
  BY DEF ReportsSuccess, ApplAt, VInv, RInv, IInv, TypeOK, installVars
<1>2. opMutex = a
  BY <1>1 DEF VInv, RInv, IInv, MutexHeld, LockedPc, SuccessPc
<1>3. \A b \in Appliers \ {a} : Kept(b)'
  BY <1>1, OthersKept DEF Steady
<1>4. Kept(a)'
  <2>1. Kept(a)
    BY DEF VInv
  <2> QED
    BY <1>1, <2>1 DEF Kept, AtRisk, AfterUndo, BeforeOut, InAt, Trees, RestoredPc,
       TornPc, CutoverPc, ProvePc, EndPc, CanFail, BeforeRead
<1>5. Busy = a /\ Busy' = a /\ a # Nobody
  BY <1>1, <1>2, HolderAssumption DEF Busy
<1>6. ~ Decided /\ Decided' = TRUE
  BY <1>1, <1>5 DEF Decided, SuccessPc, RestoredPc
<1>7. Asked' = Asked
  BY <1>1, <1>2 DEF Asked, EndPc
<1>8. LiveIs(job[a].target) /\ current = job[a].target /\ current \in Generations
  BY <1>1 DEF VInv, RInv, IInv, TypeOK, Whole, SuccessPc
<1>9. Installed' = job[a].target
  BY <1>1, <1>6, <1>8 DEF Installed, OnDisk, LiveIs
<1>10. Atomic!Commit(a)
  BY <1>1, <1>5, <1>6, <1>7, <1>8, <1>9 DEF Atomic!Commit
<1> QED
  BY <1>3, <1>4, <1>10 DEF Shows, Atomic!Next

-----------------------------------------------------------------------------
(* The helper: the catch block                                               *)

\* Stopping the peers may take the holder down, which the stopping helper is then not.
LEMMA StopShows ==
    ASSUME VInv, NEW a \in Appliers, StopsPeers(a)
    PROVE  Shows /\ \A b \in Appliers : Kept(b)'
<1> DEFINE killed == {h \in Hosts : hostPc[h] # "off" /\ h # job[a].parent}
           fallen == {b \in Appliers : job[b].parent \in killed /\ applPc[b] \notin EndPc}
<1>0. job \in [Appliers -> Jobs]
  BY DEF VInv, RInv, IInv, TypeOK
<1>1. /\ job' = JobsWithout(killed, fallen) /\ UNCHANGED <<live, backup, current, result>>
      /\ opMutex' = IF opMutex \in fallen THEN Nobody ELSE opMutex
  BY DEF StopsPeers, installVars
<1>2. /\ applPc[a] = "stop_peers" /\ applPc'[a] = "restore_desktop" /\ a \notin fallen
      /\ \A b \in fallen : applPc'[b] = "dead"
      /\ \A b \in Appliers \ fallen : b # a => applPc'[b] = applPc[b]
  BY DEF StopsPeers
<1>3. fallen \subseteq Appliers
  OBVIOUS
<1> HIDE DEF killed, fallen
<1>4. /\ \A b \in fallen : job'[b] = NoJob
      /\ \A b \in Appliers \ fallen :
            /\ job'[b].previous = job[b].previous /\ job'[b].moved = job[b].moved
            /\ job'[b].placed = job[b].placed /\ job'[b].torn = job[b].torn
  BY <1>0, <1>1, <1>3, JobsWithoutKeeps, JobsWithoutRest
<1>5. ASSUME NEW b \in Appliers \ {a}
      PROVE  Kept(b)'
  <2>1. CASE b \in fallen
    BY <1>1, <1>2, <1>4, <2>1, KeptBy, HolderAssumption DEF VInv, EndPc
  <2>2. CASE b \notin fallen
    BY <1>1, <1>2, <1>4, <2>2, KeptBy, HolderAssumption DEF VInv
  <2> QED
    BY <2>1, <2>2
<1>6. Kept(a)'
  <2>1. Kept(a)
    BY DEF VInv
  <2> QED
    BY <1>1, <1>2, <1>4, <2>1 DEF Kept, AtRisk, AfterUndo, BeforeOut, InAt, Trees, RestoredPc,
       TornPc, CutoverPc, ProvePc, EndPc, CanFail, BeforeRead
<1>7. OnDisk' = OnDisk /\ OnDisk \in Generations \cup {Broken}
  BY <1>1 DEF OnDisk, LiveIs, VInv, RInv, IInv, TypeOK
<1>8. CASE opMutex \notin fallen
  <2>1. Busy' = Busy /\ Busy \notin fallen /\ Busy \in Appliers \cup {Nobody}
    BY <1>1, <1>3, <1>8, HolderAssumption DEF Busy
  <2>2. Asked' \subseteq Asked
    BY <1>1, <1>2, <1>8 DEF Asked, EndPc
  <2>3. Decided' = Decided
    BY <1>2, <2>1 DEF Decided, SuccessPc, RestoredPc
  <2>4. Installed' = Installed
    <3>1. \A b \in Appliers \ fallen : Found(b)' = Found(b)
      BY <1>1, <1>4 DEF Found, FoundTree
    <3> QED
      BY <1>7, <2>1, <2>3, <3>1 DEF Installed
  <2>5. Atomic!GiveUp
    BY <1>1, <2>1, <2>2, <2>3, <2>4 DEF Atomic!GiveUp
  <2> QED
    BY <1>5, <1>6, <2>5 DEF Shows, Atomic!Next
<1>9. ASSUME NEW b \in fallen, opMutex = b
      PROVE  Shows
  <2>1. Busy = b /\ Busy' = Nobody /\ b # Nobody /\ b \in Appliers /\ b # a
    BY <1>1, <1>2, <1>3, <1>9, HolderAssumption DEF Busy
  <2>2. Asked' \subseteq Asked /\ a \in Asked
    BY <1>1, <1>2, <1>9, <2>1, HolderAssumption DEF Asked, EndPc
  <2>3. ~ Decided' /\ Decided \in BOOLEAN /\ Decided' \in BOOLEAN
    BY <2>1 DEF Decided
  <2>4. Decided => Installed = OnDisk
    BY <2>1 DEF Installed
  <2>5. Installed' = OnDisk
    BY <1>7, <2>1 DEF Installed
  <2>6. CASE Decided
    <3>1. Atomic!End(b)
      BY <1>1, <2>1, <2>2, <2>3, <2>4, <2>5, <2>6 DEF Atomic!End
    <3> QED
      BY <2>1, <3>1 DEF Shows, Atomic!Next
  <2>7. CASE ~ Decided
    <3>1. Atomic!Fall(b)
      BY <1>1, <1>7, <2>1, <2>2, <2>3, <2>5, <2>7 DEF Atomic!Fall
    <3> QED
      BY <2>1, <3>1 DEF Shows, Atomic!Next
  <2> QED
    BY <2>6, <2>7
<1> QED
  BY <1>5, <1>6, <1>8, <1>9

\* A tree put back is found where it was found.
LEMMA RestoreShows ==
    ASSUME VInv, NEW a \in Appliers, NEW p \in Trees, Restores(a, p)
    PROVE  Shows /\ \A b \in Appliers : Kept(b)'
<1> USE DEF Trees
<1>1. /\ applPc[a] = RestoreAt[p] /\ applPc'[a] = AfterRestore[p] /\ p \in job[a].moved
      /\ \A b \in Appliers \ {a} : applPc'[b] = applPc[b] /\ backup'[b] = backup[b]
      /\ UNCHANGED <<current, job, opMutex, result>>
      /\ \A q \in Trees \ {p} : live'[q] = live[q] /\ backup'[a][q] = backup[a][q]
      /\ live'[p] = backup[a][p] /\ backup'[a][p] = None
  BY DEF Restores, ApplAt, VInv, RInv, IInv, TypeOK
<1>2. opMutex = a
  BY <1>1 DEF VInv, RInv, IInv, MutexHeld
<1>3. \A b \in Appliers \ {a} : Kept(b)'
  BY <1>1, <1>2, OthersKept DEF Steady
<1>4. Kept(a)
  BY DEF VInv
<1>5. backup[a][p] # None /\ job[a].previous # None
  BY <1>1, <1>4 DEF Kept, AtRisk, AfterUndo, RestoreAt, RestoredPc, TornPc
<1>6. Kept(a)'
  <2>1. ASSUME NEW q \in Trees
        PROVE  /\ applPc'[a] \notin BeforeOut(q) \cup {InAt[q]}
               /\ AtRisk(a, q)' => backup'[a][q] # None
               /\ applPc'[a] \in AfterUndo(q) /\ ~job'[a].torn =>
                     /\ q \in job'[a].moved => backup'[a][q] = None
                     /\ q \in job'[a].placed => q \in job'[a].moved
    <3>1. CASE q = p
      BY <1>1, <3>1 DEF AtRisk, AfterUndo, BeforeOut, InAt, AfterRestore, RestoredPc, TornPc
    <3>2. CASE q # p
      BY <1>1, <1>4, <3>2 DEF Kept, AtRisk, AfterUndo, BeforeOut, InAt, RestoreAt, AfterRestore,
         RestoredPc, TornPc
    <3> QED
      BY <3>1, <3>2
  <2>2. job'[a].torn => CanFail' \/ ~ (job'[a].placed \subseteq job'[a].moved)
    BY <1>1, <1>4 DEF Kept, CanFail
  <2>3. applPc'[a] \notin TornPc \cup BeforeRead \cup EndPc \cup {"minted", "token", "lock"}
    BY <1>1 DEF AfterRestore, TornPc, BeforeRead, EndPc
  <2> QED
    BY <1>1, <1>5, <2>1, <2>2, <2>3 DEF Kept
<1>7. Found(a)' = Found(a)
  <2>1. FoundTree(a, p)' = FoundTree(a, p)
    BY <1>1, <1>5 DEF FoundTree
  <2>2. \A q \in Trees \ {p} : FoundTree(a, q)' = FoundTree(a, q)
    BY <1>1 DEF FoundTree
  <2> QED
    BY <1>1, <1>5, <2>1, <2>2 DEF Found
<1>8. Shows
  BY <1>1, <1>2, <1>7, Unseen DEF Restores, EndPc, SuccessPc, RestoredPc, RestoreAt, AfterRestore
<1> QED
  BY <1>3, <1>6, <1>8

LEMMA RestoreFailsShows ==
    ASSUME VInv, NEW a \in Appliers, NEW p \in Trees, RestoreFails(a, p)
    PROVE  Shows /\ \A b \in Appliers : Kept(b)'
<1> USE DEF Trees
<1>1. /\ applPc[a] = RestoreAt[p] /\ applPc'[a] = AfterRestore[p] /\ p \in job[a].moved
      /\ \A b \in Appliers \ {a} : applPc'[b] = applPc[b] /\ job'[b] = job[b]
      /\ UNCHANGED <<current, backup, opMutex, result>>
      /\ \A q \in Trees \ {p} : live'[q] = live[q]
      /\ job'[a].previous = job[a].previous /\ job'[a].moved = job[a].moved
      /\ job'[a].placed = job[a].placed /\ job'[a].torn = TRUE
      /\ "io" \in Faults
  BY DEF RestoreFails, ApplAt, VInv, RInv, IInv, TypeOK, Jobs
<1>2. opMutex = a
  BY <1>1 DEF VInv, RInv, IInv, MutexHeld
<1>3. \A b \in Appliers \ {a} : Kept(b)'
  BY <1>1, <1>2, OthersKept DEF Steady
<1>4. Kept(a)
  BY DEF VInv
<1>5. backup[a][p] # None /\ job[a].previous # None
  BY <1>1, <1>4 DEF Kept, AtRisk, AfterUndo, RestoreAt, RestoredPc, TornPc
<1>6. Kept(a)'
  <2>1. ASSUME NEW q \in Trees
        PROVE  /\ applPc'[a] \notin BeforeOut(q) \cup {InAt[q]}
               /\ AtRisk(a, q)' => backup'[a][q] # None
    BY <1>1, <1>4 DEF Kept, AtRisk, AfterUndo, BeforeOut, InAt, RestoreAt, AfterRestore,
       RestoredPc, TornPc
  <2>2. CanFail'
    BY <1>1 DEF CanFail
  <2>3. applPc'[a] \notin TornPc \cup BeforeRead \cup EndPc \cup {"minted", "token", "lock"}
    BY <1>1 DEF AfterRestore, TornPc, BeforeRead, EndPc
  <2> QED
    BY <1>1, <1>5, <2>1, <2>2, <2>3 DEF Kept
<1>7. Found(a)' = Found(a)
  BY <1>1, <1>5 DEF Found, FoundTree
<1>8. Shows
  BY <1>1, <1>2, <1>7, Unseen DEF RestoreFails, EndPc, SuccessPc, RestoredPc, RestoreAt,
     AfterRestore
<1> QED
  BY <1>3, <1>6, <1>8

\* A helper may have nothing to restore because it never had the installation.
LEMMA NothingShows ==
    ASSUME VInv, NEW a \in Appliers, NEW p \in Trees, NothingToRestore(a, p)
    PROVE  Shows /\ \A b \in Appliers : Kept(b)'
<1> USE DEF Trees
<1>0. job \in [Appliers -> Jobs]
  BY DEF VInv, RInv, IInv, TypeOK
<1>1. /\ applPc[a] = RestoreAt[p] /\ applPc'[a] = AfterRestore[p] /\ p \notin job[a].moved
      /\ \A b \in Appliers \ {a} : applPc'[b] = applPc[b] /\ job'[b] = job[b]
      /\ UNCHANGED <<live, current, backup, opMutex, result>>
      /\ job'[a].previous = job[a].previous /\ job'[a].moved = job[a].moved
      /\ job'[a].placed = job[a].placed
  BY <1>0 DEF NothingToRestore, ApplAt, VInv, RInv, IInv, TypeOK, Jobs, installVars
<1>2. job'[a].torn <=> job[a].torn \/ p \in job[a].placed
  <2>1. job'[a].torn = (job[a].torn \/ p \in job[a].placed)
    BY <1>0 DEF NothingToRestore, Jobs
  <2> QED
    BY <2>1
<1>3. \A b \in Appliers \ {a} : Kept(b)'
  BY <1>1, OthersKept DEF Steady
<1>4. Kept(a)
  BY DEF VInv
<1>5. Kept(a)'
  <2>1. ASSUME NEW q \in Trees
        PROVE  /\ applPc'[a] \notin BeforeOut(q) \cup {InAt[q]}
               /\ AtRisk(a, q)' => backup'[a][q] # None
               /\ applPc'[a] \in AfterUndo(q) /\ ~job'[a].torn =>
                     /\ q \in job'[a].moved => backup'[a][q] = None
                     /\ q \in job'[a].placed => q \in job'[a].moved
    <3>1. CASE q = p
      BY <1>1, <1>2, <3>1 DEF AtRisk, AfterUndo, BeforeOut, InAt, AfterRestore, RestoredPc, TornPc
    <3>2. CASE q # p
      BY <1>1, <1>2, <1>4, <3>2 DEF Kept, AtRisk, AfterUndo, BeforeOut, InAt, RestoreAt,
         AfterRestore, RestoredPc, TornPc
    <3> QED
      BY <3>1, <3>2
  <2>2. job'[a].torn => CanFail' \/ ~ (job'[a].placed \subseteq job'[a].moved)
    BY <1>1, <1>2, <1>4 DEF Kept, CanFail
  <2>3. applPc'[a] \notin TornPc \cup BeforeRead \cup EndPc \cup {"minted", "token", "lock"}
    BY <1>1 DEF AfterRestore, TornPc, BeforeRead, EndPc
  <2>4. applPc'[a] \notin CutoverPc \cup ProvePc
    BY <1>1 DEF AfterRestore, CutoverPc, ProvePc
  <2> QED
    BY <1>1, <1>4, <2>1, <2>2, <2>3, <2>4 DEF Kept
<1>6. Busy' = Busy
  BY <1>1 DEF Busy
<1>7. OnDisk' = OnDisk /\ \A b \in Appliers : Found(b)' = Found(b)
  BY <1>1 DEF OnDisk, LiveIs, Found, FoundTree
<1>8. Installed' = Installed /\ Asked' = Asked /\ Decided' = Decided
  BY <1>1, <1>6, <1>7, SameView DEF EndPc, SuccessPc, RestoredPc, RestoreAt, AfterRestore
<1> QED
  BY <1>1, <1>3, <1>5, <1>6, <1>8 DEF Shows, Atomic!vars

\* The verified rollback is the undo.
LEMMA RollbackShows ==
    ASSUME VInv, NEW a \in Appliers, RestoresMetadata(a)
    PROVE  Shows /\ \A b \in Appliers : Kept(b)'
<1>1. /\ applPc[a] = "restore_metadata" /\ applPc'[a] = "report_restored"
      /\ \A b \in Appliers \ {a} : applPc'[b] = applPc[b]
      /\ UNCHANGED <<live, backup, opMutex, job, result>>
      /\ current' = job[a].previous
      /\ job[a].previous # None /\ ~ job[a].torn /\ LiveIs(job[a].previous)
  BY DEF RestoresMetadata, MayRestoreMetadata, ApplAt, VInv, RInv, IInv, TypeOK
<1>2. opMutex = a
  BY <1>1 DEF VInv, RInv, IInv, MutexHeld
<1>3. \A b \in Appliers \ {a} : Kept(b)'
  BY <1>1, OthersKept DEF Steady
<1>4. Kept(a)
  BY DEF VInv
<1>5. Kept(a)'
  BY <1>1, <1>4 DEF Kept, AtRisk, AfterUndo, BeforeOut, InAt, Trees, RestoredPc, TornPc,
     CutoverPc, ProvePc, EndPc, CanFail, BeforeRead
<1>6. Busy = a /\ Busy' = a /\ a # Nobody
  BY <1>1, <1>2, HolderAssumption DEF Busy
<1>7. ~ Decided /\ Decided' = TRUE
  BY <1>1, <1>6 DEF Decided, SuccessPc, RestoredPc
<1>8. Asked' = Asked
  BY <1>1, <1>2 DEF Asked, EndPc
<1>9. Installed = job[a].previous
  <2>1. \A p \in Trees : FoundTree(a, p) = live[p]
    BY <1>1, <1>4 DEF Kept, FoundTree, AfterUndo
  <2> QED
    BY <1>1, <1>6, <1>7, <2>1 DEF Installed, Found, LiveIs
<1>10. Installed' = job[a].previous
  BY <1>1, <1>7 DEF Installed, OnDisk, LiveIs
<1>11. job[a].previous # Broken
  <2>1. job[a].previous \in MaybeGeneration
    BY DEF VInv, RInv, IInv, TypeOK, Jobs
  <2> QED
    BY <2>1, ReleaseAssumption DEF MaybeGeneration, Generations, None, Broken
<1>12. Atomic!Undo(a)
  BY <1>1, <1>6, <1>7, <1>8, <1>9, <1>10, <1>11 DEF Atomic!Undo
<1> QED
  BY <1>3, <1>5, <1>12 DEF Shows, Atomic!Next

LEMMA LeavesShows ==
    ASSUME VInv, NEW a \in Appliers, LeavesMetadata(a)
    PROVE  Shows /\ \A b \in Appliers : Kept(b)'
<1>1. /\ applPc[a] = "restore_metadata" /\ applPc'[a] = "report_torn"
      /\ \A b \in Appliers \ {a} : applPc'[b] = applPc[b]
      /\ UNCHANGED <<live, current, backup, opMutex, job, result>>
      /\ ~ MayRestoreMetadata(a) \/ CanFail
  BY DEF LeavesMetadata, ApplAt, VInv, RInv, IInv, TypeOK, installVars, CanFail
<1>2. \A b \in Appliers \ {a} : Kept(b)'
  BY <1>1, OthersKept DEF Steady
<1>3. Kept(a)'
  <2>1. Kept(a)
    BY DEF VInv
  <2>2. MayRestoreMetadata(a)' <=> MayRestoreMetadata(a)
    BY <1>1 DEF MayRestoreMetadata, LiveIs
  <2>3. CanFail' = CanFail
    BY DEF CanFail
  <2> HIDE DEF MayRestoreMetadata, CanFail
  <2> QED
    BY <1>1, <2>1, <2>2, <2>3 DEF Kept, AtRisk, AfterUndo, BeforeOut, InAt, Trees, RestoredPc,
       TornPc, CutoverPc, ProvePc, EndPc, BeforeRead
<1>4. Busy' = Busy
  BY <1>1 DEF Busy
<1>5. OnDisk' = OnDisk /\ \A b \in Appliers : Found(b)' = Found(b)
  BY <1>1 DEF OnDisk, LiveIs, Found, FoundTree
<1>6. Installed' = Installed /\ Asked' = Asked /\ Decided' = Decided
  BY <1>1, <1>4, <1>5, SameView DEF EndPc, SuccessPc, RestoredPc
<1> QED
  BY <1>1, <1>2, <1>3, <1>4, <1>6 DEF Shows, Atomic!vars

LEMMA ApplierShows ==
    ASSUME VInv, NEW a \in Appliers, ApplierStep(a) \/ ApplierCrashes(a)
    PROVE  Shows /\ \A b \in Appliers : Kept(b)'
<1>1. CASE \E p \in Trees : MovesOut(a, p) \/ MovesIn(a, p)
  BY <1>1, MoveOutShows, MoveInShows
<1>2. CASE \E p \in Trees : Restores(a, p) \/ RestoreFails(a, p) \/ NothingToRestore(a, p)
  BY <1>2, RestoreShows, RestoreFailsShows, NothingShows
<1>3. CASE TakesLock(a) \/ TakesSnapshot(a) \/ WritesCurrent(a) \/ ReportsSuccess(a)
  BY <1>3, LockShows, SnapshotShows, CurrentShows, SuccessShows
<1>4. CASE StopsPeers(a) \/ RestoresMetadata(a) \/ LeavesMetadata(a)
  BY <1>4, StopShows, RollbackShows, LeavesShows
<1>5. CASE \/ Housekeeps(a) \/ (\E h \in Hosts : RestartsPrevious(a, h)) \/ RetainsHandoff(a)
           \/ RollbackThrows(a) \/ ApplierCrashes(a)
  BY <1>5, HelperEnds
<1> QED
  BY <1>1, <1>2, <1>3, <1>4, <1>5, HelperOnItsWay DEF ApplierStep

-----------------------------------------------------------------------------
(* The theorem                                                               *)

\* A freshly bootstrapped product is an installation nobody works on.
LEMMA InitShows == Init => VInv /\ Atomic!Init
<1> SUFFICES ASSUME Init PROVE VInv /\ Atomic!Init
  OBVIOUS
<1>1. RInv
  BY InitR
<1>2. \A a \in Appliers : Kept(a)
  BY HolderAssumption DEF Init, Kept, NoJob, AtRisk, AfterUndo, BeforeOut, InAt, Trees,
     RestoredPc, TornPc, CutoverPc, ProvePc, EndPc
<1>3. 0 \in Generations
  BY ReleaseAssumption DEF Generations
<1>4. Busy = Nobody
  BY HolderAssumption DEF Init, Busy
<1>5. Decided = FALSE /\ Asked = {}
  BY <1>4 DEF Init, Decided, Asked, EndPc
<1>6. Installed = 0
  BY <1>4 DEF Init, Installed, OnDisk, LiveIs
<1>7. result.status = "none"
  BY DEF Init, NoResult
<1> QED
  BY <1>1, <1>2, <1>3, <1>4, <1>5, <1>6, <1>7 DEF VInv, Atomic!Init

\* Every step shows as a step of an update, or not at all.
LEMMA StepShows == VInv /\ [Next]_vars => VInv' /\ [Atomic!Next]_(Atomic!vars)
<1> SUFFICES ASSUME VInv, [Next]_vars PROVE VInv' /\ Shows
  BY DEF Shows
<1>1. RInv'
  BY StepR DEF VInv
<1>2. CASE Publish \/ (\E r \in Releases : CooldownElapses(r)) \/ AgentSpawned \/ AgentStep
  BY <1>1, <1>2, AgentShows DEF VInv
<1>3. CASE \E h \in Hosts : HostStep(h) \/ OperatorStep(h) \/ HostCrashes(h)
  BY <1>1, <1>3, HostShows DEF VInv
<1>4. CASE \E a \in Appliers : ApplierStep(a) \/ ApplierCrashes(a)
  BY <1>1, <1>4, ApplierShows DEF VInv
<1>5. CASE UNCHANGED vars
  <2>1. /\ UNCHANGED <<live, backup, current, opMutex, result>>
        /\ \A b \in Appliers : Steady(b)
    BY <1>5 DEF vars, Steady
  <2>2. Shows /\ \A b \in Appliers : Kept(b)'
    BY <2>1, OutsideKeeps
  <2> QED
    BY <1>1, <2>2 DEF VInv
<1> QED
  BY <1>2, <1>3, <1>4, <1>5 DEF Next

\* The update, with all its files, processes, faults and kills, is an update as its
\* operator sees it: one helper at a time works on the installation, a new generation
\* shows in the step that reports it, a rollback shows nothing, and what breaks an
\* installation is a fault or another helper that stops everything.
THEOREM Implementation == Spec => AtomicSpec
<1>1. Init => VInv /\ Atomic!Init
  BY InitShows
<1>2. VInv /\ [Next]_vars => VInv' /\ [Atomic!Next]_(Atomic!vars)
  BY StepShows
<1> QED
  BY <1>1, <1>2, PTL DEF Spec, AtomicSpec, Atomic!Spec
=============================================================================
