------------------------- MODULE RecoverabilityProofs -------------------------
(***************************************************************************)
(* GenerationRecoverable, proved for every set of hosts and helpers, every  *)
(* number of releases and every choice of faults: whatever dies, and        *)
(* whichever delete, move or restore fails, one complete generation is on   *)
(* disk.                                                                    *)
(***************************************************************************)
EXTENDS ProductUpdateProofs

-----------------------------------------------------------------------------
(* The inductive invariant                                                   *)

\* Where a helper is before it has moved tree p out.
BeforeOut(p) ==
    {"off", "minted", "token", "lock", "read", "snapshot", "out_desktop"}
        \cup (IF p = "runtime" THEN {"in_desktop", "out_runtime"} ELSE {})

\* Where its catch block is when it has dealt with tree p.
AfterUndo(p) ==
    {"restore_metadata"} \cup RestoredPc \cup TornPc
        \cup (IF p = "desktop" THEN {"restore_runtime"} ELSE {})

\* A helper that moved tree p out may still replace what is in its place.
AtRisk(a, p) == p \in job[a].moved /\ applPc[a] \notin AfterUndo(p)

\* A rollback root holds nothing before the tree is moved there.
Fresh == \A a \in Appliers : \A p \in Trees : applPc[a] \in BeforeOut(p) => backup[a][p] = None

\* A tree is put in place of nothing.
Gap == \A a \in Appliers : \A p \in Trees : applPc[a] = InAt[p] => live[p] = None

\* One generation is complete in live trees that nobody may replace any more and in
\* rollback roots.
Safe ==
    \E g \in Generations : \A p \in Trees :
        \/ live[p] = g /\ \A a \in Appliers : ~ AtRisk(a, p)
        \/ \E a \in Appliers : backup[a][p] = g

RInv == IInv /\ Fresh /\ Gap /\ Safe

-----------------------------------------------------------------------------
\* A step that leaves trees and rollback roots alone, and puts nothing at risk that
\* was not, keeps the invariant.
LEMMA QuietStep ==
    ASSUME Fresh, Gap, Safe, UNCHANGED <<live, backup>>,
           \A a \in Appliers : \A p \in Trees :
              /\ AtRisk(a, p)' => AtRisk(a, p)
              /\ applPc'[a] \in BeforeOut(p) => applPc[a] \in BeforeOut(p)
              /\ applPc'[a] = InAt[p] => applPc[a] = InAt[p]
    PROVE  Fresh' /\ Gap' /\ Safe'
<1>1. Fresh'
  BY DEF Fresh
<1>2. Gap'
  BY DEF Gap
<1>3. Safe'
  BY DEF Safe
<1> QED
  BY <1>1, <1>2, <1>3

\* A helper that stays where it is and knows what it knew, or that ends, or that is
\* only now started, is no risk to anything.
LEMMA SameRisk ==
    ASSUME Fresh, Gap, Safe, UNCHANGED <<live, backup>>,
           \A a \in Appliers :
              \/ applPc'[a] = applPc[a] /\ job'[a].moved = job[a].moved
              \/ applPc'[a] \in EndPc \ {"off"} /\ job'[a] = NoJob
              \/ /\ job'[a].moved = job[a].moved
                 /\ \/ applPc[a] = "off" /\ applPc'[a] = "minted"
                    \/ applPc[a] = "minted" /\ applPc'[a] = "token"
    PROVE  Fresh' /\ Gap' /\ Safe'
<1>1. ASSUME NEW a \in Appliers, NEW p \in Trees
      PROVE  /\ AtRisk(a, p)' => AtRisk(a, p)
             /\ applPc'[a] \in BeforeOut(p) => applPc[a] \in BeforeOut(p)
             /\ applPc'[a] = InAt[p] => applPc[a] = InAt[p]
  <2>1. CASE applPc'[a] = applPc[a] /\ job'[a].moved = job[a].moved
    BY <2>1 DEF AtRisk
  <2>2. CASE applPc'[a] \in EndPc \ {"off"} /\ job'[a] = NoJob
    BY <2>2, NoJobTyped DEF AtRisk, EndPc, BeforeOut, InAt, Trees
  <2>3. CASE /\ job'[a].moved = job[a].moved
             /\ \/ applPc[a] = "off" /\ applPc'[a] = "minted"
                \/ applPc[a] = "minted" /\ applPc'[a] = "token"
    BY <2>3 DEF AtRisk, BeforeOut, AfterUndo, RestoredPc, TornPc, InAt, Trees
  <2> QED
    BY <2>1, <2>2, <2>3
<1> QED
  BY <1>1, QuietStep

-----------------------------------------------------------------------------
(* Releases, the clock, the agent and the hosts                              *)

\* None of them knows the trees.
LEMMA AgentSafe ==
    ASSUME RInv,
      Publish \/ (\E r \in Releases : CooldownElapses(r)) \/ AgentSpawned \/ AgentStep
    PROVE  Fresh' /\ Gap' /\ Safe'
<1>1. UNCHANGED <<live, backup, applPc, job>>
  BY DEF Publish, CooldownElapses, AgentSpawned, AgentStep, AgentFindsNothing,
     AgentAcquires, AgentExtractsDesktop, AgentExtractsRuntime, AgentRebuildsHelper,
     AgentHitsLockedHelper, AgentPublishesPending, AgentReturns, AgentAborts, AgentOnly,
     installVars
<1> QED
  BY <1>1, SameRisk DEF RInv

\* A host starts helpers and takes those down that it never started, and ends; what
\* happens to the trees is not its business.
LEMMA HostSafe ==
    ASSUME RInv, NEW h \in Hosts, HostStep(h) \/ OperatorStep(h) \/ HostCrashes(h)
    PROVE  Fresh' /\ Gap' /\ Safe'
<1> DEFINE Same(a) == applPc'[a] = applPc[a] /\ job'[a].moved = job[a].moved
<1> USE DEF installVars
<1>0. job \in [Appliers -> Jobs] /\ applPc \in [Appliers -> ApplierSteps]
  BY DEF RInv, IInv, TypeOK
<1>1. CASE PassesGate(h) \/ TakesSession(h) \/ WaitsForSession(h) \/ ShowsPreviousResult(h)
           \/ ServesRuntime(h) \/ StartupFails(h) \/ ReconcilesPending(h) \/ ConsentFails(h)
           \/ OperatorStep(h)
  <2>1. UNCHANGED <<live, backup, applPc, job>>
    BY <1>1 DEF PassesGate, TakesSession, WaitsForSession, ShowsPreviousResult, ServesRuntime,
       StartupFails, ReconcilesPending, ConsentFails, OperatorStep, UserLaunches, OpensPrompt,
       Declines, Consents, Closes, GateOnly
  <2> QED
    BY <2>1, SameRisk DEF RInv
<1>2. CASE RefusedAtGate(h) \/ YieldsToSession(h) \/ WaitTimesOut(h) \/ Exits(h)
  <2>1. HostEnds(h) /\ UNCHANGED <<live, backup, applPc>>
    BY <1>2 DEF RefusedAtGate, YieldsToSession, WaitTimesOut, Exits, GateOnly
  <2>2. \A a \in Appliers : Same(a)
    BY <1>0, <2>1, HostEndsKeeps
  <2> QED
    BY <2>1, <2>2, SameRisk DEF RInv
<1>3. ASSUME NEW a \in Appliers, BeginsHandoff(h, a)
      PROVE  Fresh' /\ Gap' /\ Safe'
  <2>1. UNCHANGED <<live, backup>>
    BY <1>3 DEF BeginsHandoff
  <2>2. applPc[a] = "off" /\ applPc'[a] = "minted" /\ job'[a].moved = job[a].moved
    BY <1>0, <1>3 DEF BeginsHandoff, Jobs
  <2>3. \A b \in Appliers \ {a} : Same(b)
    BY <1>0, <1>3 DEF BeginsHandoff
  <2> QED
    BY <2>1, <2>2, <2>3, SameRisk DEF RInv
<1>4. ASSUME NEW a \in Appliers, StartsHelper(h, a)
      PROVE  Fresh' /\ Gap' /\ Safe'
  <2>1. UNCHANGED <<live, backup, job>>
    BY <1>4 DEF StartsHelper
  <2>2. applPc[a] = "minted" /\ applPc'[a] = "token" /\ \A b \in Appliers \ {a} : Same(b)
    BY <1>0, <1>4, <2>1 DEF StartsHelper
  <2> QED
    BY <2>1, <2>2, SameRisk DEF RInv
<1>5. ASSUME NEW a \in Appliers, HelperStartFails(h, a)
      PROVE  Fresh' /\ Gap' /\ Safe'
  <2>1. UNCHANGED <<live, backup>>
    BY <1>5 DEF HelperStartFails
  <2>2. applPc'[a] = "dead" /\ job'[a] = NoJob /\ \A b \in Appliers \ {a} : Same(b)
    BY <1>0, <1>5 DEF HelperStartFails
  <2> QED
    BY <2>1, <2>2, SameRisk DEF RInv, EndPc
<1>6. CASE HostCrashes(h)
  <2>1. UNCHANGED <<live, backup>>
    BY <1>6 DEF HostCrashes
  <2>2. \A b \in Appliers : Same(b) \/ (applPc'[b] = "dead" /\ job'[b] = NoJob)
    <3> DEFINE lost == {a \in Appliers : applPc[a] = "minted" /\ job[a].parent = h}
    <3>1. /\ job' = JobsWithout({h}, lost)
          /\ applPc' = [a \in Appliers |-> IF a \in lost THEN "dead" ELSE applPc[a]]
      BY <1>6 DEF HostCrashes
    <3>2. lost \subseteq Appliers
      OBVIOUS
    <3> HIDE DEF lost
    <3>3. /\ \A b \in lost : job'[b] = NoJob
          /\ \A b \in Appliers \ lost : job'[b].moved = job[b].moved
      BY <1>0, <3>1, <3>2, JobsWithoutKeeps
    <3> QED
      BY <1>0, <3>1, <3>2, <3>3
  <2> QED
    BY <2>1, <2>2, SameRisk DEF RInv, EndPc
<1> QED
  BY <1>1, <1>2, <1>3, <1>4, <1>5, <1>6 DEF HostStep

-----------------------------------------------------------------------------
(* The helper                                                                *)

\* Nobody else moved a tree out, and nobody else works on the trees, while a helper
\* that did so, or is in its cutover, is at work.
LEMMA OnlyOne ==
    ASSUME IInv, NEW a \in Appliers, job[a].moved # {} \/ applPc[a] \in LockedPc,
           NEW b \in Appliers \ {a}
    PROVE  job[b].moved = {} /\ applPc[b] \notin LockedPc
  BY DEF IInv, MutexHeld

\* A step of a helper on its way, that leaves the trees alone.
LEMMA MovesOn ==
    ASSUME RInv, NEW a \in Appliers, NEW from, NEW to, ApplAt(a, from, to),
           UNCHANGED <<live, backup>>,
           \A b \in Appliers : job'[b].moved = job[b].moved,
           \A p \in Trees :
              /\ from \in AfterUndo(p) => to \in AfterUndo(p)
              /\ to \in BeforeOut(p) => from \in BeforeOut(p)
              /\ to = InAt[p] => from = InAt[p]
    PROVE  Fresh' /\ Gap' /\ Safe'
<1>1. applPc[a] = from /\ applPc'[a] = to /\ \A b \in Appliers \ {a} : applPc'[b] = applPc[b]
  BY DEF RInv, IInv, TypeOK, ApplAt
<1>2. ASSUME NEW b \in Appliers, NEW p \in Trees
      PROVE  /\ AtRisk(b, p)' => AtRisk(b, p)
             /\ applPc'[b] \in BeforeOut(p) => applPc[b] \in BeforeOut(p)
             /\ applPc'[b] = InAt[p] => applPc[b] = InAt[p]
  <2>1. CASE b = a
    BY <1>1, <2>1 DEF AtRisk
  <2>2. CASE b # a
    BY <1>1, <2>2 DEF AtRisk
  <2> QED
    BY <2>1, <2>2
<1> QED
  BY <1>2, QuietStep DEF RInv

\* The end of a helper.
LEMMA EndsSafe ==
    ASSUME RInv, NEW a \in Appliers, NEW how \in {"done", "dead"}, Ends(a, how),
           UNCHANGED <<live, backup>>
    PROVE  Fresh' /\ Gap' /\ Safe'
<1>1. /\ applPc'[a] = how /\ job'[a] = NoJob
      /\ \A b \in Appliers \ {a} : applPc'[b] = applPc[b] /\ job'[b].moved = job[b].moved
  BY DEF RInv, IInv, TypeOK, Ends
<1> QED
  BY <1>1, SameRisk DEF RInv, EndPc

\* The steps between the moves leave the trees alone.
LEMMA HelperMovesOn ==
    ASSUME RInv, NEW a \in Appliers,
           \/ ChecksToken(a) \/ TakesLock(a) \/ LockTimesOut(a) \/ ReadsAccepted(a)
           \/ TakesSnapshot(a) \/ WritesCurrent(a) \/ ProvesRestart(a) \/ RestartUnproved(a)
           \/ FileOperationFails(a) \/ ReportsSuccess(a) \/ CleansUp(a) \/ ClearsHandoff(a)
           \/ (\E h \in Hosts : RestartsTarget(a, h))
           \/ (\E p \in Trees : NothingToRestore(a, p))
           \/ RestoresMetadata(a) \/ LeavesMetadata(a) \/ ReportsFailure(a) \/ DiscardsConsent(a)
    PROVE  Fresh' /\ Gap' /\ Safe'
<1> DEFINE Known == \A b \in Appliers : job'[b].moved = job[b].moved
           Way(from, to) == \A p \in Trees :
              /\ from \in AfterUndo(p) => to \in AfterUndo(p)
              /\ to \in BeforeOut(p) => from \in BeforeOut(p)
              /\ to = InAt[p] => from = InAt[p]
           Steady == UNCHANGED <<live, backup>> /\ Known
<1>0. job \in [Appliers -> Jobs]
  BY DEF RInv, IInv, TypeOK
<1>1. ASSUME NEW from, NEW to, ApplAt(a, from, to), Way(from, to), Steady
      PROVE  Fresh' /\ Gap' /\ Safe'
  BY <1>1, MovesOn
<1> USE DEF installVars, BeforeOut, AfterUndo, InAt, Trees, RestoredPc, TornPc
<1>2. CASE TakesLock(a)
  <2>1. ApplAt(a, "lock", "read") /\ Steady
    BY <1>2 DEF TakesLock
  <2> QED
    BY <2>1, <1>1
<1>3. CASE LockTimesOut(a)
  <2>1. ApplAt(a, "lock", "stop_peers") /\ Steady
    BY <1>3 DEF LockTimesOut
  <2> QED
    BY <2>1, <1>1
<1>4. CASE WritesCurrent(a)
  <2>1. ApplAt(a, "metadata", "restart") /\ Steady
    BY <1>4 DEF WritesCurrent
  <2> QED
    BY <2>1, <1>1
<1>5. CASE ProvesRestart(a)
  <2>1. ApplAt(a, "verify", "report_success") /\ Steady
    BY <1>5 DEF ProvesRestart
  <2> QED
    BY <2>1, <1>1
<1>6. CASE RestartUnproved(a)
  <2>1. ApplAt(a, "verify", "stop_peers") /\ Steady
    BY <1>6 DEF RestartUnproved
  <2> QED
    BY <2>1, <1>1
<1>7. CASE ReportsSuccess(a)
  <2>1. ApplAt(a, "report_success", "cleanup") /\ Steady
    BY <1>7 DEF ReportsSuccess
  <2> QED
    BY <2>1, <1>1
<1>8. CASE CleansUp(a)
  <2>1. ApplAt(a, "cleanup", "clear_success") /\ Steady
    BY <1>8 DEF CleansUp
  <2> QED
    BY <2>1, <1>1
<1>9. CASE RestoresMetadata(a)
  <2>1. ApplAt(a, "restore_metadata", "report_restored") /\ Steady
    BY <1>9 DEF RestoresMetadata
  <2> QED
    BY <2>1, <1>1
<1>10. CASE LeavesMetadata(a)
  <2>1. ApplAt(a, "restore_metadata", "report_torn") /\ Steady
    BY <1>10 DEF LeavesMetadata
  <2> QED
    BY <2>1, <1>1
<1>11. CASE DiscardsConsent(a)
  <2>1. ApplAt(a, "discard", "clear_restored") /\ Steady
    BY <1>11 DEF DiscardsConsent
  <2> QED
    BY <2>1, <1>1
<1>12. CASE ChecksToken(a)
  <2>1. ApplAt(a, "token", "lock") \/ ApplAt(a, "token", "stop_peers")
    BY <1>12 DEF ChecksToken
  <2>2. Steady
    BY <1>12 DEF ChecksToken
  <2> QED
    BY <2>1, <2>2, <1>1
<1>13. CASE ReadsAccepted(a)
  <2>1. ApplAt(a, "read", "snapshot") \/ ApplAt(a, "read", "stop_peers")
    BY <1>13 DEF ReadsAccepted
  <2>2. Steady
    BY <1>0, <1>13 DEF ReadsAccepted, Jobs
  <2> QED
    BY <2>1, <2>2, <1>1
<1>14. CASE TakesSnapshot(a)
  <2>1. ApplAt(a, "snapshot", "out_desktop") /\ Steady
    BY <1>0, <1>14 DEF TakesSnapshot, Jobs
  <2> QED
    BY <2>1, <1>1
<1>15. CASE FileOperationFails(a)
  <2>1. PICK s \in CutoverPc \cup {"snapshot", "metadata", "restart", "report_success"} :
            ApplAt(a, s, "stop_peers")
    BY <1>15 DEF FileOperationFails
  <2>2. Steady
    BY <1>15 DEF FileOperationFails
  <2> QED
    BY <2>1, <2>2, <1>1 DEF CutoverPc
<1>16. CASE ClearsHandoff(a)
  <2>1. ApplAt(a, "clear_success", "housekeep") \/ ApplAt(a, "clear_restored", "restart_previous")
    BY <1>16 DEF ClearsHandoff
  <2>2. Steady
    BY <1>16 DEF ClearsHandoff
  <2> QED
    BY <2>1, <2>2, <1>1
<1>17. CASE ReportsFailure(a)
  <2>1. ApplAt(a, "report_restored", "discard") \/ ApplAt(a, "report_torn", "give_up")
    BY <1>17 DEF ReportsFailure
  <2>2. Steady
    BY <1>17 DEF ReportsFailure
  <2> QED
    BY <2>1, <2>2, <1>1
<1>18. ASSUME NEW h \in Hosts, RestartsTarget(a, h)
      PROVE  Fresh' /\ Gap' /\ Safe'
  <2>1. ApplAt(a, "restart", "verify") /\ Steady
    BY <1>0, <1>18 DEF RestartsTarget, Jobs
  <2> QED
    BY <2>1, <1>1
<1>19. ASSUME NEW p \in Trees, NothingToRestore(a, p)
      PROVE  Fresh' /\ Gap' /\ Safe'
  <2>1. \/ ApplAt(a, "restore_desktop", "restore_runtime")
        \/ ApplAt(a, "restore_runtime", "restore_metadata")
    BY <1>19 DEF NothingToRestore, RestoreAt, AfterRestore
  <2>2. Steady
    BY <1>0, <1>19 DEF NothingToRestore, Jobs
  <2> QED
    BY <2>1, <2>2, <1>1
<1> QED
  BY <1>2, <1>3, <1>4, <1>5, <1>6, <1>7, <1>8, <1>9, <1>10, <1>11, <1>12, <1>13, <1>14, <1>15, <1>16, <1>17, <1>18, <1>19

\* A tree that is moved out is in the rollback root, where nothing was before.
LEMMA MovesOutSafe ==
    ASSUME RInv, NEW a \in Appliers, NEW p \in Trees, MovesOut(a, p)
    PROVE  Fresh' /\ Gap' /\ Safe'
<1> USE DEF Trees
<1>1. /\ applPc[a] = OutAt[p] /\ applPc'[a] = InAt[p]
      /\ \A b \in Appliers \ {a} : applPc'[b] = applPc[b]
  BY DEF MovesOut, ApplAt, RInv, IInv, TypeOK
<1>2. \A b \in Appliers \ {a} : applPc[b] \notin LockedPc /\ job[b].moved = {}
  BY <1>1, OnlyOne DEF RInv, OutAt, LockedPc, CutoverPc
<1>3. CASE live[p] = None
  <2>1. UNCHANGED <<live, backup, job>>
    BY <1>3 DEF MovesOut
  <2>2. Fresh' /\ Safe'
    BY <1>1, <2>1 DEF RInv, Fresh, Safe, AtRisk, BeforeOut, AfterUndo, RestoredPc, TornPc,
       OutAt, InAt
  <2>3. Gap'
    BY <1>1, <1>3, <2>1 DEF RInv, Gap, OutAt, InAt
  <2> QED
    BY <2>2, <2>3
<1>4. CASE live[p] # None
  <2>1. /\ live' = [live EXCEPT ![p] = None] /\ backup' = [backup EXCEPT ![a][p] = live[p]]
        /\ job' = [job EXCEPT ![a].moved = @ \cup {p}]
    BY <1>4 DEF MovesOut
  <2>2. /\ live \in [Trees -> TreeContent] /\ backup \in [Appliers -> [Trees -> TreeContent]]
        /\ job \in [Appliers -> Jobs]
    BY DEF RInv, IInv, TypeOK
  <2>3. /\ live'[p] = None /\ \A q \in Trees \ {p} : live'[q] = live[q]
        /\ backup'[a][p] = live[p] /\ backup[a][p] = None
        /\ \A q \in Trees \ {p} : backup'[a][q] = backup[a][q]
        /\ \A b \in Appliers \ {a} : backup'[b] = backup[b]
        /\ job'[a].moved = job[a].moved \cup {p}
        /\ \A b \in Appliers \ {a} : job'[b].moved = job[b].moved
    BY <1>1, <2>1, <2>2 DEF RInv, Fresh, BeforeOut, OutAt, Jobs
  <2>4. Fresh'
    BY <1>1, <2>3 DEF RInv, Fresh, BeforeOut, OutAt, InAt
  <2>5. Gap'
    BY <1>1, <1>2, <2>3 DEF RInv, Gap, OutAt, InAt, LockedPc, CutoverPc
  <2>6. Safe'
    <3>1. PICK g \in Generations : \A q \in Trees :
              \/ live[q] = g /\ \A b \in Appliers : ~ AtRisk(b, q)
              \/ \E b \in Appliers : backup[b][q] = g
      BY DEF RInv, Safe
    <3>2. \E b \in Appliers : backup'[b][p] = g
      BY <2>3, <3>1, Numbers
    <3>3. ASSUME NEW q \in Trees \ {p}
          PROVE  \/ live'[q] = g /\ \A b \in Appliers : ~ AtRisk(b, q)'
                 \/ \E b \in Appliers : backup'[b][q] = g
      <4>1. \A b \in Appliers : AtRisk(b, q)' => AtRisk(b, q)
        BY <1>1, <2>3 DEF AtRisk, AfterUndo, RestoredPc, TornPc, OutAt
      <4> QED
        BY <2>3, <3>1, <4>1
    <3> QED
      BY <3>2, <3>3 DEF Safe
  <2> QED
    BY <2>4, <2>5, <2>6
<1> QED
  BY <1>3, <1>4

\* What is put in place replaces nothing.
LEMMA MovesInSafe ==
    ASSUME RInv, NEW a \in Appliers, NEW p \in Trees, MovesIn(a, p)
    PROVE  Fresh' /\ Gap' /\ Safe'
<1> USE DEF Trees
<1>1. /\ applPc[a] = InAt[p] /\ applPc'[a] = AfterIn[p]
      /\ \A b \in Appliers \ {a} : applPc'[b] = applPc[b]
  BY DEF MovesIn, ApplAt, RInv, IInv, TypeOK
<1>2. \A b \in Appliers \ {a} : applPc[b] \notin LockedPc /\ job[b].moved = {}
  BY <1>1, OnlyOne DEF RInv, InAt, LockedPc, CutoverPc
<1>3. live[p] = None /\ \A q \in Trees \ {p} : live'[q] = live[q]
  BY <1>1 DEF MovesIn, RInv, Gap, IInv, TypeOK
<1>4. backup' = backup /\ \A b \in Appliers : job'[b].moved = job[b].moved
  BY DEF MovesIn, RInv, IInv, TypeOK, Jobs
<1>5. Fresh'
  BY <1>1, <1>4 DEF RInv, Fresh, BeforeOut, InAt, AfterIn
<1>6. Gap'
  BY <1>1, <1>2, <1>3 DEF RInv, Gap, InAt, AfterIn, LockedPc, CutoverPc
<1>7. \A b \in Appliers : \A q \in Trees : AtRisk(b, q)' => AtRisk(b, q)
  BY <1>1, <1>4 DEF AtRisk, AfterUndo, RestoredPc, TornPc, InAt
<1>8. Safe'
  BY <1>3, <1>4, <1>7, Numbers DEF RInv, Safe
<1> QED
  BY <1>5, <1>6, <1>8

\* Stopping the hosts, and the helpers they had started, takes nobody's tree.
LEMMA StopsPeersSafe ==
    ASSUME RInv, NEW a \in Appliers, StopsPeers(a)
    PROVE  Fresh' /\ Gap' /\ Safe'
<1> DEFINE killed == {h \in Hosts : hostPc[h] # "off" /\ h # job[a].parent}
           fallen == {b \in Appliers : job[b].parent \in killed /\ applPc[b] \notin EndPc}
<1>0. job \in [Appliers -> Jobs]
  BY DEF RInv, IInv, TypeOK
<1>1. job' = JobsWithout(killed, fallen) /\ UNCHANGED <<live, backup>>
  BY DEF StopsPeers, installVars
<1>2. /\ applPc[a] = "stop_peers" /\ applPc'[a] = "restore_desktop"
      /\ \A b \in fallen \ {a} : applPc'[b] = "dead"
      /\ \A b \in Appliers \ fallen : b # a => applPc'[b] = applPc[b]
  BY DEF StopsPeers
<1>3. fallen \subseteq Appliers
  OBVIOUS
<1> HIDE DEF killed, fallen
<1>4. /\ \A b \in fallen : job'[b] = NoJob
      /\ \A b \in Appliers \ fallen : job'[b].moved = job[b].moved
  BY <1>0, <1>1, <1>3, JobsWithoutKeeps
<1>5. ASSUME NEW b \in Appliers, NEW p \in Trees
      PROVE  /\ AtRisk(b, p)' => AtRisk(b, p)
             /\ applPc'[b] \in BeforeOut(p) => applPc[b] \in BeforeOut(p)
             /\ applPc'[b] = InAt[p] => applPc[b] = InAt[p]
  <2> USE DEF AtRisk, BeforeOut, AfterUndo, RestoredPc, TornPc, InAt, Trees
  <2>1. CASE b = a
    BY <1>2, <1>4, <2>1, NoJobTyped
  <2>2. CASE b # a /\ b \in fallen
    BY <1>2, <1>4, <2>2, NoJobTyped
  <2>3. CASE b # a /\ b \notin fallen
    BY <1>2, <1>4, <2>3
  <2> QED
    BY <2>1, <2>2, <2>3
<1> QED
  BY <1>1, <1>5, QuietStep DEF RInv

\* What a restore deletes was not the last copy of anything, and what it puts in
\* place nobody will touch again.
LEMMA RestoresSafe ==
    ASSUME RInv, NEW a \in Appliers, NEW p \in Trees, Restores(a, p)
    PROVE  Fresh' /\ Gap' /\ Safe'
<1> USE DEF Trees
<1>1. /\ applPc[a] = RestoreAt[p] /\ applPc'[a] = AfterRestore[p] /\ p \in job[a].moved
      /\ \A b \in Appliers \ {a} : applPc'[b] = applPc[b]
  BY DEF Restores, ApplAt, RInv, IInv, TypeOK
<1>2. \A b \in Appliers \ {a} : applPc[b] \notin LockedPc /\ job[b].moved = {}
  BY <1>1, OnlyOne DEF RInv
<1>3. /\ live'[p] = backup[a][p] /\ \A q \in Trees \ {p} : live'[q] = live[q]
      /\ \A q \in Trees \ {p} : backup'[a][q] = backup[a][q]
      /\ backup'[a][p] = None /\ \A b \in Appliers \ {a} : backup'[b] = backup[b]
      /\ job' = job
  BY DEF Restores, RInv, IInv, TypeOK
<1>4. Fresh'
  BY <1>1, <1>3 DEF RInv, Fresh, BeforeOut, AfterRestore
<1>5. Gap'
  BY <1>1, <1>2, <1>3 DEF RInv, Gap, InAt, AfterRestore, LockedPc, CutoverPc
<1>6. AtRisk(a, p) /\ \A b \in Appliers : ~ AtRisk(b, p)'
  BY <1>1, <1>2, <1>3 DEF AtRisk, AfterUndo, RestoredPc, TornPc, RestoreAt, AfterRestore
<1>7. \A b \in Appliers : \A q \in Trees : AtRisk(b, q)' => AtRisk(b, q)
  BY <1>1, <1>3 DEF AtRisk, AfterUndo, RestoredPc, TornPc, RestoreAt, AfterRestore
<1>8. Safe'
  <2>1. PICK g \in Generations : \A q \in Trees :
            \/ live[q] = g /\ \A b \in Appliers : ~ AtRisk(b, q)
            \/ \E b \in Appliers : backup[b][q] = g
    BY DEF RInv, Safe
  <2>2. PICK b \in Appliers : backup[b][p] = g
    BY <1>6, <2>1
  <2>3. \/ live'[p] = g /\ \A c \in Appliers : ~ AtRisk(c, p)'
        \/ \E c \in Appliers : backup'[c][p] = g
    BY <1>3, <1>6, <2>2
  <2>4. ASSUME NEW q \in Trees \ {p}
        PROVE  \/ live'[q] = g /\ \A c \in Appliers : ~ AtRisk(c, q)'
               \/ \E c \in Appliers : backup'[c][q] = g
    BY <1>3, <1>7, <2>1
  <2> QED
    BY <2>3, <2>4 DEF Safe
<1> QED
  BY <1>4, <1>5, <1>8

\* A restore that fails may cost the live tree, and never the rollback root.
LEMMA RestoreFailsSafe ==
    ASSUME RInv, NEW a \in Appliers, NEW p \in Trees, RestoreFails(a, p)
    PROVE  Fresh' /\ Gap' /\ Safe'
<1> USE DEF Trees
<1>1. /\ applPc[a] = RestoreAt[p] /\ applPc'[a] = AfterRestore[p] /\ p \in job[a].moved
      /\ \A b \in Appliers \ {a} : applPc'[b] = applPc[b]
  BY DEF RestoreFails, ApplAt, RInv, IInv, TypeOK
<1>2. \A b \in Appliers \ {a} : applPc[b] \notin LockedPc /\ job[b].moved = {}
  BY <1>1, OnlyOne DEF RInv
<1>3. backup' = backup /\ \A q \in Trees \ {p} : live'[q] = live[q]
  BY DEF RestoreFails, RInv, IInv, TypeOK
<1>4. \A b \in Appliers : job'[b].moved = job[b].moved
  BY DEF RestoreFails, RInv, IInv, TypeOK, Jobs
<1>5. Fresh'
  BY <1>1, <1>3 DEF RInv, Fresh, BeforeOut, AfterRestore
<1>6. Gap'
  BY <1>1, <1>2, <1>3 DEF RInv, Gap, InAt, AfterRestore, LockedPc, CutoverPc
<1>7. AtRisk(a, p)
  BY <1>1 DEF AtRisk, AfterUndo, RestoredPc, TornPc, RestoreAt
<1>8. \A b \in Appliers : \A q \in Trees : AtRisk(b, q)' => AtRisk(b, q)
  BY <1>1, <1>4 DEF AtRisk, AfterUndo, RestoredPc, TornPc, RestoreAt, AfterRestore
<1>9. Safe'
  BY <1>3, <1>7, <1>8 DEF RInv, Safe
<1> QED
  BY <1>5, <1>6, <1>9

\* The rollback root goes when both live trees are the target and nobody is left
\* who moved a tree out.
LEMMA HousekeepsSafe ==
    ASSUME RInv, NEW a \in Appliers, Housekeeps(a)
    PROVE  Fresh' /\ Gap' /\ Safe'
<1>1. /\ applPc[a] = "housekeep" /\ applPc'[a] = "done" /\ job'[a] = NoJob
      /\ \A b \in Appliers \ {a} : applPc'[b] = applPc[b] /\ job'[b] = job[b]
  BY DEF Housekeeps, Ends, RInv, IInv, TypeOK
<1>2. \A b \in Appliers \ {a} : job[b].moved = {}
  BY <1>1, OnlyOne DEF RInv, LockedPc, SuccessPc
<1>3. /\ live' = live /\ \A p \in Trees : backup'[a][p] = None
      /\ \A b \in Appliers \ {a} : backup'[b] = backup[b]
  BY DEF Housekeeps, RInv, IInv, TypeOK
<1>4. Fresh'
  BY <1>1, <1>3 DEF RInv, Fresh
<1>5. Gap'
  BY <1>1, <1>3 DEF RInv, Gap, InAt, Trees
<1>6. \A p \in Trees : \A b \in Appliers : ~ AtRisk(b, p)'
  BY <1>1, <1>2, NoJobTyped DEF AtRisk
<1>7. current \in Generations /\ \A p \in Trees : live[p] = current
  BY <1>1 DEF RInv, IInv, TypeOK, Whole, LiveIs, SuccessPc
<1>8. Safe'
  BY <1>3, <1>6, <1>7 DEF Safe
<1> QED
  BY <1>4, <1>5, <1>8

LEMMA ApplierSafe ==
    ASSUME RInv, NEW a \in Appliers, ApplierStep(a) \/ ApplierCrashes(a)
    PROVE  Fresh' /\ Gap' /\ Safe'
<1>1. CASE RetainsHandoff(a) \/ RollbackThrows(a) \/ (\E h \in Hosts : RestartsPrevious(a, h))
  BY <1>1, EndsSafe DEF RetainsHandoff, RollbackThrows, RestartsPrevious, installVars
<1>2. CASE ApplierCrashes(a)
  BY <1>2, EndsSafe DEF ApplierCrashes, installVars
<1>3. CASE \E p \in Trees : MovesOut(a, p) \/ MovesIn(a, p)
  BY <1>3, MovesOutSafe, MovesInSafe
<1>4. CASE \E p \in Trees : Restores(a, p) \/ RestoreFails(a, p)
  BY <1>4, RestoresSafe, RestoreFailsSafe
<1>5. CASE StopsPeers(a) \/ Housekeeps(a)
  BY <1>5, StopsPeersSafe, HousekeepsSafe
<1> QED
  BY <1>1, <1>2, <1>3, <1>4, <1>5, HelperMovesOn DEF ApplierStep

-----------------------------------------------------------------------------
(* The theorem                                                               *)

LEMMA InitR == Init => RInv
<1> SUFFICES ASSUME Init PROVE RInv
  OBVIOUS
<1>1. IInv
  BY InitInv
<1>2. 0 \in Generations
  BY ReleaseAssumption DEF Generations
<1>3. Fresh /\ Gap /\ Safe
  BY <1>2, NoJobTyped DEF Init, Fresh, Gap, Safe, AtRisk, InAt, Trees
<1> QED
  BY <1>1, <1>3 DEF RInv

LEMMA StepR == RInv /\ [Next]_vars => RInv'
<1> SUFFICES ASSUME RInv, [Next]_vars PROVE RInv'
  OBVIOUS
<1>1. IInv'
  BY StepInv DEF RInv
<1>2. CASE Publish \/ (\E r \in Releases : CooldownElapses(r)) \/ AgentSpawned \/ AgentStep
  BY <1>1, <1>2, AgentSafe DEF RInv
<1>3. CASE \E h \in Hosts : HostStep(h) \/ OperatorStep(h) \/ HostCrashes(h)
  BY <1>1, <1>3, HostSafe DEF RInv
<1>4. CASE \E a \in Appliers : ApplierStep(a) \/ ApplierCrashes(a)
  BY <1>1, <1>4, ApplierSafe DEF RInv
<1>5. CASE UNCHANGED vars
  <2>1. UNCHANGED <<live, backup, applPc, job>>
    BY <1>5 DEF vars
  <2> QED
    BY <1>1, <2>1, SameRisk DEF RInv
<1> QED
  BY <1>2, <1>3, <1>4, <1>5 DEF Next

\* Whatever dies in the middle of a cutover or a rollback, and whichever delete, move
\* or restore fails, one complete generation is on disk, in the live trees or in the
\* rollback roots: the move out goes first, a restore deletes only what a rollback
\* root still holds, and the root is cleaned up only behind a whole target.
THEOREM Recoverable == Spec => []GenerationRecoverable
<1>1. RInv => GenerationRecoverable
  BY DEF RInv, Safe, GenerationRecoverable
<1> QED
  BY <1>1, InitR, StepR, PTL DEF Spec
=============================================================================
