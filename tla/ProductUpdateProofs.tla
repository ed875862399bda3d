------------------------- MODULE ProductUpdateProofs -------------------------
(***************************************************************************)
(* Safety of the self-update, proved for every set of hosts and helpers,   *)
(* every number of releases and every choice of faults.                    *)
(***************************************************************************)
EXTENDS ProductUpdate, TLAPS

\* The end of hosts and helpers costs a surviving helper only its parent and
\* its child: what it knows of the operation stays.
LEMMA JobsWithoutKeeps ==
    ASSUME job \in [Appliers -> Jobs], NEW S, NEW F
    PROVE  /\ JobsWithout(S, F) \in [Appliers -> Jobs]
           /\ \A a \in F \cap Appliers : JobsWithout(S, F)[a] = NoJob
           /\ \A a \in Appliers \ F :
                 /\ JobsWithout(S, F)[a].image = job[a].image
                 /\ JobsWithout(S, F)[a].target = job[a].target
                 /\ JobsWithout(S, F)[a].previous = job[a].previous
                 /\ JobsWithout(S, F)[a].moved = job[a].moved
<1> DEFINE Gone(h) == IF h \in S THEN NoHost ELSE h
           Left(a) == [job[a] EXCEPT !.parent = Gone(@), !.child = Gone(@)]
<1>1. NoJob \in Jobs
  BY DEF NoJob, Jobs, Trees, MaybeGeneration
<1>2. \A h \in Hosts \cup {NoHost} : Gone(h) \in Hosts \cup {NoHost}
  OBVIOUS
<1>3. ASSUME NEW a \in Appliers
      PROVE  /\ Left(a) \in Jobs
             /\ Left(a).image = job[a].image
             /\ Left(a).target = job[a].target
             /\ Left(a).previous = job[a].previous
             /\ Left(a).moved = job[a].moved
  <2> HIDE DEF Gone
  <2>1. job[a] \in Jobs
    OBVIOUS
  <2>2. Gone(job[a].parent) \in Hosts \cup {NoHost} /\ Gone(job[a].child) \in Hosts \cup {NoHost}
    BY <1>2, <2>1 DEF Jobs
  <2> QED
    BY <2>1, <2>2 DEF Jobs
<1>4. JobsWithout(S, F) = [a \in Appliers |-> IF a \in F THEN NoJob ELSE Left(a)]
  BY DEF JobsWithout
<1> HIDE DEF Left
<1> QED
  BY <1>1, <1>3, <1>4

----------------------------------------------------------------------------
(* The inductive invariant.  TypeOK is not inductive by itself: current.json *)
(* is written from the target a helper read, which must be a release.        *)
(* OneOperation, SuccessIsWhole and RollbackIsWhole need to know who holds   *)
(* the operation mutex: a helper that has read the installation (`previous`) *)
(* or moved a tree (`moved`) keeps the mutex on every path through its catch *)
(* block, although that block is also entered without the mutex.             *)

\* A helper beyond the check of the accepted manifest has a target.
TargetKnown ==
    \A a \in Appliers :
        applPc[a] \in {"snapshot"} \cup CutoverPc \cup ProvePc => job[a].target # None

\* The agent works, and a helper operates, only as holder of the mutex.
MutexHeld ==
    /\ agentPc \notin {"idle", "spawned"} => opMutex = Agent
    /\ \A a \in Appliers :
          applPc[a] \in LockedPc \/ job[a].previous # None \/ job[a].moved # {} => opMutex = a

\* What the proof of the restart, the success report and the rollback report rely on.
Whole ==
    \A a \in Appliers :
        /\ applPc[a] \in ProvePc \cup SuccessPc => LiveIs(job[a].target) /\ current = job[a].target
        /\ applPc[a] \in RestoredPc =>
              job[a].previous # None /\ LiveIs(job[a].previous) /\ current = job[a].previous

IInv == TypeOK /\ TargetKnown /\ MutexHeld /\ Whole

----------------------------------------------------------------------------
\* How the sets of generations nest.
LEMMA Numbers ==
    /\ Releases \subseteq Generations /\ Generations \subseteq MaybeGeneration
    /\ MaybeGeneration \subseteq TreeContent
    /\ None \in MaybeGeneration /\ Damaged \in TreeContent
    /\ None \notin Generations
  BY ReleaseAssumption DEF Releases, Generations, MaybeGeneration, TreeContent, None, Damaged

\* The fields of a job that the proofs below read.
LEMMA JobFields ==
    ASSUME NEW r \in Jobs
    PROVE  /\ r.image \in Releases \cup {None} /\ r.target \in Releases \cup {None}
           /\ r.previous \in MaybeGeneration
           /\ r.moved \subseteq Trees /\ r.placed \subseteq Trees
  BY DEF Jobs

\* JobsWithoutKeeps for a single host that ends.
LEMMA HostEndsKeeps ==
    ASSUME job \in [Appliers -> Jobs], NEW h, HostEnds(h)
    PROVE  /\ job' \in [Appliers -> Jobs]
           /\ \A a \in Appliers : /\ job'[a].image = job[a].image /\ job'[a].target = job[a].target
                                  /\ job'[a].previous = job[a].previous /\ job'[a].moved = job[a].moved
<1>1. job' = JobsWithout({h}, {})
  BY DEF HostEnds
<1> QED
  BY <1>1, JobsWithoutKeeps

\* A helper that is gone knows nothing.
LEMMA NoJobTyped == NoJob \in Jobs /\ NoJob.target = None /\ NoJob.previous = None /\ NoJob.moved = {}
  BY Numbers DEF NoJob, Jobs


\* What a helper learns or does keeps the type of its locals, and its target.
LEMMA JobUpdated ==
    ASSUME NEW j \in Jobs
    PROVE  /\ \A t \in Releases \cup {None} : [j EXCEPT !.target = t] \in Jobs
           /\ \A g \in MaybeGeneration : LET r == [j EXCEPT !.previous = g]
                                         IN  r \in Jobs /\ r.target = j.target
           /\ \A p \in Trees : LET r == [j EXCEPT !.moved = @ \cup {p}]
                               IN  r \in Jobs /\ r.target = j.target
           /\ \A p \in Trees : LET r == [j EXCEPT !.placed = @ \cup {p}]
                               IN  r \in Jobs /\ r.target = j.target
           /\ \A b \in BOOLEAN : LET r == [j EXCEPT !.torn = b]
                                 IN  r \in Jobs /\ r.target = j.target
           /\ \A h \in Hosts : LET r == [j EXCEPT !.child = h]
                               IN  r \in Jobs /\ r.target = j.target
<1>1. \A t \in Releases \cup {None} : [j EXCEPT !.target = t] \in Jobs
  BY DEF Jobs
<1>2. \A g \in MaybeGeneration : LET r == [j EXCEPT !.previous = g]
                                 IN  r \in Jobs /\ r.target = j.target
  BY DEF Jobs
<1>3. \A p \in Trees : LET r == [j EXCEPT !.moved = @ \cup {p}]
                       IN  r \in Jobs /\ r.target = j.target
  BY DEF Jobs
<1>4. \A p \in Trees : LET r == [j EXCEPT !.placed = @ \cup {p}]
                       IN  r \in Jobs /\ r.target = j.target
  BY DEF Jobs
<1>5. \A b \in BOOLEAN : LET r == [j EXCEPT !.torn = b]
                         IN  r \in Jobs /\ r.target = j.target
  BY DEF Jobs
<1>6. \A h \in Hosts : LET r == [j EXCEPT !.child = h]
                       IN  r \in Jobs /\ r.target = j.target
  BY DEF Jobs
<1> QED
  BY <1>1, <1>2, <1>3, <1>4, <1>5, <1>6

\* Where the helpers stand and what is left of their locals is all that the
\* end of processes disturbs.
LEMMA EndsTyped ==
    ASSUME TypeOK, TargetKnown,
           hostPc' \in [Hosts -> HostSteps],
           hostToken' \in [Hosts -> Appliers \cup {NoToken}],
           hostOffer' \in [Hosts -> Releases \cup {None}],
           served' \in MaybeGeneration, opMutex' \in Appliers \cup {Agent, Nobody},
           applPc' \in [Appliers -> ApplierSteps], job' \in [Appliers -> Jobs],
           \A b \in Appliers :
              \/ applPc'[b] \in {"dead", "restore_desktop"}
              \/ applPc'[b] = applPc[b] /\ job'[b].target = job[b].target,
           UNCHANGED <<current, live, backup, stage, pending, accepted, snooze, result,
                       handoff, cooling, published, agentPc, agentRelease>>
    PROVE  TypeOK' /\ TargetKnown'
<1>1. TypeOK'
  BY DEF TypeOK
<1>2. TargetKnown'
  BY DEF TargetKnown, CutoverPc, ProvePc
<1> QED
  BY <1>1, <1>2


\* Steps of the staging agent, of the release feed and of the clock keep the
\* types.
LEMMA AgentTyped ==
    ASSUME TypeOK, TargetKnown,
      Publish \/ (\E r \in Releases : CooldownElapses(r)) \/ AgentSpawned \/ AgentStep
    PROVE  TypeOK' /\ TargetKnown'
<1> USE Numbers, NoJobTyped
    DEF TypeOK, TargetKnown, AgentSteps, HostSteps, SessionPc, VisiblePc, ApplierSteps,
      CutoverPc, ProvePc, SuccessPc, RestorePc,
         RestoredPc, TornPc, EndPc
<1>0. \A a \in Appliers :
        /\ job[a] \in Jobs
        /\ job[a].image \in Releases \cup {None} /\ job[a].target \in Releases \cup {None}
        /\ job[a].previous \in MaybeGeneration
        /\ job[a].moved \subseteq Trees /\ job[a].placed \subseteq Trees
  BY JobFields
<1>1. CASE Publish
  BY <1>0, <1>1, ReleaseAssumption DEF
     Publish, installVars, stagingVars, hostVars, Generations
<1>2. ASSUME NEW r \in Releases, CooldownElapses(r)
      PROVE  TypeOK' /\ TargetKnown'
  BY <1>0, <1>2 DEF
     CooldownElapses, installVars, stagingVars, hostVars
<1>3. CASE AgentSpawned
  BY <1>0, <1>3 DEF
     AgentSpawned, AgentOnly, installVars, hostVars
<1>4. CASE AgentFindsNothing
  BY <1>0, <1>4 DEF
     AgentFindsNothing, MutexFree, NewestRelease, AgentOnly, installVars, hostVars
<1>5. CASE AgentAcquires
  BY <1>0, <1>5, ReleaseAssumption DEF
     AgentAcquires, NewestRelease, Acquire, MutexFree, AgentOnly, installVars, hostVars,
     Releases, Generations
<1>6. CASE AgentExtractsDesktop
  <2>1. stage' \in [Releases -> [Parts -> {"absent", "partial", "whole"}]] /\ agentPc' \in AgentSteps
    BY <1>6 DEF AgentExtractsDesktop, Trees, Parts
  <2>2. TargetKnown'
    BY <1>6 DEF AgentExtractsDesktop, AgentOnly
  <2> HIDE DEF TargetKnown, ApplierSteps, HostSteps, AgentSteps
  <2> QED
    BY <1>6, <2>1, <2>2 DEF AgentExtractsDesktop, AgentOnly, installVars, hostVars
<1>7. CASE AgentExtractsRuntime
  <2>1. stage' \in [Releases -> [Parts -> {"absent", "partial", "whole"}]] /\ agentPc' \in AgentSteps
    BY <1>7 DEF AgentExtractsRuntime, Trees, Parts
  <2>2. TargetKnown'
    BY <1>7 DEF AgentExtractsRuntime, AgentOnly
  <2> HIDE DEF TargetKnown, ApplierSteps, HostSteps, AgentSteps
  <2> QED
    BY <1>7, <2>1, <2>2 DEF AgentExtractsRuntime, AgentOnly, installVars, hostVars
<1>8. CASE AgentRebuildsHelper
  <2>1. stage' \in [Releases -> [Parts -> {"absent", "partial", "whole"}]] /\ agentPc' \in AgentSteps
    BY <1>8 DEF AgentRebuildsHelper, Trees, Parts
  <2>2. TargetKnown'
    BY <1>8 DEF AgentRebuildsHelper, AgentOnly
  <2> HIDE DEF TargetKnown, ApplierSteps, HostSteps, AgentSteps
  <2> QED
    BY <1>8, <2>1, <2>2 DEF AgentRebuildsHelper, AgentOnly, installVars, hostVars
<1>9. CASE AgentHitsLockedHelper
  BY <1>0, <1>9 DEF
     AgentHitsLockedHelper, Relinquish, AgentOnly, installVars, hostVars, Trees, Parts
<1>10. CASE AgentPublishesPending
  BY <1>0, <1>10 DEF
     AgentPublishesPending, AgentOnly, installVars, hostVars, Trees, Parts
<1>11. CASE AgentReturns
  BY <1>0, <1>11 DEF
     AgentReturns, Relinquish, AgentOnly, installVars, hostVars
<1>12. CASE AgentAborts
  BY <1>0, <1>12 DEF
     AgentAborts, Relinquish, AgentOnly, installVars, hostVars
<1> QED
  BY <1>1, <1>2, <1>3, <1>4, <1>5, <1>6, <1>7, <1>8, <1>9, <1>10, <1>11, <1>12
  DEF AgentStep


\* Steps of a desktop host and of its operator keep the types.
LEMMA HostTyped ==
    ASSUME TypeOK, TargetKnown,
      \E h \in Hosts : HostStep(h) \/ OperatorStep(h) \/ HostCrashes(h)
    PROVE  TypeOK' /\ TargetKnown'
<1> USE Numbers, NoJobTyped
    DEF TypeOK, TargetKnown, AgentSteps, HostSteps, SessionPc, VisiblePc, ApplierSteps,
      CutoverPc, ProvePc, SuccessPc, RestorePc,
         RestoredPc, TornPc, EndPc
<1>0. \A a \in Appliers :
        /\ job[a] \in Jobs
        /\ job[a].image \in Releases \cup {None} /\ job[a].target \in Releases \cup {None}
        /\ job[a].previous \in MaybeGeneration
        /\ job[a].moved \subseteq Trees /\ job[a].placed \subseteq Trees
  BY JobFields
<1>1. ASSUME NEW h \in Hosts, PassesGate(h)
      PROVE  TypeOK' /\ TargetKnown'
  BY <1>0, <1>1 DEF
     PassesGate, HostAt, GateOnly, installVars, stagingVars
<1>2. ASSUME NEW h \in Hosts, RefusedAtGate(h)
      PROVE  TypeOK' /\ TargetKnown'
  <2>1. job' \in [Appliers -> Jobs] /\ \A b \in Appliers : job'[b].target = job[b].target
    BY <1>2, HostEndsKeeps DEF RefusedAtGate
  <2>2. hostPc' \in [Hosts -> HostSteps] /\ hostToken' \in [Hosts -> Appliers \cup {NoToken}]
       /\ hostOffer' \in [Hosts -> Releases \cup {None}]
    BY <1>2 DEF RefusedAtGate, HostEnds, HostsEnd
  <2>3. /\ served \in MaybeGeneration /\ opMutex \in Appliers \cup {Agent, Nobody}
        /\ applPc \in [Appliers -> ApplierSteps]
    OBVIOUS
  <2> HIDE DEF TypeOK, TargetKnown
  <2>4. UNCHANGED <<current, live, backup, stage, pending, accepted, snooze, result, handoff,
                    cooling, published, served, agentPc, agentRelease, opMutex, applPc>>
    BY <1>2 DEF RefusedAtGate, GateOnly, installVars, stagingVars
  <2> QED
    BY <2>1, <2>2, <2>3, <2>4, EndsTyped
<1>3. ASSUME NEW h \in Hosts, TakesSession(h)
      PROVE  TypeOK' /\ TargetKnown'
  <2>1. hostPc' \in [Hosts -> HostSteps] /\ hostToken' \in [Hosts -> Appliers \cup {NoToken}]
    BY <1>3 DEF TakesSession, HostAt
  <2>2. TargetKnown'
    BY <1>3 DEF TakesSession, GateOnly
  <2> HIDE DEF TargetKnown, ApplierSteps, HostSteps, AgentSteps
  <2> QED
    BY <1>3, <2>1, <2>2 DEF TakesSession, GateOnly, installVars, stagingVars
<1>4. ASSUME NEW h \in Hosts, YieldsToSession(h)
      PROVE  TypeOK' /\ TargetKnown'
  <2>1. job' \in [Appliers -> Jobs] /\ \A b \in Appliers : job'[b].target = job[b].target
    BY <1>4, HostEndsKeeps DEF YieldsToSession
  <2>2. hostPc' \in [Hosts -> HostSteps] /\ hostToken' \in [Hosts -> Appliers \cup {NoToken}]
       /\ hostOffer' \in [Hosts -> Releases \cup {None}]
    BY <1>4 DEF YieldsToSession, HostEnds, HostsEnd
  <2>3. /\ served \in MaybeGeneration /\ opMutex \in Appliers \cup {Agent, Nobody}
        /\ applPc \in [Appliers -> ApplierSteps]
    OBVIOUS
  <2> HIDE DEF TypeOK, TargetKnown
  <2>4. UNCHANGED <<current, live, backup, stage, pending, accepted, snooze, result, handoff,
                    cooling, published, served, agentPc, agentRelease, opMutex, applPc>>
    BY <1>4 DEF YieldsToSession, GateOnly, installVars, stagingVars
  <2> QED
    BY <2>1, <2>2, <2>3, <2>4, EndsTyped
<1>5. ASSUME NEW h \in Hosts, WaitsForSession(h)
      PROVE  TypeOK' /\ TargetKnown'
  BY <1>0, <1>5 DEF
     WaitsForSession, HostAt, GateOnly, installVars, stagingVars
<1>6. ASSUME NEW h \in Hosts, WaitTimesOut(h)
      PROVE  TypeOK' /\ TargetKnown'
  <2>1. job' \in [Appliers -> Jobs] /\ \A b \in Appliers : job'[b].target = job[b].target
    BY <1>6, HostEndsKeeps DEF WaitTimesOut
  <2>2. hostPc' \in [Hosts -> HostSteps] /\ hostToken' \in [Hosts -> Appliers \cup {NoToken}]
       /\ hostOffer' \in [Hosts -> Releases \cup {None}]
    BY <1>6 DEF WaitTimesOut, HostEnds, HostsEnd
  <2>3. /\ served \in MaybeGeneration /\ opMutex \in Appliers \cup {Agent, Nobody}
        /\ applPc \in [Appliers -> ApplierSteps]
    OBVIOUS
  <2> HIDE DEF TypeOK, TargetKnown
  <2>4. UNCHANGED <<current, live, backup, stage, pending, accepted, snooze, result, handoff,
                    cooling, published, served, agentPc, agentRelease, opMutex, applPc>>
    BY <1>6 DEF WaitTimesOut, GateOnly, installVars, stagingVars
  <2> QED
    BY <2>1, <2>2, <2>3, <2>4, EndsTyped
<1>7. ASSUME NEW h \in Hosts, ShowsPreviousResult(h)
      PROVE  TypeOK' /\ TargetKnown'
  <2>1. result.target \in Releases \cup {None}
    BY <1>0, <1>7 DEF
       ShowsPreviousResult, HostAt, installVars, stagingVars, Results, NoResult
  <2> QED
    BY <1>0, <1>7, <2>1 DEF
       ShowsPreviousResult, HostAt, installVars, stagingVars, Results, NoResult
<1>8. ASSUME NEW h \in Hosts, ServesRuntime(h)
      PROVE  TypeOK' /\ TargetKnown'
  BY <1>0, <1>8 DEF
     ServesRuntime, installVars, stagingVars, hostVars
<1>9. ASSUME NEW h \in Hosts, StartupFails(h)
      PROVE  TypeOK' /\ TargetKnown'
  BY <1>0, <1>9 DEF
     StartupFails, HostAt, GateOnly, installVars, stagingVars
<1>10. ASSUME NEW h \in Hosts, ReconcilesPending(h)
      PROVE  TypeOK' /\ TargetKnown'
  BY <1>0, <1>10 DEF
     ReconcilesPending, installVars, stagingVars, hostVars
<1>11. ASSUME NEW h \in Hosts, ConsentFails(h)
      PROVE  TypeOK' /\ TargetKnown'
  BY <1>0, <1>11 DEF
     ConsentFails, HostAt, installVars, stagingVars
<1>12. ASSUME NEW h \in Hosts, Exits(h)
      PROVE  TypeOK' /\ TargetKnown'
  <2>1. job' \in [Appliers -> Jobs] /\ \A b \in Appliers : job'[b].target = job[b].target
    BY <1>12, HostEndsKeeps DEF Exits
  <2>2. hostPc' \in [Hosts -> HostSteps] /\ hostToken' \in [Hosts -> Appliers \cup {NoToken}]
       /\ hostOffer' \in [Hosts -> Releases \cup {None}]
    BY <1>12 DEF Exits, HostEnds, HostsEnd
  <2>3. served' \in MaybeGeneration
    BY <1>12 DEF Exits
  <2>4. opMutex \in Appliers \cup {Agent, Nobody} /\ applPc \in [Appliers -> ApplierSteps]
    OBVIOUS
  <2> HIDE DEF TypeOK, TargetKnown
  <2>5. UNCHANGED <<current, live, backup, stage, pending, accepted, snooze, result, handoff,
                    cooling, published, agentPc, agentRelease, opMutex, applPc>>
    BY <1>12 DEF Exits, installVars, stagingVars
  <2> QED
    BY <2>1, <2>2, <2>3, <2>4, <2>5, EndsTyped
<1>13. ASSUME NEW h \in Hosts, UserLaunches(h)
      PROVE  TypeOK' /\ TargetKnown'
  BY <1>0, <1>13 DEF
     UserLaunches, Start, GateOnly, installVars, stagingVars
<1>14. ASSUME NEW h \in Hosts, OpensPrompt(h)
      PROVE  TypeOK' /\ TargetKnown'
  BY <1>0, <1>14 DEF
     OpensPrompt, MayOffer, HostAt, GateOnly, installVars, stagingVars
<1>15. ASSUME NEW h \in Hosts, Declines(h)
      PROVE  TypeOK' /\ TargetKnown'
  BY <1>0, <1>15 DEF
     Declines, HostAt, installVars, stagingVars
<1>16. ASSUME NEW h \in Hosts, Consents(h)
      PROVE  TypeOK' /\ TargetKnown'
  BY <1>0, <1>16 DEF
     Consents, HostAt, ShownManifest, installVars, stagingVars
<1>17. ASSUME NEW h \in Hosts, Closes(h)
      PROVE  TypeOK' /\ TargetKnown'
  <2>1. hostPc' \in [Hosts -> HostSteps]
    BY <1>0, <1>17 DEF
       Closes, HostAt, GateOnly, installVars, stagingVars
  <2> QED
    BY <1>0, <1>17, <2>1 DEF
       Closes, HostAt, GateOnly, installVars, stagingVars
<1>18. ASSUME NEW h \in Hosts, HostCrashes(h)
      PROVE  TypeOK' /\ TargetKnown'
  <2>1. job' \in [Appliers -> Jobs]
       /\ \A b \in Appliers : applPc'[b] = "dead" \/ job'[b].target = job[b].target
    BY <1>18, JobsWithoutKeeps DEF HostCrashes
  <2>2. /\ hostPc' \in [Hosts -> HostSteps] /\ hostToken' \in [Hosts -> Appliers \cup {NoToken}]
        /\ hostOffer' \in [Hosts -> Releases \cup {None}]
    BY <1>18 DEF HostCrashes, HostsEnd
  <2>3. /\ applPc' \in [Appliers -> ApplierSteps]
        /\ \A b \in Appliers : applPc'[b] \in {"dead", applPc[b]}
    BY <1>18 DEF HostCrashes
  <2>4. served \in MaybeGeneration /\ opMutex \in Appliers \cup {Agent, Nobody}
    OBVIOUS
  <2> HIDE DEF TypeOK, TargetKnown
  <2>5. UNCHANGED <<current, live, backup, stage, pending, accepted, snooze, result, handoff,
                    served, opMutex, cooling, published, agentPc, agentRelease>>
    BY <1>18 DEF HostCrashes, installVars, stagingVars
  <2> QED
    BY <2>1, <2>2, <2>3, <2>4, <2>5, EndsTyped
<1>19. ASSUME NEW h \in Hosts, NEW a \in Appliers, BeginsHandoff(h, a)
      PROVE  TypeOK' /\ TargetKnown'
  <2> DEFINE r == [job[a] EXCEPT !.image = hostOffer[h], !.parent = h]
  <2>0. hostOffer[h] \in Releases \cup {None}
    OBVIOUS
  <2>1. r \in Jobs /\ r.target = job[a].target
    <3> HIDE DEF TypeOK, TargetKnown
    <3> QED
      BY <1>0, <2>0 DEF Jobs
  <2>2. job' = [job EXCEPT ![a] = r]
    BY <1>19 DEF BeginsHandoff
  <2> HIDE DEF r
  <2>3. job' \in [Appliers -> Jobs] /\ \A b \in Appliers : job'[b].target = job[b].target
    BY <2>1, <2>2
  <2> QED
    BY <1>0, <1>19, <2>3 DEF
       BeginsHandoff, HostAt, installVars, stagingVars
<1>20. ASSUME NEW h \in Hosts, NEW a \in Appliers, StartsHelper(h, a)
      PROVE  TypeOK' /\ TargetKnown'
  BY <1>0, <1>20 DEF
     StartsHelper, HostAt, installVars, stagingVars
<1>21. ASSUME NEW h \in Hosts, NEW a \in Appliers, HelperStartFails(h, a)
      PROVE  TypeOK' /\ TargetKnown'
  BY <1>0, <1>21 DEF
     HelperStartFails, HostAt, installVars, stagingVars
<1> QED
  BY <1>1, <1>2, <1>3, <1>4, <1>5, <1>6, <1>7, <1>8, <1>9, <1>10, <1>11, <1>12, <1>13, <1>14,
     <1>15, <1>16, <1>17, <1>18, <1>19, <1>20, <1>21
  DEF HostStep, OperatorStep


\* Steps of the apply helper keep the types.
LEMMA ApplierTyped ==
    ASSUME TypeOK, TargetKnown, \E a \in Appliers : ApplierStep(a) \/ ApplierCrashes(a)
    PROVE  TypeOK' /\ TargetKnown'
<1> USE Numbers, NoJobTyped
    DEF TypeOK, TargetKnown, AgentSteps, HostSteps, SessionPc, VisiblePc, ApplierSteps,
      CutoverPc, ProvePc, SuccessPc, RestorePc,
         RestoredPc, TornPc, EndPc
<1>0. \A a \in Appliers :
        /\ job[a] \in Jobs
        /\ job[a].image \in Releases \cup {None} /\ job[a].target \in Releases \cup {None}
        /\ job[a].previous \in MaybeGeneration
        /\ job[a].moved \subseteq Trees /\ job[a].placed \subseteq Trees
  BY JobFields
<1>1. ASSUME NEW a \in Appliers, ChecksToken(a)
      PROVE  TypeOK' /\ TargetKnown'
  BY <1>0, <1>1 DEF
     ChecksToken, ApplAt, installVars, hostVars, WorldOnly
<1>2. ASSUME NEW a \in Appliers, TakesLock(a)
      PROVE  TypeOK' /\ TargetKnown'
  BY <1>0, <1>2 DEF
     TakesLock, Acquire, MutexFree, ApplAt, installVars, hostVars, WorldOnly
<1>3. ASSUME NEW a \in Appliers, LockTimesOut(a)
      PROVE  TypeOK' /\ TargetKnown'
  BY <1>0, <1>3 DEF
     LockTimesOut, MutexFree, ApplAt, installVars, hostVars, WorldOnly
<1>4. ASSUME NEW a \in Appliers, ReadsAccepted(a)
      PROVE  TypeOK' /\ TargetKnown'
  <2> DEFINE r == [job[a] EXCEPT !.target = accepted]
  <2>1. r \in Jobs
    BY <1>0, JobUpdated
  <2>2. job' = [job EXCEPT ![a] = r]
    BY <1>4 DEF ReadsAccepted
  <2> HIDE DEF r
  <2>3. job' \in [Appliers -> Jobs] /\ \A b \in Appliers \ {a} : job'[b].target = job[b].target
    BY <2>1, <2>2
  <2>4. job'[a].target = accepted
    BY <1>0, <1>4 DEF ReadsAccepted, Jobs
  <2> QED
    BY <1>0, <1>4, <2>3, <2>4 DEF
       ReadsAccepted, ApplAt, installVars, hostVars, WorldOnly
<1>5. ASSUME NEW a \in Appliers, TakesSnapshot(a)
      PROVE  TypeOK' /\ TargetKnown'
  <2> DEFINE r == [job[a] EXCEPT !.previous = current]
  <2>1. r \in Jobs /\ r.target = job[a].target
    BY <1>0, JobUpdated
  <2>2. job' = [job EXCEPT ![a] = r]
    BY <1>5 DEF TakesSnapshot
  <2> HIDE DEF r
  <2>3. job' \in [Appliers -> Jobs] /\ \A b \in Appliers : job'[b].target = job[b].target
    BY <2>1, <2>2
  <2> QED
    BY <1>0, <1>5, <2>3 DEF
       TakesSnapshot, ApplAt, installVars, hostVars, WorldOnly
<1>6. ASSUME NEW a \in Appliers, WritesCurrent(a)
      PROVE  TypeOK' /\ TargetKnown'
  BY <1>0, <1>6 DEF
     WritesCurrent, LiveIs, ApplAt, hostVars, WorldOnly, Trees
<1>7. ASSUME NEW a \in Appliers, ProvesRestart(a)
      PROVE  TypeOK' /\ TargetKnown'
  BY <1>0, <1>7 DEF
     ProvesRestart, ApplAt, installVars, hostVars, WorldOnly
<1>8. ASSUME NEW a \in Appliers, RestartUnproved(a)
      PROVE  TypeOK' /\ TargetKnown'
  BY <1>0, <1>8 DEF
     RestartUnproved, ApplAt, installVars, hostVars, WorldOnly
<1>9. ASSUME NEW a \in Appliers, FileOperationFails(a)
      PROVE  TypeOK' /\ TargetKnown'
  <2>1. applPc' \in [Appliers -> ApplierSteps]
    BY <1>0, <1>9 DEF
       FileOperationFails, ApplAt, installVars, hostVars, WorldOnly
  <2>2. TargetKnown'
    BY <1>0, <1>9 DEF
       FileOperationFails, ApplAt, installVars, hostVars, WorldOnly
  <2> QED
    BY <1>0, <1>9, <2>1, <2>2 DEF
       FileOperationFails, ApplAt, installVars, hostVars, WorldOnly
<1>10. ASSUME NEW a \in Appliers, ReportsSuccess(a)
      PROVE  TypeOK' /\ TargetKnown'
  BY <1>0, <1>10 DEF
     ReportsSuccess, ApplAt, installVars, hostVars, WorldOnly, Results
<1>11. ASSUME NEW a \in Appliers, CleansUp(a)
      PROVE  TypeOK' /\ TargetKnown'
  BY <1>0, <1>11 DEF
     CleansUp, ApplAt, installVars, hostVars, WorldOnly
<1>12. ASSUME NEW a \in Appliers, ClearsHandoff(a)
      PROVE  TypeOK' /\ TargetKnown'
  <2>1. applPc' \in [Appliers -> ApplierSteps]
    BY <1>12 DEF ClearsHandoff, ApplAt
  <2>2. handoff' \in Appliers \cup {NoToken}
    BY <1>12 DEF ClearsHandoff
  <2>3. TargetKnown'
    BY <1>12 DEF ClearsHandoff, ApplAt
  <2> HIDE DEF TargetKnown, ApplierSteps, HostSteps, AgentSteps
  <2> QED
    BY <1>12, <2>1, <2>2, <2>3 DEF ClearsHandoff, installVars, hostVars, WorldOnly
<1>13. ASSUME NEW a \in Appliers, Housekeeps(a)
      PROVE  TypeOK' /\ TargetKnown'
  BY <1>0, <1>13 DEF
     Housekeeps, Ends, Relinquish, hostVars, WorldOnly, Trees, Parts
<1>14. ASSUME NEW a \in Appliers, StopsPeers(a)
      PROVE  TypeOK' /\ TargetKnown'
  <2>1. job' \in [Appliers -> Jobs]
       /\ \A b \in Appliers : applPc'[b] = "dead" \/ job'[b].target = job[b].target
    BY <1>0, <1>14, JobsWithoutKeeps DEF StopsPeers
  <2>2. hostPc' \in [Hosts -> HostSteps] /\ hostToken' \in [Hosts -> Appliers \cup {NoToken}]
       /\ hostOffer' \in [Hosts -> Releases \cup {None}]
    BY <1>14 DEF StopsPeers, HostEnds, HostsEnd
  <2>3. served' \in MaybeGeneration /\ opMutex' \in Appliers \cup {Agent, Nobody}
    BY <1>14 DEF StopsPeers
  <2>4. applPc' \in [Appliers -> ApplierSteps]
    BY <1>14 DEF StopsPeers
  <2>5. \A b \in Appliers : applPc'[b] \in {"restore_desktop", "dead", applPc[b]}
    BY <1>14 DEF StopsPeers
  <2>6. UNCHANGED <<current, live, backup, stage, pending, accepted, snooze, result, handoff,
                    cooling, published, agentPc, agentRelease>>
    BY <1>14 DEF StopsPeers, WorldOnly, installVars
  <2> HIDE DEF TypeOK, TargetKnown
  <2> QED
    BY <2>1, <2>2, <2>3, <2>4, <2>5, <2>6, EndsTyped
<1>15. ASSUME NEW a \in Appliers, RestoresMetadata(a)
      PROVE  TypeOK' /\ TargetKnown'
  BY <1>0, <1>15 DEF
     RestoresMetadata, MayRestoreMetadata, LiveIs, ApplAt, hostVars, WorldOnly,
     MaybeGeneration
<1>16. ASSUME NEW a \in Appliers, LeavesMetadata(a)
      PROVE  TypeOK' /\ TargetKnown'
  BY <1>0, <1>16 DEF
     LeavesMetadata, MayRestoreMetadata, LiveIs, ApplAt, installVars, hostVars, WorldOnly
<1>17. ASSUME NEW a \in Appliers, ReportsFailure(a)
      PROVE  TypeOK' /\ TargetKnown'
  <2>1. applPc' \in [Appliers -> ApplierSteps]
    BY <1>0, <1>17 DEF
       ReportsFailure, Failure, ApplAt, installVars, hostVars, WorldOnly, Results
  <2>2. TargetKnown'
    BY <1>0, <1>17 DEF
       ReportsFailure, Failure, ApplAt, installVars, hostVars, WorldOnly, Results
  <2> QED
    BY <1>0, <1>17, <2>1, <2>2 DEF
       ReportsFailure, Failure, ApplAt, installVars, hostVars, WorldOnly, Results
<1>18. ASSUME NEW a \in Appliers, DiscardsConsent(a)
      PROVE  TypeOK' /\ TargetKnown'
  BY <1>0, <1>18 DEF
     DiscardsConsent, ApplAt, installVars, hostVars, WorldOnly
<1>19. ASSUME NEW a \in Appliers, RetainsHandoff(a)
      PROVE  TypeOK' /\ TargetKnown'
  BY <1>0, <1>19 DEF
     RetainsHandoff, Ends, Relinquish, installVars, hostVars, WorldOnly
<1>20. ASSUME NEW a \in Appliers, RollbackThrows(a)
      PROVE  TypeOK' /\ TargetKnown'
  BY <1>0, <1>20 DEF
     RollbackThrows, Failure, Results, Ends, Relinquish, installVars, hostVars, WorldOnly
<1>21. ASSUME NEW a \in Appliers, ApplierCrashes(a)
      PROVE  TypeOK' /\ TargetKnown'
  BY <1>0, <1>21 DEF
     ApplierCrashes, Ends, Relinquish, installVars, hostVars, WorldOnly
<1>22. ASSUME NEW a \in Appliers, NEW p \in Trees, MovesOut(a, p)
      PROVE  TypeOK' /\ TargetKnown'
  <2> DEFINE r == [job[a] EXCEPT !.moved = @ \cup {p}]
  <2>1. r \in Jobs /\ r.target = job[a].target
    BY <1>0, JobUpdated
  <2>2. job' = job \/ job' = [job EXCEPT ![a] = r]
    BY <1>22 DEF MovesOut
  <2> HIDE DEF r
  <2>3. job' \in [Appliers -> Jobs] /\ \A b \in Appliers : job'[b].target = job[b].target
    <3>1. CASE job' = job
      BY <3>1
    <3>2. CASE job' = [job EXCEPT ![a] = r]
      BY <2>1, <3>2
    <3> QED
      BY <2>2, <3>1, <3>2
  <2>4. /\ live' \in [Trees -> TreeContent]
        /\ backup' \in [Appliers -> [Trees -> TreeContent]]
    <3>1. CASE live[p] = None
      BY <1>22, <3>1 DEF MovesOut
    <3>2. CASE live[p] # None
      <4>1. live' = [live EXCEPT ![p] = None] /\ backup' = [backup EXCEPT ![a][p] = live[p]]
        BY <1>22, <3>2 DEF MovesOut
      <4> QED
        BY <4>1
    <3> QED
      BY <3>1, <3>2
  <2>5. applPc' \in [Appliers -> ApplierSteps] /\ \A b \in Appliers \ {a} : applPc'[b] = applPc[b]
    BY <1>22 DEF MovesOut, ApplAt, InAt, OutAt, Trees
  <2>6. applPc[a] \in CutoverPc
    BY <1>22 DEF MovesOut, ApplAt, InAt, OutAt, Trees
  <2>7. UNCHANGED <<current, stage, pending, accepted, snooze, result, handoff, served,
                    opMutex, hostPc, hostToken, hostOffer, cooling, published, agentPc,
                      agentRelease>>
    BY <1>22 DEF MovesOut, hostVars, WorldOnly
  <2>8. TargetKnown'
    BY <1>0, <2>3, <2>5, <2>6
  <2>9. TypeOK'
    <3> HIDE DEF TargetKnown, ApplierSteps, HostSteps, AgentSteps
    <3> QED
      BY <2>3, <2>4, <2>5, <2>7
  <2> QED
    BY <2>8, <2>9
<1>23. ASSUME NEW a \in Appliers, NEW p \in Trees, MovesIn(a, p)
      PROVE  TypeOK' /\ TargetKnown'
  <2> DEFINE r == [job[a] EXCEPT !.placed = @ \cup {p}]
  <2>1. r \in Jobs /\ r.target = job[a].target
    BY <1>0, JobUpdated
  <2>2. job' = [job EXCEPT ![a] = r]
    BY <1>23 DEF MovesIn
  <2> HIDE DEF r
  <2>3. job' \in [Appliers -> Jobs] /\ \A b \in Appliers : job'[b].target = job[b].target
    BY <2>1, <2>2
  <2> QED
    BY <1>0, <1>23, <2>3 DEF
       MovesIn, ApplAt, InAt, AfterIn, hostVars, WorldOnly, Trees, Parts
<1>24. ASSUME NEW a \in Appliers, NEW p \in Trees, Restores(a, p)
      PROVE  TypeOK' /\ TargetKnown'
  BY <1>0, <1>24 DEF
     Restores, ApplAt, RestoreAt, AfterRestore, hostVars, WorldOnly, Trees
<1>25. ASSUME NEW a \in Appliers, NEW p \in Trees, RestoreFails(a, p)
      PROVE  TypeOK' /\ TargetKnown'
  <2> DEFINE r == [job[a] EXCEPT !.torn = TRUE]
  <2>1. r \in Jobs /\ r.target = job[a].target
    BY <1>0, JobUpdated
  <2>2. job' = [job EXCEPT ![a] = r]
    BY <1>25 DEF RestoreFails
  <2> HIDE DEF r
  <2>3. job' \in [Appliers -> Jobs] /\ \A b \in Appliers : job'[b].target = job[b].target
    BY <2>1, <2>2
  <2> QED
    BY <1>0, <1>25, <2>3 DEF
       RestoreFails, ApplAt, RestoreAt, AfterRestore, hostVars, WorldOnly, Trees
<1>26. ASSUME NEW a \in Appliers, NEW p \in Trees, NothingToRestore(a, p)
      PROVE  TypeOK' /\ TargetKnown'
  <2> DEFINE r == [job[a] EXCEPT !.torn = @ \/ p \in job[a].placed]
  <2>1. r \in Jobs /\ r.target = job[a].target
    BY <1>0, JobUpdated
  <2>2. job' = [job EXCEPT ![a] = r]
    BY <1>26 DEF NothingToRestore
  <2> HIDE DEF r
  <2>3. job' \in [Appliers -> Jobs] /\ \A b \in Appliers : job'[b].target = job[b].target
    BY <2>1, <2>2
  <2> QED
    BY <1>0, <1>26, <2>3 DEF
       NothingToRestore, ApplAt, RestoreAt, AfterRestore, installVars, hostVars, WorldOnly,
       Trees
<1>27. ASSUME NEW a \in Appliers, NEW h \in Hosts, RestartsTarget(a, h)
      PROVE  TypeOK' /\ TargetKnown'
  <2> DEFINE r == [job[a] EXCEPT !.child = h]
  <2>1. r \in Jobs /\ r.target = job[a].target
    BY <1>0, JobUpdated
  <2>2. job' = [job EXCEPT ![a] = r]
    BY <1>27 DEF RestartsTarget
  <2> HIDE DEF r
  <2>3. job' \in [Appliers -> Jobs] /\ \A b \in Appliers : job'[b].target = job[b].target
    BY <2>1, <2>2
  <2> QED
    BY <1>0, <1>27, <2>3 DEF
       RestartsTarget, ApplAt, Start, installVars, WorldOnly
<1>28. ASSUME NEW a \in Appliers, NEW h \in Hosts, RestartsPrevious(a, h)
      PROVE  TypeOK' /\ TargetKnown'
  BY <1>0, <1>28 DEF
     RestartsPrevious, Ends, Relinquish, Start, installVars, WorldOnly
<1> QED
  BY <1>1, <1>2, <1>3, <1>4, <1>5, <1>6, <1>7, <1>8, <1>9, <1>10, <1>11, <1>12, <1>13, <1>14,
     <1>15, <1>16, <1>17, <1>18, <1>19, <1>20, <1>21, <1>22, <1>23, <1>24, <1>25, <1>26, <1>27,
       <1>28
  DEF ApplierStep


\* The agent takes the mutex only when nobody has it, and never touches the
\* live trees or current.json.
LEMMA AgentKeepsWhole ==
    ASSUME IInv,
      Publish \/ (\E r \in Releases : CooldownElapses(r)) \/ AgentSpawned \/ AgentStep
    PROVE  MutexHeld' /\ Whole'
<1> USE HolderAssumption, NoJobTyped
    DEF IInv, TypeOK, MutexHeld, Whole, LockedPc, LiveIs,
        AgentSteps, HostSteps, SessionPc, VisiblePc, ApplierSteps, CutoverPc, ProvePc,
          SuccessPc, RestorePc,
         RestoredPc, TornPc, EndPc
<1>1. CASE Publish
  BY <1>1 DEF
       Publish, installVars, stagingVars, hostVars
<1>2. ASSUME NEW r \in Releases, CooldownElapses(r)
      PROVE  MutexHeld' /\ Whole'
  BY <1>2 DEF
       CooldownElapses, installVars, stagingVars, hostVars
<1>3. CASE AgentSpawned
  BY <1>3 DEF
       AgentSpawned, AgentOnly, installVars, hostVars
<1>4. CASE AgentFindsNothing
  BY <1>4 DEF
       AgentFindsNothing, MutexFree, AgentOnly, installVars, hostVars
<1>5. CASE AgentAcquires
  BY <1>5 DEF
       AgentAcquires, Acquire, MutexFree, AgentOnly, installVars, hostVars
<1>6. CASE AgentExtractsDesktop
  BY <1>6 DEF
       AgentExtractsDesktop, AgentOnly, installVars, hostVars
<1>7. CASE AgentExtractsRuntime
  BY <1>7 DEF
       AgentExtractsRuntime, AgentOnly, installVars, hostVars
<1>8. CASE AgentRebuildsHelper
  BY <1>8 DEF
       AgentRebuildsHelper, AgentOnly, installVars, hostVars
<1>9. CASE AgentHitsLockedHelper
  BY <1>9 DEF
       AgentHitsLockedHelper, Relinquish, AgentOnly, installVars, hostVars
<1>10. CASE AgentPublishesPending
  BY <1>10 DEF
       AgentPublishesPending, AgentOnly, installVars, hostVars
<1>11. CASE AgentReturns
  BY <1>11 DEF
       AgentReturns, Relinquish, AgentOnly, installVars, hostVars
<1>12. CASE AgentAborts
  BY <1>12 DEF
       AgentAborts, Relinquish, AgentOnly, installVars, hostVars
<1> QED
  BY <1>1, <1>2, <1>3, <1>4, <1>5, <1>6, <1>7, <1>8, <1>9, <1>10, <1>11, <1>12
  DEF AgentStep


\* The two conjuncts depend on nothing but the mutex, the program counters, the
\* installation and what the helpers know of it.
LEMMA SameKnowledge ==
    ASSUME MutexHeld, Whole, UNCHANGED <<opMutex, agentPc, applPc, live, current>>,
           \A a \in Appliers : /\ job'[a].target = job[a].target
                               /\ job'[a].previous = job[a].previous
                               /\ job'[a].moved = job[a].moved
    PROVE  MutexHeld' /\ Whole'
<1>1. MutexHeld'
  BY DEF MutexHeld
<1>2. Whole'
  BY DEF Whole, LiveIs
<1> QED
  BY <1>1, <1>2

\* A host leaves the mutex, the live trees and current.json alone.
LEMMA HostKeepsWhole ==
    ASSUME IInv, \E h \in Hosts : HostStep(h) \/ OperatorStep(h) \/ HostCrashes(h)
    PROVE  MutexHeld' /\ Whole'
<1> USE HolderAssumption, NoJobTyped
    DEF IInv, TypeOK, MutexHeld, Whole, LockedPc, LiveIs,
        AgentSteps, HostSteps, SessionPc, VisiblePc, ApplierSteps, CutoverPc, ProvePc,
          SuccessPc, RestorePc,
         RestoredPc, TornPc, EndPc
<1>1. ASSUME NEW h \in Hosts, PassesGate(h)
      PROVE  MutexHeld' /\ Whole'
  BY <1>1 DEF
       PassesGate, HostAt, GateOnly, installVars, stagingVars
<1>2. ASSUME NEW h \in Hosts, RefusedAtGate(h)
      PROVE  MutexHeld' /\ Whole'
  <2>1. \A a \in Appliers : /\ job'[a].target = job[a].target /\ job'[a].previous = job[a].previous
                            /\ job'[a].moved = job[a].moved
    BY <1>2, HostEndsKeeps DEF RefusedAtGate
  <2>2. UNCHANGED <<opMutex, agentPc, applPc, live, current>>
    BY <1>2 DEF RefusedAtGate, GateOnly, installVars, stagingVars
  <2> QED
    BY <2>1, <2>2, SameKnowledge
<1>3. ASSUME NEW h \in Hosts, TakesSession(h)
      PROVE  MutexHeld' /\ Whole'
  BY <1>3 DEF
       TakesSession, HostAt, GateOnly, installVars, stagingVars
<1>4. ASSUME NEW h \in Hosts, YieldsToSession(h)
      PROVE  MutexHeld' /\ Whole'
  <2>1. \A a \in Appliers : /\ job'[a].target = job[a].target /\ job'[a].previous = job[a].previous
                            /\ job'[a].moved = job[a].moved
    BY <1>4, HostEndsKeeps DEF YieldsToSession
  <2>2. UNCHANGED <<opMutex, agentPc, applPc, live, current>>
    BY <1>4 DEF YieldsToSession, GateOnly, installVars, stagingVars
  <2> QED
    BY <2>1, <2>2, SameKnowledge
<1>5. ASSUME NEW h \in Hosts, WaitsForSession(h)
      PROVE  MutexHeld' /\ Whole'
  BY <1>5 DEF
       WaitsForSession, HostAt, GateOnly, installVars, stagingVars
<1>6. ASSUME NEW h \in Hosts, WaitTimesOut(h)
      PROVE  MutexHeld' /\ Whole'
  <2>1. \A a \in Appliers : /\ job'[a].target = job[a].target /\ job'[a].previous = job[a].previous
                            /\ job'[a].moved = job[a].moved
    BY <1>6, HostEndsKeeps DEF WaitTimesOut
  <2>2. UNCHANGED <<opMutex, agentPc, applPc, live, current>>
    BY <1>6 DEF WaitTimesOut, GateOnly, installVars, stagingVars
  <2> QED
    BY <2>1, <2>2, SameKnowledge
<1>7. ASSUME NEW h \in Hosts, ShowsPreviousResult(h)
      PROVE  MutexHeld' /\ Whole'
  BY <1>7 DEF
       ShowsPreviousResult, HostAt, installVars, stagingVars
<1>8. ASSUME NEW h \in Hosts, ServesRuntime(h)
      PROVE  MutexHeld' /\ Whole'
  BY <1>8 DEF
       ServesRuntime, installVars, stagingVars, hostVars
<1>9. ASSUME NEW h \in Hosts, StartupFails(h)
      PROVE  MutexHeld' /\ Whole'
  BY <1>9 DEF
       StartupFails, HostAt, GateOnly, installVars, stagingVars
<1>10. ASSUME NEW h \in Hosts, ReconcilesPending(h)
      PROVE  MutexHeld' /\ Whole'
  BY <1>10 DEF
       ReconcilesPending, installVars, stagingVars, hostVars
<1>11. ASSUME NEW h \in Hosts, ConsentFails(h)
      PROVE  MutexHeld' /\ Whole'
  BY <1>11 DEF
       ConsentFails, HostAt, installVars, stagingVars
<1>12. ASSUME NEW h \in Hosts, Exits(h)
      PROVE  MutexHeld' /\ Whole'
  <2>1. \A a \in Appliers : /\ job'[a].target = job[a].target /\ job'[a].previous = job[a].previous
                            /\ job'[a].moved = job[a].moved
    BY <1>12, HostEndsKeeps DEF Exits
  <2>2. UNCHANGED <<opMutex, agentPc, applPc, live, current>>
    BY <1>12 DEF Exits, GateOnly, installVars, stagingVars
  <2> QED
    BY <2>1, <2>2, SameKnowledge
<1>13. ASSUME NEW h \in Hosts, UserLaunches(h)
      PROVE  MutexHeld' /\ Whole'
  BY <1>13 DEF
       UserLaunches, Start, GateOnly, installVars, stagingVars
<1>14. ASSUME NEW h \in Hosts, OpensPrompt(h)
      PROVE  MutexHeld' /\ Whole'
  BY <1>14 DEF
       OpensPrompt, HostAt, GateOnly, installVars, stagingVars
<1>15. ASSUME NEW h \in Hosts, Declines(h)
      PROVE  MutexHeld' /\ Whole'
  BY <1>15 DEF
       Declines, HostAt, installVars, stagingVars
<1>16. ASSUME NEW h \in Hosts, Consents(h)
      PROVE  MutexHeld' /\ Whole'
  BY <1>16 DEF
       Consents, HostAt, installVars, stagingVars
<1>17. ASSUME NEW h \in Hosts, Closes(h)
      PROVE  MutexHeld' /\ Whole'
  BY <1>17 DEF
       Closes, HostAt, GateOnly, installVars, stagingVars
<1>18. ASSUME NEW h \in Hosts, HostCrashes(h)
      PROVE  MutexHeld' /\ Whole'
  <2>1. \A b \in Appliers : \/ applPc'[b] = "dead" /\ job'[b] = NoJob
                            \/ /\ applPc'[b] = applPc[b] /\ job'[b].target = job[b].target
                               /\ job'[b].previous = job[b].previous /\ job'[b].moved = job[b].moved
    BY <1>18, JobsWithoutKeeps DEF HostCrashes
  <2>2. UNCHANGED <<opMutex, agentPc, live, current>>
    BY <1>18 DEF HostCrashes, installVars, stagingVars
  <2>3. MutexHeld'
    <3>1. ASSUME NEW b \in Appliers,
                 applPc'[b] \in LockedPc \/ job'[b].previous # None \/ job'[b].moved # {}
          PROVE  opMutex' = b
      <4>1. applPc'[b] # "dead" \/ job'[b] # NoJob
        BY <3>1
      <4> QED
        BY <2>1, <2>2, <3>1, <4>1
    <3> QED
      BY <2>2, <3>1
  <2>4. Whole'
    BY <2>1, <2>2
  <2> QED
    BY <2>3, <2>4
<1>19. ASSUME NEW h \in Hosts, NEW a \in Appliers, BeginsHandoff(h, a)
      PROVE  MutexHeld' /\ Whole'
  BY <1>19 DEF
       BeginsHandoff, HostAt, installVars, stagingVars
<1>20. ASSUME NEW h \in Hosts, NEW a \in Appliers, StartsHelper(h, a)
      PROVE  MutexHeld' /\ Whole'
  BY <1>20 DEF
       StartsHelper, HostAt, installVars, stagingVars
<1>21. ASSUME NEW h \in Hosts, NEW a \in Appliers, HelperStartFails(h, a)
      PROVE  MutexHeld' /\ Whole'
  BY <1>21 DEF
       HelperStartFails, HostAt, installVars, stagingVars
<1> QED
  BY <1>1, <1>2, <1>3, <1>4, <1>5, <1>6, <1>7, <1>8, <1>9, <1>10, <1>11, <1>12, <1>13, <1>14,
     <1>15, <1>16, <1>17, <1>18, <1>19, <1>20, <1>21
  DEF HostStep, OperatorStep


\* A helper changes the live trees and current.json only with the mutex, so no
\* other helper is at a step that relies on them.
LEMMA ApplierKeepsWhole ==
    ASSUME IInv, \E a \in Appliers : ApplierStep(a) \/ ApplierCrashes(a)
    PROVE  MutexHeld' /\ Whole'
<1> USE HolderAssumption, NoJobTyped
    DEF IInv, TypeOK, MutexHeld, Whole, LockedPc, LiveIs,
        AgentSteps, HostSteps, SessionPc, VisiblePc, ApplierSteps, CutoverPc, ProvePc,
          SuccessPc, RestorePc,
         RestoredPc, TornPc, EndPc
<1>1. ASSUME NEW a \in Appliers, ChecksToken(a)
      PROVE  MutexHeld' /\ Whole'
  BY <1>1 DEF
       ChecksToken, ApplAt, installVars, hostVars, WorldOnly
<1>2. ASSUME NEW a \in Appliers, TakesLock(a)
      PROVE  MutexHeld' /\ Whole'
  BY <1>2 DEF
       TakesLock, Acquire, MutexFree, ApplAt, installVars, hostVars, WorldOnly
<1>3. ASSUME NEW a \in Appliers, LockTimesOut(a)
      PROVE  MutexHeld' /\ Whole'
  BY <1>3 DEF
       LockTimesOut, MutexFree, ApplAt, installVars, hostVars, WorldOnly
<1>4. ASSUME NEW a \in Appliers, ReadsAccepted(a)
      PROVE  MutexHeld' /\ Whole'
  BY <1>4 DEF
       ReadsAccepted, ApplAt, installVars, hostVars, WorldOnly
<1>5. ASSUME NEW a \in Appliers, TakesSnapshot(a)
      PROVE  MutexHeld' /\ Whole'
  BY <1>5 DEF
       TakesSnapshot, ApplAt, installVars, hostVars, WorldOnly
<1>6. ASSUME NEW a \in Appliers, WritesCurrent(a)
      PROVE  MutexHeld' /\ Whole'
  BY <1>6 DEF
       WritesCurrent, LiveIs, ApplAt, hostVars, WorldOnly
<1>7. ASSUME NEW a \in Appliers, ProvesRestart(a)
      PROVE  MutexHeld' /\ Whole'
  BY <1>7 DEF
       ProvesRestart, ApplAt, installVars, hostVars, WorldOnly
<1>8. ASSUME NEW a \in Appliers, RestartUnproved(a)
      PROVE  MutexHeld' /\ Whole'
  BY <1>8 DEF
       RestartUnproved, ApplAt, installVars, hostVars, WorldOnly
<1>9. ASSUME NEW a \in Appliers, FileOperationFails(a)
      PROVE  MutexHeld' /\ Whole'
  BY <1>9 DEF
       FileOperationFails, ApplAt, installVars, hostVars, WorldOnly
<1>10. ASSUME NEW a \in Appliers, ReportsSuccess(a)
      PROVE  MutexHeld' /\ Whole'
  BY <1>10 DEF
       ReportsSuccess, ApplAt, installVars, hostVars, WorldOnly
<1>11. ASSUME NEW a \in Appliers, CleansUp(a)
      PROVE  MutexHeld' /\ Whole'
  BY <1>11 DEF
       CleansUp, ApplAt, installVars, hostVars, WorldOnly
<1>12. ASSUME NEW a \in Appliers, ClearsHandoff(a)
      PROVE  MutexHeld' /\ Whole'
  BY <1>12 DEF
       ClearsHandoff, ApplAt, installVars, hostVars, WorldOnly
<1>13. ASSUME NEW a \in Appliers, Housekeeps(a)
      PROVE  MutexHeld' /\ Whole'
  BY <1>13 DEF
       Housekeeps, Ends, Relinquish, hostVars, WorldOnly
<1>14. ASSUME NEW a \in Appliers, StopsPeers(a)
      PROVE  MutexHeld' /\ Whole'
  <2> DEFINE killed == {h \in Hosts : hostPc[h] # "off" /\ h # job[a].parent}
             fallen == {b \in Appliers : job[b].parent \in killed /\ applPc[b] \notin EndPc}
  <2>1. job' = JobsWithout(killed, fallen)
    BY <1>14 DEF StopsPeers
  <2>2. /\ a \notin fallen /\ applPc[a] = "stop_peers" /\ applPc'[a] = "restore_desktop"
        /\ \A b \in fallen : applPc'[b] = "dead"
        /\ \A b \in Appliers \ fallen : b # a => applPc'[b] = applPc[b]
    BY <1>14 DEF StopsPeers
  <2>3. opMutex' = IF opMutex \in fallen THEN Nobody ELSE opMutex
    BY <1>14 DEF StopsPeers
  <2>4. UNCHANGED <<agentPc, live, current>>
    BY <1>14 DEF StopsPeers, installVars, WorldOnly
  <2>5. fallen \subseteq Appliers
    OBVIOUS
  <2> HIDE DEF killed, fallen
  <2>6. /\ \A b \in fallen : job'[b] = NoJob
        /\ \A b \in Appliers \ fallen :
              /\ job'[b].target = job[b].target /\ job'[b].previous = job[b].previous
              /\ job'[b].moved = job[b].moved
    BY <2>1, <2>5, JobsWithoutKeeps
  <2>7. MutexHeld'
    <3>1. ASSUME NEW b \in Appliers,
                 applPc'[b] \in LockedPc \/ job'[b].previous # None \/ job'[b].moved # {}
          PROVE  opMutex' = b
      <4>1. b \notin fallen
        BY <2>2, <2>6, <3>1
      <4>2. opMutex = b
        BY <2>2, <2>6, <3>1, <4>1
      <4> QED
        BY <2>3, <4>1, <4>2
    <3>2. agentPc' \notin {"idle", "spawned"} => opMutex' = Agent
      BY <2>3, <2>4, <2>5
    <3> QED
      BY <3>1, <3>2
  <2>8. Whole'
    BY <2>2, <2>4, <2>5, <2>6
  <2> QED
    BY <2>7, <2>8
<1>15. ASSUME NEW a \in Appliers, RestoresMetadata(a)
      PROVE  MutexHeld' /\ Whole'
  BY <1>15 DEF
       RestoresMetadata, MayRestoreMetadata, LiveIs, ApplAt, hostVars, WorldOnly
<1>16. ASSUME NEW a \in Appliers, LeavesMetadata(a)
      PROVE  MutexHeld' /\ Whole'
  BY <1>16 DEF
       LeavesMetadata, MayRestoreMetadata, LiveIs, ApplAt, installVars, hostVars, WorldOnly
<1>17. ASSUME NEW a \in Appliers, ReportsFailure(a)
      PROVE  MutexHeld' /\ Whole'
  BY <1>17 DEF
       ReportsFailure, Failure, ApplAt, installVars, hostVars, WorldOnly
<1>18. ASSUME NEW a \in Appliers, DiscardsConsent(a)
      PROVE  MutexHeld' /\ Whole'
  BY <1>18 DEF
       DiscardsConsent, ApplAt, installVars, hostVars, WorldOnly
<1>19. ASSUME NEW a \in Appliers, RetainsHandoff(a)
      PROVE  MutexHeld' /\ Whole'
  BY <1>19 DEF
       RetainsHandoff, Ends, Relinquish, installVars, hostVars, WorldOnly
<1>20. ASSUME NEW a \in Appliers, RollbackThrows(a)
      PROVE  MutexHeld' /\ Whole'
  BY <1>20 DEF
       RollbackThrows, Failure, Results, Ends, Relinquish, installVars, hostVars, WorldOnly
<1>21. ASSUME NEW a \in Appliers, ApplierCrashes(a)
      PROVE  MutexHeld' /\ Whole'
  BY <1>21 DEF
       ApplierCrashes, Ends, Relinquish, installVars, hostVars, WorldOnly
<1>22. ASSUME NEW a \in Appliers, NEW p \in Trees, MovesOut(a, p)
      PROVE  MutexHeld' /\ Whole'
  BY <1>22 DEF
       MovesOut, Trees, ApplAt, OutAt, InAt, hostVars, WorldOnly
<1>23. ASSUME NEW a \in Appliers, NEW p \in Trees, MovesIn(a, p)
      PROVE  MutexHeld' /\ Whole'
  BY <1>23 DEF
       MovesIn, Trees, ApplAt, InAt, AfterIn, hostVars, WorldOnly
<1>24. ASSUME NEW a \in Appliers, NEW p \in Trees, Restores(a, p)
      PROVE  MutexHeld' /\ Whole'
  BY <1>24 DEF
       Restores, Trees, ApplAt, RestoreAt, AfterRestore, hostVars, WorldOnly
<1>25. ASSUME NEW a \in Appliers, NEW p \in Trees, RestoreFails(a, p)
      PROVE  MutexHeld' /\ Whole'
  BY <1>25 DEF
       RestoreFails, Trees, ApplAt, RestoreAt, AfterRestore, hostVars, WorldOnly
<1>26. ASSUME NEW a \in Appliers, NEW p \in Trees, NothingToRestore(a, p)
      PROVE  MutexHeld' /\ Whole'
  BY <1>26 DEF
       NothingToRestore, Trees, ApplAt, RestoreAt, AfterRestore, installVars, hostVars,
         WorldOnly
<1>27. ASSUME NEW a \in Appliers, NEW h \in Hosts, RestartsTarget(a, h)
      PROVE  MutexHeld' /\ Whole'
  BY <1>27 DEF
       RestartsTarget, ApplAt, Start, installVars, WorldOnly
<1>28. ASSUME NEW a \in Appliers, NEW h \in Hosts, RestartsPrevious(a, h)
      PROVE  MutexHeld' /\ Whole'
  BY <1>28 DEF
       RestartsPrevious, Ends, Relinquish, Start, installVars, WorldOnly
<1> QED
  BY <1>1, <1>2, <1>3, <1>4, <1>5, <1>6, <1>7, <1>8, <1>9, <1>10, <1>11, <1>12, <1>13, <1>14,
     <1>15, <1>16, <1>17, <1>18, <1>19, <1>20, <1>21, <1>22, <1>23, <1>24, <1>25, <1>26, <1>27,
       <1>28
  DEF ApplierStep

----------------------------------------------------------------------------
\* A freshly bootstrapped product satisfies the invariant.
LEMMA InitInv == Init => IInv
<1> SUFFICES ASSUME Init PROVE IInv
  OBVIOUS
<1> USE DEF Init, AgentSteps, HostSteps, SessionPc, VisiblePc, ApplierSteps, CutoverPc, ProvePc,
         SuccessPc, RestorePc, RestoredPc, TornPc, EndPc, LockedPc
<1>1. 0 \in Generations /\ 0 \in TreeContent
  BY ReleaseAssumption DEF Generations, TreeContent, MaybeGeneration
<1>2. TypeOK
  BY <1>1, Numbers, NoJobTyped DEF TypeOK, Results, NoResult, Trees, Parts
<1>3. TargetKnown /\ MutexHeld /\ Whole
  BY NoJobTyped DEF TargetKnown, MutexHeld, Whole
<1> QED
  BY <1>2, <1>3 DEF IInv

\* Every step, and every stutter, keeps it.
LEMMA StepInv == IInv /\ [Next]_vars => IInv'
<1> SUFFICES ASSUME IInv, [Next]_vars PROVE IInv'
  OBVIOUS
<1>1. TypeOK /\ TargetKnown
  BY DEF IInv
<1>2. CASE Publish \/ (\E r \in Releases : CooldownElapses(r)) \/ AgentSpawned \/ AgentStep
  BY <1>1, <1>2, AgentTyped, AgentKeepsWhole DEF IInv
<1>3. CASE \E h \in Hosts : HostStep(h) \/ OperatorStep(h) \/ HostCrashes(h)
  BY <1>1, <1>3, HostTyped, HostKeepsWhole DEF IInv
<1>4. CASE \E a \in Appliers : ApplierStep(a) \/ ApplierCrashes(a)
  BY <1>1, <1>4, ApplierTyped, ApplierKeepsWhole DEF IInv
<1>5. CASE UNCHANGED vars
  <2>1. TypeOK'
    BY <1>1, <1>5 DEF TypeOK, vars, installVars, stagingVars, hostVars
  <2>2. TargetKnown' /\ MutexHeld' /\ Whole'
    BY <1>5 DEF IInv, TargetKnown, MutexHeld, Whole, LiveIs, vars, installVars, stagingVars,
       hostVars
  <2> QED
    BY <2>1, <2>2 DEF IInv
<1> QED
  BY <1>2, <1>3, <1>4, <1>5 DEF Next

\* The invariant holds in every reachable state.
THEOREM Invariance == Spec => []IInv
<1>1. Init => IInv
  BY InitInv
<1>2. IInv /\ [Next]_vars => IInv'
  BY StepInv
<1> QED
  BY <1>1, <1>2, PTL DEF Spec

\* Type correctness, for any number of hosts, helpers and releases, and for
\* every choice of faults.
THEOREM TypeCorrect == Spec => []TypeOK
<1>1. IInv => TypeOK
  BY DEF IInv
<1> QED
  BY <1>1, Invariance, PTL

\* At most one update operation per installation: the operation mutex, taken
\* before the first read of the accepted manifest and released in `finally`,
\* keeps two helpers, and a helper and the agent, apart whatever crashes.
THEOREM MutualExclusion == Spec => []OneOperation
<1>1. IInv => OneOperation
  <2> SUFFICES ASSUME IInv, NEW a \in Appliers, Operating(a)
               PROVE  /\ agentPc \in {"idle", "spawned"}
                      /\ \A b \in Appliers \ {a} : ~Operating(b) /\ job[b].moved = {}
    BY DEF OneOperation
  <2>1. \A b \in Appliers : Operating(b) \/ job[b].moved # {} => opMutex = b
    BY DEF IInv, MutexHeld, Whole, Operating
  <2>2. opMutex = a
    BY <2>1
  <2>3. agentPc \in {"idle", "spawned"}
    BY <2>2, HolderAssumption DEF IInv, MutexHeld
  <2> QED
    BY <2>1, <2>2, <2>3
<1> QED
  BY <1>1, Invariance, PTL

\* A reported success is a whole generation: both trees and current.json are
\* the accepted target from the report until the mutex is released.
THEOREM SuccessWhole == Spec => []SuccessIsWhole
<1>1. IInv => SuccessIsWhole
  BY DEF IInv, Whole, SuccessIsWhole
<1> QED
  BY <1>1, Invariance, PTL

\* A rollback that drops the handoff and the consent has put both trees and
\* current.json back to what the helper had found.
THEOREM RollbackWhole == Spec => []RollbackIsWhole
<1>1. IInv => RollbackIsWhole
  BY DEF IInv, Whole, RollbackIsWhole
<1> QED
  BY <1>1, Invariance, PTL

\* Only while a helper holds the operation mutex do the live trees or
\* current.json change: a catch block entered without the mutex has moved
\* nothing and read nothing, so it restores nothing.
THEOREM InstallGuarded == Spec => InstallUnderMutex
<1>1. IInv /\ [Next]_vars => [(live' # live \/ current' # current) => opMutex \in Appliers]_vars
  <2> SUFFICES ASSUME IInv, [Next]_vars, live' # live \/ current' # current
               PROVE  opMutex \in Appliers
    OBVIOUS
  <2> USE DEF installVars
  <2>1. CASE Publish \/ (\E r \in Releases : CooldownElapses(r)) \/ AgentSpawned \/ AgentStep
    BY <2>1 DEF Publish, CooldownElapses, AgentSpawned, AgentStep, AgentFindsNothing,
       AgentAcquires, AgentExtractsDesktop, AgentExtractsRuntime, AgentRebuildsHelper,
       AgentHitsLockedHelper, AgentPublishesPending, AgentReturns, AgentAborts, AgentOnly
  <2>2. CASE \E h \in Hosts : HostStep(h) \/ OperatorStep(h) \/ HostCrashes(h)
    <3>1. PICK h \in Hosts : HostStep(h) \/ OperatorStep(h) \/ HostCrashes(h)
      BY <2>2
    <3>2. CASE HostStep(h)
      BY <3>2 DEF HostStep, PassesGate, RefusedAtGate, TakesSession, YieldsToSession,
         WaitsForSession, WaitTimesOut, ShowsPreviousResult, ServesRuntime, StartupFails,
         ReconcilesPending, ConsentFails, Exits, BeginsHandoff, StartsHelper, HelperStartFails,
         GateOnly
    <3>3. CASE OperatorStep(h)
      BY <3>3 DEF OperatorStep, UserLaunches, OpensPrompt, Declines, Consents, Closes, GateOnly
    <3>4. CASE HostCrashes(h)
      BY <3>4 DEF HostCrashes
    <3> QED
      BY <3>1, <3>2, <3>3, <3>4
  <2>3. CASE \E a \in Appliers : ApplierStep(a) \/ ApplierCrashes(a)
    <3>1. PICK a \in Appliers : ApplierStep(a) \/ ApplierCrashes(a)
      BY <2>3
    <3>2. CASE \E p \in Trees : MovesOut(a, p) \/ MovesIn(a, p) \/ Restores(a, p) \/ RestoreFails(a, p)
      <4>1. applPc[a] \in CutoverPc \/ job[a].moved # {}
        BY <3>2 DEF MovesOut, MovesIn, Restores, RestoreFails, ApplAt, OutAt, InAt, Trees, CutoverPc
      <4> QED
        BY <4>1 DEF IInv, MutexHeld, LockedPc
    <3>3. CASE WritesCurrent(a) \/ RestoresMetadata(a)
      <4>1. applPc[a] \in CutoverPc \/ job[a].previous # None
        BY <3>3 DEF WritesCurrent, RestoresMetadata, MayRestoreMetadata, ApplAt, CutoverPc
      <4> QED
        BY <4>1 DEF IInv, MutexHeld, LockedPc
    <3>4. CASE ChecksToken(a) \/ TakesLock(a) \/ LockTimesOut(a) \/ ReadsAccepted(a)
               \/ TakesSnapshot(a) \/ FileOperationFails(a) \/ StopsPeers(a)
      BY <3>4 DEF ChecksToken, TakesLock, LockTimesOut, ReadsAccepted, TakesSnapshot,
         FileOperationFails, StopsPeers
    <3>5. CASE \/ \E h \in Hosts : RestartsTarget(a, h) \/ RestartsPrevious(a, h)
               \/ ProvesRestart(a) \/ RestartUnproved(a) \/ ReportsSuccess(a) \/ CleansUp(a)
               \/ ClearsHandoff(a) \/ Housekeeps(a)
      BY <3>5 DEF RestartsTarget, RestartsPrevious, ProvesRestart, RestartUnproved,
         ReportsSuccess, CleansUp, ClearsHandoff, Housekeeps
    <3>6. CASE \/ \E p \in Trees : NothingToRestore(a, p)
               \/ LeavesMetadata(a) \/ ReportsFailure(a) \/ DiscardsConsent(a)
               \/ RetainsHandoff(a) \/ RollbackThrows(a) \/ ApplierCrashes(a)
      BY <3>6 DEF NothingToRestore, LeavesMetadata, ReportsFailure, DiscardsConsent,
         RetainsHandoff, RollbackThrows, ApplierCrashes
    <3> QED
      BY <3>1, <3>2, <3>3, <3>4, <3>5, <3>6 DEF ApplierStep
  <2>4. CASE UNCHANGED vars
    BY <2>4 DEF vars
  <2> QED
    BY <2>1, <2>2, <2>3, <2>4 DEF Next
<1> QED
  BY <1>1, Invariance, PTL DEF Spec, InstallUnderMutex
=============================================================================
