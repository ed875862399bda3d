---------------------------- MODULE HandoffProofs ----------------------------
(***************************************************************************)
(* What the handoff file protects, as long as no dialog is open while it   *)
(* is on disk (DialogsApart): torn trees are never started, a helper       *)
(* installs what its operator saw, and a release that failed is not        *)
(* offered again while it cools down.                                      *)
(***************************************************************************)
EXTENDS ProductUpdateProofs

----------------------------------------------------------------------------
(* The invariant.                                                          *)

\* The single-instance mutex: one host has the session.
OneSession == \A g, h \in Hosts : hostPc[g] \in SessionPc /\ hostPc[h] \in SessionPc => g = h

\* A release that what is staged, now or later, never falls back behind.
Behind(r) ==
    /\ r <= published
    /\ pending # None => r <= pending
    /\ agentRelease # None => r <= agentRelease

\* A release that is never staged again.
Past(r) ==
    /\ r < published
    /\ pending # None => r < pending
    /\ agentRelease # None => r < agentRelease

\* Every release anybody remembers was staged before what is staged now.
Ordered ==
    /\ Behind(pending) /\ Behind(accepted) /\ Behind(result.target)
    /\ agentRelease <= published
    /\ \A r \in cooling : Behind(r)
    /\ \A h \in Hosts : Behind(hostOffer[h])
    /\ \A a \in Appliers : Behind(job[a].image) /\ Behind(job[a].target)

\* Steps of a helper before the consent is read and after it was good, before
\* anything is moved, with the failure on record, and with the handoff to clear.
ConsentPc == {"minted", "token", "lock", "read"}
TargetPc == {"snapshot"} \cup CutoverPc \cup ProvePc \cup SuccessPc
EarlyPc == ConsentPc \cup {"snapshot", "out_desktop"}
UndonePc == {"discard", "clear_restored"}
FlightPc == EarlyPc \cup CutoverPc \cup ProvePc \cup RestorePc
            \cup {"report_success", "cleanup", "clear_success", "report_restored"}
HolderPc == FlightPc \cup UndonePc \cup TornPc

\* A helper that has the handoff to clear wrote it, and nobody overwrote it.
HandoffHeld == \A a \in Appliers : applPc[a] \in HolderPc => handoff = a

\* The host that minted a token is about to start the helper.
MintedByHost ==
    \A a \in Appliers : applPc[a] = "minted" =>
        job[a].parent \in Hosts /\ hostPc[job[a].parent] = "handoff"

\* What a helper finds is whole.
WholeBefore == \A a \in Appliers : applPc[a] \in EarlyPc => LiveIs(current)

\* The consent on disk is the one of the dialog, from the Yes to the helper, which
\* starts from nothing.
ConsentKept ==
    /\ \A h \in Hosts : hostPc[h] = "consent" => accepted = hostOffer[h]
    /\ \A a \in Appliers :
          /\ applPc[a] = "off" => job[a].previous = None
          /\ applPc[a] \in ConsentPc => accepted = job[a].image
          /\ applPc[a] \in TargetPc \/ job[a].previous # None
                => job[a].target = job[a].image

\* A failure still to be shown names no release beyond r.
ShownUpTo(r) == result.status = "failed" => result.target <= r

\* What an operator is asked to install is newer than all that failed before.
OfferNew ==
    \A h \in Hosts : hostPc[h] \in {"prompt", "consent"} =>
        /\ hostOffer[h] > current /\ ShownUpTo(hostOffer[h])
        /\ \A r \in cooling : r < hostOffer[h]

\* So is what a helper installs, although the failure shown while it works may
\* be one of the same release.
ImageNew ==
    \A a \in Appliers :
        /\ applPc[a] = "minted" => \A r \in cooling : r < job[a].image
        /\ applPc[a] \in FlightPc => ShownUpTo(job[a].image) /\ \A r \in cooling : r <= job[a].image
        /\ applPc[a] \in EarlyPc => job[a].image > current
        /\ applPc[a] \in HolderPc /\ job[a].previous # None => job[a].image > job[a].previous

\* A helper that rolled back leaves its release snoozed.
Snoozed ==
    \A a \in Appliers : applPc[a] \in UndonePc =>
        /\ \A r \in cooling : r <= job[a].image /\ (r = job[a].image => r = snooze)
        /\ result.status = "failed" => result.target = job[a].image

\* Without a handoff, what cools down is snoozed or can be offered no more, also
\* after the failure still to be shown has taken the snooze over.
Blocked(r) == Past(r) \/ r <= current
CoolingBlocked ==
    handoff = NoToken =>
        /\ \A r \in cooling : r = snooze \/ Blocked(r)
        /\ result.status = "failed" /\ result.target # None
              => \A r \in cooling : r = result.target \/ Blocked(r)

HandoffInv == /\ HandoffHeld /\ MintedByHost
              /\ WholeBefore /\ TornOnlyUnderHandoff /\ ConsentKept
CoolingInv == OfferNew /\ ImageNew /\ Snoozed /\ CoolingBlocked
HInv == OneSession /\ Ordered /\ HandoffInv /\ CoolingInv

----------------------------------------------------------------------------
(* What steps do to processes.                                             *)

\* The end of hosts and helpers takes the parent of a helper away only with the
\* host itself.
LEMMA JobsWithoutParent ==
    ASSUME job \in [Appliers -> Jobs], NEW S, NEW F, NEW a \in Appliers \ F, job[a].parent \notin S
    PROVE  JobsWithout(S, F)[a].parent = job[a].parent
<1> DEFINE Gone(h) == IF h \in S THEN NoHost ELSE h
           Left == [job[a] EXCEPT !.parent = Gone(@), !.child = Gone(@)]
<1>1. JobsWithout(S, F)[a] = Left
  BY DEF JobsWithout
<1>2. job[a] \in Jobs /\ Gone(job[a].parent) = job[a].parent
  OBVIOUS
<1> HIDE DEF Gone
<1>3. Left.parent = job[a].parent
  BY <1>2 DEF Jobs
<1> QED
  BY <1>1, <1>3

\* The helpers survive the end of a host with what they know.
LEMMA HostEndsKeepsAll ==
    ASSUME TypeOK, NEW h \in Hosts, HostEnds(h)
    PROVE  /\ \A a \in Appliers : /\ job'[a].image = job[a].image /\ job'[a].target = job[a].target
                                  /\ job'[a].previous = job[a].previous
                                  /\ job[a].parent # h => job'[a].parent = job[a].parent
           /\ \A g \in Hosts : /\ g # h => hostPc'[g] = hostPc[g] /\ hostOffer'[g] = hostOffer[g]
                               /\ g = h => hostPc'[g] = "off" /\ hostOffer'[g] = None
<1>1. job' = JobsWithout({h}, {}) /\ job \in [Appliers -> Jobs]
  BY DEF HostEnds, TypeOK
<1>2. \A a \in Appliers : /\ job'[a].image = job[a].image /\ job'[a].target = job[a].target
                          /\ job'[a].previous = job[a].previous
                          /\ job[a].parent # h => job'[a].parent = job[a].parent
  <2> TAKE a \in Appliers
  <2>1. job[a].parent # h => job'[a].parent = job[a].parent
    BY <1>1, JobsWithoutParent
  <2> QED
    BY <1>1, <2>1, JobsWithoutKeeps
<1>3. \A g \in Hosts : /\ g # h => hostPc'[g] = hostPc[g] /\ hostOffer'[g] = hostOffer[g]
                       /\ g = h => hostPc'[g] = "off" /\ hostOffer'[g] = None
  BY DEF HostEnds, HostsEnd
<1> QED
  BY <1>2, <1>3

\* The single-instance mutex admits a host only when nobody has the session.
LEMMA SessionStep ==
    ASSUME TypeOK, OneSession, [Next]_vars
    PROVE  OneSession'
<1> USE DEF SessionPc, VisiblePc
<1>1. CASE \A h \in Hosts : hostPc'[h] \in SessionPc => hostPc[h] \in SessionPc
  BY <1>1 DEF OneSession
<1>2. ASSUME NEW h \in Hosts, TakesSession(h)
      PROVE  OneSession'
  BY <1>2 DEF TakesSession, SessionOpen, HostAt, TypeOK, OneSession
<1>3. ASSUME UNCHANGED hostPc
      PROVE  \A h \in Hosts : hostPc'[h] \in SessionPc => hostPc[h] \in SessionPc
  BY <1>3
<1>4. CASE Publish \/ (\E r \in Releases : CooldownElapses(r)) \/ AgentSpawned \/ AgentStep
  <2>1. UNCHANGED hostPc
    BY <1>4 DEF Publish, CooldownElapses, AgentSpawned, AgentStep, AgentFindsNothing,
       AgentAcquires, AgentExtractsDesktop, AgentExtractsRuntime, AgentRebuildsHelper,
       AgentHitsLockedHelper, AgentPublishesPending, AgentReturns, AgentAborts, AgentOnly, hostVars
  <2> QED
    BY <1>1, <1>3, <2>1
<1>5. ASSUME NEW h \in Hosts, HostStep(h) \/ OperatorStep(h) \/ HostCrashes(h), ~TakesSession(h)
      PROVE  \A g \in Hosts : hostPc'[g] \in SessionPc => hostPc[g] \in SessionPc
  <2>1. CASE RefusedAtGate(h) \/ YieldsToSession(h) \/ WaitTimesOut(h) \/ Exits(h)
    BY <2>1, HostEndsKeepsAll DEF RefusedAtGate, YieldsToSession, WaitTimesOut, Exits
  <2>2. CASE HostCrashes(h)
    BY <2>2 DEF HostCrashes, HostsEnd
  <2>3. CASE PassesGate(h) \/ WaitsForSession(h) \/ ShowsPreviousResult(h) \/ ServesRuntime(h)
             \/ StartupFails(h) \/ ReconcilesPending(h) \/ ConsentFails(h)
    BY <2>3 DEF TypeOK, PassesGate, WaitsForSession, ShowsPreviousResult, ServesRuntime, StartupFails,
       ReconcilesPending, ConsentFails, HostAt, hostVars
  <2>4. CASE \E a \in Appliers : BeginsHandoff(h, a) \/ StartsHelper(h, a) \/ HelperStartFails(h, a)
    BY <2>4 DEF TypeOK, BeginsHandoff, StartsHelper, HelperStartFails, HostAt
  <2>5. CASE OperatorStep(h)
    BY <2>5 DEF TypeOK, OperatorStep, UserLaunches, OpensPrompt, Declines, Consents, Closes, Start,
       HostAt
  <2> QED
    BY <1>5, <2>1, <2>2, <2>3, <2>4, <2>5 DEF HostStep
<1>6. ASSUME NEW a \in Appliers, ApplierStep(a) \/ ApplierCrashes(a)
      PROVE  \A g \in Hosts : hostPc'[g] \in SessionPc => hostPc[g] \in SessionPc
  <2>1. CASE StopsPeers(a)
    BY <2>1 DEF StopsPeers, HostsEnd
  <2>2. CASE \E h \in Hosts : RestartsTarget(a, h) \/ RestartsPrevious(a, h)
    BY <2>2 DEF TypeOK, RestartsTarget, RestartsPrevious, Start
  <2>3. CASE UNCHANGED hostPc
    BY <2>3
  <2>4. UNCHANGED hostPc \/ StopsPeers(a) \/ (\E h \in Hosts : RestartsTarget(a, h) \/ RestartsPrevious(a, h))
    BY <1>6 DEF ApplierStep, ApplierCrashes, ChecksToken, TakesLock, LockTimesOut, ReadsAccepted,
       TakesSnapshot, MovesOut, MovesIn, WritesCurrent, ProvesRestart, RestartUnproved,
       FileOperationFails, ReportsSuccess, CleansUp, ClearsHandoff, Housekeeps, Restores,
       RestoreFails, NothingToRestore, RestoresMetadata, LeavesMetadata, ReportsFailure,
       DiscardsConsent, RetainsHandoff, RollbackThrows, hostVars
  <2> QED
    BY <2>1, <2>2, <2>3, <2>4
<1>7. CASE UNCHANGED vars
  BY <1>1, <1>3, <1>7 DEF vars, hostVars
<1> QED
  BY <1>1, <1>2, <1>4, <1>5, <1>6, <1>7 DEF Next

----------------------------------------------------------------------------
(* Where releases flow.                                                    *)

\* What is published and staged only moves on, or is discarded.
LEMMA StageFlow ==
    ASSUME TypeOK, [Next]_vars
    PROVE  \/ UNCHANGED <<published, pending, agentRelease>>
           \/ published' = published + 1 /\ UNCHANGED <<pending, agentRelease>>
           \/ agentRelease' \in {None, published} /\ UNCHANGED <<published, pending>>
           \/ pending' \in {None, agentRelease} /\ UNCHANGED <<published, agentRelease>>
<1>1. CASE Publish \/ (\E r \in Releases : CooldownElapses(r)) \/ AgentSpawned \/ AgentStep
  BY <1>1 DEF Publish, CooldownElapses, AgentSpawned, AgentStep, AgentFindsNothing,
     AgentAcquires, NewestRelease, AgentExtractsDesktop, AgentExtractsRuntime,
     AgentRebuildsHelper, AgentHitsLockedHelper, AgentPublishesPending, AgentReturns,
     AgentAborts, AgentOnly, stagingVars
<1>2. ASSUME NEW h \in Hosts, HostStep(h) \/ OperatorStep(h) \/ HostCrashes(h)
      PROVE  pending' \in {pending, None} /\ UNCHANGED <<published, agentRelease>>
  BY <1>2 DEF HostStep, OperatorStep, HostCrashes, PassesGate, RefusedAtGate, TakesSession,
     YieldsToSession, WaitsForSession, WaitTimesOut, ShowsPreviousResult, ServesRuntime,
     StartupFails, ReconcilesPending, ConsentFails, Exits, BeginsHandoff, StartsHelper,
     HelperStartFails, UserLaunches, OpensPrompt, Declines, Consents, Closes, GateOnly, stagingVars
<1>3. ASSUME NEW a \in Appliers, ApplierStep(a) \/ ApplierCrashes(a)
      PROVE  pending' \in {pending, None} /\ UNCHANGED <<published, agentRelease>>
  <2>1. UNCHANGED <<published, agentRelease>>
    BY <1>3 DEF WorldOnly, ApplierStep, ApplierCrashes, ChecksToken, TakesLock, LockTimesOut,
       ReadsAccepted, TakesSnapshot, MovesOut, MovesIn, WritesCurrent, RestartsTarget,
       RestartsPrevious, ProvesRestart, RestartUnproved, FileOperationFails, ReportsSuccess,
       CleansUp, ClearsHandoff, Housekeeps, StopsPeers, Restores, RestoreFails, NothingToRestore,
       RestoresMetadata, LeavesMetadata, ReportsFailure, DiscardsConsent, RetainsHandoff,
       RollbackThrows
  <2>2. pending' \in {pending, None}
    BY <1>3 DEF ApplierStep, ApplierCrashes, ChecksToken, TakesLock, LockTimesOut,
       ReadsAccepted, TakesSnapshot, MovesOut, MovesIn, WritesCurrent, RestartsTarget,
       RestartsPrevious, ProvesRestart, RestartUnproved, FileOperationFails, ReportsSuccess,
       CleansUp, ClearsHandoff, Housekeeps, StopsPeers, Restores, RestoreFails, NothingToRestore,
       RestoresMetadata, LeavesMetadata, ReportsFailure, DiscardsConsent, RetainsHandoff,
       RollbackThrows
  <2> QED
    BY <2>1, <2>2
<1>4. CASE UNCHANGED vars
  BY <1>4 DEF vars, stagingVars
<1> QED
  BY <1>1, <1>2, <1>3, <1>4 DEF Next

\* So a release that was passed stays passed.
LEMMA BehindKept ==
    ASSUME TypeOK, Ordered, [Next]_vars, NEW r \in MaybeGeneration
    PROVE  (Behind(r) => Behind(r)') /\ (Past(r) => Past(r)')
<1>1. published \in Int /\ pending \in Int /\ agentRelease \in Int /\ r \in Int
  BY Numbers, ReleaseAssumption DEF TypeOK, MaybeGeneration, Generations, Releases, None
<1>2. Behind(pending) /\ agentRelease <= published
  BY DEF Ordered
<1> QED
  BY <1>1, <1>2, StageFlow DEF Behind, Past

\* Nobody remembers a release that was not staged: what processes, files and
\* the operator know they took from one another.
LEMMA HostFlow ==
    ASSUME TypeOK, NEW h \in Hosts, HostStep(h) \/ OperatorStep(h) \/ HostCrashes(h)
    PROVE  /\ accepted' \in {accepted, None, hostOffer[h]}
           /\ result' \in {result, NoResult}
           /\ \A r \in cooling' : r \in cooling \/ r = result.target
           /\ \A g \in Hosts : hostOffer'[g] \in {hostOffer[g], None, pending}
           /\ \A a \in Appliers : /\ job'[a].image \in {job[a].image, None, hostOffer[h]}
                                  /\ job'[a].target \in {job[a].target, None}
<1> USE DEF installVars, stagingVars, hostVars
<1>1. CASE RefusedAtGate(h) \/ YieldsToSession(h) \/ WaitTimesOut(h) \/ Exits(h)
  <2>1. HostEnds(h) /\ UNCHANGED <<accepted, result, cooling>>
    BY <1>1 DEF RefusedAtGate, YieldsToSession, WaitTimesOut, Exits, GateOnly
  <2> QED
    BY <2>1, HostEndsKeepsAll
<1>2. CASE HostCrashes(h)
  <2> DEFINE lost == {a \in Appliers : applPc[a] = "minted" /\ job[a].parent = h}
  <2>1. job' = JobsWithout({h}, lost) /\ HostsEnd({h}) /\ UNCHANGED <<accepted, result, cooling>>
    BY <1>2 DEF HostCrashes
  <2>2. \A a \in Appliers :
           job'[a] = NoJob \/ (job'[a].image = job[a].image /\ job'[a].target = job[a].target)
    BY <2>1, JobsWithoutKeeps DEF TypeOK
  <2>3. \A g \in Hosts : hostOffer'[g] \in {hostOffer[g], None}
    BY <2>1 DEF HostsEnd
  <2>4. NoJob.image = None /\ NoJob.target = None
    BY DEF NoJob
  <2> QED
    BY <2>1, <2>2, <2>3, <2>4
<1>3. CASE PassesGate(h) \/ WaitsForSession(h) \/ ServesRuntime(h) \/ StartupFails(h)
           \/ ReconcilesPending(h)
  BY <1>3 DEF PassesGate, WaitsForSession, ServesRuntime, StartupFails, ReconcilesPending, HostAt,
     GateOnly
<1>4. CASE TakesSession(h)
  BY <1>4 DEF TakesSession, GateOnly
<1>5. CASE ShowsPreviousResult(h)
  BY <1>5 DEF ShowsPreviousResult
<1>6. CASE ConsentFails(h)
  BY <1>6 DEF ConsentFails, TypeOK
<1>7. ASSUME NEW a \in Appliers, BeginsHandoff(h, a)
      PROVE  \A b \in Appliers : /\ job'[b].image \in {job[b].image, None, hostOffer[h]}
                                 /\ job'[b].target \in {job[b].target, None}
  <2>1. job' = [job EXCEPT ![a].image = hostOffer[h], ![a].parent = h]
    BY <1>7 DEF BeginsHandoff
  <2> QED
    BY <2>1 DEF TypeOK, Jobs
<1>8. CASE \E a \in Appliers : BeginsHandoff(h, a)
  BY <1>7, <1>8 DEF BeginsHandoff
<1>9. CASE \E a \in Appliers : StartsHelper(h, a)
  BY <1>9 DEF StartsHelper
<1>10. CASE \E a \in Appliers : HelperStartFails(h, a)
  BY <1>10 DEF HelperStartFails, TypeOK, NoJob
<1>11. CASE OperatorStep(h)
  BY <1>11 DEF OperatorStep, UserLaunches, OpensPrompt, Declines, Consents, Closes, ShownManifest,
     GateOnly, TypeOK
<1> QED
  BY <1>1, <1>2, <1>3, <1>4, <1>5, <1>6, <1>8, <1>9, <1>10, <1>11 DEF HostStep

LEMMA ApplierFlow ==
    ASSUME TypeOK, NEW a \in Appliers, ApplierStep(a) \/ ApplierCrashes(a)
    PROVE  /\ accepted' \in {accepted, None}
           /\ result'.target \in {result.target, job[a].target}
           /\ \A r \in cooling' : r \in cooling \/ (r = job[a].target /\ r # None)
           /\ \A g \in Hosts : hostOffer'[g] \in {hostOffer[g], None}
           /\ \A b \in Appliers : /\ job'[b].image \in {job[b].image, None}
                                  /\ job'[b].target \in {job[b].target, None, accepted}
<1> USE DEF installVars, hostVars
<1>1. \A b \in Appliers : job[b] \in Jobs
  BY DEF TypeOK
<1>2. CASE ChecksToken(a) \/ TakesLock(a) \/ LockTimesOut(a) \/ WritesCurrent(a) \/ ProvesRestart(a)
           \/ RestartUnproved(a) \/ FileOperationFails(a) \/ CleansUp(a) \/ ClearsHandoff(a)
  BY <1>2 DEF ChecksToken, TakesLock, LockTimesOut, WritesCurrent, ProvesRestart, RestartUnproved,
     FileOperationFails, CleansUp, ClearsHandoff
<1>3. CASE \/ \E p \in Trees : Restores(a, p)
           \/ RestoresMetadata(a) \/ LeavesMetadata(a) \/ DiscardsConsent(a)
  BY <1>3 DEF Restores, RestoresMetadata, LeavesMetadata, DiscardsConsent
<1>4. CASE ReportsSuccess(a) \/ ReportsFailure(a)
  BY <1>4 DEF ReportsSuccess, ReportsFailure, Failure
<1>5. CASE Housekeeps(a) \/ RetainsHandoff(a) \/ RollbackThrows(a) \/ ApplierCrashes(a)
           \/ \E h \in Hosts : RestartsPrevious(a, h)
  <2>1. job' = [job EXCEPT ![a] = NoJob] /\ UNCHANGED <<accepted, cooling, hostOffer>>
    BY <1>5 DEF Housekeeps, RetainsHandoff, RollbackThrows, ApplierCrashes, RestartsPrevious, Ends
  <2>2. result' \in {result, Failure(a)}
    BY <1>5 DEF Housekeeps, RetainsHandoff, RollbackThrows, ApplierCrashes, RestartsPrevious
  <2> QED
    BY <2>1, <2>2 DEF TypeOK, NoJob, Failure
<1>6. CASE ReadsAccepted(a) \/ TakesSnapshot(a) \/ (\E p \in Trees : MovesIn(a, p))
           \/ (\E h \in Hosts : RestartsTarget(a, h))
  <2>1. UNCHANGED <<accepted, cooling, hostOffer, result>>
    BY <1>6 DEF ReadsAccepted, TakesSnapshot, MovesIn, RestartsTarget
  <2>2. \A b \in Appliers \ {a} : job'[b] = job[b]
    BY <1>6 DEF ReadsAccepted, TakesSnapshot, MovesIn, RestartsTarget, TypeOK
  <2>3. job'[a].image = job[a].image /\ job'[a].target \in {job[a].target, accepted}
    <3>1. CASE job' = [job EXCEPT ![a].target = accepted]
      BY <1>1, <3>1 DEF Jobs, TypeOK
    <3>2. CASE job' = [job EXCEPT ![a].previous = current]
      BY <1>1, <3>2 DEF Jobs, TypeOK
    <3>3. ASSUME NEW p \in Trees, job' = [job EXCEPT ![a].placed = @ \cup {p}]
          PROVE  job'[a].image = job[a].image /\ job'[a].target = job[a].target
      BY <1>1, <3>3 DEF Jobs, TypeOK
    <3>4. ASSUME NEW h \in Hosts, job' = [job EXCEPT ![a].child = h]
          PROVE  job'[a].image = job[a].image /\ job'[a].target = job[a].target
      BY <1>1, <3>4 DEF Jobs, TypeOK
    <3> QED
      BY <1>6, <3>1, <3>2, <3>3, <3>4 DEF ReadsAccepted, TakesSnapshot, MovesIn, RestartsTarget
  <2> QED
    BY <2>1, <2>2, <2>3
<1>7. CASE \E p \in Trees : MovesOut(a, p) \/ RestoreFails(a, p) \/ NothingToRestore(a, p)
  <2>1. UNCHANGED <<accepted, cooling, hostOffer, result>>
    BY <1>7 DEF MovesOut, RestoreFails, NothingToRestore
  <2>2. \A b \in Appliers \ {a} : job'[b] = job[b]
    BY <1>7 DEF MovesOut, RestoreFails, NothingToRestore, TypeOK
  <2>3. job'[a].image = job[a].image /\ job'[a].target = job[a].target
    BY <1>1, <1>7 DEF MovesOut, RestoreFails, NothingToRestore, Jobs, TypeOK
  <2> QED
    BY <2>1, <2>2, <2>3
<1>8. CASE StopsPeers(a)
  <2>1. \A b \in Appliers :
           job'[b] = NoJob \/ (job'[b].image = job[b].image /\ job'[b].target = job[b].target)
    BY <1>8, JobsWithoutKeeps DEF StopsPeers, TypeOK
  <2> QED
    BY <1>8, <2>1 DEF StopsPeers, HostsEnd, NoJob
<1> QED
  BY <1>2, <1>3, <1>4, <1>5, <1>6, <1>7, <1>8 DEF ApplierStep

\* Nobody is ahead of what is staged.
LEMMA OrderedStep ==
    ASSUME TypeOK, Ordered, [Next]_vars
    PROVE  Ordered'
<1> DEFINE After(r) == /\ r <= published'
                       /\ pending' # None => r <= pending'
                       /\ agentRelease' # None => r <= agentRelease'
           Known == {r \in MaybeGeneration : After(r)}
<1>1. published \in Int /\ pending \in Int /\ agentRelease \in Int
  BY Numbers, ReleaseAssumption DEF TypeOK, MaybeGeneration, Generations, Releases, None
<1>2. \A r \in MaybeGeneration : Behind(r) => r \in Known
  BY BehindKept DEF Behind
<1>3. None \in Known
  <2>1. published \in Nat /\ pending \in Nat \cup {None} /\ agentRelease \in Nat \cup {None}
    BY ReleaseAssumption DEF TypeOK, Generations, Releases
  <2>2. Behind(None)
    BY <2>1 DEF Behind, None
  <2> QED
    BY <1>2, <2>2, Numbers
<1>4. /\ accepted \in Known /\ result.target \in Known /\ pending \in Known
      /\ \A r \in cooling : r \in Known
      /\ \A h \in Hosts : hostOffer[h] \in Known
      /\ \A a \in Appliers : job[a].image \in Known /\ job[a].target \in Known
  <2>1. /\ accepted \in MaybeGeneration /\ result.target \in MaybeGeneration /\ pending \in MaybeGeneration
        /\ \A r \in cooling : r \in MaybeGeneration
        /\ \A h \in Hosts : hostOffer[h] \in MaybeGeneration
    BY Numbers DEF TypeOK, Results
  <2>2. \A a \in Appliers : job[a].image \in MaybeGeneration /\ job[a].target \in MaybeGeneration
    BY Numbers, JobFields DEF TypeOK
  <2> QED
    BY <1>2, <2>1, <2>2 DEF Ordered
<1>5. After(pending') /\ agentRelease' <= published'
  <2>1. Behind(pending) /\ agentRelease <= published
    BY DEF Ordered
  <2> QED
    BY <1>1, <1>3, <2>1, StageFlow DEF Behind
<1> HIDE DEF Known
<1>6. /\ accepted' \in Known /\ result'.target \in Known
      /\ \A r \in cooling' : r \in Known
      /\ \A h \in Hosts : hostOffer'[h] \in Known
      /\ \A a \in Appliers : job'[a].image \in Known /\ job'[a].target \in Known
  <2>1. CASE UNCHANGED <<accepted, result, cooling, hostOffer, job>>
    BY <1>4, <2>1
  <2>2. ASSUME NEW h \in Hosts, HostStep(h) \/ OperatorStep(h) \/ HostCrashes(h)
        PROVE  <1>6
    <3>1. NoResult.target \in Known
      BY <1>3 DEF NoResult
    <3> QED
      BY <1>3, <1>4, <2>2, <3>1, HostFlow
  <2>3. ASSUME NEW a \in Appliers, ApplierStep(a) \/ ApplierCrashes(a)
        PROVE  <1>6
    BY <1>3, <1>4, <2>3, ApplierFlow
  <2>4. CASE Publish \/ AgentSpawned \/ AgentStep \/ UNCHANGED vars
    BY <2>1, <2>4 DEF Publish, AgentSpawned, AgentStep, AgentFindsNothing,
       AgentAcquires, AgentExtractsDesktop, AgentExtractsRuntime, AgentRebuildsHelper,
       AgentHitsLockedHelper, AgentPublishesPending, AgentReturns, AgentAborts, AgentOnly, hostVars, vars
  <2>5. CASE \E r \in Releases : CooldownElapses(r)
    BY <1>4, <2>5 DEF CooldownElapses, hostVars
  <2> QED
    BY <2>2, <2>3, <2>4, <2>5 DEF Next
<1> QED
  BY <1>5, <1>6 DEF Ordered, Behind, Known


----------------------------------------------------------------------------
(* Steps that only move processes on.                                      *)

\* A helper ends, or goes on with what it knows to a step that needs no more.
Goes(a) ==
    \/ applPc'[a] \in EndPc /\ job'[a].previous = None
    \/ /\ job'[a].image = job[a].image /\ job'[a].target = job[a].target
       /\ job'[a].previous = job[a].previous
       /\ applPc'[a] \in {"off", "minted"} => applPc'[a] = applPc[a]
       /\ applPc'[a] \in ConsentPc => applPc[a] \in ConsentPc
       /\ applPc'[a] \in EarlyPc => applPc[a] \in EarlyPc
       /\ applPc'[a] \in TargetPc => applPc[a] \in TargetPc
       /\ applPc'[a] \in UndonePc => applPc[a] \in UndonePc
       /\ applPc'[a] \in FlightPc => applPc[a] \in FlightPc
       /\ applPc'[a] \in HolderPc => applPc[a] \in HolderPc

\* A dialog that is open is the one that was open.
GoesHost(h) ==
    hostPc'[h] \in {"prompt", "consent"} => hostPc'[h] = hostPc[h] /\ hostOffer'[h] = hostOffer[h]

StillMinted(a) ==
    applPc'[a] = "minted" => job'[a].parent = job[a].parent /\ hostPc'[job[a].parent] = "handoff"

\* Such steps keep the invariant, also when they move trees: whoever does has
\* moved on from where trees must be whole, and holds the handoff.
LEMMA QuietStep ==
    ASSUME HandoffInv, CoolingInv,
           \A a \in Appliers : Goes(a) /\ StillMinted(a),
           \A h \in Hosts : GoesHost(h),
           live' = live \/ (\E a \in Appliers : applPc[a] \in HolderPc /\ applPc'[a] \notin EarlyPc),
           UNCHANGED <<published, pending, agentRelease, accepted, result, snooze, cooling,
                       handoff, current>>
    PROVE  HandoffInv' /\ CoolingInv'
<1>1. \A a \in Appliers : applPc'[a] \in HolderPc => applPc[a] \in HolderPc
  BY DEF Goes, HolderPc, FlightPc, EarlyPc, ConsentPc, CutoverPc, ProvePc, RestorePc, UndonePc,
     TornPc, EndPc
<1>2. HandoffHeld'
  BY <1>1 DEF HandoffInv, HandoffHeld
<1>3. MintedByHost'
  BY DEF Goes, StillMinted, HandoffInv, MintedByHost, EndPc
<1>4. \A a \in Appliers : applPc'[a] \in EarlyPc => applPc[a] \in EarlyPc /\ applPc[a] \in HolderPc
  BY <1>1 DEF Goes, EarlyPc, ConsentPc, EndPc, HolderPc, FlightPc
<1>5. WholeBefore' /\ TornOnlyUnderHandoff'
  <2>1. CASE live' = live
    BY <1>4, <2>1 DEF HandoffInv, WholeBefore, TornOnlyUnderHandoff, LiveIs
  <2>2. ASSUME NEW a \in Appliers, applPc[a] \in HolderPc, applPc'[a] \notin EarlyPc
        PROVE  WholeBefore' /\ TornOnlyUnderHandoff'
    <3>1. handoff = a /\ handoff' # NoToken
      BY <2>2, TokenAssumption DEF HandoffInv, HandoffHeld
    <3>2. \A b \in Appliers : applPc'[b] \notin EarlyPc
      BY <1>4, <2>2, <3>1 DEF HandoffInv, HandoffHeld
    <3> QED
      BY <3>1, <3>2 DEF WholeBefore, TornOnlyUnderHandoff
  <2> QED
    BY <2>1, <2>2
<1>6. ConsentKept'
  BY DEF Goes, GoesHost, HandoffInv, ConsentKept, EndPc, ConsentPc, TargetPc, CutoverPc, ProvePc,
     SuccessPc
<1>7. OfferNew'
  BY DEF GoesHost, CoolingInv, OfferNew, ShownUpTo
<1>8. ImageNew' /\ Snoozed'
  BY DEF Goes, CoolingInv, ImageNew, Snoozed, ShownUpTo, EndPc, HolderPc, FlightPc, EarlyPc,
     ConsentPc, CutoverPc, ProvePc, RestorePc, UndonePc, TornPc
<1>9. CoolingBlocked'
  BY DEF CoolingInv, CoolingBlocked, Blocked, Past
<1> QED
  BY <1>2, <1>3, <1>5, <1>6, <1>7, <1>8, <1>9 DEF HandoffInv, CoolingInv


\* A host that is about to start no helper moves on, but not into a dialog.
LEMMA HostMoves ==
    ASSUME TypeOK, HandoffInv, NEW h \in Hosts, hostPc[h] # "handoff",
           \A g \in Hosts \ {h} : hostPc'[g] = hostPc[g] /\ hostOffer'[g] = hostOffer[g],
           hostPc'[h] \notin {"prompt", "consent"}, UNCHANGED applPc,
           \A a \in Appliers : /\ job'[a].image = job[a].image /\ job'[a].target = job[a].target
                               /\ job'[a].previous = job[a].previous
                               /\ job[a].parent # h => job'[a].parent = job[a].parent
    PROVE  (\A a \in Appliers : Goes(a) /\ StillMinted(a)) /\ (\A g \in Hosts : GoesHost(g))
<1>1. \A a \in Appliers : Goes(a)
  BY DEF Goes
<1>2. \A a \in Appliers : StillMinted(a)
  BY DEF StillMinted, HandoffInv, MintedByHost
<1>3. \A g \in Hosts : GoesHost(g)
  BY DEF GoesHost
<1> QED
  BY <1>1, <1>2, <1>3

\* Steps of a host that leave the state files alone.
LEMMA HostQuiet ==
    ASSUME TypeOK, HandoffInv, CoolingInv, NEW h \in Hosts,
           \/ PassesGate(h) \/ RefusedAtGate(h) \/ TakesSession(h) \/ YieldsToSession(h)
           \/ WaitsForSession(h) \/ WaitTimesOut(h) \/ ServesRuntime(h) \/ StartupFails(h)
           \/ Exits(h) \/ UserLaunches(h) \/ Closes(h) \/ HostCrashes(h)
           \/ \E a \in Appliers : StartsHelper(h, a)
    PROVE  HandoffInv' /\ CoolingInv'
<1> USE DEF installVars, stagingVars, hostVars
<1>1. UNCHANGED <<published, pending, agentRelease, accepted, result, snooze, cooling, handoff,
                  current, live>>
  <2>1. CASE \/ PassesGate(h) \/ RefusedAtGate(h) \/ TakesSession(h) \/ YieldsToSession(h)
             \/ WaitsForSession(h) \/ WaitTimesOut(h) \/ StartupFails(h) \/ UserLaunches(h) \/ Closes(h)
    BY <2>1 DEF PassesGate, RefusedAtGate, TakesSession, YieldsToSession, WaitsForSession,
       WaitTimesOut, StartupFails, UserLaunches, Closes, GateOnly
  <2>2. CASE ServesRuntime(h) \/ Exits(h) \/ HostCrashes(h) \/ \E a \in Appliers : StartsHelper(h, a)
    BY <2>2 DEF ServesRuntime, Exits, HostCrashes, StartsHelper
  <2> QED
    BY <2>1, <2>2
<1>2. (\A a \in Appliers : Goes(a) /\ StillMinted(a)) /\ (\A g \in Hosts : GoesHost(g))
  <2>1. CASE RefusedAtGate(h) \/ YieldsToSession(h) \/ WaitTimesOut(h) \/ Exits(h)
    <3>1. HostEnds(h) /\ UNCHANGED applPc /\ hostPc[h] # "handoff"
      BY <2>1 DEF RefusedAtGate, YieldsToSession, WaitTimesOut, Exits, GateOnly
    <3>2. /\ \A g \in Hosts \ {h} : hostPc'[g] = hostPc[g] /\ hostOffer'[g] = hostOffer[g]
          /\ hostPc'[h] \notin {"prompt", "consent"}
          /\ \A a \in Appliers : /\ job'[a].image = job[a].image /\ job'[a].target = job[a].target
                                 /\ job'[a].previous = job[a].previous
                                 /\ job[a].parent # h => job'[a].parent = job[a].parent
      BY <3>1, HostEndsKeepsAll
    <3> QED
      BY <3>1, <3>2, HostMoves
  <2>2. CASE PassesGate(h) \/ TakesSession(h) \/ WaitsForSession(h) \/ StartupFails(h)
             \/ UserLaunches(h) \/ Closes(h) \/ ServesRuntime(h)
    <3>1. UNCHANGED <<job, hostOffer, applPc>>
      BY <2>2 DEF PassesGate, TakesSession, WaitsForSession, StartupFails, UserLaunches, Closes,
         ServesRuntime, GateOnly
    <3>2. CASE ServesRuntime(h)
      BY <3>1, <3>2 DEF ServesRuntime, Goes, StillMinted, GoesHost, HandoffInv, MintedByHost
    <3>3. CASE ~ServesRuntime(h)
      <4>1. /\ \A g \in Hosts \ {h} : hostPc'[g] = hostPc[g]
            /\ hostPc[h] # "handoff" /\ hostPc'[h] \notin {"prompt", "consent"}
        BY <2>2, <3>3 DEF TypeOK, PassesGate, TakesSession, WaitsForSession, StartupFails,
           UserLaunches, Closes, HostAt, Start
      <4> QED
        BY <3>1, <4>1, HostMoves
    <3> QED
      BY <3>2, <3>3
  <2>3. ASSUME NEW a \in Appliers, StartsHelper(h, a)
        PROVE  (\A b \in Appliers : Goes(b) /\ StillMinted(b)) /\ (\A g \in Hosts : GoesHost(g))
    <3>1. /\ applPc[a] = "minted" /\ applPc' = [applPc EXCEPT ![a] = "token"]
          /\ UNCHANGED <<job, hostOffer>> /\ hostPc' = [hostPc EXCEPT ![h] = "closing"]
      BY <2>3 DEF StartsHelper, HostAt
    <3>2. \A b \in Appliers \ {a} : applPc[b] # "minted"
      BY <3>1 DEF HandoffInv, HandoffHeld, HolderPc, FlightPc, EarlyPc, ConsentPc
    <3>5. applPc'[a] = "token" /\ \A b \in Appliers \ {a} : applPc'[b] = applPc[b]
      BY <3>1 DEF TypeOK
    <3>6. Goes(a) /\ StillMinted(a)
      BY <3>1, <3>5 DEF Goes, StillMinted, HolderPc, FlightPc, EarlyPc, ConsentPc, UndonePc, TargetPc,
         CutoverPc, ProvePc, SuccessPc
    <3>3. \A b \in Appliers : Goes(b) /\ StillMinted(b)
      BY <3>1, <3>2, <3>5, <3>6 DEF Goes, StillMinted
    <3>4. \A g \in Hosts : GoesHost(g)
      BY <2>3 DEF StartsHelper, HostAt, GoesHost, TypeOK
    <3> QED
      BY <3>3, <3>4
  <2>4. CASE HostCrashes(h)
    <3> DEFINE lost == {a \in Appliers : applPc[a] = "minted" /\ job[a].parent = h}
    <3>1. /\ job' = JobsWithout({h}, lost) /\ HostsEnd({h}) /\ job \in [Appliers -> Jobs]
          /\ applPc' = [a \in Appliers |-> IF a \in lost THEN "dead" ELSE applPc[a]]
      BY <2>4 DEF HostCrashes, TypeOK
    <3>2. \A g \in Hosts : GoesHost(g)
      BY <3>1 DEF HostsEnd, GoesHost
    <3>3. ASSUME NEW a \in lost
          PROVE  Goes(a) /\ StillMinted(a)
      BY <3>1, JobsWithoutKeeps, NoJobTyped DEF Goes, StillMinted, EndPc, TypeOK
    <3>4. ASSUME NEW a \in Appliers \ lost
          PROVE  Goes(a) /\ StillMinted(a)
      <4>1. /\ applPc'[a] = applPc[a]
            /\ job'[a].image = job[a].image /\ job'[a].target = job[a].target
            /\ job'[a].previous = job[a].previous
        <5>1. applPc'[a] = applPc[a]
          BY <3>1
        <5>2. /\ JobsWithout({h}, lost)[a].image = job[a].image
              /\ JobsWithout({h}, lost)[a].target = job[a].target
              /\ JobsWithout({h}, lost)[a].previous = job[a].previous
          BY <3>1, JobsWithoutKeeps
        <5> QED
          BY <3>1, <5>1, <5>2
      <4>2. ASSUME applPc[a] = "minted"
            PROVE  job'[a].parent = job[a].parent /\ hostPc'[job[a].parent] = "handoff"
        <5>1. job[a].parent # h /\ job[a].parent \in Hosts /\ hostPc[job[a].parent] = "handoff"
          BY <4>2 DEF HandoffInv, MintedByHost
        <5>2. JobsWithout({h}, lost)[a].parent = job[a].parent
          <6> HIDE DEF lost
          <6> QED
            BY <3>1, <5>1, JobsWithoutParent
        <5> QED
          BY <3>1, <5>1, <5>2 DEF HostsEnd
      <4> QED
        BY <4>1, <4>2 DEF Goes, StillMinted
    <3> QED
      BY <3>2, <3>3, <3>4
  <2> QED
    BY <2>1, <2>2, <2>3, <2>4
<1> QED
  BY <1>1, <1>2, QuietStep


----------------------------------------------------------------------------
(* Steps of the staging agent and of the clock.                            *)

\* What is passed stays passed while more is staged.
LEMMA StagingStep ==
    ASSUME TypeOK, Ordered, HandoffInv, CoolingInv, Publish \/ AgentSpawned \/ AgentStep
    PROVE  HandoffInv' /\ CoolingInv'
<1>1. UNCHANGED <<accepted, result, snooze, cooling, handoff, current, live, hostPc, hostOffer,
                  applPc, job>>
  BY DEF Publish, AgentSpawned, AgentStep, AgentFindsNothing, AgentAcquires, AgentExtractsDesktop,
     AgentExtractsRuntime, AgentRebuildsHelper, AgentHitsLockedHelper, AgentPublishesPending,
     AgentReturns, AgentAborts, AgentOnly, hostVars, installVars
<1>2. HandoffInv'
  BY <1>1 DEF HandoffInv, HandoffHeld, MintedByHost, WholeBefore, LiveIs, TornOnlyUnderHandoff,
     ConsentKept
<1>3. OfferNew' /\ ImageNew' /\ Snoozed'
  BY <1>1 DEF CoolingInv, OfferNew, ImageNew, Snoozed, ShownUpTo
<1>4. \A r \in cooling : Blocked(r) => Blocked(r)'
  <2> TAKE r \in cooling
  <2>1. r \in MaybeGeneration
    BY Numbers DEF TypeOK
  <2>2. [Next]_vars
    BY DEF Next
  <2> QED
    BY <1>1, <2>1, <2>2, BehindKept DEF Blocked
<1>5. CoolingBlocked'
  BY <1>1, <1>4 DEF CoolingInv, CoolingBlocked
<1> QED
  BY <1>2, <1>3, <1>5 DEF CoolingInv

\* A cooldown that is over takes the snooze with it.
LEMMA CooldownStep ==
    ASSUME HandoffInv, CoolingInv, NEW q \in Releases, CooldownElapses(q)
    PROVE  HandoffInv' /\ CoolingInv'
<1>1. /\ UNCHANGED <<accepted, result, handoff, current, live, hostPc, hostOffer, applPc, job,
                     published, pending, agentRelease>>
      /\ snooze' = IF snooze = q THEN None ELSE snooze
      /\ cooling' = cooling \ {q}
  BY DEF CooldownElapses, hostVars, installVars, stagingVars
<1>2. HandoffInv'
  BY <1>1 DEF HandoffInv, HandoffHeld, MintedByHost, WholeBefore, LiveIs, TornOnlyUnderHandoff,
     ConsentKept
<1>3. CoolingInv'
  BY <1>1 DEF CoolingInv, OfferNew, ImageNew, Snoozed, ShownUpTo, CoolingBlocked, Blocked, Past
<1> QED
  BY <1>2, <1>3

----------------------------------------------------------------------------
(* Steps of a host that read or write the state files.                     *)

\* No dialog is open while a helper has the handoff to clear.
LEMMA HolderAlone ==
    ASSUME HandoffInv, NEW a \in Appliers, applPc[a] \in HolderPc
    PROVE  /\ handoff = a /\ handoff # NoToken
           /\ \A b \in Appliers \ {a} : applPc[b] \notin HolderPc
           /\ DialogsApart => \A h \in Hosts : hostPc[h] \notin {"prompt", "consent"}
BY TokenAssumption DEF HandoffInv, HandoffHeld, DialogsApart

\* Releases compare as numbers.
LEMMA ReleaseNumbers ==
    ASSUME TypeOK
    PROVE  /\ published \in Int /\ pending \in Int /\ agentRelease \in Int /\ current \in Int
           /\ current # None /\ result.target \in Int /\ snooze \in Int
           /\ \A r \in cooling : r \in Int
           /\ \A h \in Hosts : hostOffer[h] \in Int
           /\ \A a \in Appliers : job[a].image \in Int /\ job[a].target \in Int /\ job[a].previous \in Int
<1>1. \A n \in MaybeGeneration : n \in Int
  BY ReleaseAssumption DEF MaybeGeneration, Generations, None
<1>2. \A a \in Appliers : /\ job[a].image \in MaybeGeneration /\ job[a].target \in MaybeGeneration
                          /\ job[a].previous \in MaybeGeneration
  BY Numbers, JobFields DEF TypeOK
<1>3. /\ published \in MaybeGeneration /\ pending \in MaybeGeneration /\ agentRelease \in MaybeGeneration
      /\ current \in MaybeGeneration /\ result.target \in MaybeGeneration /\ snooze \in MaybeGeneration
      /\ \A r \in cooling : r \in MaybeGeneration
      /\ \A h \in Hosts : hostOffer[h] \in MaybeGeneration
  BY Numbers DEF TypeOK, Results
<1>4. current # None
  BY ReleaseAssumption DEF TypeOK, Generations, None
<1> QED
  BY <1>1, <1>2, <1>3, <1>4


\* A session that starts tells what failed last, and takes the snooze over.
LEMMA ShowsResultStep ==
    ASSUME TypeOK, OneSession, HandoffInv, CoolingInv, NEW h \in Hosts, ShowsPreviousResult(h)
    PROVE  HandoffInv' /\ CoolingInv'
<1> DEFINE again == result.status = "failed" /\ result.target # None
<1>1. /\ hostPc[h] = "admitted" /\ hostPc' = [hostPc EXCEPT ![h] = "running"]
      /\ snooze' = IF again THEN result.target ELSE snooze
      /\ cooling' = IF again THEN cooling \cup {result.target} ELSE cooling
      /\ result' = NoResult
      /\ UNCHANGED <<published, pending, agentRelease, accepted, handoff, current, live,
                     hostOffer, applPc, job>>
  BY DEF ShowsPreviousResult, HostAt, installVars, stagingVars
<1>2. \A g \in Hosts : hostPc[g] \notin {"prompt", "consent", "handoff"}
  BY <1>1 DEF OneSession, SessionPc, VisiblePc
<1>3. hostPc'[h] = "running" /\ \A g \in Hosts \ {h} : hostPc'[g] = hostPc[g]
  BY <1>1 DEF TypeOK
<1>4. \A a \in Appliers : applPc[a] # "minted"
  BY <1>2 DEF HandoffInv, MintedByHost
<1>5. HandoffInv'
  BY <1>1, <1>2, <1>3, <1>4 DEF HandoffInv, HandoffHeld, MintedByHost, WholeBefore, LiveIs,
     TornOnlyUnderHandoff, ConsentKept
<1>6. OfferNew'
  BY <1>2, <1>3 DEF OfferNew
<1>7. ImageNew'
  BY <1>1, <1>4, ReleaseNumbers DEF CoolingInv, ImageNew, ShownUpTo, NoResult
<1>8. Snoozed'
  BY <1>1, ReleaseNumbers DEF CoolingInv, Snoozed, NoResult
<1>9. CoolingBlocked'
  BY <1>1 DEF CoolingInv, CoolingBlocked, Blocked, Past, NoResult
<1> QED
  BY <1>5, <1>6, <1>7, <1>8, <1>9 DEF CoolingInv

\* Nothing that failed is newer than what is installed and still pending.
LEMMA ReconcilesStep ==
    ASSUME IInv, Ordered, HandoffInv, CoolingInv, NEW h \in Hosts, ReconcilesPending(h)
    PROVE  HandoffInv' /\ CoolingInv'
<1>1. /\ pending = current /\ pending' = None /\ snooze' = None
      /\ UNCHANGED <<published, agentRelease, accepted, result, cooling, handoff, current, live,
                     hostPc, hostOffer, applPc, job>>
  BY DEF ReconcilesPending, hostVars, installVars, stagingVars
<1> USE ReleaseNumbers DEF IInv
<1>2. HandoffInv'
  BY <1>1 DEF HandoffInv, HandoffHeld, MintedByHost, WholeBefore, LiveIs, TornOnlyUnderHandoff,
     ConsentKept
<1>3. OfferNew' /\ ImageNew'
  BY <1>1 DEF CoolingInv, OfferNew, ImageNew, ShownUpTo
<1>4. ASSUME NEW a \in Appliers, applPc[a] \in UndonePc
      PROVE  FALSE
  <2>1. current = job[a].previous
    BY <1>4 DEF Whole, RollbackIsWhole, RestoredPc, UndonePc
  <2>2. job[a].image > job[a].previous
    BY <1>4, <2>1 DEF CoolingInv, ImageNew, HolderPc
  <2>3. job[a].image <= pending
    BY <1>1 DEF Ordered, Behind
  <2> QED
    BY <1>1, <2>1, <2>2, <2>3
<1>5. Snoozed'
  BY <1>1, <1>4 DEF Snoozed
<1>6. \A r \in cooling : r <= current
  BY <1>1 DEF Ordered, Behind
<1>7. CoolingBlocked'
  BY <1>1, <1>6 DEF CoolingBlocked, Blocked
<1> QED
  BY <1>2, <1>3, <1>5, <1>7 DEF CoolingInv

\* The dialog is closed by an error: there was no handoff to take back.
LEMMA ConsentFailsStep ==
    ASSUME TypeOK, DialogsApart, OneSession, HandoffInv, CoolingInv, NEW h \in Hosts, ConsentFails(h)
    PROVE  HandoffInv' /\ CoolingInv'
<1>1. /\ hostPc[h] \in {"prompt", "consent"} /\ hostPc' = [hostPc EXCEPT ![h] = "running"]
      /\ hostOffer' = [hostOffer EXCEPT ![h] = None]
      /\ handoff' = NoToken /\ accepted' = None
      /\ UNCHANGED <<published, pending, agentRelease, result, snooze, cooling, current, live,
                     applPc, job>>
  BY DEF ConsentFails, HostAt, installVars, stagingVars
<1>2. handoff = NoToken
  BY <1>1 DEF DialogsApart
<1>3. \A a \in Appliers : applPc[a] \notin HolderPc
  BY <1>2, HolderAlone
<1>4. \A g \in Hosts : hostPc'[g] \notin {"prompt", "consent"}
  BY <1>1 DEF OneSession, SessionPc, VisiblePc, TypeOK
<1>5. HandoffInv'
  BY <1>1, <1>2, <1>3, <1>4 DEF HandoffInv, HandoffHeld, MintedByHost, WholeBefore, LiveIs,
     TornOnlyUnderHandoff, ConsentKept, HolderPc, FlightPc, EarlyPc, ConsentPc
<1>6. OfferNew'
  BY <1>4 DEF OfferNew
<1>7. ImageNew' /\ Snoozed'
  BY <1>1, <1>3 DEF ImageNew, Snoozed, HolderPc, FlightPc, EarlyPc, ConsentPc
<1>8. CoolingBlocked'
  BY <1>1, <1>2 DEF CoolingInv, CoolingBlocked, Blocked, Past
<1> QED
  BY <1>5, <1>6, <1>7, <1>8 DEF CoolingInv

\* The Yes becomes a handoff to a new helper.
LEMMA BeginsHandoffStep ==
    ASSUME TypeOK, DialogsApart, OneSession, HandoffInv, CoolingInv, NEW h \in Hosts,
           NEW a \in Appliers, BeginsHandoff(h, a)
    PROVE  HandoffInv' /\ CoolingInv'
<1>1. /\ hostPc[h] = "consent" /\ hostPc' = [hostPc EXCEPT ![h] = "handoff"]
      /\ applPc[a] = "off" /\ applPc' = [applPc EXCEPT ![a] = "minted"]
      /\ job' = [job EXCEPT ![a].image = hostOffer[h], ![a].parent = h]
      /\ handoff' = a /\ snooze' = None
      /\ UNCHANGED <<published, pending, agentRelease, accepted, result, cooling, current, live,
                     hostOffer>>
  BY DEF BeginsHandoff, HostAt, installVars, stagingVars
<1>2. handoff = NoToken /\ handoff' # NoToken
  BY <1>1, TokenAssumption DEF DialogsApart
<1>3. \A b \in Appliers : applPc[b] \notin HolderPc
  BY <1>2, HolderAlone
<1>4. hostPc'[h] = "handoff" /\ \A g \in Hosts : hostPc'[g] \notin {"prompt", "consent"}
  BY <1>1 DEF OneSession, SessionPc, VisiblePc, TypeOK
<1>5. applPc'[a] = "minted" /\ \A b \in Appliers \ {a} : applPc'[b] = applPc[b] /\ job'[b] = job[b]
  BY <1>1 DEF TypeOK
<1>6. /\ job'[a].image = hostOffer[h] /\ job'[a].target = job[a].target
      /\ job'[a].previous = None /\ job'[a].parent = h
  <2>1. job[a] \in Jobs /\ job[a].previous = None
    BY <1>1 DEF TypeOK, HandoffInv, ConsentKept
  <2>2. job'[a] = [job[a] EXCEPT !.image = hostOffer[h], !.parent = h]
    BY <1>1 DEF TypeOK
  <2> QED
    BY <2>1, <2>2 DEF Jobs
<1>7. \A b \in Appliers \ {a} : applPc'[b] \notin HolderPc
  BY <1>3, <1>5
<1>8. HandoffHeld' /\ MintedByHost'
  BY <1>1, <1>4, <1>5, <1>6, <1>7 DEF HandoffHeld, MintedByHost, HolderPc, FlightPc, EarlyPc, ConsentPc
<1>9. WholeBefore' /\ TornOnlyUnderHandoff'
  BY <1>1, <1>2 DEF HandoffInv, TornOnlyUnderHandoff, WholeBefore, LiveIs
<1>10. ConsentKept'
  <2>1. accepted = hostOffer[h]
    BY <1>1 DEF HandoffInv, ConsentKept
  <2>2. \A b \in Appliers \ {a} : applPc'[b] \notin ConsentPc
    BY <1>7 DEF HolderPc, FlightPc, EarlyPc
  <2> QED
    BY <1>1, <1>4, <1>5, <1>6, <2>1, <2>2 DEF HandoffInv, ConsentKept, TargetPc, CutoverPc, ProvePc,
       SuccessPc
<1>11. OfferNew'
  BY <1>4 DEF OfferNew
<1>12. ImageNew'
  <2>1. /\ hostOffer[h] > current /\ ShownUpTo(hostOffer[h]) /\ \A r \in cooling : r < hostOffer[h]
    BY <1>1 DEF CoolingInv, OfferNew
  <2>2. \A b \in Appliers \ {a} :
           applPc'[b] \notin FlightPc /\ applPc'[b] \notin EarlyPc /\ applPc'[b] # "minted"
    BY <1>7 DEF HolderPc, FlightPc, EarlyPc, ConsentPc
  <2>3. \A r \in cooling : r < hostOffer[h] /\ r <= hostOffer[h]
    BY <2>1, ReleaseNumbers
  <2> QED
    BY <1>1, <1>5, <1>6, <1>7, <2>1, <2>2, <2>3 DEF ImageNew, ShownUpTo
<1>13. Snoozed' /\ CoolingBlocked'
  BY <1>2, <1>5, <1>7 DEF Snoozed, CoolingBlocked, HolderPc, UndonePc
<1> QED
  BY <1>8, <1>9, <1>10, <1>11, <1>12, <1>13 DEF HandoffInv, CoolingInv

\* The helper never ran: the handoff and the consent go, nothing was touched.
LEMMA HelperStartFailsStep ==
    ASSUME TypeOK, DialogsApart, Ordered, HandoffInv, CoolingInv, NEW h \in Hosts,
           NEW a \in Appliers, HelperStartFails(h, a)
    PROVE  HandoffInv' /\ CoolingInv'
<1>1. /\ hostPc[h] = "handoff" /\ hostPc' = [hostPc EXCEPT ![h] = "inert"]
      /\ applPc[a] = "minted" /\ applPc' = [applPc EXCEPT ![a] = "dead"]
      /\ job' = [job EXCEPT ![a] = NoJob]
      /\ handoff' = NoToken /\ accepted' = None
      /\ UNCHANGED <<published, pending, agentRelease, result, snooze, cooling, current, live, hostOffer>>
  BY DEF HelperStartFails, HostAt, installVars, stagingVars
<1>2. applPc[a] \in HolderPc /\ applPc[a] \in EarlyPc
  BY <1>1 DEF HolderPc, FlightPc, EarlyPc, ConsentPc
<1>3. /\ \A b \in Appliers \ {a} : applPc[b] \notin HolderPc
      /\ \A g \in Hosts : hostPc[g] \notin {"prompt", "consent"}
  BY <1>2, HolderAlone
<1>4. /\ applPc'[a] = "dead" /\ job'[a] = NoJob
      /\ \A b \in Appliers \ {a} : applPc'[b] = applPc[b] /\ job'[b] = job[b]
      /\ \A g \in Hosts : hostPc'[g] \notin {"prompt", "consent"}
  BY <1>1, <1>3 DEF TypeOK
<1>5. \A b \in Appliers : applPc'[b] \notin HolderPc
  BY <1>3, <1>4 DEF HolderPc, FlightPc, EarlyPc, ConsentPc, UndonePc, TornPc, CutoverPc, ProvePc, RestorePc
<1>6. HandoffHeld' /\ MintedByHost' /\ WholeBefore'
  BY <1>5 DEF HandoffHeld, MintedByHost, WholeBefore, HolderPc, FlightPc, EarlyPc, ConsentPc
<1>7. TornOnlyUnderHandoff'
  BY <1>1, <1>2 DEF HandoffInv, WholeBefore, TornOnlyUnderHandoff, LiveIs
<1>8. ConsentKept'
  <2>1. \A b \in Appliers : applPc'[b] \notin ConsentPc
    BY <1>5 DEF HolderPc, FlightPc, EarlyPc
  <2> QED
    BY <1>4, <2>1 DEF HandoffInv, ConsentKept, NoJob, TargetPc, CutoverPc, ProvePc, SuccessPc
<1>9. OfferNew' /\ ImageNew' /\ Snoozed'
  BY <1>4, <1>5 DEF OfferNew, ImageNew, Snoozed, HolderPc, FlightPc, EarlyPc, ConsentPc
<1>10. \A r \in cooling : Past(r)
  <2>1. (\A r \in cooling : r < job[a].image) /\ Behind(job[a].image)
    BY <1>1 DEF CoolingInv, ImageNew, Ordered
  <2> QED
    BY <2>1, ReleaseNumbers DEF Behind, Past
<1>11. CoolingBlocked'
  BY <1>1, <1>10 DEF CoolingBlocked, Blocked, Past
<1> QED
  BY <1>6, <1>7, <1>8, <1>9, <1>11 DEF HandoffInv, CoolingInv


\* What is offered is newer than what is installed and than all that cools down.
LEMMA OpensPromptStep ==
    ASSUME TypeOK, DialogsApart', OneSession, Ordered, HandoffInv, CoolingInv, NEW h \in Hosts,
           OpensPrompt(h)
    PROVE  HandoffInv' /\ CoolingInv'
<1>1. /\ pending # None /\ pending > current /\ snooze # pending
      /\ hostPc[h] = "running" /\ hostPc' = [hostPc EXCEPT ![h] = "prompt"]
      /\ hostOffer' = [hostOffer EXCEPT ![h] = pending]
      /\ UNCHANGED <<published, pending, agentRelease, accepted, result, snooze, cooling, handoff,
                     current, live, applPc, job>>
  BY DEF OpensPrompt, MayOffer, HostAt, GateOnly, installVars, stagingVars
<1>2. /\ hostPc'[h] = "prompt" /\ hostOffer'[h] = pending
      /\ \A g \in Hosts \ {h} : hostPc'[g] = hostPc[g] /\ hostPc[g] \notin {"prompt", "consent"}
  BY <1>1 DEF TypeOK, OneSession, SessionPc, VisiblePc
<1>3. handoff = NoToken
  BY <1>1, <1>2 DEF DialogsApart
<1>4. HandoffInv'
  <2>1. \A a \in Appliers : applPc[a] # "minted"
    BY <1>3, HolderAlone DEF HolderPc, FlightPc, EarlyPc, ConsentPc
  <2> QED
    BY <1>1, <1>2, <2>1 DEF HandoffInv, HandoffHeld, MintedByHost, WholeBefore, LiveIs,
       TornOnlyUnderHandoff, ConsentKept
<1>5. ShownUpTo(pending) /\ \A r \in cooling : r < pending
  <2>1. \A r \in cooling : Behind(r) /\ (r = snooze \/ Blocked(r))
    BY <1>3 DEF Ordered, CoolingInv, CoolingBlocked
  <2>2. \A r \in cooling : r < pending
    BY <1>1, <2>1, ReleaseNumbers DEF Behind, Blocked, Past
  <2> QED
    BY <1>1, <2>2 DEF Ordered, Behind, ShownUpTo
<1>6. OfferNew'
  BY <1>1, <1>2, <1>5 DEF OfferNew, ShownUpTo
<1>7. ImageNew' /\ Snoozed' /\ CoolingBlocked'
  BY <1>1 DEF CoolingInv, ImageNew, ShownUpTo, Snoozed, CoolingBlocked, Blocked, Past
<1> QED
  BY <1>4, <1>6, <1>7 DEF CoolingInv

\* After a No what cools down is older than what was declined.
LEMMA DeclinesStep ==
    ASSUME TypeOK, DialogsApart, Ordered, HandoffInv, CoolingInv, NEW h \in Hosts, Declines(h)
    PROVE  HandoffInv' /\ CoolingInv'
<1>1. /\ hostPc[h] = "prompt" /\ hostPc' = [hostPc EXCEPT ![h] = "running"]
      /\ hostOffer' = [hostOffer EXCEPT ![h] = None] /\ snooze' = hostOffer[h]
      /\ UNCHANGED <<published, pending, agentRelease, accepted, result, cooling, handoff,
                     current, live, applPc, job>>
  BY DEF Declines, HostAt, installVars, stagingVars
<1>2. handoff = NoToken
  BY <1>1 DEF DialogsApart
<1>3. \A a \in Appliers : applPc[a] \notin HolderPc
  BY <1>2, HolderAlone
<1>4. \A g \in Hosts : hostPc'[g] \in {"prompt", "consent"}
         => hostPc'[g] = hostPc[g] /\ hostOffer'[g] = hostOffer[g]
  BY <1>1 DEF TypeOK
<1>5. HandoffInv'
  BY <1>1, <1>3, <1>4 DEF HandoffInv, HandoffHeld, MintedByHost, WholeBefore, LiveIs,
     TornOnlyUnderHandoff, ConsentKept, HolderPc, FlightPc, EarlyPc, ConsentPc
<1>6. OfferNew' /\ ImageNew'
  BY <1>1, <1>4 DEF CoolingInv, OfferNew, ImageNew, ShownUpTo
<1>7. Snoozed'
  BY <1>1, <1>3 DEF Snoozed, HolderPc
<1>8. \A r \in cooling : Past(r)
  <2>1. (\A r \in cooling : r < hostOffer[h]) /\ Behind(hostOffer[h])
    BY <1>1 DEF CoolingInv, OfferNew, Ordered
  <2> QED
    BY <2>1, ReleaseNumbers DEF Behind, Past
<1>9. CoolingBlocked'
  BY <1>1, <1>8 DEF CoolingBlocked, Blocked, Past
<1> QED
  BY <1>5, <1>6, <1>7, <1>9 DEF CoolingInv

\* The consent that is written is the one of the only dialog.
LEMMA ConsentsStep ==
    ASSUME TypeOK, DialogsApart, OneSession, HandoffInv, CoolingInv, NEW h \in Hosts, Consents(h)
    PROVE  HandoffInv' /\ CoolingInv'
<1>1. /\ hostPc[h] = "prompt" /\ hostPc' = [hostPc EXCEPT ![h] = "consent"]
      /\ accepted' = hostOffer[h]
      /\ UNCHANGED <<published, pending, agentRelease, result, snooze, cooling, handoff,
                     current, live, hostOffer, applPc, job>>
  BY DEF Consents, ShownManifest, HostAt, installVars, stagingVars
<1>2. \A a \in Appliers : applPc[a] \notin HolderPc
  BY <1>1, HolderAlone DEF DialogsApart
<1>3. \A g \in Hosts \ {h} : hostPc'[g] \notin {"prompt", "consent"}
  BY <1>1 DEF OneSession, SessionPc, VisiblePc, TypeOK
<1>4. HandoffInv'
  BY <1>1, <1>2, <1>3 DEF HandoffInv, HandoffHeld, MintedByHost, WholeBefore, LiveIs,
     TornOnlyUnderHandoff, ConsentKept, HolderPc, FlightPc, EarlyPc, ConsentPc
<1>5. OfferNew'
  BY <1>1, <1>3 DEF CoolingInv, OfferNew, ShownUpTo
<1>6. ImageNew' /\ Snoozed' /\ CoolingBlocked'
  BY <1>1 DEF CoolingInv, ImageNew, ShownUpTo, Snoozed, CoolingBlocked, Blocked, Past
<1> QED
  BY <1>4, <1>5, <1>6 DEF CoolingInv

----------------------------------------------------------------------------
(* Steps of a helper.                                                      *)

\* A helper that goes on, and nobody else does anything.
LEMMA HelperMoves ==
    ASSUME HandoffInv, NEW a \in Appliers, applPc[a] # "minted", Goes(a), applPc'[a] # "minted",
           \A b \in Appliers \ {a} : applPc'[b] = applPc[b] /\ job'[b] = job[b],
           \A h \in Hosts : /\ hostPc'[h] \in {"prompt", "consent", "handoff"} => hostPc'[h] = hostPc[h]
                            /\ hostPc[h] = "handoff" => hostPc'[h] = "handoff",
           UNCHANGED hostOffer
    PROVE  (\A b \in Appliers : Goes(b) /\ StillMinted(b)) /\ (\A h \in Hosts : GoesHost(h))
<1>1. \A b \in Appliers \ {a} : Goes(b)
  BY DEF Goes
<1>2. \A b \in Appliers : StillMinted(b)
  BY DEF StillMinted, HandoffInv, MintedByHost
<1>3. \A h \in Hosts : GoesHost(h)
  BY DEF GoesHost
<1> QED
  BY <1>1, <1>2, <1>3


\* Steps of a helper that leave the state files alone.
LEMMA HelperQuiet ==
    ASSUME TypeOK, HandoffInv, CoolingInv, NEW a \in Appliers,
           \/ ChecksToken(a) \/ TakesLock(a) \/ LockTimesOut(a)
           \/ \E p \in Trees : MovesOut(a, p) \/ MovesIn(a, p)
           \/ ProvesRestart(a) \/ RestartUnproved(a) \/ FileOperationFails(a)
           \/ \E h \in Hosts : RestartsTarget(a, h) \/ RestartsPrevious(a, h)
           \/ Housekeeps(a) \/ StopsPeers(a)
           \/ \E p \in Trees : Restores(a, p) \/ RestoreFails(a, p) \/ NothingToRestore(a, p)
           \/ LeavesMetadata(a) \/ RetainsHandoff(a) \/ ApplierCrashes(a)
    PROVE  HandoffInv' /\ CoolingInv'
<1> USE DEF installVars, hostVars, WorldOnly, ApplAt
<1> DEFINE Files == UNCHANGED <<published, pending, agentRelease, accepted, result, snooze, cooling,
                                handoff, current>>
           Others == \A b \in Appliers \ {a} : applPc'[b] = applPc[b] /\ job'[b] = job[b]
           Hands == \A h \in Hosts :
                       /\ hostPc'[h] \in {"prompt", "consent", "handoff"} => hostPc'[h] = hostPc[h]
                       /\ hostPc[h] = "handoff" => hostPc'[h] = "handoff"
<1>1. \A b \in Appliers : job[b] \in Jobs
  BY DEF TypeOK
<1>2. CASE \/ ChecksToken(a) \/ TakesLock(a) \/ LockTimesOut(a) \/ ProvesRestart(a)
           \/ RestartUnproved(a) \/ FileOperationFails(a) \/ LeavesMetadata(a)
  <2>1. Files /\ UNCHANGED <<live, job, hostOffer, hostPc>>
    BY <1>2 DEF ChecksToken, TakesLock, LockTimesOut, ProvesRestart, RestartUnproved,
       FileOperationFails, LeavesMetadata
  <2>2. \E s \in ApplierSteps :
           /\ applPc' = [applPc EXCEPT ![a] = s]
           /\ \/ applPc[a] = "token" /\ s = "lock"
              \/ applPc[a] = "lock" /\ s = "read"
              \/ /\ applPc[a] \in ConsentPc \cup {"snapshot", "report_success"} \cup CutoverPc \cup ProvePc
                 /\ applPc[a] # "minted" /\ s = "stop_peers"
              \/ applPc[a] = "verify" /\ s = "report_success"
              \/ applPc[a] = "restore_metadata" /\ s = "report_torn"
    <3> USE DEF ApplierSteps, RestorePc, SuccessPc, TornPc, ConsentPc, ProvePc, CutoverPc
    <3>1. CASE ChecksToken(a)
      BY <3>1 DEF ChecksToken
    <3>2. CASE TakesLock(a) \/ LockTimesOut(a) \/ ProvesRestart(a) \/ RestartUnproved(a) \/ LeavesMetadata(a)
      BY <3>2 DEF TakesLock, LockTimesOut, ProvesRestart, RestartUnproved, LeavesMetadata
    <3>3. CASE FileOperationFails(a)
      BY <3>3 DEF FileOperationFails
    <3> QED
      BY <1>2, <3>1, <3>2, <3>3
  <2>3. Goes(a) /\ applPc[a] # "minted" /\ applPc'[a] # "minted"
    BY <2>1, <2>2 DEF Goes, TypeOK, HolderPc, FlightPc, EarlyPc, ConsentPc, UndonePc, TornPc, TargetPc,
       CutoverPc, ProvePc, SuccessPc, RestorePc
  <2>4. Others /\ Hands
    BY <2>1, <2>2 DEF TypeOK
  <2> QED
    BY <2>1, <2>3, <2>4, HelperMoves, QuietStep
<1>3. ASSUME NEW p \in Trees,
             MovesOut(a, p) \/ MovesIn(a, p) \/ Restores(a, p) \/ RestoreFails(a, p) \/ NothingToRestore(a, p)
      PROVE  HandoffInv' /\ CoolingInv'
  <2>1. Files /\ UNCHANGED <<hostOffer, hostPc>>
    BY <1>3 DEF MovesOut, MovesIn, Restores, RestoreFails, NothingToRestore
  <2>2. \E s \in ApplierSteps :
           /\ applPc' = [applPc EXCEPT ![a] = s]
           /\ \/ applPc[a] \in CutoverPc /\ s \in CutoverPc \ {"out_desktop"}
              \/ applPc[a] \in RestorePc /\ s \in RestorePc
    <3>1. p = "desktop" \/ p = "runtime"
      BY DEF Trees
    <3>2. /\ OutAt[p] \in CutoverPc /\ InAt[p] \in CutoverPc \ {"out_desktop"}
          /\ AfterIn[p] \in CutoverPc \ {"out_desktop"}
          /\ RestoreAt[p] \in RestorePc /\ AfterRestore[p] \in RestorePc
      BY <3>1 DEF OutAt, InAt, AfterIn, RestoreAt, AfterRestore, CutoverPc, RestorePc
    <3>3. CutoverPc \subseteq ApplierSteps /\ RestorePc \subseteq ApplierSteps
      BY DEF ApplierSteps
    <3>4. \/ applPc[a] = OutAt[p] /\ applPc' = [applPc EXCEPT ![a] = InAt[p]]
          \/ applPc[a] = InAt[p] /\ applPc' = [applPc EXCEPT ![a] = AfterIn[p]]
          \/ applPc[a] = RestoreAt[p] /\ applPc' = [applPc EXCEPT ![a] = AfterRestore[p]]
      BY <1>3 DEF MovesOut, MovesIn, Restores, RestoreFails, NothingToRestore
    <3> QED
      BY <3>2, <3>3, <3>4
  <2>3. Others /\ Hands
    BY <1>3, <2>1, <2>2 DEF TypeOK, MovesOut, MovesIn, Restores, RestoreFails, NothingToRestore
  <2>4. /\ job'[a].image = job[a].image /\ job'[a].target = job[a].target
        /\ job'[a].previous = job[a].previous
    BY <1>1, <1>3 DEF MovesOut, MovesIn, Restores, RestoreFails, NothingToRestore, Jobs, TypeOK
  <2>5. Goes(a) /\ applPc[a] # "minted" /\ applPc'[a] # "minted"
    BY <2>2, <2>4 DEF Goes, TypeOK, HolderPc, FlightPc, EarlyPc, ConsentPc, UndonePc, TornPc, TargetPc,
       CutoverPc, ProvePc, SuccessPc, RestorePc
  <2>6. applPc[a] \in HolderPc /\ applPc'[a] \notin EarlyPc
    BY <2>2 DEF TypeOK, HolderPc, FlightPc, EarlyPc, ConsentPc, CutoverPc, RestorePc
  <2> QED
    BY <2>1, <2>3, <2>5, <2>6, HelperMoves, QuietStep
<1>4. CASE \E h \in Hosts : RestartsTarget(a, h)
  <2>1. PICK h \in Hosts : RestartsTarget(a, h)
    BY <1>4
  <2>2. /\ Files /\ UNCHANGED <<live, hostOffer>>
        /\ applPc[a] = "restart" /\ applPc' = [applPc EXCEPT ![a] = "verify"]
        /\ hostPc[h] = "off" /\ hostPc' = [hostPc EXCEPT ![h] = "gate"]
        /\ job' = [job EXCEPT ![a].child = h]
    BY <2>1 DEF RestartsTarget, Start
  <2>3. Others /\ Hands
    BY <2>2 DEF TypeOK
  <2>4. /\ job'[a].image = job[a].image /\ job'[a].target = job[a].target
        /\ job'[a].previous = job[a].previous
    BY <1>1, <2>2 DEF Jobs, TypeOK
  <2>5. Goes(a) /\ applPc[a] # "minted" /\ applPc'[a] # "minted"
    BY <2>2, <2>4 DEF Goes, TypeOK, HolderPc, FlightPc, EarlyPc, ConsentPc, UndonePc, TornPc, TargetPc,
       CutoverPc, ProvePc, SuccessPc, RestorePc
  <2> QED
    BY <2>2, <2>3, <2>5, HelperMoves, QuietStep
<1>5. CASE \/ Housekeeps(a) \/ RetainsHandoff(a) \/ ApplierCrashes(a)
           \/ \E h \in Hosts : RestartsPrevious(a, h)
  <2>1. Files /\ UNCHANGED <<live, hostOffer>>
    BY <1>5 DEF Housekeeps, RetainsHandoff, ApplierCrashes, RestartsPrevious
  <2>2. UNCHANGED hostPc \/ \E h \in Hosts : hostPc[h] = "off" /\ hostPc' = [hostPc EXCEPT ![h] = "gate"]
    BY <1>5 DEF Housekeeps, RetainsHandoff, ApplierCrashes, RestartsPrevious, Start
  <2>3. /\ applPc[a] # "minted" /\ job' = [job EXCEPT ![a] = NoJob]
        /\ applPc' = [applPc EXCEPT ![a] = "done"] \/ applPc' = [applPc EXCEPT ![a] = "dead"]
    BY <1>5 DEF Housekeeps, RetainsHandoff, ApplierCrashes, RestartsPrevious, Ends
  <2>4. Others /\ Hands
    BY <2>2, <2>3 DEF TypeOK
  <2>5. Goes(a) /\ applPc'[a] # "minted"
    BY <2>3, NoJobTyped DEF Goes, TypeOK, EndPc
  <2> QED
    BY <2>1, <2>3, <2>4, <2>5, HelperMoves, QuietStep
<1>6. CASE StopsPeers(a)
  <2> DEFINE killed == {h \in Hosts : hostPc[h] # "off" /\ h # job[a].parent}
             fallen == {b \in Appliers : job[b].parent \in killed /\ applPc[b] \notin EndPc}
  <2>1. /\ Files /\ UNCHANGED live
        /\ applPc[a] = "stop_peers" /\ HostsEnd(killed) /\ job' = JobsWithout(killed, fallen)
        /\ applPc' = [b \in Appliers |-> IF b = a THEN "restore_desktop"
                                         ELSE IF b \in fallen THEN "dead" ELSE applPc[b]]
    BY <1>6 DEF StopsPeers
  <2>2. \A h \in Hosts : GoesHost(h)
    BY <2>1 DEF HostsEnd, GoesHost
  <2>3. a \notin fallen /\ job \in [Appliers -> Jobs]
    BY DEF TypeOK
  <2>4. \A b \in Appliers : applPc[b] # "minted" /\ applPc'[b] # "minted"
    BY <2>1, HolderAlone DEF HolderPc, FlightPc, EarlyPc, ConsentPc, RestorePc
  <2> HIDE DEF fallen
  <2>5. ASSUME NEW b \in Appliers
        PROVE  Goes(b)
    <3>1. CASE b \in fallen
      <4>1. job'[b] = NoJob
        BY <2>1, <2>3, <3>1, JobsWithoutKeeps
      <4> QED
        BY <2>1, <2>3, <3>1, <4>1, NoJobTyped DEF Goes, EndPc
    <3>2. CASE b \notin fallen
      <4>1. /\ job'[b].image = job[b].image /\ job'[b].target = job[b].target
            /\ job'[b].previous = job[b].previous
        BY <2>1, <2>3, <3>2, JobsWithoutKeeps
      <4>2. applPc'[b] = applPc[b] \/ (b = a /\ applPc[b] = "stop_peers" /\ applPc'[b] = "restore_desktop")
        BY <2>1, <3>2
      <4> QED
        BY <2>4, <4>1, <4>2 DEF Goes, HolderPc, FlightPc, EarlyPc, ConsentPc, UndonePc, TornPc, TargetPc,
           CutoverPc, ProvePc, SuccessPc, RestorePc
    <3> QED
      BY <3>1, <3>2
  <2>6. \A b \in Appliers : StillMinted(b)
    BY <2>4 DEF StillMinted
  <2> QED
    BY <2>1, <2>2, <2>5, <2>6, QuietStep
<1> QED
  BY <1>2, <1>3, <1>4, <1>5, <1>6


\* What is true of a helper that goes on with the handoff to clear.
Holding(a) ==
    /\ applPc[a] \in ConsentPc => accepted = job[a].image
    /\ applPc[a] \in TargetPc \/ job[a].previous # None => job[a].target = job[a].image
    /\ applPc[a] \in FlightPc => ShownUpTo(job[a].image) /\ \A r \in cooling : r <= job[a].image
    /\ applPc[a] \in EarlyPc => LiveIs(current) /\ job[a].image > current
    /\ job[a].previous # None => job[a].image > job[a].previous
    /\ applPc[a] \in UndonePc =>
          /\ \A r \in cooling : r <= job[a].image /\ (r = job[a].image => r = snooze)
          /\ result.status = "failed" => result.target = job[a].image

\* It holds of every helper that has it to clear.
LEMMA IsHolding ==
    ASSUME HandoffInv, CoolingInv, NEW a \in Appliers, applPc[a] \in HolderPc
    PROVE  Holding(a)
BY DEF HandoffInv, WholeBefore, ConsentKept, CoolingInv, ImageNew, Snoozed, Holding

\* Then nothing else needs to be said of a step: no dialog is open, and no other
\* helper has a handoff.
LEMMA HolderStep ==
    ASSUME TypeOK, DialogsApart, HandoffInv, CoolingInv, NEW a \in Appliers, applPc[a] \in HolderPc,
           NEW s \in HolderPc \ {"minted"}, applPc' = [applPc EXCEPT ![a] = s],
           \A b \in Appliers \ {a} : job'[b] = job[b],
           Holding(a)', UNCHANGED <<handoff, hostPc, hostOffer>>
    PROVE  HandoffInv' /\ CoolingInv'
<1>1. applPc'[a] = s /\ \A b \in Appliers \ {a} : applPc'[b] = applPc[b]
  BY DEF TypeOK
<1>2. /\ handoff' = a /\ handoff' # NoToken
      /\ \A b \in Appliers \ {a} : applPc'[b] \notin HolderPc
      /\ \A h \in Hosts : hostPc'[h] \notin {"prompt", "consent"}
  BY <1>1, HolderAlone
<1>3. \A b \in Appliers \ {a} : /\ applPc'[b] \notin EarlyPc /\ applPc'[b] \notin ConsentPc
                                /\ applPc'[b] \notin FlightPc /\ applPc'[b] \notin UndonePc
                                /\ applPc'[b] # "minted"
  BY <1>2 DEF HolderPc, FlightPc, EarlyPc, ConsentPc
<1>4. HandoffHeld' /\ MintedByHost' /\ WholeBefore' /\ TornOnlyUnderHandoff'
  BY <1>1, <1>2, <1>3 DEF HandoffHeld, MintedByHost, WholeBefore, TornOnlyUnderHandoff, Holding
<1>5. s # "off"
  BY DEF HolderPc, FlightPc, EarlyPc, ConsentPc, UndonePc, TornPc, CutoverPc, ProvePc, RestorePc
<1>6. ConsentKept'
  BY <1>1, <1>2, <1>3, <1>5 DEF HandoffInv, ConsentKept, Holding
<1>7. OfferNew'
  BY <1>2 DEF OfferNew
<1>8. ImageNew' /\ Snoozed'
  BY <1>1, <1>2, <1>3 DEF ImageNew, Snoozed, Holding
<1>9. CoolingBlocked'
  BY <1>2 DEF CoolingBlocked
<1> QED
  BY <1>4, <1>6, <1>7, <1>8, <1>9 DEF HandoffInv, CoolingInv

\* Steps of a helper that change what it knows or what is on record.
LEMMA HelperRecords ==
    ASSUME IInv, DialogsApart, HandoffInv, CoolingInv, NEW a \in Appliers,
           \/ ReadsAccepted(a) \/ TakesSnapshot(a) \/ WritesCurrent(a) \/ ReportsSuccess(a)
           \/ CleansUp(a) \/ RestoresMetadata(a) \/ ReportsFailure(a) \/ DiscardsConsent(a)
    PROVE  HandoffInv' /\ CoolingInv'
<1> USE DEF installVars, hostVars, WorldOnly, ApplAt
<1>1. TypeOK /\ job[a] \in Jobs
  BY DEF IInv, TypeOK
<1>2. CASE ReadsAccepted(a)
  <2>1. \E s \in {"snapshot", "stop_peers"} :
           /\ applPc[a] = "read" /\ applPc' = [applPc EXCEPT ![a] = s]
           /\ job' = [job EXCEPT ![a].target = accepted]
           /\ UNCHANGED <<accepted, result, cooling, handoff, hostPc, hostOffer, current, live>>
    BY <1>2 DEF ReadsAccepted
  <2>2. /\ job'[a].target = accepted /\ job'[a].image = job[a].image
        /\ job'[a].previous = job[a].previous
        /\ \A b \in Appliers \ {a} : job'[b] = job[b]
    BY <1>1, <2>1 DEF TypeOK, Jobs
  <2>3. applPc[a] \in HolderPc /\ Holding(a) /\ accepted = job[a].image
    BY <2>1, IsHolding DEF Holding, HolderPc, FlightPc, EarlyPc, ConsentPc
  <2>4. Holding(a)'
    BY <1>1, <2>1, <2>2, <2>3 DEF TypeOK, Holding, ShownUpTo, LiveIs, HolderPc, FlightPc, EarlyPc, ConsentPc,
       UndonePc, CutoverPc, RestorePc
  <2>5. "snapshot" \in HolderPc /\ "stop_peers" \in HolderPc
    BY DEF HolderPc, FlightPc, EarlyPc, RestorePc
  <2> QED
    BY <1>1, <2>1, <2>2, <2>3, <2>4, <2>5, HolderStep
<1>3. CASE TakesSnapshot(a)
  <2>1. /\ applPc[a] = "snapshot" /\ applPc' = [applPc EXCEPT ![a] = "out_desktop"]
        /\ job' = [job EXCEPT ![a].previous = current]
        /\ UNCHANGED <<accepted, result, cooling, handoff, hostPc, hostOffer, current, live>>
    BY <1>3 DEF TakesSnapshot
  <2>2. /\ job'[a].target = job[a].target /\ job'[a].image = job[a].image
        /\ job'[a].previous = current
        /\ \A b \in Appliers \ {a} : job'[b] = job[b]
    BY <1>1, <2>1 DEF TypeOK, Jobs
  <2>3. applPc[a] \in HolderPc /\ Holding(a) /\ job[a].target = job[a].image
    BY <2>1, IsHolding DEF Holding, HolderPc, FlightPc, EarlyPc, TargetPc
  <2>4. Holding(a)'
    BY <1>1, <2>1, <2>2, <2>3 DEF TypeOK, Holding, ShownUpTo, LiveIs, HolderPc, FlightPc, EarlyPc, ConsentPc,
       UndonePc
  <2>5. "out_desktop" \in HolderPc
    BY DEF HolderPc, FlightPc, EarlyPc
  <2> QED
    BY <1>1, <2>1, <2>2, <2>3, <2>4, <2>5, HolderStep
<1>4. CASE WritesCurrent(a) \/ ReportsSuccess(a) \/ CleansUp(a) \/ RestoresMetadata(a)
  <2>1. \E s \in {"restart", "cleanup", "clear_success", "report_restored"} :
           /\ applPc[a] \in {"metadata", "report_success", "cleanup", "restore_metadata"}
           /\ s \in {"restart", "cleanup", "clear_success"} =>
                 applPc[a] \in {"metadata", "report_success", "cleanup"}
           /\ applPc' = [applPc EXCEPT ![a] = s]
    BY <1>4 DEF WritesCurrent, ReportsSuccess, CleansUp, RestoresMetadata
  <2>2. /\ UNCHANGED <<job, cooling, handoff, hostPc, hostOffer>>
        /\ result' = result \/ result'.status = "success"
    BY <1>4 DEF WritesCurrent, ReportsSuccess, CleansUp, RestoresMetadata
  <2>3. applPc[a] \in HolderPc /\ Holding(a)
    BY <2>1, IsHolding DEF HolderPc, FlightPc, CutoverPc, RestorePc
  <2>4. Holding(a)'
    BY <1>1, <2>1, <2>2, <2>3 DEF TypeOK, Holding, ShownUpTo, FlightPc, EarlyPc, ConsentPc,
       UndonePc, TargetPc, CutoverPc, ProvePc, SuccessPc, RestorePc
  <2>5. /\ "restart" \in HolderPc /\ "cleanup" \in HolderPc /\ "clear_success" \in HolderPc
        /\ "report_restored" \in HolderPc
    BY DEF HolderPc, FlightPc, ProvePc
  <2> QED
    BY <1>1, <2>1, <2>2, <2>3, <2>4, <2>5, HolderStep
<1>5. CASE ReportsFailure(a)
  <2>1. \E s \in {"discard", "give_up"} :
           /\ s = "discard" => applPc[a] = "report_restored"
           /\ s = "give_up" => applPc[a] = "report_torn"
           /\ applPc' = [applPc EXCEPT ![a] = s]
    BY <1>5 DEF ReportsFailure
  <2>2. /\ UNCHANGED <<job, handoff, hostPc, hostOffer>>
        /\ result' = Failure(a)
        /\ job[a].target # None => snooze' = job[a].target /\ cooling' = cooling \cup {job[a].target}
    BY <1>5 DEF ReportsFailure
  <2>3. applPc[a] \in HolderPc /\ Holding(a)
    BY <2>1, IsHolding DEF HolderPc, FlightPc, TornPc
  <2>4. ASSUME applPc'[a] = "discard"
        PROVE  Holding(a)'
    <3>1. applPc[a] = "report_restored"
      BY <1>1, <2>1, <2>4 DEF TypeOK
    <3>2. job[a].previous # None
      BY <3>1 DEF IInv, Whole, RestoredPc
    <3>3. job[a].target = job[a].image /\ job[a].image > job[a].previous
      BY <2>3, <3>2 DEF Holding
    <3>4. job[a].target # None
      BY <1>1, <3>3, ReleaseAssumption DEF Jobs, MaybeGeneration, Generations, None
    <3>5. \A r \in cooling' : r <= job[a].image /\ (r = job[a].image => r = snooze')
      BY <1>1, <2>2, <2>3, <3>1, <3>3, <3>4, ReleaseNumbers DEF Holding, FlightPc
    <3> QED
      BY <2>2, <2>3, <2>4, <3>3, <3>5 DEF Holding, Failure, FlightPc, EarlyPc, ConsentPc,
         CutoverPc, ProvePc, RestorePc
  <2>5. ASSUME applPc'[a] = "give_up"
        PROVE  Holding(a)'
    BY <2>2, <2>3, <2>5 DEF Holding, FlightPc, EarlyPc, ConsentPc, UndonePc, TargetPc, CutoverPc,
       ProvePc, SuccessPc, RestorePc
  <2>6. "discard" \in HolderPc /\ "give_up" \in HolderPc
    BY DEF HolderPc, UndonePc, TornPc
  <2>7. applPc'[a] \in {"discard", "give_up"}
    BY <1>1, <2>1 DEF TypeOK
  <2> QED
    BY <1>1, <2>1, <2>2, <2>3, <2>4, <2>5, <2>6, <2>7, HolderStep
<1>6. CASE DiscardsConsent(a)
  <2>1. /\ applPc[a] = "discard" /\ applPc' = [applPc EXCEPT ![a] = "clear_restored"]
        /\ UNCHANGED <<job, snooze, cooling, result, handoff, hostPc, hostOffer>>
    BY <1>6 DEF DiscardsConsent
  <2>2. applPc[a] \in HolderPc /\ Holding(a)
    BY <2>1, IsHolding DEF HolderPc, UndonePc
  <2>3. Holding(a)'
    BY <1>1, <2>1, <2>2 DEF TypeOK, Holding, FlightPc, EarlyPc, ConsentPc, UndonePc, TargetPc,
       CutoverPc, ProvePc, SuccessPc, RestorePc
  <2>4. "clear_restored" \in HolderPc
    BY DEF HolderPc, UndonePc
  <2> QED
    BY <1>1, <2>1, <2>2, <2>3, <2>4, HolderStep
<1> QED
  BY <1>2, <1>3, <1>4, <1>5, <1>6


\* The handoff goes when a whole generation is installed, and what failed before
\* can be offered no more or is snoozed.
LEMMA ClearsStep ==
    ASSUME IInv, DialogsApart, Ordered, HandoffInv, CoolingInv, NEW a \in Appliers, ClearsHandoff(a)
    PROVE  HandoffInv' /\ CoolingInv'
<1>1. /\ \/ applPc[a] = "clear_success" /\ applPc' = [applPc EXCEPT ![a] = "housekeep"]
         \/ applPc[a] = "clear_restored" /\ applPc' = [applPc EXCEPT ![a] = "restart_previous"]
      /\ UNCHANGED <<published, pending, agentRelease, accepted, result, snooze, cooling, current,
                     live, hostPc, hostOffer, job>>
  BY DEF ClearsHandoff, ApplAt, installVars, hostVars, WorldOnly
<1>2. TypeOK /\ job[a] \in Jobs
  BY DEF IInv, TypeOK
<1>3. applPc[a] \in HolderPc /\ Holding(a)
  BY <1>1, IsHolding DEF HolderPc, FlightPc, UndonePc
<1>4. \A b \in Appliers : applPc'[b] \notin HolderPc
  <2>1. applPc'[a] \in {"housekeep", "restart_previous"}
        /\ \A b \in Appliers \ {a} : applPc'[b] = applPc[b] /\ applPc[b] \notin HolderPc
    BY <1>1, <1>2, <1>3, HolderAlone DEF TypeOK
  <2> QED
    BY <2>1 DEF HolderPc, FlightPc, EarlyPc, ConsentPc, UndonePc, TornPc, CutoverPc, ProvePc, RestorePc
<1>5. \A h \in Hosts : hostPc'[h] \notin {"prompt", "consent"}
  BY <1>1, <1>3, HolderAlone
<1>6. LiveIs(current)
  <2>1. CASE applPc[a] = "clear_success"
    BY <2>1 DEF IInv, Whole, SuccessPc, LiveIs
  <2>2. CASE applPc[a] = "clear_restored"
    BY <2>2 DEF IInv, Whole, RestoredPc, LiveIs
  <2> QED
    BY <1>1, <2>1, <2>2
<1>7. \A b \in Appliers : /\ applPc'[b] \notin EarlyPc /\ applPc'[b] \notin ConsentPc
                          /\ applPc'[b] \notin FlightPc /\ applPc'[b] \notin UndonePc
                          /\ applPc'[b] # "minted"
  BY <1>4 DEF HolderPc, FlightPc, EarlyPc, ConsentPc
<1>8. HandoffHeld' /\ MintedByHost' /\ WholeBefore' /\ TornOnlyUnderHandoff'
  BY <1>1, <1>4, <1>6, <1>7 DEF HandoffHeld, MintedByHost, WholeBefore, TornOnlyUnderHandoff, LiveIs
<1>9. ConsentKept'
  <2>1. \A b \in Appliers : /\ applPc'[b] = "off" => applPc[b] = "off"
                            /\ applPc'[b] \in TargetPc => applPc[b] \in TargetPc
    BY <1>1, <1>2 DEF TypeOK, TargetPc, CutoverPc, ProvePc, SuccessPc
  <2> QED
    BY <1>1, <1>5, <1>7, <2>1 DEF HandoffInv, ConsentKept
<1>10. OfferNew' /\ ImageNew' /\ Snoozed'
  BY <1>4, <1>5, <1>7 DEF OfferNew, ImageNew, Snoozed
<1>11. /\ \A r \in cooling : r = snooze \/ Blocked(r)
       /\ result.status = "failed" /\ result.target # None
             => \A r \in cooling : r = result.target \/ Blocked(r)
  <2>1. CASE applPc[a] = "clear_success"
    <3>1. current = job[a].image
      BY <1>3, <2>1 DEF IInv, Whole, SuccessPc, Holding, TargetPc
    <3> QED
      BY <1>3, <2>1, <3>1 DEF Holding, FlightPc, Blocked
  <2>2. CASE applPc[a] = "clear_restored"
    <3>1. Behind(job[a].image) /\ \A r \in cooling : r <= job[a].image
      BY <1>3, <2>2 DEF Ordered, Holding, UndonePc
    <3>2. \A r \in cooling : r = job[a].image \/ Past(r)
      BY <1>2, <3>1, ReleaseNumbers DEF Behind, Past
    <3> QED
      BY <1>3, <2>2, <3>2 DEF Holding, UndonePc, Blocked
  <2> QED
    BY <1>1, <2>1, <2>2
<1>12. CoolingBlocked'
  BY <1>1, <1>11 DEF CoolingBlocked, Blocked, Past
<1> QED
  BY <1>8, <1>9, <1>10, <1>12 DEF HandoffInv, CoolingInv

\* A rollback that throws leaves the handoff, and with it every dialog, alone.
LEMMA ThrowsStep ==
    ASSUME TypeOK, DialogsApart, HandoffInv, CoolingInv, NEW a \in Appliers, RollbackThrows(a)
    PROVE  HandoffInv' /\ CoolingInv'
<1>1. /\ applPc' = [applPc EXCEPT ![a] = "done"] /\ job' = [job EXCEPT ![a] = NoJob]
      /\ \/ applPc[a] \in {"report_restored", "report_torn"}
         \/ applPc[a] = "restart_previous" /\ UNCHANGED result
      /\ UNCHANGED <<published, pending, agentRelease, accepted, snooze, cooling, handoff, current,
                     live, hostPc, hostOffer>>
  BY DEF RollbackThrows, Ends, installVars, hostVars, WorldOnly
<1>2. applPc'[a] = "done" /\ job'[a] = NoJob
      /\ \A b \in Appliers \ {a} : applPc'[b] = applPc[b] /\ job'[b] = job[b]
  BY <1>1 DEF TypeOK
<1>3. CASE applPc[a] \in {"report_restored", "report_torn"}
  <2>1. applPc[a] \in HolderPc
    BY <1>3 DEF HolderPc, FlightPc, TornPc
  <2>2. /\ handoff' # NoToken
        /\ \A b \in Appliers : applPc'[b] \notin HolderPc
        /\ \A h \in Hosts : hostPc'[h] \notin {"prompt", "consent"}
    BY <1>1, <1>2, <2>1, HolderAlone DEF HolderPc, FlightPc, EarlyPc, ConsentPc, UndonePc, TornPc,
       CutoverPc, ProvePc, RestorePc
  <2>3. \A b \in Appliers : /\ applPc'[b] \notin EarlyPc /\ applPc'[b] \notin ConsentPc
                            /\ applPc'[b] \notin FlightPc /\ applPc'[b] \notin UndonePc
                            /\ applPc'[b] # "minted"
    BY <2>2 DEF HolderPc, FlightPc, EarlyPc, ConsentPc
  <2>4. HandoffHeld' /\ MintedByHost' /\ WholeBefore' /\ TornOnlyUnderHandoff'
    BY <2>2, <2>3 DEF HandoffHeld, MintedByHost, WholeBefore, TornOnlyUnderHandoff
  <2>5. ConsentKept'
    BY <1>2, <2>2, <2>3 DEF HandoffInv, ConsentKept, NoJob, TargetPc, CutoverPc, ProvePc, SuccessPc
  <2>6. OfferNew' /\ ImageNew' /\ Snoozed' /\ CoolingBlocked'
    BY <2>2, <2>3 DEF OfferNew, ImageNew, Snoozed, CoolingBlocked
  <2> QED
    BY <2>4, <2>5, <2>6 DEF HandoffInv, CoolingInv
<1>4. CASE applPc[a] = "restart_previous" /\ UNCHANGED result
  <2>1. Goes(a)
    BY <1>2, NoJobTyped DEF Goes, EndPc
  <2> QED
    BY <1>1, <1>2, <1>4, <2>1, HelperMoves, QuietStep
<1> QED
  BY <1>1, <1>3, <1>4

----------------------------------------------------------------------------
(* The theorems.                                                           *)

LEMMA HandoffInit == Init => HInv
<1> SUFFICES ASSUME Init
             PROVE  HInv
  OBVIOUS
<1>1. None < 0 /\ published = 0 /\ pending = None /\ agentRelease = None /\ handoff = NoToken
  BY DEF Init, None
<1>2. OneSession
  BY DEF Init, OneSession, SessionPc, VisiblePc
<1>3. Behind(None)
  BY <1>1 DEF Behind, None
<1>4. Ordered
  BY <1>1, <1>3 DEF Init, Ordered, NoResult, NoJob, None
<1>5. \A a \in Appliers : applPc[a] = "off" /\ job[a] = NoJob
  BY DEF Init
<1>6. HandoffInv
  BY <1>5 DEF Init, HandoffInv, HandoffHeld, MintedByHost, WholeBefore, LiveIs, TornOnlyUnderHandoff,
     ConsentKept, NoJob, HolderPc, FlightPc, EarlyPc, ConsentPc, UndonePc, TornPc, TargetPc, CutoverPc,
     ProvePc, SuccessPc, RestorePc
<1>7. CoolingInv
  BY <1>5 DEF Init, CoolingInv, OfferNew, ImageNew, Snoozed, CoolingBlocked, HolderPc, FlightPc,
     EarlyPc, ConsentPc, UndonePc, TornPc, CutoverPc, ProvePc, RestorePc
<1> QED
  BY <1>2, <1>4, <1>6, <1>7 DEF HInv

\* Every step preserves the invariant, unless it opens a dialog beside a handoff.
LEMMA HandoffNext ==
    ASSUME IInv, HInv, DialogsApart, DialogsApart', [Next]_vars
    PROVE  HInv'
<1> USE DEF HInv, IInv
<1>1. OneSession' /\ Ordered'
  BY SessionStep, OrderedStep
<1>2. ASSUME NEW h \in Hosts, HostStep(h) \/ OperatorStep(h) \/ HostCrashes(h)
      PROVE  HandoffInv' /\ CoolingInv'
  <2>1. CASE ShowsPreviousResult(h)
    BY <2>1, ShowsResultStep
  <2>2. CASE ReconcilesPending(h)
    BY <2>2, ReconcilesStep
  <2>3. CASE ConsentFails(h)
    BY <2>3, ConsentFailsStep
  <2>4. CASE \E a \in Appliers : BeginsHandoff(h, a)
    BY <2>4, BeginsHandoffStep
  <2>5. CASE \E a \in Appliers : HelperStartFails(h, a)
    BY <2>5, HelperStartFailsStep
  <2>6. CASE OpensPrompt(h)
    BY <2>6, OpensPromptStep
  <2>7. CASE Declines(h)
    BY <2>7, DeclinesStep
  <2>8. CASE Consents(h)
    BY <2>8, ConsentsStep
  <2>9. CASE \/ PassesGate(h) \/ RefusedAtGate(h) \/ TakesSession(h) \/ YieldsToSession(h)
             \/ WaitsForSession(h) \/ WaitTimesOut(h) \/ ServesRuntime(h) \/ StartupFails(h)
             \/ Exits(h) \/ UserLaunches(h) \/ Closes(h) \/ HostCrashes(h)
             \/ \E a \in Appliers : StartsHelper(h, a)
    BY <2>9, HostQuiet
  <2> QED
    BY <1>2, <2>1, <2>2, <2>3, <2>4, <2>5, <2>6, <2>7, <2>8, <2>9 DEF HostStep, OperatorStep
<1>3. ASSUME NEW a \in Appliers, ApplierStep(a) \/ ApplierCrashes(a)
      PROVE  HandoffInv' /\ CoolingInv'
  <2>1. CASE \/ ReadsAccepted(a) \/ TakesSnapshot(a) \/ WritesCurrent(a) \/ ReportsSuccess(a)
             \/ CleansUp(a) \/ RestoresMetadata(a) \/ ReportsFailure(a) \/ DiscardsConsent(a)
    BY <2>1, HelperRecords
  <2>2. CASE ClearsHandoff(a)
    BY <2>2, ClearsStep
  <2>3. CASE RollbackThrows(a)
    BY <2>3, ThrowsStep
  <2>4. CASE \/ ChecksToken(a) \/ TakesLock(a) \/ LockTimesOut(a)
             \/ \E p \in Trees : MovesOut(a, p) \/ MovesIn(a, p)
             \/ ProvesRestart(a) \/ RestartUnproved(a) \/ FileOperationFails(a)
             \/ \E h \in Hosts : RestartsTarget(a, h) \/ RestartsPrevious(a, h)
             \/ Housekeeps(a) \/ StopsPeers(a)
             \/ \E p \in Trees : Restores(a, p) \/ RestoreFails(a, p) \/ NothingToRestore(a, p)
             \/ LeavesMetadata(a) \/ RetainsHandoff(a) \/ ApplierCrashes(a)
    BY <2>4, HelperQuiet
  <2> QED
    BY <1>3, <2>1, <2>2, <2>3, <2>4 DEF ApplierStep
<1>4. CASE Publish \/ AgentSpawned \/ AgentStep
  BY <1>1, <1>4, StagingStep
<1>5. CASE \E r \in Releases : CooldownElapses(r)
  BY <1>1, <1>5, CooldownStep
<1>6. CASE UNCHANGED vars
  BY <1>1, <1>6 DEF vars, HandoffInv, HandoffHeld, MintedByHost, WholeBefore, LiveIs, TornOnlyUnderHandoff,
     ConsentKept, CoolingInv, OfferNew, ImageNew, ShownUpTo, Snoozed, CoolingBlocked, Blocked, Past
<1> QED
  BY <1>1, <1>2, <1>3, <1>4, <1>5, <1>6 DEF Next

\* The single-instance mutex: there is never more than one host that has the
\* session, and with it the dialogs and the runtime (Program.Main).
THEOREM SingleSession == Spec => []OneSession
<1>1. Init => OneSession
  BY HandoffInit DEF HInv
<1>2. TypeOK /\ OneSession /\ [Next]_vars => OneSession'
  BY SessionStep
<1> QED
  BY <1>1, <1>2, TypeCorrect, PTL DEF Spec

LEMMA HandoffInvariance == Spec /\ []DialogsApart => []HInv
<1>1. Init => HInv
  BY HandoffInit
<1>2. IInv /\ HInv /\ DialogsApart /\ DialogsApart' /\ [Next]_vars => HInv'
  BY HandoffNext
<1> QED
  BY <1>1, <1>2, Invariance, PTL DEF Spec

\* Without a handoff on disk a start finds one whole generation, as long as no
\* dialog is open beside a handoff (ProductUpdateApplier, Program.Main).
THEOREM TornUnderHandoff == Spec /\ []DialogsApart => []TornOnlyUnderHandoff
<1>1. HInv => TornOnlyUnderHandoff
  BY DEF HInv, HandoffInv
<1> QED
  BY <1>1, HandoffInvariance, PTL

\* The helper installs the release its operator said Yes to, although pending
\* may have moved on, as long as no dialog is open beside a handoff
\* (UpdateCoordinator.PromptIfAvailable).
THEOREM TargetFrozen == Spec /\ []DialogsApart => []FrozenTarget
<1>1. HInv => FrozenTarget
  BY DEF HInv, HandoffInv, ConsentKept, FrozenTarget, TargetPc
<1> QED
  BY <1>1, HandoffInvariance, PTL

\* A dialog opens in no other way.
LEMMA OnlyOpensPrompt ==
    ASSUME TypeOK, Next, NEW h \in Hosts, hostPc[h] # "prompt", hostPc'[h] = "prompt"
    PROVE  \E g \in Hosts : OpensPrompt(g)
<1>1. CASE Publish \/ (\E r \in Releases : CooldownElapses(r)) \/ AgentSpawned \/ AgentStep
  BY <1>1 DEF Publish, CooldownElapses, AgentSpawned, AgentStep, AgentFindsNothing, AgentAcquires,
     AgentExtractsDesktop, AgentExtractsRuntime, AgentRebuildsHelper, AgentHitsLockedHelper,
     AgentPublishesPending, AgentReturns, AgentAborts, AgentOnly, hostVars
<1>2. ASSUME NEW g \in Hosts, HostStep(g) \/ OperatorStep(g) \/ HostCrashes(g), ~OpensPrompt(g)
      PROVE  FALSE
  <2>1. CASE RefusedAtGate(g) \/ YieldsToSession(g) \/ WaitTimesOut(g) \/ Exits(g)
    BY <2>1, HostEndsKeepsAll DEF RefusedAtGate, YieldsToSession, WaitTimesOut, Exits
  <2>2. CASE HostCrashes(g)
    BY <2>2 DEF HostCrashes, HostsEnd
  <2>3. CASE \/ PassesGate(g) \/ TakesSession(g) \/ WaitsForSession(g) \/ ShowsPreviousResult(g)
             \/ ServesRuntime(g) \/ StartupFails(g) \/ ReconcilesPending(g) \/ ConsentFails(g)
             \/ UserLaunches(g) \/ Declines(g) \/ Consents(g) \/ Closes(g)
    BY <2>3 DEF TypeOK, PassesGate, TakesSession, WaitsForSession, ShowsPreviousResult, ServesRuntime,
       StartupFails, ReconcilesPending, ConsentFails, UserLaunches, Declines, Consents, Closes, Start,
       HostAt, hostVars
  <2>4. CASE \E a \in Appliers : BeginsHandoff(g, a) \/ StartsHelper(g, a) \/ HelperStartFails(g, a)
    BY <2>4 DEF TypeOK, BeginsHandoff, StartsHelper, HelperStartFails, HostAt
  <2> QED
    BY <1>2, <2>1, <2>2, <2>3, <2>4 DEF HostStep, OperatorStep
<1>3. ASSUME NEW a \in Appliers, ApplierStep(a) \/ ApplierCrashes(a)
      PROVE  FALSE
  <2>1. CASE StopsPeers(a)
    BY <2>1 DEF StopsPeers, HostsEnd
  <2>2. CASE \E g \in Hosts : RestartsTarget(a, g) \/ RestartsPrevious(a, g)
    BY <2>2 DEF TypeOK, RestartsTarget, RestartsPrevious, Start
  <2>3. UNCHANGED hostPc \/ StopsPeers(a) \/ (\E g \in Hosts : RestartsTarget(a, g) \/ RestartsPrevious(a, g))
    BY <1>3 DEF ApplierStep, ApplierCrashes, ChecksToken, TakesLock, LockTimesOut, ReadsAccepted,
       TakesSnapshot, MovesOut, MovesIn, WritesCurrent, ProvesRestart, RestartUnproved,
       FileOperationFails, ReportsSuccess, CleansUp, ClearsHandoff, Housekeeps, Restores,
       RestoreFails, NothingToRestore, RestoresMetadata, LeavesMetadata, ReportsFailure,
       DiscardsConsent, RetainsHandoff, RollbackThrows, hostVars
  <2> QED
    BY <2>1, <2>2, <2>3
<1> QED
  BY <1>1, <1>2, <1>3 DEF Next

\* A release whose update failed is not offered again before its cooldown ends,
\* as long as no dialog is open beside a handoff (IsSnoozed, WriteFailureSnooze).
THEOREM CooldownKept == Spec /\ []DialogsApart => NoOfferWhileCooling
<1>1. TypeOK /\ HInv' /\ [Next]_vars
         => [\A h \in Hosts : hostPc[h] # "prompt" /\ hostPc'[h] = "prompt"
                => hostOffer'[h] \notin cooling]_vars
  <2> SUFFICES ASSUME TypeOK, HInv', Next, NEW h \in Hosts, hostPc[h] # "prompt", hostPc'[h] = "prompt"
               PROVE  hostOffer'[h] \notin cooling
    OBVIOUS
  <2>1. \E g \in Hosts : OpensPrompt(g)
    BY OnlyOpensPrompt
  <2>2. UNCHANGED cooling
    BY <2>1 DEF OpensPrompt, GateOnly
  <2>3. \A r \in cooling' : r < hostOffer'[h]
    BY DEF HInv, CoolingInv, OfferNew
  <2>4. \A r \in cooling : r \in Int
    BY ReleaseNumbers
  <2> QED
    BY <2>2, <2>3, <2>4
<1> QED
  BY <1>1, HandoffInvariance, TypeCorrect, PTL DEF Spec, NoOfferWhileCooling

=============================================================================
