--------------------------- MODULE ProductUpdate ---------------------------
(***************************************************************************)
(* The self-update of the installed Windows product: the desktop host that *)
(* asks for consent (UpdateCoordinator), the staging agent it spawns       *)
(* (ProductUpdateAgent), the helper that cuts the installation over        *)
(* (ProductUpdateApplier) and the start-up gate every new host passes      *)
(* (Program.Main).  They share nothing but files under the install root    *)
(* and two named mutexes, and any of them may die between two file         *)
(* operations.                                                             *)
(*                                                                         *)
(* One product generation is a number: it stands for a release's version   *)
(* and source SHA, which the agent binds one to one.  Generation 0 is the  *)
(* one installed first.  A directory tree is the generation it holds, None *)
(* when it does not exist, or Damaged when a delete stopped half-way.      *)
(***************************************************************************)
EXTENDS Integers, FiniteSets

CONSTANTS
    Hosts,        \* slots for desktop-host processes alive at the same time
    Appliers,     \* one helper process, hence one handoff token, per consent
    MaxRelease,   \* bound: releases 1..MaxRelease are published
    Faults,       \* which failures of the environment may happen: "io" of a
                  \* directory operation, "state" of a state file or a process
                  \* start, "crash" of a process, "helper" that will not start
    NoToken,      \* "no handoff file", "no restart token"
    NoHost,       \* "no such process"
    Agent,        \* the staging agent as holder of the operation mutex
    Nobody        \* the operation mutex is free

ASSUME ReleaseAssumption == MaxRelease \in Nat \ {0}
ASSUME FaultAssumption == Faults \subseteq {"io", "state", "crash", "helper"}
ASSUME TokenAssumption == NoToken \notin Appliers
ASSUME HostAssumption == NoHost \notin Hosts
ASSUME HolderAssumption == /\ Agent \notin Appliers
                           /\ Nobody \notin Appliers \cup {Agent}

None == -1
Damaged == -2
Generations == 0 .. MaxRelease
Releases == 1 .. MaxRelease
Trees == {"desktop", "runtime"}            \* the two live product trees
Parts == Trees \cup {"helper"}             \* what updates/<sha>/ stages
MaybeGeneration == Generations \cup {None}
TreeContent == MaybeGeneration \cup {Damaged}

VARIABLES
    \* files and directories under the install root
    current,      \* current.json: the generation it names
    live,         \* desktop-host/ and runtime/
    backup,       \* rollback/product-*/ of each applier
    stage,        \* updates/<sha>/{desktop-staged,runtime-staged,apply-helper}
    pending,      \* state/pending-update.json
    accepted,     \* state/accepted-update.json
    snooze,       \* state/update-snooze.json, unexpired: the target it names
    result,       \* state/update-result.json
    handoff,      \* state/update-handoff.json: whose token hash it holds
    \* the rest of the world
    published,    \* the newest release GitHub lists
    served,       \* what answers on the product port: app-info source_revision
    opMutex,      \* holder of the update-operation mutex
    \* processes
    agentPc, agentRelease,
    hostPc, hostToken, hostOffer,
    applPc,
    job,          \* locals of each live applier
    \* history
    cooling       \* targets whose failure cooldown has not elapsed

installVars == <<current, live, backup>>
stagingVars == <<stage, agentPc, agentRelease>>
hostVars == <<hostPc, hostToken, hostOffer>>

vars == <<current, live, backup, stage, pending, accepted, snooze, result,
          handoff, published, served, opMutex, agentPc, agentRelease, hostPc,
          hostToken, hostOffer, applPc, job, cooling>>

AgentSteps == {"idle", "spawned", "prepare", "desktop", "runtime", "helper", "published"}
VisiblePc == {"admitted", "running", "prompt", "consent", "handoff", "inert"}
SessionPc == VisiblePc \cup {"closing"}
HostSteps == SessionPc \cup {"off", "gate", "contend", "waiting"}

\* Steps of an applier that the operation mutex protects, in program order.
CutoverPc == {"out_desktop", "in_desktop", "out_runtime", "in_runtime", "metadata"}
ProvePc == {"restart", "verify"}
SuccessPc == {"report_success", "cleanup", "clear_success", "housekeep"}
RestorePc == {"stop_peers", "restore_desktop", "restore_runtime", "restore_metadata"}
RestoredPc == {"report_restored", "discard", "clear_restored", "restart_previous"}
TornPc == {"report_torn", "give_up"}
EndPc == {"off", "done", "dead"}
ApplierSteps == EndPc \cup {"minted", "token", "lock", "read", "snapshot"}
                \cup CutoverPc \cup ProvePc \cup SuccessPc
                \cup RestorePc \cup RestoredPc \cup TornPc

\* What one run of the helper knows: the release whose apply-helper it runs
\* from, the accepted target, the generation current.json named, the trees it
\* moved out and the ones it put in place, whether a restore failed, the host
\* that started it and the host it restarted.
Jobs == [image : Releases \cup {None}, target : Releases \cup {None},
         previous : MaybeGeneration, moved : SUBSET Trees, placed : SUBSET Trees,
         torn : BOOLEAN, parent : Hosts \cup {NoHost}, child : Hosts \cup {NoHost}]
NoJob == [image |-> None, target |-> None, previous |-> None, moved |-> {}, placed |-> {},
          torn |-> FALSE, parent |-> NoHost, child |-> NoHost]

NoResult == [status |-> "none", target |-> None]
Results == [status : {"none", "success", "failed"}, target : Releases \cup {None}]

TypeOK ==
    /\ current \in Generations
    /\ live \in [Trees -> TreeContent]
    /\ backup \in [Appliers -> [Trees -> TreeContent]]
    /\ stage \in [Releases -> [Parts -> {"absent", "partial", "whole"}]]
    /\ pending \in Releases \cup {None}
    /\ accepted \in Releases \cup {None}
    /\ snooze \in Releases \cup {None}
    /\ result \in Results
    /\ handoff \in Appliers \cup {NoToken}
    /\ published \in Generations
    /\ served \in MaybeGeneration
    /\ opMutex \in Appliers \cup {Agent, Nobody}
    /\ agentPc \in AgentSteps
    /\ agentRelease \in Releases \cup {None}
    /\ hostPc \in [Hosts -> HostSteps]
    /\ hostToken \in [Hosts -> Appliers \cup {NoToken}]
    /\ hostOffer \in [Hosts -> Releases \cup {None}]
    /\ applPc \in [Appliers -> ApplierSteps]
    /\ job \in [Appliers -> Jobs]
    /\ cooling \subseteq Releases

\* A freshly bootstrapped product: nothing staged, nothing running.
Init ==
    /\ current = 0
    /\ live = [p \in Trees |-> 0]
    /\ backup = [a \in Appliers |-> [p \in Trees |-> None]]
    /\ stage = [r \in Releases |-> [p \in Parts |-> "absent"]]
    /\ pending = None /\ accepted = None /\ snooze = None
    /\ result = NoResult
    /\ handoff = NoToken
    /\ published = 0
    /\ served = None
    /\ opMutex = Nobody
    /\ agentPc = "idle" /\ agentRelease = None
    /\ hostPc = [h \in Hosts |-> "off"]
    /\ hostToken = [h \in Hosts |-> NoToken]
    /\ hostOffer = [h \in Hosts |-> None]
    /\ applPc = [a \in Appliers |-> "off"]
    /\ job = [a \in Appliers |-> NoJob]
    /\ cooling = {}

----------------------------------------------------------------------------
(* The operation mutex.  WaitOne succeeds on a free mutex and on one whose *)
(* holder died (AbandonedMutexException), so a dead holder frees it.       *)

MutexFree == opMutex = Nobody

\* Mutant of Acquire: the outcome of WaitOne is not looked at.
AcquireUnchecked(p) == opMutex' = p

Acquire(p) == MutexFree /\ opMutex' = p

\* finally { if (ownsOperationMutex) ReleaseMutex() }, or the death of p.
Relinquish(p) == opMutex' = IF opMutex = p THEN Nobody ELSE opMutex

----------------------------------------------------------------------------
(* The world outside.                                                      *)

\* A new release with all four assets appears on GitHub.
Publish ==
    /\ published < MaxRelease
    /\ published' = published + 1
    /\ UNCHANGED <<installVars, stagingVars, pending, accepted, snooze, result, handoff,
                   served, opMutex, hostVars, applPc, job, cooling>>

\* The clock passes the snooze_until_utc of release r.
CooldownElapses(r) ==
    /\ r = snooze \/ r \in cooling
    /\ snooze' = IF snooze = r THEN None ELSE snooze
    /\ cooling' = cooling \ {r}
    /\ UNCHANGED <<installVars, stagingVars, pending, accepted, result, handoff, published,
                   served, opMutex, hostVars, applPc, job>>

----------------------------------------------------------------------------
(* ProductUpdateAgent: one staging run.  Any number of agents may be       *)
(* spawned; the mutex lets one of them past "spawned".                     *)

\* Mutant of NewestRelease: a version past the newest is asked for.
ReleaseAfterNewest == published + 1

\* The newest direct release, which the agent compares with current.json.
NewestRelease == published

\* A helper process runs from updates/<sha>/apply-helper: Windows refuses to
\* delete its executable, so a recursive delete leaves the directory damaged.
HelperInUse(r) == \E a \in Appliers : job[a].image = r /\ applPc[a] \notin EndPc \cup {"minted"}

AgentOnly == UNCHANGED <<installVars, accepted, snooze, result, handoff, published, served,
                         hostVars, applPc, job, cooling>>

\* TriggerStageLatest of a host that is not applying.  The agent outlives it.
AgentSpawned ==
    /\ agentPc = "idle"
    /\ \E h \in Hosts : hostPc[h] \in {"running", "prompt"}
    /\ agentPc' = "spawned"
    /\ UNCHANGED <<agentRelease, stage, pending, opMutex>>
    /\ AgentOnly

\* "skipped:update_operation_in_progress", or "no_update".
AgentFindsNothing ==
    /\ agentPc = "spawned"
    /\ ~MutexFree \/ NewestRelease <= current
    /\ agentPc' = "idle"
    /\ UNCHANGED <<agentRelease, stage, pending, opMutex>>
    /\ AgentOnly

\* TryAcquire with no wait.
AgentAcquires ==
    /\ agentPc = "spawned"
    /\ NewestRelease > current
    /\ Acquire(Agent)
    /\ agentPc' = "prepare" /\ agentRelease' = NewestRelease
    /\ UNCHANGED <<stage, pending>>
    /\ AgentOnly

\* ExtractFresh: delete the stage, then unpack it again.
AgentExtractsDesktop ==
    /\ agentPc = "prepare"
    /\ agentPc' = "desktop"
    /\ stage' = [stage EXCEPT ![agentRelease]["desktop"] = "partial"]
    /\ UNCHANGED <<agentRelease, pending, opMutex>>
    /\ AgentOnly

AgentExtractsRuntime ==
    /\ agentPc = "desktop"
    /\ agentPc' = "runtime"
    /\ stage' = [stage EXCEPT ![agentRelease]["desktop"] = "whole",
                              ![agentRelease]["runtime"] = "partial"]
    /\ UNCHANGED <<agentRelease, pending, opMutex>>
    /\ AgentOnly

\* DeleteDirectory(helperRoot), then CopyDirectory(desktopStage, helperRoot).
AgentRebuildsHelper ==
    /\ agentPc = "runtime" /\ ~HelperInUse(agentRelease)
    /\ agentPc' = "helper"
    /\ stage' = [stage EXCEPT ![agentRelease]["runtime"] = "whole",
                              ![agentRelease]["helper"] = "partial"]
    /\ UNCHANGED <<agentRelease, pending, opMutex>>
    /\ AgentOnly

\* The same step while a helper runs from that directory: the delete throws
\* after it removed what was not locked, and the agent returns.
AgentHitsLockedHelper ==
    /\ agentPc = "runtime" /\ HelperInUse(agentRelease)
    /\ agentPc' = "idle" /\ agentRelease' = None
    /\ Relinquish(Agent)
    /\ stage' = [stage EXCEPT ![agentRelease]["runtime"] = "whole",
                              ![agentRelease]["helper"] = "partial"]
    /\ UNCHANGED pending
    /\ AgentOnly

\* The tree digests are computed last and published with the manifest.
AgentPublishesPending ==
    /\ agentPc = "helper"
    /\ agentPc' = "published"
    /\ stage' = [stage EXCEPT ![agentRelease]["helper"] = "whole"]
    /\ pending' = agentRelease
    /\ UNCHANGED <<agentRelease, opMutex>>
    /\ AgentOnly

AgentReturns ==
    /\ agentPc = "published"
    /\ agentPc' = "idle" /\ agentRelease' = None
    /\ Relinquish(Agent)
    /\ UNCHANGED <<stage, pending>>
    /\ AgentOnly

\* Any exception (network, checksum, a locked helper) or the agent's death.
AgentAborts ==
    /\ agentPc \notin {"idle", "spawned", "published"}
    /\ agentPc' = "idle" /\ agentRelease' = None
    /\ Relinquish(Agent)
    /\ UNCHANGED <<stage, pending>>
    /\ AgentOnly

AgentStep == AgentFindsNothing \/ AgentAcquires \/ AgentExtractsDesktop
             \/ AgentExtractsRuntime \/ AgentRebuildsHelper \/ AgentHitsLockedHelper
             \/ AgentPublishesPending \/ AgentReturns \/ AgentAborts

----------------------------------------------------------------------------
(* Processes end: whoever had them as parent or child sees them gone.      *)

\* The jobs after the hosts in S and the appliers in F are gone.
JobsWithout(S, F) ==
    LET Gone(h) == IF h \in S THEN NoHost ELSE h
    IN  [a \in Appliers |-> IF a \in F THEN NoJob
                            ELSE [job[a] EXCEPT !.parent = Gone(@), !.child = Gone(@)]]

HostsEnd(S) ==
    /\ hostPc' = [h \in Hosts |-> IF h \in S THEN "off" ELSE hostPc[h]]
    /\ hostToken' = [h \in Hosts |-> IF h \in S THEN NoToken ELSE hostToken[h]]
    /\ hostOffer' = [h \in Hosts |-> IF h \in S THEN None ELSE hostOffer[h]]

HostEnds(h) == HostsEnd({h}) /\ job' = JobsWithout({h}, {})

HostAt(h, from, to) == hostPc[h] = from /\ hostPc' = [hostPc EXCEPT ![h] = to]

Start(h, token) ==
    /\ hostPc[h] = "off"
    /\ hostPc' = [hostPc EXCEPT ![h] = "gate"]
    /\ hostToken' = [hostToken EXCEPT ![h] = token]

----------------------------------------------------------------------------
(* Program.Main: the gate a starting host passes.                          *)

GateOnly == UNCHANGED <<installVars, stagingVars, pending, accepted, snooze, result,
                        handoff, published, served, opMutex, applPc, cooling>>

SessionOpen == \E h \in Hosts : hostPc[h] \in SessionPc
WindowVisible == \E h \in Hosts : hostPc[h] \in VisiblePc

\* Bound: while a helper is alive, one slot stays free for the host it starts.
SlotReserved(h) ==
    (\E a \in Appliers : applPc[a] \notin EndPc) => \E g \in Hosts \ {h} : hostPc[g] = "off"

UserLaunches(h) ==
    /\ live["desktop"] \in Generations /\ SlotReserved(h)
    /\ Start(h, NoToken)
    /\ UNCHANGED <<hostOffer, job>>
    /\ GateOnly

\* HasActiveHandoff /\ ~RestartTokenMatches is checked once, before the
\* single-instance mutex is touched.
PassesGate(h) ==
    /\ handoff \in {NoToken, hostToken[h]}
    /\ HostAt(h, "gate", "contend")
    /\ UNCHANGED <<hostToken, hostOffer, job>>
    /\ GateOnly

RefusedAtGate(h) ==
    /\ hostPc[h] = "gate"
    /\ handoff \notin {NoToken, hostToken[h]}
    /\ HostEnds(h)
    /\ GateOnly

\* mutex.WaitOne(0): the single-instance mutex belongs to the open session.
\* The token in the environment is not read again.
TakesSession(h) ==
    /\ ~SessionOpen
    /\ \/ HostAt(h, "contend", "admitted")
       \/ HostAt(h, "waiting", "admitted")
    /\ hostToken' = [hostToken EXCEPT ![h] = NoToken]
    /\ UNCHANGED <<hostOffer, job>>
    /\ GateOnly

\* Busy, and an update is in progress or a window can be brought to the front.
YieldsToSession(h) ==
    /\ hostPc[h] = "contend" /\ SessionOpen
    /\ handoff # NoToken \/ accepted # None \/ WindowVisible
    /\ HostEnds(h)
    /\ GateOnly

\* Busy with a hidden, closing window: WaitOne(LifecycleHandoffTimeout).
WaitsForSession(h) ==
    /\ SessionOpen /\ ~WindowVisible
    /\ handoff = NoToken /\ accepted = None
    /\ HostAt(h, "contend", "waiting")
    /\ UNCHANGED <<hostToken, hostOffer, job>>
    /\ GateOnly

\* The 25 seconds are over.
WaitTimesOut(h) ==
    /\ hostPc[h] = "waiting" /\ SessionOpen
    /\ HostEnds(h)
    /\ GateOnly

----------------------------------------------------------------------------
(* UpdateCoordinator and MainWindow: an admitted host.                     *)

\* ShowPreviousUpdateFailureOnce: the first thing the first poll does.
ShowsPreviousResult(h) ==
    /\ HostAt(h, "admitted", "running")
    /\ LET again == result.status = "failed" /\ result.target # None
       IN  /\ snooze' = IF again THEN result.target ELSE snooze
           /\ cooling' = IF again THEN cooling \cup {result.target} ELSE cooling
    /\ result' = NoResult
    /\ UNCHANGED <<installVars, stagingVars, pending, accepted, handoff, published, served,
                   opMutex, hostToken, hostOffer, applPc, job>>

\* EnsureStartedAsync: the runtime must be the generation current.json pins;
\* a JAP runtime of another generation on the port is replaced.
ServesRuntime(h) ==
    /\ hostPc[h] \in VisiblePc \ {"admitted"}
    /\ live["runtime"] = current /\ served # current
    /\ served' = current
    /\ UNCHANGED <<installVars, stagingVars, pending, accepted, snooze, result, handoff,
                   published, opMutex, hostVars, applPc, job, cooling>>

\* OnShown catches the failed start and closes the window.
StartupFails(h) ==
    /\ served # current
    /\ live["runtime"] # current \/ "state" \in Faults
    /\ HostAt(h, "running", "closing")
    /\ UNCHANGED <<hostToken, hostOffer, job>>
    /\ GateOnly

\* PromptIfAvailable finds the pending release already installed.
ReconcilesPending(h) ==
    /\ hostPc[h] = "running"
    /\ pending = current
    /\ pending' = None /\ snooze' = None
    /\ UNCHANGED <<installVars, stagingVars, accepted, result, handoff, published, served,
                   opMutex, hostVars, applPc, job, cooling>>

\* Mutant of MayOffer: the snooze file is forgotten.
MayOfferSnoozed(r) == r # None /\ r > current

\* IsCompatible, and no unexpired snooze for exactly this target.
MayOffer(r) == r # None /\ r > current /\ snooze # r

\* The dialog is modal, not exclusive: `pending` is frozen here, and every
\* other process goes on while the operator thinks.
OpensPrompt(h) ==
    /\ MayOffer(pending)
    /\ HostAt(h, "running", "prompt")
    /\ hostOffer' = [hostOffer EXCEPT ![h] = pending]
    /\ UNCHANGED <<hostToken, job>>
    /\ GateOnly

Declines(h) ==
    /\ HostAt(h, "prompt", "running")
    /\ snooze' = hostOffer[h]
    /\ hostOffer' = [hostOffer EXCEPT ![h] = None]
    /\ UNCHANGED <<installVars, stagingVars, pending, accepted, result, handoff, published,
                   served, opMutex, hostToken, applPc, job, cooling>>

\* Mutant of ShownManifest: pending-update.json is read again after the Yes.
ManifestOnDisk(h) == pending

\* pending.ManifestJson, as it was read before the dialog opened.
ShownManifest(h) == hostOffer[h]

\* WriteAcceptedManifest
Consents(h) ==
    /\ HostAt(h, "prompt", "consent")
    /\ \E a \in Appliers : applPc[a] = "off"      \* bound: one consent per applier
    /\ accepted' = ShownManifest(h)
    /\ UNCHANGED <<installVars, stagingVars, pending, snooze, result, handoff, published, served,
                   opMutex, hostToken, hostOffer, applPc, job, cooling>>

\* The snooze, the accepted manifest or the handoff could not be written: one
\* catch block serves the Yes and the No.  It takes handoff and consent back,
\* whoever wrote them.
ConsentFails(h) ==
    /\ "state" \in Faults
    /\ HostAt(h, "prompt", "running") \/ HostAt(h, "consent", "running")
    /\ hostOffer' = [hostOffer EXCEPT ![h] = None]
    /\ handoff' = NoToken /\ accepted' = None
    /\ UNCHANGED <<installVars, stagingVars, pending, snooze, result, published, served, opMutex,
                   hostToken, applPc, job, cooling>>

\* BeginHandoff mints the token of the helper to come; then the snooze goes
\* and _applyingUpdate is set.
BeginsHandoff(h, a) ==
    /\ applPc[a] = "off"
    /\ HostAt(h, "consent", "handoff")
    /\ applPc' = [applPc EXCEPT ![a] = "minted"]
    /\ job' = [job EXCEPT ![a].image = hostOffer[h], ![a].parent = h]
    /\ handoff' = a
    /\ snooze' = None
    /\ UNCHANGED <<installVars, stagingVars, pending, accepted, result, published, served, opMutex,
                   hostToken, hostOffer, cooling>>

\* Process.Start of the staged helper, then owner.Close().
StartsHelper(h, a) ==
    /\ applPc[a] = "minted" /\ job[a].parent = h
    /\ stage[job[a].image]["helper"] # "absent"
    /\ HostAt(h, "handoff", "closing")
    /\ applPc' = [applPc EXCEPT ![a] = "token"]
    /\ UNCHANGED <<installVars, stagingVars, pending, accepted, snooze, result, handoff, published,
                   served, opMutex, hostToken, hostOffer, job, cooling>>

\* The helper is missing or does not start: the catch block takes the handoff
\* and the consent back; _applyingUpdate stays set, so the host offers nothing
\* any more.
HelperStartFails(h, a) ==
    /\ applPc[a] = "minted" /\ job[a].parent = h
    /\ stage[job[a].image]["helper"] # "whole" \/ "helper" \in Faults
    /\ HostAt(h, "handoff", "inert")
    /\ applPc' = [applPc EXCEPT ![a] = "dead"]
    /\ job' = [job EXCEPT ![a] = NoJob]
    /\ handoff' = NoToken
    /\ accepted' = None
    /\ UNCHANGED <<installVars, stagingVars, pending, snooze, result, published, served, opMutex,
                   hostToken, hostOffer, cooling>>

\* OnFormClosing, first pass: hide and stop the managed runtime.
Closes(h) ==
    /\ HostAt(h, "running", "closing") \/ HostAt(h, "inert", "closing")
    /\ UNCHANGED <<hostToken, hostOffer, job>>
    /\ GateOnly

\* The stop ended, well or (warned about, nothing else) not, and the process exits.
Exits(h) ==
    /\ hostPc[h] = "closing"
    /\ HostEnds(h)
    /\ served' = None \/ ("state" \in Faults /\ served' = served)
    /\ UNCHANGED <<installVars, stagingVars, pending, accepted, snooze, result, handoff, published,
                   opMutex, applPc, cooling>>

\* Death of a host; a token it minted for a helper never started dies with it.
HostCrashes(h) ==
    /\ "crash" \in Faults /\ hostPc[h] # "off"
    /\ LET lost == {a \in Appliers : applPc[a] = "minted" /\ job[a].parent = h}
       IN  /\ HostsEnd({h})
           /\ job' = JobsWithout({h}, lost)
           /\ applPc' = [a \in Appliers |-> IF a \in lost THEN "dead" ELSE applPc[a]]
    /\ UNCHANGED <<installVars, stagingVars, pending, accepted, snooze, result, handoff, published,
                   served, opMutex, cooling>>

HostStep(h) ==
    \/ PassesGate(h) \/ RefusedAtGate(h) \/ TakesSession(h) \/ YieldsToSession(h)
    \/ WaitsForSession(h) \/ WaitTimesOut(h) \/ ShowsPreviousResult(h) \/ ServesRuntime(h)
    \/ StartupFails(h) \/ ReconcilesPending(h) \/ ConsentFails(h)
    \/ Exits(h)
    \/ \E a \in Appliers : BeginsHandoff(h, a) \/ StartsHelper(h, a) \/ HelperStartFails(h, a)

OperatorStep(h) ==
    UserLaunches(h) \/ OpensPrompt(h) \/ Declines(h) \/ Consents(h) \/ Closes(h)

----------------------------------------------------------------------------
(* ProductUpdateApplier.                                                   *)

ApplAt(a, from, to) == applPc[a] = from /\ applPc' = [applPc EXCEPT ![a] = to]

\* Return or death: the locals go, a held mutex is released or abandoned.
Ends(a, how) ==
    /\ applPc' = [applPc EXCEPT ![a] = how]
    /\ job' = [job EXCEPT ![a] = NoJob]
    /\ Relinquish(a)

WorldOnly == UNCHANGED <<published, agentPc, agentRelease>>

\* RestartTokenMatches, before the operation mutex is taken.
ChecksToken(a) ==
    /\ ApplAt(a, "token", IF handoff = a THEN "lock" ELSE "stop_peers")
    /\ UNCHANGED <<installVars, stage, pending, accepted, snooze, result, handoff, served,
                   opMutex, hostVars, job, cooling>>
    /\ WorldOnly

\* TryAcquire(60 s), then WaitForHostExit(hostPidText).  ResolveArg has turned
\* the pid into a path, int.TryParse rejects it and the wait returns at once:
\* there is no guard on the host here.
TakesLock(a) ==
    /\ Acquire(a)
    /\ ApplAt(a, "lock", "read")
    /\ UNCHANGED <<installVars, stage, pending, accepted, snooze, result, handoff, served,
                   hostVars, job, cooling>>
    /\ WorldOnly

\* Mutant of LockTimesOut: the second Require is dropped, the applier goes on
\* without the mutex.
ProceedsUnlocked(a) ==
    /\ ~MutexFree
    /\ ApplAt(a, "lock", "read")
    /\ UNCHANGED <<installVars, stage, pending, accepted, snooze, result, handoff, served,
                   opMutex, hostVars, job, cooling>>
    /\ WorldOnly

\* Mutant of LockTimesOut and of RestartUnproved: a wait without a deadline.
WaitsForever(a) == a \notin Appliers

LockTimesOut(a) ==
    /\ ~MutexFree
    /\ ApplAt(a, "lock", "stop_peers")
    /\ UNCHANGED <<installVars, stage, pending, accepted, snooze, result, handoff, served,
                   opMutex, hostVars, job, cooling>>
    /\ WorldOnly

\* The three tree digests of the manifest match only complete trees.
StageIntact(r) == \A p \in Parts : stage[r][p] = "whole"

ReadsAccepted(a) ==
    /\ ApplAt(a, "read", IF accepted # None /\ StageIntact(accepted)
                         THEN "snapshot" ELSE "stop_peers")
    /\ job' = [job EXCEPT ![a].target = accepted]
    /\ UNCHANGED <<installVars, stage, pending, accepted, snooze, result, handoff, served, opMutex,
                   hostVars, cooling>>
    /\ WorldOnly

\* previousCurrentJson = File.ReadAllText(current.json)
TakesSnapshot(a) ==
    /\ ApplAt(a, "snapshot", "out_desktop")
    /\ job' = [job EXCEPT ![a].previous = current]
    /\ UNCHANGED <<installVars, stage, pending, accepted, snooze, result, handoff, served, opMutex,
                   hostVars, cooling>>
    /\ WorldOnly

OutAt == [desktop |-> "out_desktop", runtime |-> "out_runtime"]
InAt == [desktop |-> "in_desktop", runtime |-> "in_runtime"]
AfterIn == [desktop |-> "out_runtime", runtime |-> "metadata"]
RestoreAt == [desktop |-> "restore_desktop", runtime |-> "restore_runtime"]
AfterRestore == [desktop |-> "restore_runtime", runtime |-> "restore_metadata"]

\* MoveDirectoryWithRetry(live, backup), skipped when there is no live tree.
MovesOut(a, p) ==
    /\ ApplAt(a, OutAt[p], InAt[p])
    /\ IF live[p] = None
       THEN UNCHANGED <<live, backup, job>>
       ELSE /\ backup' = [backup EXCEPT ![a][p] = live[p]]
            /\ live' = [live EXCEPT ![p] = None]
            /\ job' = [job EXCEPT ![a].moved = @ \cup {p}]
    /\ UNCHANGED <<current, stage, pending, accepted, snooze, result, handoff, served, opMutex,
                   hostVars, cooling>>
    /\ WorldOnly

\* MoveDirectoryWithRetry(stage, live)
MovesIn(a, p) ==
    /\ ApplAt(a, InAt[p], AfterIn[p])
    /\ live' = [live EXCEPT ![p] = job[a].target]
    /\ stage' = [stage EXCEPT ![job[a].target][p] = "absent"]
    /\ job' = [job EXCEPT ![a].placed = @ \cup {p}]
    /\ UNCHANGED <<current, backup, pending, accepted, snooze, result, handoff, served, opMutex,
                   hostVars, cooling>>
    /\ WorldOnly

LiveIs(g) == \A p \in Trees : live[p] = g

\* The live trees are verified against the target, then current.json follows.
WritesCurrent(a) ==
    /\ LiveIs(job[a].target)
    /\ ApplAt(a, "metadata", "restart")
    /\ current' = job[a].target
    /\ UNCHANGED <<live, backup, stage, pending, accepted, snooze, result, handoff, served,
                   opMutex, hostVars, job, cooling>>
    /\ WorldOnly

\* StartProductWithHandoff: the new host carries the token of this applier.
RestartsTarget(a, h) ==
    /\ ApplAt(a, "restart", "verify")
    /\ Start(h, a)
    /\ job' = [job EXCEPT ![a].child = h]
    /\ UNCHANGED <<installVars, stage, pending, accepted, snooze, result, handoff, served,
                   opMutex, hostOffer, cooling>>
    /\ WorldOnly

\* VerifyRestartedProduct: the restarted process lives and the port answers
\* with the target's source revision.
ProvesRestart(a) ==
    /\ job[a].child # NoHost /\ served = job[a].target
    /\ ApplAt(a, "verify", "report_success")
    /\ UNCHANGED <<installVars, stage, pending, accepted, snooze, result, handoff, served,
                   opMutex, hostVars, job, cooling>>
    /\ WorldOnly

\* It exited, or 105 seconds went by.
RestartUnproved(a) ==
    /\ ApplAt(a, "verify", "stop_peers")
    /\ job[a].child = NoHost \/ served # job[a].target
    /\ UNCHANGED <<installVars, stage, pending, accepted, snooze, result, handoff, served,
                   opMutex, hostVars, job, cooling>>
    /\ WorldOnly

\* A file operation fails for good (a move after its 45 s of retries); so
\* does the verification of the live trees, or the start of the product.
FileOperationFails(a) ==
    /\ \/ /\ "io" \in Faults
          /\ \E s \in CutoverPc : ApplAt(a, s, "stop_peers")
       \/ /\ "state" \in Faults
          /\ \E s \in {"snapshot", "metadata", "restart", "report_success"} :
                ApplAt(a, s, "stop_peers")
    /\ UNCHANGED <<installVars, stage, pending, accepted, snooze, result, handoff, served,
                   opMutex, hostVars, job, cooling>>
    /\ WorldOnly

ReportsSuccess(a) ==
    /\ ApplAt(a, "report_success", "cleanup")
    /\ result' = [status |-> "success", target |-> job[a].target]
    /\ UNCHANGED <<installVars, stage, pending, accepted, snooze, handoff, served, opMutex,
                   hostVars, job, cooling>>
    /\ WorldOnly

\* TryDelete of accepted, pending and snooze, whatever they hold by now.
CleansUp(a) ==
    /\ ApplAt(a, "cleanup", "clear_success")
    /\ accepted' = None /\ pending' = None /\ snooze' = None
    /\ UNCHANGED <<installVars, stage, result, handoff, served, opMutex, hostVars, job, cooling>>
    /\ WorldOnly

\* ClearHandoff deletes the file, whoever wrote it, and swallows a failure.
ClearsHandoff(a) ==
    /\ \/ ApplAt(a, "clear_success", "housekeep")
       \/ ApplAt(a, "clear_restored", "restart_previous")
    /\ handoff' = NoToken \/ ("state" \in Faults /\ handoff' = handoff)
    /\ UNCHANGED <<installVars, stage, pending, accepted, snooze, result, served, opMutex,
                   hostVars, job, cooling>>
    /\ WorldOnly

\* The rollback root goes, and every other updates/<sha>/: a helper running
\* from there keeps its executable.
Housekeeps(a) ==
    /\ applPc[a] = "housekeep" /\ Ends(a, "done")
    /\ backup' = [backup EXCEPT ![a] = [p \in Trees |-> None]]
    /\ stage' = [r \in Releases |->
                    IF r = job[a].target THEN stage[r]
                    ELSE [p \in Parts |-> IF p = "helper" /\ HelperInUse(r)
                                          THEN "partial" ELSE "absent"]]
    /\ UNCHANGED <<current, live, pending, accepted, snooze, result, handoff, served, hostVars,
                   cooling>>
    /\ WorldOnly

----------------------------------------------------------------------------
(* The catch block.  It runs whatever failed, also when the token or the   *)
(* mutex was refused.                                                      *)

\* StopProcessBestEffort(restarted), which lets that host close in an orderly
\* way first, and StopLiveDesktopPeers.  Every host runs from the live tree.
\* Process.Kill(entireProcessTree) takes the helpers a killed host started
\* along, and refuses to kill the caller's own parent.
StopsPeers(a) ==
    LET killed == {h \in Hosts : hostPc[h] # "off" /\ h # job[a].parent}
        fallen == {b \in Appliers : job[b].parent \in killed /\ applPc[b] \notin EndPc}
    IN  /\ applPc[a] = "stop_peers"
        /\ HostsEnd(killed)
        /\ job' = JobsWithout(killed, fallen)
        /\ applPc' = [b \in Appliers |-> IF b = a THEN "restore_desktop"
                                         ELSE IF b \in fallen THEN "dead" ELSE applPc[b]]
        /\ opMutex' = IF opMutex \in fallen THEN Nobody ELSE opMutex
        /\ served' = served \/ (job[a].child # NoHost /\ served' = None)
        /\ UNCHANGED <<installVars, stage, pending, accepted, snooze, result, handoff, cooling>>
        /\ WorldOnly

\* TryRestoreDirectory: the live tree is deleted, then the backup moved in.
Restores(a, p) ==
    /\ ApplAt(a, RestoreAt[p], AfterRestore[p])
    /\ p \in job[a].moved
    /\ live' = [live EXCEPT ![p] = backup[a][p]]
    /\ backup' = [backup EXCEPT ![a][p] = None]
    /\ UNCHANGED <<current, stage, pending, accepted, snooze, result, handoff, served, opMutex,
                   hostVars, job, cooling>>
    /\ WorldOnly

\* The delete or the move failed: the live tree is what it was, a part of it,
\* or gone, and the backup stays where it is.
RestoreFails(a, p) ==
    /\ "io" \in Faults
    /\ ApplAt(a, RestoreAt[p], AfterRestore[p])
    /\ p \in job[a].moved
    /\ \E left \in {live[p], Damaged, None} :
            /\ left = Damaged => live[p] # None
            /\ live' = [live EXCEPT ![p] = left]
    /\ job' = [job EXCEPT ![a].torn = TRUE]
    /\ UNCHANGED <<current, backup, stage, pending, accepted, snooze, result, handoff, served,
                   opMutex, hostVars, cooling>>
    /\ WorldOnly

\* Nothing was moved out; a target put in place of nothing cannot be undone.
NothingToRestore(a, p) ==
    /\ ApplAt(a, RestoreAt[p], AfterRestore[p])
    /\ p \notin job[a].moved
    /\ job' = [job EXCEPT ![a].torn = @ \/ p \in job[a].placed]
    /\ UNCHANGED <<installVars, stage, pending, accepted, snooze, result, handoff, served, opMutex,
                   hostVars, cooling>>
    /\ WorldOnly

\* Mutant of MayRestoreMetadata: the rollback errors and the re-verification of
\* the live trees are dropped.
MayRestoreUnverified(a) == job[a].previous # None

\* previousGenerationRestored needs an error-free rollback, the snapshot, and
\* live trees that verify against it.
MayRestoreMetadata(a) == ~job[a].torn /\ job[a].previous # None /\ LiveIs(job[a].previous)

RestoresMetadata(a) ==
    /\ MayRestoreMetadata(a)
    /\ ApplAt(a, "restore_metadata", "report_restored")
    /\ current' = job[a].previous
    /\ UNCHANGED <<live, backup, stage, pending, accepted, snooze, result, handoff, served,
                   opMutex, hostVars, job, cooling>>
    /\ WorldOnly

\* The verification failed, or current.json could not be written back.
LeavesMetadata(a) ==
    /\ ~MayRestoreMetadata(a) \/ "state" \in Faults
    /\ ApplAt(a, "restore_metadata", "report_torn")
    /\ UNCHANGED <<installVars, stage, pending, accepted, snooze, result, handoff, served,
                   opMutex, hostVars, job, cooling>>
    /\ WorldOnly

Failure(a) == [status |-> "failed", target |-> job[a].target]

\* WriteResult("failed"), and WriteFailureSnooze when the target is known.
ReportsFailure(a) ==
    /\ \/ ApplAt(a, "report_restored", "discard")
       \/ ApplAt(a, "report_torn", "give_up")
    /\ result' = Failure(a)
    /\ snooze' = IF job[a].target = None THEN snooze ELSE job[a].target
    /\ cooling' = IF job[a].target = None THEN cooling ELSE cooling \cup {job[a].target}
    /\ UNCHANGED <<installVars, stage, pending, accepted, handoff, served, opMutex,
                   hostVars, job>>
    /\ WorldOnly

DiscardsConsent(a) ==
    /\ ApplAt(a, "discard", "clear_restored")
    /\ accepted' = None /\ pending' = None
    /\ UNCHANGED <<installVars, stage, snooze, result, handoff, served, opMutex, hostVars,
                   job, cooling>>
    /\ WorldOnly

\* Process.Start(oldExe): it inherits the environment of the helper, and the
\* token with it.  The mutex goes in `finally`.
RestartsPrevious(a, h) ==
    /\ applPc[a] = "restart_previous" /\ Ends(a, "done")
    /\ Start(h, a)
    /\ UNCHANGED <<installVars, stage, pending, accepted, snooze, result, handoff, served,
                   hostOffer, cooling>>
    /\ WorldOnly

\* Mutant of RetainsHandoff: the rollback root is cleaned up on every exit.
RetainsHandoffOnly(a) ==
    /\ applPc[a] = "give_up" /\ Ends(a, "done")
    /\ backup' = [backup EXCEPT ![a] = [p \in Trees |-> None]]
    /\ UNCHANGED <<current, live, stage, pending, accepted, snooze, result, handoff, served,
                   hostVars, cooling>>
    /\ WorldOnly

\* rollback_incomplete_handoff_retained
RetainsHandoff(a) ==
    /\ applPc[a] = "give_up" /\ Ends(a, "done")
    /\ UNCHANGED <<installVars, stage, pending, accepted, snooze, result, handoff, served,
                   hostVars, cooling>>
    /\ WorldOnly

\* rollback_failed_handoff_retained: the result or the snooze could not be
\* written, or the previous desktop not started.
RollbackThrows(a) ==
    /\ "state" \in Faults
    /\ \/ applPc[a] \in {"report_restored", "report_torn"} /\ result' \in {result, Failure(a)}
       \/ applPc[a] = "restart_previous" /\ UNCHANGED result
    /\ Ends(a, "done")
    /\ UNCHANGED <<installVars, stage, pending, accepted, snooze, handoff, served,
                   hostVars, cooling>>
    /\ WorldOnly

\* Power loss, or the helper is killed: its mutex is abandoned.
ApplierCrashes(a) ==
    /\ "crash" \in Faults
    /\ applPc[a] \notin EndPc \cup {"minted"}
    /\ Ends(a, "dead")
    /\ UNCHANGED <<installVars, stage, pending, accepted, snooze, result, handoff, served,
                   hostVars, cooling>>
    /\ WorldOnly

ApplierStep(a) ==
    \/ ChecksToken(a) \/ TakesLock(a) \/ LockTimesOut(a) \/ ReadsAccepted(a) \/ TakesSnapshot(a)
    \/ \E p \in Trees : MovesOut(a, p) \/ MovesIn(a, p)
    \/ WritesCurrent(a) \/ ProvesRestart(a) \/ RestartUnproved(a) \/ FileOperationFails(a)
    \/ \E h \in Hosts : RestartsTarget(a, h) \/ RestartsPrevious(a, h)
    \/ ReportsSuccess(a) \/ CleansUp(a) \/ ClearsHandoff(a) \/ Housekeeps(a)
    \/ StopsPeers(a)
    \/ \E p \in Trees : Restores(a, p) \/ RestoreFails(a, p) \/ NothingToRestore(a, p)
    \/ RestoresMetadata(a) \/ LeavesMetadata(a) \/ ReportsFailure(a)
    \/ DiscardsConsent(a) \/ RetainsHandoff(a) \/ RollbackThrows(a)

Next ==
    \/ Publish
    \/ \E r \in Releases : CooldownElapses(r)
    \/ AgentSpawned \/ AgentStep
    \/ \E h \in Hosts : HostStep(h) \/ OperatorStep(h) \/ HostCrashes(h)
    \/ \E a \in Appliers : ApplierStep(a) \/ ApplierCrashes(a)

Spec == Init /\ [][Next]_vars

(* The message loop of a host, the helper and the agent run on once they   *)
(* are started; their waits all have deadlines.  Operators, releases and   *)
(* the clock owe nothing.                                                  *)
Fairness ==
    /\ WF_vars(AgentStep)
    /\ \A h \in Hosts : WF_vars(HostStep(h))
    /\ \A a \in Appliers : WF_vars(ApplierStep(a))

FairSpec == Spec /\ Fairness

----------------------------------------------------------------------------
(* Properties.                                                             *)

LockedPc == {"read", "snapshot"} \cup CutoverPc \cup ProvePc \cup SuccessPc

\* Steps that move trees, write current.json or clear the handoff.
Operating(a) == applPc[a] \in LockedPc \cup RestoredPc

\* At most one update operation per installation: two appliers never cut over
\* at the same time, and no agent rebuilds a stage under an applier.
OneOperation ==
    \A a \in Appliers : Operating(a) =>
        /\ agentPc \in {"idle", "spawned"}
        /\ \A b \in Appliers \ {a} : ~Operating(b) /\ job[b].moved = {}

\* Only while a helper holds the operation mutex do the live trees or current.json
\* change, although the catch block that restores them is also entered without it.
InstallUnderMutex ==
    [][live' # live \/ current' # current => opMutex \in Appliers]_vars

\* A success is reported for a generation that is installed as a whole: both
\* trees and current.json are the accepted target, until the mutex is released.
SuccessIsWhole ==
    \A a \in Appliers : applPc[a] \in SuccessPc =>
        LiveIs(job[a].target) /\ current = job[a].target

\* The handoff and the consent are dropped after a failure only when both
\* trees and current.json are again what the applier found.
RollbackIsWhole ==
    \A a \in Appliers : applPc[a] \in RestoredPc =>
        LiveIs(job[a].previous) /\ current = job[a].previous

\* Whatever dies in the middle of a cutover or a rollback, one complete
\* generation is still on disk, in the live trees or in rollback roots.
GenerationRecoverable ==
    \E g \in Generations : \A p \in Trees :
        live[p] = g \/ \E a \in Appliers : backup[a][p] = g

\* No consent is asked for while a handoff is on disk.  The gate is meant to see
\* to that, but a host that had passed it before may get the session, and with it
\* a dialog, afterwards: the next three properties hold as long as this does.
DialogsApart == \A h \in Hosts : hostPc[h] \in {"prompt", "consent"} => handoff = NoToken

\* A start that the handoff does not refuse finds one whole generation.
TornOnlyUnderHandoff == handoff = NoToken => LiveIs(current)

\* The helper installs the release its operator said Yes to, although pending
\* may have moved on while the dialog was open.
FrozenTarget ==
    \A a \in Appliers : applPc[a] \in CutoverPc => job[a].target = job[a].image

\* A target whose apply failed is not offered again before its cooldown ends.
NoOfferWhileCooling ==
    [][\A h \in Hosts : hostPc[h] # "prompt" /\ hostPc'[h] = "prompt"
            => hostOffer'[h] \notin cooling]_vars

\* Every consent is answered: the helper ends, and it has reported a result.
ConsentAnswered ==
    \A a \in Appliers :
        /\ applPc[a] = "token" ~> applPc[a] \in {"done", "dead"}
        /\ applPc[a] = "token" ~> result.status # "none" \/ applPc[a] = "dead"

\* Whoever holds the operation mutex gives it back.
OperationEnds == \A p \in Appliers \cup {Agent} : opMutex = p ~> opMutex # p

\* The helper waits for its host to exit before it touches the live trees.
HostGoneBeforeCutover ==
    \A a \in Appliers : applPc[a] \in CutoverPc => job[a].parent = NoHost

\* An update that was handed off ends with JAP running again.
HandoffEndsInRestart == handoff # NoToken ~> SessionOpen
=============================================================================
