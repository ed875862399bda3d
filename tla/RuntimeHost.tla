------------------------------ MODULE RuntimeHost ------------------------------
(***************************************************************************)
(* The managed runtime of the desktop: one window at a time, the bash       *)
(* launchers its host detaches in WSL, the Python server each of them       *)
(* starts, and the stop scripts, which know servers by the pid file only.   *)
(*                                                                          *)
(* The installed bundle is one tree that an update replaces in place.  A    *)
(* server publishes its identity as a file of that tree, app-info.json, and *)
(* answers with whatever the file says when it is asked.                    *)
(*                                                                          *)
(* ProductUpdate models the window's session and the cutover in detail;     *)
(* here a cutover is one step, taken while no window is open.               *)
(***************************************************************************)
EXTENDS Naturals, FiniteSets

CONSTANTS
    Launchers,      \* bound: launchers alive at a time
    Stoppers,       \* who runs the stop script: "window", "start", "operator"
    MaxGeneration,  \* bound: generations installed
    MaxFaults,      \* bound: failures, kills, hangs, and stops by hand
    None

ASSUME RuntimeAssumption ==
    /\ {"window", "start"} \subseteq Stoppers
    /\ None \notin Launchers /\ None \notin Nat
    /\ MaxGeneration \in Nat /\ MaxFaults \in Nat

VARIABLES
    pinned,     \* generation of current.json and of the installed bundle
    info,       \* generation that app-info.json of the bundle names
    pidFile,    \* launcher whose server runtime.pid names
    script,     \* where a launcher is
    gen,        \* the generation it was launched for
    server,     \* the server it started
    window,     \* "none", "starting", "ready", or "failing": FailClosed runs
    task,       \* where OnShown or OnRuntimeHealthTick awaits something
    closing,    \* _stopInProgress
    stop,       \* where a stop script is
    alone,      \* history: no other launcher and no stop script was at work while
                \* this launcher had not written the pid file
    faults

bundleVars   == <<pinned, info>>
launcherVars == <<script, gen, server>>
windowVars   == <<window, task, closing>>
vars == <<bundleVars, pidFile, launcherVars, windowVars, stop, alone, faults>>

Generations == 0..MaxGeneration

Init ==
    /\ pinned = 0 /\ info = None /\ pidFile = None
    /\ script = [l \in Launchers |-> "free"]
    /\ gen = [l \in Launchers |-> 0]
    /\ server = [l \in Launchers |-> "none"]
    /\ window = "none" /\ task = "none" /\ closing = FALSE
    /\ stop = [s \in Stoppers |-> "idle"]
    /\ alone = [l \in Launchers |-> FALSE]
    /\ faults = 0

-----------------------------------------------------------------------------
(* Helpers                                                                   *)

Fault == faults < MaxFaults /\ faults' = faults + 1

Alive(l) == server[l] # "none"
Listens(l) == server[l] \in {"serves", "hangs"}
PortOpen == \E l \in Launchers : Listens(l)

\* ProbeEndpointAsync: an answer that names a revision, and the one that is installed
IsJap == info # None /\ \E l \in Launchers : server[l] = "serves"
Healthy == IsJap /\ info = pinned

\* Mutant: a process counts as managed only in the tree of the new generation.
ManagedInTree(l) == pidFile = l /\ Alive(l) /\ gen[l] = pinned

\* managed_pid
Managed(l) == pidFile = l /\ Alive(l)

\* A launcher that has not written the pid file
Early == {"checks", "clears", "prepares"}

\* A stop script that is not at work
AtRest == {"idle", "done", "failed"}

\* Launchers that had not written the pid file are not alone from now on.
Intrude == alone' = [l \in Launchers |-> alone[l] /\ script[l] \notin Early]

\* SIGTERM ends a server; its launcher goes on to its exit trap.
Killed(victims) ==
    /\ server' = [l \in Launchers |-> IF l \in victims THEN "none" ELSE server[l]]
    /\ script' = [l \in Launchers |-> IF l \in victims THEN "exits" ELSE script[l]]

-----------------------------------------------------------------------------
(* The launcher                                                              *)

\* Mutant: a server of another generation is left running.
ChecksOwnOnly(l) ==
    /\ script[l] = "checks"
    /\ script' = [script EXCEPT ![l] =
          IF gen[l] # pinned \/ \E o \in Launchers : Managed(o) /\ gen[o] = gen[l]
          THEN "free" ELSE "clears"]
    /\ UNCHANGED <<bundleVars, pidFile, gen, server, windowVars, stop, alone, faults>>

\* "start": refuses another generation's bundle and a managed server of its own
\* generation, and stops one of another.  One step: a cutover between the two checks
\* is caught by AssertsSource.
Checks(l) ==
    /\ script[l] = "checks"
    /\ IF gen[l] # pinned \/ \E o \in Launchers : Managed(o) /\ gen[o] = gen[l]
       THEN script' = [script EXCEPT ![l] = "free"] /\ UNCHANGED server
       ELSE LET prior == {o \in Launchers : Managed(o)}
            IN  /\ server' = [o \in Launchers |-> IF o \in prior THEN "none" ELSE server[o]]
                /\ script' = [o \in Launchers |-> IF o \in prior THEN "exits"
                                                  ELSE IF o = l THEN "clears" ELSE script[o]]
    /\ UNCHANGED <<bundleVars, pidFile, gen, windowVars, stop, alone, faults>>

\* rm -f "$PID_FILE"
Clears(l) ==
    /\ script[l] = "clears"
    /\ pidFile' = None
    /\ script' = [script EXCEPT ![l] = "prepares"]
    /\ UNCHANGED <<bundleVars, gen, server, windowVars, stop, alone, faults>>

\* Before it has a server it may end without its exit trap: a piece of the bundle, the
\* local site or the environment is missing, or the server of the other generation did
\* not stop, which keeps its pid file.
PreparationFails(l) ==
    /\ script[l] \in {"checks", "prepares"} /\ Fault
    /\ script' = [script EXCEPT ![l] = "free"]
    /\ UNCHANGED <<bundleVars, pidFile, gen, server, windowVars, stop, alone>>

\* The server is started, and long before it serves its pid is written.
Starts(l) ==
    /\ script[l] = "prepares"
    /\ script' = [script EXCEPT ![l] = "waits"]
    /\ server' = [server EXCEPT ![l] = "boots"]
    /\ pidFile' = l
    /\ UNCHANGED <<bundleVars, gen, windowVars, stop, alone, faults>>

\* trap cleanup EXIT: the pid file goes, whoever wrote it.
Traps(l) ==
    /\ script[l] = "exits"
    /\ pidFile' = None
    /\ script' = [script EXCEPT ![l] = "free"]
    /\ UNCHANGED <<bundleVars, gen, server, windowVars, stop, alone, faults>>

-----------------------------------------------------------------------------
(* The server                                                                *)

\* --reuse-frontend: the bundle must carry the marker of the pinned revision.
AssertsSource(l) ==
    /\ server[l] = "boots"
    /\ IF gen[l] = pinned
       THEN server' = [server EXCEPT ![l] = "asserted"] /\ UNCHANGED script
       ELSE Killed({l})
    /\ UNCHANGED <<bundleVars, pidFile, gen, windowVars, stop, alone, faults>>

\* _publish_app_info, and then the feature contract of the bundle
Publishes(l) ==
    /\ server[l] = "asserted"
    /\ info' = gen[l]
    /\ IF gen[l] = pinned
       THEN server' = [server EXCEPT ![l] = "published"] /\ UNCHANGED script
       ELSE Killed({l})
    /\ UNCHANGED <<pinned, pidFile, gen, windowVars, stop, alone, faults>>

\* A server that cannot write app-info.json says UNAVAILABLE and serves all the same.
PublishFails(l) ==
    /\ server[l] = "asserted" /\ gen[l] = pinned /\ Fault
    /\ server' = [server EXCEPT ![l] = "published"]
    /\ UNCHANGED <<bundleVars, pidFile, script, gen, windowVars, stop, alone>>

\* run_server: the port is bound, or the server ends.
Binds(l) ==
    /\ server[l] = "published"
    /\ IF PortOpen
       THEN Killed({l})
       ELSE server' = [server EXCEPT ![l] = "serves"] /\ UNCHANGED script
    /\ UNCHANGED <<bundleVars, pidFile, gen, windowVars, stop, alone, faults>>

ServerDies(l) ==
    /\ Alive(l) /\ Fault
    /\ Killed({l})
    /\ UNCHANGED <<bundleVars, pidFile, gen, windowVars, stop, alone>>

\* It accepts connections and answers nothing in time.
ServerHangs(l) ==
    /\ server[l] = "serves" /\ Fault
    /\ server' = [server EXCEPT ![l] = "hangs"]
    /\ UNCHANGED <<bundleVars, pidFile, script, gen, windowVars, stop, alone>>

-----------------------------------------------------------------------------
(* The stop script                                                           *)

BeginStop(s) == stop[s] = "idle" /\ stop' = [stop EXCEPT ![s] = "looks"] /\ Intrude

\* Mutant: a server that outlives its SIGTERM by ten seconds goes unreported.
StopLooksOnce(s) ==
    /\ stop[s] = "looks"
    /\ \/ /\ Killed({l \in Launchers : Managed(l)})
          /\ stop' = [stop EXCEPT ![s] = "removes"]
          /\ UNCHANGED faults
       \/ /\ \E l \in Launchers : Managed(l)
          /\ Fault
          /\ stop' = [stop EXCEPT ![s] = "done"]
          /\ UNCHANGED <<script, server>>
    /\ UNCHANGED <<bundleVars, pidFile, gen, windowVars, alone>>

\* The managed server, if there is one, is killed and awaited; one that does not end in
\* ten seconds ends the script in managed_runtime_did_not_stop.
StopLooks(s) ==
    /\ stop[s] = "looks"
    /\ \/ /\ Killed({l \in Launchers : Managed(l)})
          /\ stop' = [stop EXCEPT ![s] = "removes"]
          /\ UNCHANGED faults
       \/ /\ \E l \in Launchers : Managed(l)
          /\ Fault
          /\ stop' = [stop EXCEPT ![s] = "failed"]
          /\ UNCHANGED <<script, server>>
    /\ UNCHANGED <<bundleVars, pidFile, gen, windowVars, alone>>

\* rm -f "$PID_FILE", whether a server was killed or none was found
StopRemoves(s) ==
    /\ stop[s] = "removes"
    /\ pidFile' = None
    /\ stop' = [stop EXCEPT ![s] = "done"]
    /\ UNCHANGED <<bundleVars, launcherVars, windowVars, alone, faults>>

\* current.json cannot be read, WSL is missing, or the script is killed.
StopBreaks(s) ==
    /\ stop[s] \notin AtRest /\ Fault
    /\ stop' = [stop EXCEPT ![s] = "failed"]
    /\ UNCHANGED <<bundleVars, pidFile, launcherVars, windowVars, alone>>

\* Stop-JAP-Control-Center.ps1
OperatorStops ==
    /\ "operator" \in Stoppers /\ Fault
    /\ BeginStop("operator")
    /\ UNCHANGED <<bundleVars, pidFile, launcherVars, windowVars>>

-----------------------------------------------------------------------------
(* EnsureStartedAsync                                                        *)

\* Mutant: the flag that a check is in progress stays set after an exception.
ThrewInProgress == UNCHANGED <<task, window, closing, stop, alone>>

\* What follows in OnShown or OnRuntimeHealthTick when it returns, and when it throws:
\* OnShown shows the error and closes the window, a recovery waits for the next tick.
Returned == task' = "none" /\ window' = "ready" /\ UNCHANGED <<closing, stop, alone>>
Threw == task' = "none" /\ UNCHANGED <<window, closing, stop, alone>>

\* The launcher is detached and nobody holds a handle on it.
Launch ==
    /\ \E l \in Launchers :
          /\ script[l] = "free"
          /\ script' = [script EXCEPT ![l] = "checks"]
          /\ gen' = [gen EXCEPT ![l] = pinned]
          /\ alone' = [o \in Launchers |->
                         IF o = l
                         THEN /\ \A p \in Launchers \ {l} : script[p] = "free"
                              /\ \A s \in Stoppers : stop[s] \in AtRest
                              /\ ~ closing
                         ELSE alone[o] /\ script[o] \notin Early]
    /\ task' = "awaits"
    /\ UNCHANGED server

\* The first probe decides: reuse, replace, refuse or launch.
Ensures ==
    /\ task = "ensures"
    /\ \/ Healthy /\ Returned /\ UNCHANGED launcherVars
       \/ /\ IsJap /\ ~ Healthy
          /\ task' = "stops" /\ BeginStop("start")
          /\ UNCHANGED <<window, closing, launcherVars>>
       \/ ~ IsJap /\ PortOpen /\ Threw /\ UNCHANGED launcherVars
       \/ ~ PortOpen /\ Launch /\ UNCHANGED <<window, closing, stop>>
    /\ UNCHANGED <<bundleVars, pidFile, faults>>

\* The stale server was stopped: launch, unless the port is still taken.
StaleStopped ==
    /\ task = "stops" /\ stop["start"] = "done"
    /\ stop' = [stop EXCEPT !["start"] = "idle"]
    /\ IF PortOpen
       THEN task' = "none" /\ UNCHANGED <<launcherVars, alone>>
       ELSE Launch
    /\ UNCHANGED <<bundleVars, pidFile, window, closing, faults>>

\* The stop failed, or its 20 seconds are over and the script may go on.
StaleStopFails ==
    /\ task = "stops"
    /\ \/ stop["start"] = "failed" /\ UNCHANGED faults
       \/ Fault
    /\ Threw
    /\ UNCHANGED <<bundleVars, pidFile, launcherVars>>

BecomesReady ==
    /\ task = "awaits" /\ Healthy
    /\ Returned
    /\ UNCHANGED <<bundleVars, pidFile, launcherVars, faults>>

\* The readiness budget ends: because nothing is on its way, or too early.
TimesOut ==
    /\ task = "awaits" /\ ~ Healthy
    /\ IF \A l \in Launchers : script[l] \in {"free", "exits"} \/ Listens(l)
       THEN UNCHANGED faults ELSE Fault
    /\ Threw
    /\ UNCHANGED <<bundleVars, pidFile, launcherVars>>

\* Database, WSL or WebView2 are missing.
StartFails ==
    /\ task \in {"ensures", "awaits"} /\ Fault
    /\ Threw
    /\ UNCHANGED <<bundleVars, pidFile, launcherVars>>

-----------------------------------------------------------------------------
(* The window                                                                *)

Opens ==
    /\ window = "none" /\ stop["window"] = "idle" /\ stop["start"] = "idle"
    /\ window' = "starting" /\ task' = "ensures"
    /\ UNCHANGED <<bundleVars, pidFile, launcherVars, closing, stop, alone, faults>>

\* The last of the failed probes that call for a recovery
FindsUnhealthy ==
    /\ window = "ready" /\ task = "none" /\ ~ closing /\ ~ Healthy
    /\ task' = "listener"
    /\ UNCHANGED <<bundleVars, pidFile, launcherVars, window, closing, stop, alone, faults>>

\* After the listener probe nothing asks whether the window is closing by now.
Recovers ==
    /\ task = "listener"
    /\ task' = "ensures"
    /\ UNCHANGED <<bundleVars, pidFile, launcherVars, window, closing, stop, alone, faults>>

\* OnFormClosing; whatever OnShown or a recovery awaits goes on.
Closes ==
    /\ window \in {"starting", "ready"} /\ ~ closing
    /\ closing' = TRUE /\ BeginStop("window")
    /\ UNCHANGED <<bundleVars, pidFile, launcherVars, window, task, faults>>

\* FailClosed blocks the thread that would go on with the task.
FailsClosed ==
    /\ window \in {"starting", "ready"} /\ ~ closing /\ Fault
    /\ window' = "failing" /\ task' = "none" /\ closing' = TRUE
    /\ BeginStop("window")
    /\ UNCHANGED <<bundleVars, pidFile, launcherVars>>

\* Mutant: the flag of a stop in progress survives the window.
ClosedStillStopping ==
    /\ closing
    /\ \/ stop["window"] \in {"done", "failed"} /\ UNCHANGED faults
       \/ Fault
    /\ window' = "none" /\ task' = "none"
    /\ UNCHANGED <<bundleVars, pidFile, launcherVars, closing, stop, alone>>

\* The window closes when its stop has ended, well or badly, or its 20 seconds are over:
\* then the script may go on.  So may one that a task was waiting for.
Closed ==
    /\ closing
    /\ \/ stop["window"] \in {"done", "failed"} /\ UNCHANGED faults
       \/ Fault
    /\ window' = "none" /\ task' = "none" /\ closing' = FALSE
    /\ UNCHANGED <<bundleVars, pidFile, launcherVars, stop, alone>>

\* The host is killed.
HostDies ==
    /\ window # "none" /\ Fault
    /\ window' = "none" /\ task' = "none" /\ closing' = FALSE
    /\ UNCHANGED <<bundleVars, pidFile, launcherVars, stop, alone>>

\* A stop that has ended is forgotten unless somebody waits for it.
StopUnheard(s) ==
    /\ stop[s] \in {"done", "failed"}
    /\ ~ (s = "window" /\ closing) /\ ~ (s = "start" /\ task = "stops")
    /\ stop' = [stop EXCEPT ![s] = "idle"]
    /\ UNCHANGED <<bundleVars, pidFile, launcherVars, windowVars, alone, faults>>

\* An update replaces the bundle, and app-info.json is not part of it.
CutsOver ==
    /\ window = "none" /\ pinned < MaxGeneration
    /\ pinned' = pinned + 1 /\ info' = None
    /\ UNCHANGED <<pidFile, launcherVars, windowVars, stop, alone, faults>>

-----------------------------------------------------------------------------
(* Specification                                                             *)

LauncherStep(l) ==
    \/ Checks(l) \/ Clears(l) \/ Starts(l) \/ Traps(l)
    \/ AssertsSource(l) \/ Publishes(l) \/ Binds(l)

StopStep(s) == StopLooks(s) \/ StopRemoves(s) \/ StopUnheard(s)

HostStep ==
    \/ Ensures \/ StaleStopped \/ StaleStopFails \/ BecomesReady \/ TimesOut
    \/ FindsUnhealthy \/ Recovers \/ Closed

LauncherFault(l) ==
    PreparationFails(l) \/ PublishFails(l) \/ ServerDies(l) \/ ServerHangs(l)

Next ==
    \/ \E l \in Launchers : LauncherStep(l) \/ LauncherFault(l)
    \/ \E s \in Stoppers : StopStep(s) \/ StopBreaks(s)
    \/ HostStep
    \/ Opens \/ Closes \/ CutsOver
    \/ OperatorStops \/ StartFails \/ FailsClosed \/ HostDies

\* Scripts and servers run, and so do the timers and awaits of an open window.
Fairness ==
    /\ \A l \in Launchers : WF_vars(LauncherStep(l))
    /\ \A s \in Stoppers : WF_vars(StopStep(s))
    /\ WF_vars(HostStep)

Spec == Init /\ [][Next]_vars
FairSpec == Spec /\ Fairness

-----------------------------------------------------------------------------
(* Properties                                                                *)

\* Every variable is in its range, and nothing is awaited without a window.
TypeOK ==
    /\ pinned \in Generations /\ info \in Generations \cup {None}
    /\ pidFile \in Launchers \cup {None}
    /\ script \in [Launchers -> Early \cup {"free", "waits", "exits"}]
    /\ gen \in [Launchers -> Generations]
    /\ server \in [Launchers ->
                   {"none", "boots", "asserted", "published", "serves", "hangs"}]
    /\ window \in {"none", "starting", "ready", "failing"}
    /\ task \in {"none", "ensures", "stops", "awaits", "listener"}
    /\ closing \in BOOLEAN
    /\ stop \in [Stoppers -> AtRest \cup {"looks", "removes"}]
    /\ alone \in [Launchers -> BOOLEAN]
    /\ faults \in 0..MaxFaults
    /\ window = "none" => task = "none" /\ ~ closing
    /\ \A l \in Launchers : Alive(l) => script[l] = "waits"

\* The pid file is all a stop script has (run_jap_windows_control_center.sh:64-81).
\* A server whose launcher was left alone until it wrote the file stays named by it
\* while it lives: no later launcher, trap or stop script takes the file from it.
ManagedWhenAlone == \A l \in Launchers : alone[l] /\ Alive(l) => pidFile = l

\* A window closes over a runtime that still runs only after a stop that failed or did
\* not end in time, of which OnFormClosing tells the user: once the stop script reported
\* success, no such server is left, whatever OnShown, a recovery or another script were
\* doing meanwhile (Program.cs OnFormClosing, run_jap_windows_control_center.sh:71-80).
ClosingStops ==
    [][Closed /\ stop["window"] = "done" =>
          \A l \in Launchers : Alive(l) => ~ alone[l]]_vars

\* app-info.json is a file of the bundle, and any server answers with it: no such
\* server speaks for a generation that is not the one it runs
\* (ManagedRuntimeController.cs ProbeEndpointAsync).
AnswersForItself ==
    \A l \in Launchers :
        alone[l] /\ server[l] = "serves" /\ info = pinned => gen[l] = pinned

\* An open window whose runtime is gone gets a listener on the product port again, or
\* is closed, however often a recovery fails (Program.cs OnRuntimeHealthTick).
RuntimeComesBack == window = "ready" ~> PortOpen \/ window = "none"
=============================================================================
