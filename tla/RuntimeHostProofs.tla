------------------------- MODULE RuntimeHostProofs -------------------------
(***************************************************************************)
(* Theorems of RuntimeHost, for any launchers, stop scripts, generations    *)
(* and faults.  The inductive invariant says who may be at work beside a    *)
(* launcher that is alone, before and after it wrote the pid file, and that *)
(* app-info.json does not speak for a generation such a launcher lacks.     *)
(***************************************************************************)
EXTENDS RuntimeHost, TLAPS

-----------------------------------------------------------------------------
(* The inductive invariant                                                   *)

\* While a launcher that is alone has not written the pid file, no other launcher and
\* no stop script is at work and the window is not closing.
EarlyAlone ==
    \A l \in Launchers : alone[l] /\ script[l] \in Early =>
        /\ \A o \in Launchers \ {l} : script[o] = "free"
        /\ \A s \in Stoppers : stop[s] \in AtRest
        /\ ~ closing

\* Once its server runs, the pid file names it and whoever could take the file from it
\* has yet to look for a managed server.
NamedAlone ==
    \A l \in Launchers : alone[l] /\ Alive(l) =>
        /\ pidFile = l
        /\ \A o \in Launchers \ {l} : script[o] \in {"free", "checks"}
        /\ \A s \in Stoppers : stop[s] # "removes"

\* When the stop script of a closing window has looked, such a server is gone.
NoneAtClose ==
    closing /\ stop["window"] \in {"removes", "done"} =>
        \A l \in Launchers : Alive(l) => ~ alone[l]

\* A launcher that is alone and of another generation than the installed one knows that
\* app-info.json does not name the installed one.
Busy(l) == script[l] \in Early \/ Alive(l)
AnswerTruth ==
    \A l \in Launchers : alone[l] /\ Busy(l) /\ gen[l] # pinned => info # pinned

Inv == TypeOK /\ EarlyAlone /\ NamedAlone /\ NoneAtClose /\ AnswerTruth

-----------------------------------------------------------------------------
(* A launch: the new launcher is free of a server, and those that had not written the *)
(* pid file are alone no more.                                                        *)

\* A launch keeps every part of the invariant.
LEMMA LaunchInv ==
    ASSUME Inv, Launch, stop' \in {stop, [stop EXCEPT !["start"] = "idle"]},
           UNCHANGED <<bundleVars, pidFile, window, closing, faults>>,
           window # "none"
    PROVE  Inv'
<1> USE RuntimeAssumption DEF Inv, Early, AtRest, Alive, bundleVars
<1>1. PICK l \in Launchers :
        /\ script[l] = "free"
        /\ script' = [script EXCEPT ![l] = "checks"]
        /\ gen' = [gen EXCEPT ![l] = pinned]
        /\ alone' = [o \in Launchers |->
                       IF o = l
                       THEN /\ \A p \in Launchers \ {l} : script[p] = "free"
                            /\ \A s \in Stoppers : stop[s] \in AtRest
                            /\ ~ closing
                       ELSE alone[o] /\ script[o] \notin Early]
  BY DEF Launch
<1>2. server' = server /\ task' = "awaits"
  BY DEF Launch
<1>3. TypeOK'
  <2>1. alone' \in [Launchers -> BOOLEAN]
    BY <1>1 DEF TypeOK
  <2>2. stop' \in [Stoppers -> AtRest \cup {"looks", "removes"}]
    BY DEF TypeOK
  <2>3. script' \in [Launchers -> Early \cup {"free", "waits", "exits"}]
    BY <1>1 DEF TypeOK
  <2>4. QED BY <1>1, <1>2, <2>1, <2>2, <2>3 DEF TypeOK
<1>4. \A s \in Stoppers : stop'[s] = stop[s] \/ stop'[s] = "idle"
  BY DEF TypeOK
<1>5. \A o \in Launchers \ {l} : alone'[o] => alone[o] /\ script'[o] = script[o] /\ gen'[o] = gen[o]
  BY <1>1 DEF TypeOK
<1>6. EarlyAlone'
  <2>1. alone'[l] => /\ \A p \in Launchers \ {l} : script'[p] = "free"
                     /\ \A s \in Stoppers : stop'[s] \in AtRest
                     /\ ~ closing'
    BY <1>1, <1>4 DEF TypeOK
  <2>2. \A o \in Launchers \ {l} : ~ (alone'[o] /\ script'[o] \in Early)
    BY <1>1 DEF TypeOK
  <2>3. QED BY <2>1, <2>2 DEF EarlyAlone
<1>7. NamedAlone'
  <2>1. ~ Alive(l)
    BY <1>1 DEF TypeOK
  <2>2. \A o \in Launchers \ {l} : script'[o] = script[o]
    BY <1>1 DEF TypeOK
  <2>3. script'[l] = "checks"
    BY <1>1 DEF TypeOK
  <2>4. QED BY <1>2, <1>4, <1>5, <2>1, <2>2, <2>3 DEF NamedAlone
<1>8. NoneAtClose'
  <2>1. ~ Alive(l)
    BY <1>1 DEF TypeOK
  <2>2. stop'["window"] = stop["window"]
    BY DEF TypeOK
  <2>3. QED BY <1>2, <1>5, <2>1, <2>2 DEF NoneAtClose
<1>9. AnswerTruth'
  <2>1. gen'[l] = pinned'
    BY <1>1 DEF TypeOK
  <2>2. QED BY <1>2, <1>5, <2>1 DEF AnswerTruth, Busy
<1>10. QED BY <1>3, <1>6, <1>7, <1>8, <1>9

-----------------------------------------------------------------------------
(* The steps                                                                  *)

\* Types: nothing is awaited without a window, and only a waiting launcher has a server.
LEMMA TypeStep ==
    ASSUME Inv, [Next]_vars PROVE TypeOK'
<1> USE RuntimeAssumption DEF Inv, TypeOK, Generations, Early, AtRest, Alive, bundleVars, launcherVars, windowVars
<1>1. ASSUME NEW l \in Launchers, Checks(l) PROVE TypeOK'
  BY <1>1 DEF Checks, Managed, Alive
<1>2. ASSUME NEW l \in Launchers, Clears(l) PROVE TypeOK'
  BY <1>2 DEF Clears
<1>3. ASSUME NEW l \in Launchers, Starts(l) PROVE TypeOK'
  BY <1>3 DEF Starts
<1>4. ASSUME NEW l \in Launchers, Traps(l) PROVE TypeOK'
  BY <1>4 DEF Traps
<1>5. ASSUME NEW l \in Launchers, AssertsSource(l) PROVE TypeOK'
  BY <1>5 DEF AssertsSource, Killed
<1>6. ASSUME NEW l \in Launchers, Publishes(l) PROVE TypeOK'
  BY <1>6 DEF Publishes, Killed
<1>7. ASSUME NEW l \in Launchers, Binds(l) PROVE TypeOK'
  BY <1>7 DEF Binds, Killed, PortOpen
<1>8. ASSUME NEW l \in Launchers, PreparationFails(l) PROVE TypeOK'
  BY <1>8 DEF PreparationFails, Fault
<1>9. ASSUME NEW l \in Launchers, PublishFails(l) PROVE TypeOK'
  BY <1>9 DEF PublishFails, Fault
<1>10. ASSUME NEW l \in Launchers, ServerDies(l) PROVE TypeOK'
  BY <1>10 DEF ServerDies, Killed, Fault
<1>11. ASSUME NEW l \in Launchers, ServerHangs(l) PROVE TypeOK'
  BY <1>11 DEF ServerHangs, Fault
<1>12. ASSUME NEW s \in Stoppers, StopLooks(s) PROVE TypeOK'
  BY <1>12 DEF StopLooks, Killed, Managed, Fault
<1>13. ASSUME NEW s \in Stoppers, StopRemoves(s) PROVE TypeOK'
  BY <1>13 DEF StopRemoves
<1>14. CASE Ensures
  <2> USE <1>14 DEF Ensures
  <2>1. CASE Healthy /\ Returned /\ UNCHANGED launcherVars
    BY <2>1 DEF Returned
  <2>2. CASE task' = "stops" /\ BeginStop("start") /\ UNCHANGED <<window, closing, launcherVars>>
    BY <2>2 DEF BeginStop, Intrude
  <2>3. CASE Threw /\ UNCHANGED launcherVars
    BY <2>3 DEF Threw
  <2>4. CASE Launch /\ UNCHANGED <<window, closing, stop>>
    BY <2>4, LaunchInv
  <2>5. QED BY <2>1, <2>2, <2>3, <2>4
<1>15. CASE StaleStopped
  <2> USE <1>15 DEF StaleStopped
  <2>1. CASE task' = "none" /\ UNCHANGED <<launcherVars, alone>>
    BY <2>1
  <2>2. CASE Launch
    BY <2>2, LaunchInv
  <2>3. QED BY <2>1, <2>2
<1>16. CASE BecomesReady
  BY <1>16 DEF BecomesReady, Returned
<1>17. CASE TimesOut
  BY <1>17 DEF TimesOut, Threw, Fault
<1>18. CASE FindsUnhealthy
  BY <1>18 DEF FindsUnhealthy
<1>19. CASE Recovers
  BY <1>19 DEF Recovers
<1>20. CASE Closed
  <2>1. faults' \in 0..MaxFaults
    BY <1>20 DEF Closed, Fault
  <2>2. UNCHANGED <<bundleVars, pidFile, launcherVars, stop, alone>>
    BY <1>20 DEF Closed
  <2>3. window' = "none" /\ task' = "none" /\ closing' = FALSE
    BY <1>20 DEF Closed
  <2>4. QED BY <2>1, <2>2, <2>3
<1>21. ASSUME NEW s \in Stoppers, StopUnheard(s) PROVE TypeOK'
  BY <1>21 DEF StopUnheard
<1>22. CASE Opens
  BY <1>22 DEF Opens
<1>23. CASE Closes
  BY <1>23 DEF Closes, BeginStop, Intrude
<1>24. CASE CutsOver
  BY <1>24 DEF CutsOver
<1>25. CASE OperatorStops
  BY <1>25 DEF OperatorStops, BeginStop, Intrude, Fault
<1>26. CASE StartFails
  BY <1>26 DEF StartFails, Threw, Fault
<1>27. CASE FailsClosed
  BY <1>27 DEF FailsClosed, BeginStop, Intrude, Fault
<1>28. CASE HostDies
  <2>1. stop' \in [Stoppers -> AtRest \cup {"looks", "removes"}]
    BY <1>28 DEF HostDies
  <2>2. faults' \in 0..MaxFaults
    BY <1>28 DEF HostDies, Fault
  <2>3. QED BY <1>28, <2>1, <2>2 DEF HostDies
<1>29. ASSUME NEW s \in Stoppers, StopBreaks(s) PROVE TypeOK'
  BY <1>29 DEF StopBreaks, Fault
<1>30. CASE StaleStopFails
  BY <1>30 DEF StaleStopFails, Threw, Fault
<1>31. CASE UNCHANGED vars
  BY <1>31 DEF vars
<1>32. QED BY <1>1, <1>2, <1>3, <1>4, <1>5, <1>6, <1>7, <1>8, <1>9, <1>10, <1>11, <1>12, <1>13, <1>14, <1>15, <1>16, <1>17, <1>18, <1>19, <1>20, <1>21, <1>22, <1>23, <1>24, <1>25, <1>26, <1>27, <1>28, <1>29, <1>30, <1>31 DEF Next, LauncherStep, LauncherFault, StopStep, HostStep

\* Whoever begins to work sets alone to FALSE for those that had not written the file.
LEMMA EarlyStep ==
    ASSUME Inv, [Next]_vars PROVE EarlyAlone'
<1> USE RuntimeAssumption DEF Inv, EarlyAlone, TypeOK, Early, AtRest, Alive, bundleVars, launcherVars, windowVars
<1>1. ASSUME NEW l \in Launchers, Checks(l) PROVE EarlyAlone'
  BY <1>1 DEF Checks, Managed, Alive
<1>2. ASSUME NEW l \in Launchers, Clears(l) PROVE EarlyAlone'
  BY <1>2 DEF Clears
<1>3. ASSUME NEW l \in Launchers, Starts(l) PROVE EarlyAlone'
  BY <1>3 DEF Starts
<1>4. ASSUME NEW l \in Launchers, Traps(l) PROVE EarlyAlone'
  BY <1>4 DEF Traps
<1>5. ASSUME NEW l \in Launchers, AssertsSource(l) PROVE EarlyAlone'
  BY <1>5 DEF AssertsSource, Killed
<1>6. ASSUME NEW l \in Launchers, Publishes(l) PROVE EarlyAlone'
  BY <1>6 DEF Publishes, Killed
<1>7. ASSUME NEW l \in Launchers, Binds(l) PROVE EarlyAlone'
  BY <1>7 DEF Binds, Killed, PortOpen
<1>8. ASSUME NEW l \in Launchers, PreparationFails(l) PROVE EarlyAlone'
  BY <1>8 DEF PreparationFails, Fault
<1>9. ASSUME NEW l \in Launchers, PublishFails(l) PROVE EarlyAlone'
  BY <1>9 DEF PublishFails, Fault
<1>10. ASSUME NEW l \in Launchers, ServerDies(l) PROVE EarlyAlone'
  BY <1>10 DEF ServerDies, Killed, Fault
<1>11. ASSUME NEW l \in Launchers, ServerHangs(l) PROVE EarlyAlone'
  BY <1>11 DEF ServerHangs, Fault
<1>12. ASSUME NEW s \in Stoppers, StopLooks(s) PROVE EarlyAlone'
  BY <1>12 DEF StopLooks, Killed, Managed, Fault
<1>13. ASSUME NEW s \in Stoppers, StopRemoves(s) PROVE EarlyAlone'
  BY <1>13 DEF StopRemoves
<1>14. CASE Ensures
  <2> USE <1>14 DEF Ensures
  <2>1. CASE Healthy /\ Returned /\ UNCHANGED launcherVars
    BY <2>1 DEF Returned
  <2>2. CASE task' = "stops" /\ BeginStop("start") /\ UNCHANGED <<window, closing, launcherVars>>
    BY <2>2 DEF BeginStop, Intrude
  <2>3. CASE Threw /\ UNCHANGED launcherVars
    BY <2>3 DEF Threw
  <2>4. CASE Launch /\ UNCHANGED <<window, closing, stop>>
    BY <2>4, LaunchInv
  <2>5. QED BY <2>1, <2>2, <2>3, <2>4
<1>15. CASE StaleStopped
  <2> USE <1>15 DEF StaleStopped
  <2>1. CASE task' = "none" /\ UNCHANGED <<launcherVars, alone>>
    BY <2>1
  <2>2. CASE Launch
    BY <2>2, LaunchInv
  <2>3. QED BY <2>1, <2>2
<1>16. CASE BecomesReady
  BY <1>16 DEF BecomesReady, Returned
<1>17. CASE TimesOut
  BY <1>17 DEF TimesOut, Threw, Fault
<1>18. CASE FindsUnhealthy
  BY <1>18 DEF FindsUnhealthy
<1>19. CASE Recovers
  BY <1>19 DEF Recovers
<1>20. CASE Closed
  BY <1>20 DEF Closed, Fault
<1>21. ASSUME NEW s \in Stoppers, StopUnheard(s) PROVE EarlyAlone'
  BY <1>21 DEF StopUnheard
<1>22. CASE Opens
  BY <1>22 DEF Opens
<1>23. CASE Closes
  BY <1>23 DEF Closes, BeginStop, Intrude
<1>24. CASE CutsOver
  BY <1>24 DEF CutsOver
<1>25. CASE OperatorStops
  BY <1>25 DEF OperatorStops, BeginStop, Intrude, Fault
<1>26. CASE StartFails
  BY <1>26 DEF StartFails, Threw, Fault
<1>27. CASE FailsClosed
  BY <1>27 DEF FailsClosed, BeginStop, Intrude, Fault
<1>28. CASE HostDies
  BY <1>28 DEF HostDies, Fault
<1>29. ASSUME NEW s \in Stoppers, StopBreaks(s) PROVE EarlyAlone'
  BY <1>29 DEF StopBreaks, Fault
<1>30. CASE StaleStopFails
  BY <1>30 DEF StaleStopFails, Threw, Fault
<1>31. CASE UNCHANGED vars
  BY <1>31 DEF vars
<1>32. QED BY <1>1, <1>2, <1>3, <1>4, <1>5, <1>6, <1>7, <1>8, <1>9, <1>10, <1>11, <1>12, <1>13, <1>14, <1>15, <1>16, <1>17, <1>18, <1>19, <1>20, <1>21, <1>22, <1>23, <1>24, <1>25, <1>26, <1>27, <1>28, <1>29, <1>30, <1>31 DEF Next, LauncherStep, LauncherFault, StopStep, HostStep

\* A later launcher or stop script that sees the server kills it before it goes on.
LEMMA ManagedStep ==
    ASSUME Inv, [Next]_vars PROVE NamedAlone'
<1> USE RuntimeAssumption DEF Inv, EarlyAlone, NamedAlone, TypeOK, Early, AtRest, Alive, bundleVars, launcherVars, windowVars
<1>1. ASSUME NEW l \in Launchers, Checks(l) PROVE NamedAlone'
  BY <1>1 DEF Checks, Managed, Alive
<1>2. ASSUME NEW l \in Launchers, Clears(l) PROVE NamedAlone'
  BY <1>2 DEF Clears
<1>3. ASSUME NEW l \in Launchers, Starts(l) PROVE NamedAlone'
  BY <1>3 DEF Starts
<1>4. ASSUME NEW l \in Launchers, Traps(l) PROVE NamedAlone'
  BY <1>4 DEF Traps
<1>5. ASSUME NEW l \in Launchers, AssertsSource(l) PROVE NamedAlone'
  BY <1>5 DEF AssertsSource, Killed
<1>6. ASSUME NEW l \in Launchers, Publishes(l) PROVE NamedAlone'
  BY <1>6 DEF Publishes, Killed
<1>7. ASSUME NEW l \in Launchers, Binds(l) PROVE NamedAlone'
  BY <1>7 DEF Binds, Killed, PortOpen
<1>8. ASSUME NEW l \in Launchers, PreparationFails(l) PROVE NamedAlone'
  BY <1>8 DEF PreparationFails, Fault
<1>9. ASSUME NEW l \in Launchers, PublishFails(l) PROVE NamedAlone'
  BY <1>9 DEF PublishFails, Fault
<1>10. ASSUME NEW l \in Launchers, ServerDies(l) PROVE NamedAlone'
  BY <1>10 DEF ServerDies, Killed, Fault
<1>11. ASSUME NEW l \in Launchers, ServerHangs(l) PROVE NamedAlone'
  BY <1>11 DEF ServerHangs, Fault
<1>12. ASSUME NEW s \in Stoppers, StopLooks(s) PROVE NamedAlone'
  BY <1>12 DEF StopLooks, Killed, Managed, Fault
<1>13. ASSUME NEW s \in Stoppers, StopRemoves(s) PROVE NamedAlone'
  BY <1>13 DEF StopRemoves
<1>14. CASE Ensures
  <2> USE <1>14 DEF Ensures
  <2>1. CASE Healthy /\ Returned /\ UNCHANGED launcherVars
    BY <2>1 DEF Returned
  <2>2. CASE task' = "stops" /\ BeginStop("start") /\ UNCHANGED <<window, closing, launcherVars>>
    BY <2>2 DEF BeginStop, Intrude
  <2>3. CASE Threw /\ UNCHANGED launcherVars
    BY <2>3 DEF Threw
  <2>4. CASE Launch /\ UNCHANGED <<window, closing, stop>>
    BY <2>4, LaunchInv
  <2>5. QED BY <2>1, <2>2, <2>3, <2>4
<1>15. CASE StaleStopped
  <2> USE <1>15 DEF StaleStopped
  <2>1. CASE task' = "none" /\ UNCHANGED <<launcherVars, alone>>
    BY <2>1
  <2>2. CASE Launch
    BY <2>2, LaunchInv
  <2>3. QED BY <2>1, <2>2
<1>16. CASE BecomesReady
  BY <1>16 DEF BecomesReady, Returned
<1>17. CASE TimesOut
  BY <1>17 DEF TimesOut, Threw, Fault
<1>18. CASE FindsUnhealthy
  BY <1>18 DEF FindsUnhealthy
<1>19. CASE Recovers
  BY <1>19 DEF Recovers
<1>20. CASE Closed
  BY <1>20 DEF Closed, Fault
<1>21. ASSUME NEW s \in Stoppers, StopUnheard(s) PROVE NamedAlone'
  BY <1>21 DEF StopUnheard
<1>22. CASE Opens
  BY <1>22 DEF Opens
<1>23. CASE Closes
  BY <1>23 DEF Closes, BeginStop, Intrude
<1>24. CASE CutsOver
  BY <1>24 DEF CutsOver
<1>25. CASE OperatorStops
  BY <1>25 DEF OperatorStops, BeginStop, Intrude, Fault
<1>26. CASE StartFails
  BY <1>26 DEF StartFails, Threw, Fault
<1>27. CASE FailsClosed
  BY <1>27 DEF FailsClosed, BeginStop, Intrude, Fault
<1>28. CASE HostDies
  BY <1>28 DEF HostDies, Fault
<1>29. ASSUME NEW s \in Stoppers, StopBreaks(s) PROVE NamedAlone'
  BY <1>29 DEF StopBreaks, Fault
<1>30. CASE StaleStopFails
  BY <1>30 DEF StaleStopFails, Threw, Fault
<1>31. CASE UNCHANGED vars
  BY <1>31 DEF vars
<1>32. QED BY <1>1, <1>2, <1>3, <1>4, <1>5, <1>6, <1>7, <1>8, <1>9, <1>10, <1>11, <1>12, <1>13, <1>14, <1>15, <1>16, <1>17, <1>18, <1>19, <1>20, <1>21, <1>22, <1>23, <1>24, <1>25, <1>26, <1>27, <1>28, <1>29, <1>30, <1>31 DEF Next, LauncherStep, LauncherFault, StopStep, HostStep

\* A launch by a closing window is not alone, and its stop script kills what is.
LEMMA ClosingStep ==
    ASSUME Inv, [Next]_vars PROVE NoneAtClose'
<1> USE RuntimeAssumption DEF Inv, EarlyAlone, NamedAlone, NoneAtClose, TypeOK, Early, AtRest, Alive, bundleVars, launcherVars, windowVars
<1>1. ASSUME NEW l \in Launchers, Checks(l) PROVE NoneAtClose'
  BY <1>1 DEF Checks, Managed, Alive
<1>2. ASSUME NEW l \in Launchers, Clears(l) PROVE NoneAtClose'
  BY <1>2 DEF Clears
<1>3. ASSUME NEW l \in Launchers, Starts(l) PROVE NoneAtClose'
  BY <1>3 DEF Starts
<1>4. ASSUME NEW l \in Launchers, Traps(l) PROVE NoneAtClose'
  BY <1>4 DEF Traps
<1>5. ASSUME NEW l \in Launchers, AssertsSource(l) PROVE NoneAtClose'
  BY <1>5 DEF AssertsSource, Killed
<1>6. ASSUME NEW l \in Launchers, Publishes(l) PROVE NoneAtClose'
  BY <1>6 DEF Publishes, Killed
<1>7. ASSUME NEW l \in Launchers, Binds(l) PROVE NoneAtClose'
  BY <1>7 DEF Binds, Killed, PortOpen
<1>8. ASSUME NEW l \in Launchers, PreparationFails(l) PROVE NoneAtClose'
  BY <1>8 DEF PreparationFails, Fault
<1>9. ASSUME NEW l \in Launchers, PublishFails(l) PROVE NoneAtClose'
  BY <1>9 DEF PublishFails, Fault
<1>10. ASSUME NEW l \in Launchers, ServerDies(l) PROVE NoneAtClose'
  BY <1>10 DEF ServerDies, Killed, Fault
<1>11. ASSUME NEW l \in Launchers, ServerHangs(l) PROVE NoneAtClose'
  BY <1>11 DEF ServerHangs, Fault
<1>12. ASSUME NEW s \in Stoppers, StopLooks(s) PROVE NoneAtClose'
  BY <1>12 DEF StopLooks, Killed, Managed, Fault
<1>13. ASSUME NEW s \in Stoppers, StopRemoves(s) PROVE NoneAtClose'
  BY <1>13 DEF StopRemoves
<1>14. CASE Ensures
  <2> USE <1>14 DEF Ensures
  <2>1. CASE Healthy /\ Returned /\ UNCHANGED launcherVars
    BY <2>1 DEF Returned
  <2>2. CASE task' = "stops" /\ BeginStop("start") /\ UNCHANGED <<window, closing, launcherVars>>
    BY <2>2 DEF BeginStop, Intrude
  <2>3. CASE Threw /\ UNCHANGED launcherVars
    BY <2>3 DEF Threw
  <2>4. CASE Launch /\ UNCHANGED <<window, closing, stop>>
    BY <2>4, LaunchInv
  <2>5. QED BY <2>1, <2>2, <2>3, <2>4
<1>15. CASE StaleStopped
  <2> USE <1>15 DEF StaleStopped
  <2>1. CASE task' = "none" /\ UNCHANGED <<launcherVars, alone>>
    BY <2>1
  <2>2. CASE Launch
    BY <2>2, LaunchInv
  <2>3. QED BY <2>1, <2>2
<1>16. CASE BecomesReady
  BY <1>16 DEF BecomesReady, Returned
<1>17. CASE TimesOut
  BY <1>17 DEF TimesOut, Threw, Fault
<1>18. CASE FindsUnhealthy
  BY <1>18 DEF FindsUnhealthy
<1>19. CASE Recovers
  BY <1>19 DEF Recovers
<1>20. CASE Closed
  BY <1>20 DEF Closed, Fault
<1>21. ASSUME NEW s \in Stoppers, StopUnheard(s) PROVE NoneAtClose'
  BY <1>21 DEF StopUnheard
<1>22. CASE Opens
  BY <1>22 DEF Opens
<1>23. CASE Closes
  BY <1>23 DEF Closes, BeginStop, Intrude
<1>24. CASE CutsOver
  BY <1>24 DEF CutsOver
<1>25. CASE OperatorStops
  BY <1>25 DEF OperatorStops, BeginStop, Intrude, Fault
<1>26. CASE StartFails
  BY <1>26 DEF StartFails, Threw, Fault
<1>27. CASE FailsClosed
  BY <1>27 DEF FailsClosed, BeginStop, Intrude, Fault
<1>28. CASE HostDies
  BY <1>28 DEF HostDies, Fault
<1>29. ASSUME NEW s \in Stoppers, StopBreaks(s) PROVE NoneAtClose'
  BY <1>29 DEF StopBreaks, Fault
<1>30. CASE StaleStopFails
  BY <1>30 DEF StaleStopFails, Threw, Fault
<1>31. CASE UNCHANGED vars
  BY <1>31 DEF vars
<1>32. QED BY <1>1, <1>2, <1>3, <1>4, <1>5, <1>6, <1>7, <1>8, <1>9, <1>10, <1>11, <1>12, <1>13, <1>14, <1>15, <1>16, <1>17, <1>18, <1>19, <1>20, <1>21, <1>22, <1>23, <1>24, <1>25, <1>26, <1>27, <1>28, <1>29, <1>30, <1>31 DEF Next, LauncherStep, LauncherFault, StopStep, HostStep

\* Only the server of such a launcher could publish, and it publishes its own generation.
LEMMA AnswerStep ==
    ASSUME Inv, [Next]_vars PROVE AnswerTruth'
<1> USE RuntimeAssumption DEF Inv, EarlyAlone, NamedAlone, AnswerTruth, Busy, TypeOK, Early, AtRest, Alive, Generations, bundleVars, launcherVars, windowVars
<1>1. ASSUME NEW l \in Launchers, Checks(l) PROVE AnswerTruth'
  BY <1>1 DEF Checks, Managed, Alive
<1>2. ASSUME NEW l \in Launchers, Clears(l) PROVE AnswerTruth'
  BY <1>2 DEF Clears
<1>3. ASSUME NEW l \in Launchers, Starts(l) PROVE AnswerTruth'
  BY <1>3 DEF Starts
<1>4. ASSUME NEW l \in Launchers, Traps(l) PROVE AnswerTruth'
  BY <1>4 DEF Traps
<1>5. ASSUME NEW l \in Launchers, AssertsSource(l) PROVE AnswerTruth'
  BY <1>5 DEF AssertsSource, Killed
<1>6. ASSUME NEW l \in Launchers, Publishes(l) PROVE AnswerTruth'
  BY <1>6 DEF Publishes, Killed
<1>7. ASSUME NEW l \in Launchers, Binds(l) PROVE AnswerTruth'
  BY <1>7 DEF Binds, Killed, PortOpen
<1>8. ASSUME NEW l \in Launchers, PreparationFails(l) PROVE AnswerTruth'
  BY <1>8 DEF PreparationFails, Fault
<1>9. ASSUME NEW l \in Launchers, PublishFails(l) PROVE AnswerTruth'
  BY <1>9 DEF PublishFails, Fault
<1>10. ASSUME NEW l \in Launchers, ServerDies(l) PROVE AnswerTruth'
  BY <1>10 DEF ServerDies, Killed, Fault
<1>11. ASSUME NEW l \in Launchers, ServerHangs(l) PROVE AnswerTruth'
  BY <1>11 DEF ServerHangs, Fault
<1>12. ASSUME NEW s \in Stoppers, StopLooks(s) PROVE AnswerTruth'
  BY <1>12 DEF StopLooks, Killed, Managed, Fault
<1>13. ASSUME NEW s \in Stoppers, StopRemoves(s) PROVE AnswerTruth'
  BY <1>13 DEF StopRemoves
<1>14. CASE Ensures
  <2> USE <1>14 DEF Ensures
  <2>1. CASE Healthy /\ Returned /\ UNCHANGED launcherVars
    BY <2>1 DEF Returned
  <2>2. CASE task' = "stops" /\ BeginStop("start") /\ UNCHANGED <<window, closing, launcherVars>>
    BY <2>2 DEF BeginStop, Intrude
  <2>3. CASE Threw /\ UNCHANGED launcherVars
    BY <2>3 DEF Threw
  <2>4. CASE Launch /\ UNCHANGED <<window, closing, stop>>
    BY <2>4, LaunchInv
  <2>5. QED BY <2>1, <2>2, <2>3, <2>4
<1>15. CASE StaleStopped
  <2> USE <1>15 DEF StaleStopped
  <2>1. CASE task' = "none" /\ UNCHANGED <<launcherVars, alone>>
    BY <2>1
  <2>2. CASE Launch
    BY <2>2, LaunchInv
  <2>3. QED BY <2>1, <2>2
<1>16. CASE BecomesReady
  BY <1>16 DEF BecomesReady, Returned
<1>17. CASE TimesOut
  BY <1>17 DEF TimesOut, Threw, Fault
<1>18. CASE FindsUnhealthy
  BY <1>18 DEF FindsUnhealthy
<1>19. CASE Recovers
  BY <1>19 DEF Recovers
<1>20. CASE Closed
  BY <1>20 DEF Closed, Fault
<1>21. ASSUME NEW s \in Stoppers, StopUnheard(s) PROVE AnswerTruth'
  BY <1>21 DEF StopUnheard
<1>22. CASE Opens
  BY <1>22 DEF Opens
<1>23. CASE Closes
  BY <1>23 DEF Closes, BeginStop, Intrude
<1>24. CASE CutsOver
  BY <1>24 DEF CutsOver
<1>25. CASE OperatorStops
  BY <1>25 DEF OperatorStops, BeginStop, Intrude, Fault
<1>26. CASE StartFails
  BY <1>26 DEF StartFails, Threw, Fault
<1>27. CASE FailsClosed
  BY <1>27 DEF FailsClosed, BeginStop, Intrude, Fault
<1>28. CASE HostDies
  BY <1>28 DEF HostDies, Fault
<1>29. ASSUME NEW s \in Stoppers, StopBreaks(s) PROVE AnswerTruth'
  BY <1>29 DEF StopBreaks, Fault
<1>30. CASE StaleStopFails
  BY <1>30 DEF StaleStopFails, Threw, Fault
<1>31. CASE UNCHANGED vars
  BY <1>31 DEF vars
<1>32. QED BY <1>1, <1>2, <1>3, <1>4, <1>5, <1>6, <1>7, <1>8, <1>9, <1>10, <1>11, <1>12, <1>13, <1>14, <1>15, <1>16, <1>17, <1>18, <1>19, <1>20, <1>21, <1>22, <1>23, <1>24, <1>25, <1>26, <1>27, <1>28, <1>29, <1>30, <1>31 DEF Next, LauncherStep, LauncherFault, StopStep, HostStep

\* Nothing runs at first.
LEMMA InitInv == Init => Inv
<1> SUFFICES ASSUME Init PROVE Inv
  OBVIOUS
<1> USE RuntimeAssumption DEF Init, AtRest
<1>1. TypeOK
  <2>1. 0 \in Generations /\ 0 \in 0..MaxFaults
    BY DEF Generations
  <2>2. /\ script \in [Launchers -> Early \cup {"free", "waits", "exits"}]
        /\ gen \in [Launchers -> Generations]
        /\ server \in [Launchers ->
                       {"none", "boots", "asserted", "published", "serves", "hangs"}]
        /\ alone \in [Launchers -> BOOLEAN]
    BY <2>1
  <2>3. stop \in [Stoppers -> AtRest \cup {"looks", "removes"}]
    OBVIOUS
  <2>4. QED BY <2>1, <2>2, <2>3 DEF TypeOK, Alive
<1>2. EarlyAlone /\ NamedAlone /\ AnswerTruth
  BY DEF EarlyAlone, NamedAlone, AnswerTruth, Busy
<1>3. NoneAtClose
  BY DEF NoneAtClose
<1>4. QED BY <1>1, <1>2, <1>3 DEF Inv

\* The parts together
LEMMA StepInv == Inv /\ [Next]_vars => Inv'
  BY TypeStep, EarlyStep, ManagedStep, ClosingStep, AnswerStep DEF Inv

\* The invariant holds in every behaviour.
LEMMA SpecInv == Spec => []Inv
  BY InitInv, StepInv, PTL DEF Spec

-----------------------------------------------------------------------------
(* Theorems                                                                   *)

\* Every variable stays in its range, and nothing is awaited without a window
\* (Program.cs OnShown, OnRuntimeHealthTick, OnFormClosing).
THEOREM RuntimeTyped == Spec => []TypeOK
  BY SpecInv, PTL DEF Inv

\* A server whose launcher was left alone until it wrote the pid file is named by it as
\* long as it lives, whoever launches, traps or stops later
\* (run_jap_windows_control_center.sh).
THEOREM PidFileTrue == Spec => []ManagedWhenAlone
<1>1. Inv => ManagedWhenAlone
  BY DEF Inv, NamedAlone, ManagedWhenAlone
<1>2. QED BY SpecInv, <1>1, PTL

\* A window that closes after a stop that reported success leaves no such server behind,
\* whatever it was waiting for (Program.cs OnFormClosing, DesktopLifecycleGuard.cs
\* FailClosed).
THEOREM NothingLeftBehind == Spec => ClosingStops
<1>1. Inv /\ Closed /\ stop["window"] = "done" =>
          \A l \in Launchers : Alive(l) => ~ alone[l]
  BY DEF Inv, NoneAtClose, Closed
<1>2. Inv /\ [Next]_vars =>
          [Closed /\ stop["window"] = "done" =>
              \A l \in Launchers : Alive(l) => ~ alone[l]]_vars
  BY <1>1
<1>3. QED BY SpecInv, <1>2, PTL DEF Spec, ClosingStops

\* No such server answers for a generation that it does not run
\* (ManagedRuntimeController.cs ProbeEndpointAsync).
THEOREM AnswerTrue == Spec => []AnswersForItself
<1>1. Inv => AnswersForItself
  BY DEF Inv, AnswerTruth, Busy, Alive, AnswersForItself
<1>2. QED BY SpecInv, <1>1, PTL

=============================================================================
