---------------------------- MODULE AtomicUpdate ----------------------------
(***************************************************************************)
(* What the update promises its operator, without files and processes: an  *)
(* installation holds one product generation, helpers that got a consent   *)
(* queue for it, one at a time works on it, and its work shows in one step *)
(* or not at all.  ProductUpdateRefinement shows that ProductUpdate        *)
(* implements this.                                                        *)
(***************************************************************************)
CONSTANTS
    Helpers,      \* one per consent
    Generations,  \* the product generations
    Broken,       \* the trees and current.json do not agree
    Nobody,       \* no helper works on the installation
    MayFail       \* helpers may die, or their file operations fail for good

VARIABLES
    installed,    \* what a host that starts now, or after the work, would find
    asked,        \* helpers that run and do not have the installation
    busy,         \* the helper that has it
    decided,      \* its work is done or undone: nothing changes any more
    report        \* what the next host tells the operator

vars == <<installed, asked, busy, decided, report>>

Init ==
    /\ installed \in Generations
    /\ asked = {} /\ busy = Nobody /\ decided = FALSE
    /\ report.status = "none"

\* The operator said Yes and the helper runs.
Ask(h) ==
    /\ h \notin asked /\ busy # h
    /\ asked' = asked \cup {h}
    /\ UNCHANGED <<installed, busy, decided, report>>

Begin(h) ==
    /\ h \in asked /\ busy = Nobody
    /\ busy' = h /\ asked' = asked \ {h}
    /\ UNCHANGED <<installed, decided, report>>

\* The new generation shows in the step that reports it.
Commit(h) ==
    /\ busy = h /\ ~decided
    /\ decided' = TRUE
    /\ installed' \in Generations
    /\ report' = [status |-> "success", target |-> installed']
    /\ UNCHANGED <<asked, busy>>

\* The old generation is proved to be there as it was.
Undo(h) ==
    /\ busy = h /\ ~decided
    /\ installed # Broken
    /\ decided' = TRUE
    /\ UNCHANGED <<installed, asked, busy, report>>

\* Some helpers without the installation are gone; one may have told why.
GiveUp ==
    /\ asked' \subseteq asked
    /\ report' = report \/ report'.status = "failed"
    /\ UNCHANGED <<installed, busy, decided>>

\* The helper lets go.
End(h) ==
    /\ busy = h
    /\ busy' = Nobody /\ decided' = FALSE
    /\ asked' \subseteq asked
    /\ report' = report \/ report'.status = "failed"
    /\ UNCHANGED installed

\* A helper that was still at work is torn off, by a fault or by a helper that
\* gave up and stopped every process of the product; or it leaves otherwise
\* broken what it found broken.
Fall(h) ==
    /\ busy = h /\ ~decided
    /\ MayFail \/ asked # {} \/ installed = Broken
    /\ busy' = Nobody /\ UNCHANGED decided
    /\ asked' \subseteq asked
    /\ installed' \in Generations \cup {Broken}
    /\ report' = report \/ report'.status = "failed"

\* A failure is reported; a host shows the report and removes it.
Report ==
    /\ report'.status \in {"none", "failed"}
    /\ UNCHANGED <<installed, asked, busy, decided>>

Next ==
    \/ \E h \in Helpers : Ask(h) \/ Begin(h) \/ Commit(h) \/ Undo(h) \/ End(h) \/ Fall(h)
    \/ GiveUp \/ Report

Spec == Init /\ [][Next]_vars
=============================================================================
