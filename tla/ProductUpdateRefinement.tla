---------------------- MODULE ProductUpdateRefinement ----------------------
(***************************************************************************)
(* ProductUpdate implements AtomicUpdate.  While a helper works, the       *)
(* installation an operator is promised is what the helper found, wherever *)
(* its trees are by now; once the helper reported success or verified the  *)
(* rollback, and whenever nobody works, it is what is on disk.             *)
(***************************************************************************)
EXTENDS ProductUpdate

Broken == -3

Busy == IF opMutex \in Appliers THEN opMutex ELSE Nobody

Asked == {a \in Appliers : applPc[a] \notin EndPc \cup {"minted"} /\ opMutex # a}

Decided == Busy # Nobody /\ applPc[Busy] \in (SuccessPc \ {"report_success"}) \cup RestoredPc

\* A tree as applier a found it: moved out, moved back, or not touched yet.
FoundTree(a, p) ==
    IF p \in job[a].moved
    THEN IF backup[a][p] # None THEN backup[a][p] ELSE live[p]
    ELSE IF p \in job[a].placed THEN None ELSE live[p]

OnDisk == IF LiveIs(current) THEN current ELSE Broken

Found(a) ==
    LET metadata == IF job[a].previous = None THEN current ELSE job[a].previous
    IN  IF \A p \in Trees : FoundTree(a, p) = metadata THEN metadata ELSE Broken

Installed == IF Busy = Nobody \/ Decided THEN OnDisk ELSE Found(Busy)

CanFail == Faults \cap {"io", "state", "crash"} # {}

Atomic == INSTANCE AtomicUpdate
          WITH Helpers <- Appliers, MayFail <- CanFail, installed <- Installed, asked <- Asked,
               busy <- Busy, decided <- Decided, report <- result

\* Every step of hosts, agent and helpers shows to the operator as a step of
\* AtomicUpdate or not at all: "atomic desktop + runtime cutover", or "failure
\* restores desktop, runtime and current.json together".
AtomicSpec == Atomic!Spec
=============================================================================
