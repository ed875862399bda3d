SPECIFICATION Spec
CONSTANTS
  Hosts = {h1, h2}
  Appliers = {a1, a2}
  MaxRelease = 1
  Faults = {"io", "crash"}
  NoToken = NoToken
  NoHost = NoHost
  Agent = Agent
  Nobody = Nobody
SYMMETRY Symmetry
INVARIANT TypeOK
INVARIANT SuccessIsWhole
INVARIANT OneOperation
INVARIANT RollbackIsWhole
INVARIANT GenerationRecoverable
PROPERTY InstallUnderMutex
PROPERTY AtomicSpec
\* A rollback that failed may leave no desktop to start: the product stops there.
CHECK_DEADLOCK FALSE
