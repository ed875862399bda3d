SPECIFICATION Spec
CONSTANTS
  Hosts = {h1, h2}
  Appliers = {a1, a2}
  MaxRelease = 2
  Faults = {}
  NoToken = NoToken
  NoHost = NoHost
  Agent = Agent
  Nobody = Nobody
SYMMETRY Symmetry
INVARIANT FrozenTarget
\* A rollback that failed may leave no desktop to start: the product stops there.
CHECK_DEADLOCK FALSE
