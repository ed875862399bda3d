SPECIFICATION Spec
CONSTANTS
  Hosts = {h1, h2}
  Appliers = {a1}
  MaxRelease = 2
  Faults = {"io", "state", "crash", "helper"}
  NoToken = NoToken
  NoHost = NoHost
  Agent = Agent
  Nobody = Nobody
SYMMETRY Symmetry
\* What UpdateDrift shows to be needed: no dialog beside a handoff.
CONSTRAINT DialogsApart
INVARIANT FrozenTarget
INVARIANT TornOnlyUnderHandoff
PROPERTY NoOfferWhileCooling
\* A rollback that failed may leave no desktop to start: the product stops there.
CHECK_DEADLOCK FALSE
