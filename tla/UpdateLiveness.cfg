SPECIFICATION FairSpec
CONSTANTS
  Hosts = {h1, h2}
  Appliers = {a1}
  MaxRelease = 1
  Faults = {"io", "helper"}
  NoToken = NoToken
  NoHost = NoHost
  Agent = Agent
  Nobody = Nobody
PROPERTY ConsentAnswered
PROPERTY OperationEnds
\* A rollback that failed may leave no desktop to start: the product stops there.
CHECK_DEADLOCK FALSE
