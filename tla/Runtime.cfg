SPECIFICATION FairSpec
CONSTANTS
  Launchers = {l1, l2}
  Stoppers = {"window", "start", "operator"}
  MaxGeneration = 1
  MaxFaults = 2
  None = None
INVARIANT TypeOK
INVARIANT ManagedWhenAlone
INVARIANT AnswersForItself
PROPERTY ClosingStops
PROPERTY RuntimeComesBack
