SPECIFICATION Spec
CONSTANTS
  Runs = {r1, r2}
  LastFile = 3
  Bundle <- LastTwo
  Rerunnable <- Odd
  Commands = {"apply", "bundle"}
  Faults = {}
INVARIANT TargetsConsistent
\* Once every file is complete there is nothing to run.
CHECK_DEADLOCK FALSE
