SPECIFICATION Spec
CONSTANTS
  Runs = {r1, r2}
  LastFile = 3
  Bundle <- LastTwo
  Rerunnable <- Odd
  Commands = {"apply", "exact", "sole", "bundle", "bootstrap"}
  Faults = {"sql", "connection", "crash"}
SYMMETRY RunSymmetry
INVARIANT TypeOK
INVARIANT SuccessInEffect
INVARIANT UntrackedUntouched
INVARIANT OnceWhenAlone
