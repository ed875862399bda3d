SPECIFICATION Spec
CONSTANTS
  Jobs <- MCJobs
  Sites <- MCSites
  Matching = {1, 2}
  Operators = {"operator"}
  PageSizes = {1, 2}
  MaxAbsences = 2
  MaxProbes = 1
  MaxReviewed = 1
  MaxChanges = 1
  MaxFaults = 1
INVARIANT TypeOK
PROPERTY AbsenceIsTrue
PROPERTY AbsencesAreOneBatch
PROPERTY OnlyOperatorsRecordDoubt
PROPERTY RunStatusIsTrue
PROPERTY GoneIsNoticed
PROPERTY ListedIsActive
