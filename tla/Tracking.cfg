SPECIFICATION Spec
CONSTANTS
  m1 = m1
  m2 = m2
  m3 = m3
  m4 = m4
  m5 = m5
  None = None
  Messages = {m1, m2, m3, m4, m5}
  Mail <- MCMail
  Forms = {"f"}
  Form <- MCForm
  Families <- MCFamilies
  Variants = {1, 2}
  Operators = {"o1", "o2"}
  Syncers = {"service", "cli"}
  Budgets <- MCBudgets
INVARIANT TypeOK
INVARIANT ConstraintsNeverFire
INVARIANT PlanIsKept
PROPERTY NeverRematched
PROPERTY AnswersAreTrue
PROPERTY EvidenceArrives
