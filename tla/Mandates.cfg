SPECIFICATION Spec
CONSTANTS
  u1 = u1
  u2 = u2
  Users <- MCUsers
  Nullifiers = {n1}
  MaxDrafts = 2
  RevocationDrafts = {r1}
  StepUps = {x1}
  Sessions = {s1, s2}
  Prices = {1, 2}
  DealCap = 2
  TotalCap = 2
  DayCap = 2
  DealsCap = 1
  StepUpAbove = 1
SYMMETRY RowSymmetry
INVARIANTS TypeOK OnboardingIsConsistent RecordedIsBounded
PROPERTY RevocationIsFinal
CHECK_DEADLOCK FALSE
