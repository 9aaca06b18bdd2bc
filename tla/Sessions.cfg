SPECIFICATION Spec
CONSTANTS
  u1 = u1
  u2 = u2
  Users <- MCUsers
  Email <- MCEmail
  Tokens = {t1, t2, t3}
  Requests = {r1, r2}
SYMMETRY TokenSymmetry
INVARIANTS TypeOK RotatedOnce
PROPERTIES RevokesWhatItSaw
CHECK_DEADLOCK FALSE
