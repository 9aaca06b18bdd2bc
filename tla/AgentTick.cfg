SPECIFICATION Spec
CONSTANTS
  u1 = u1
  u2 = u2
  e1 = e1
  Users <- MCUsers
  Events = {e1}
  Recipient <- MCRecipient
  Offers = {e1}
  Ticks = {t1, t2, t3}
  MaxConcurrent = 2
  MaxPerMinute = 1
  MaxCandidates = 2
  MaxTurns = 2
  TurnCosts = {0, 2}
  GlobalCap = 3
  UserCap = 1
  TickCap = 1
SYMMETRY TickSymmetry
INVARIANTS TypeOK SlotsAreBalanced CostIsBounded QuietEventsAreHandled
CHECK_DEADLOCK FALSE
