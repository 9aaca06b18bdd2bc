SPECIFICATION Spec
CONSTANTS
  Sessions = {s1, s2}
  Kinds <- MCKinds
  Prices <- MCPrices
  MaxMessages = 1
INVARIANTS WindowAsksForWhatPasses TimelineIsOrdered ChatIsBounded
PROPERTIES ShippedAsSelected EndedTradeStandsStill
CHECK_DEADLOCK FALSE
