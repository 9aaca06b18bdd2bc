SPECIFICATION Spec
CONSTANTS
  Sessions = {s1, s2}
  Kinds <- MCKinds
  Prices <- MCPrices
  MaxMessages = 1
INVARIANT RevocationSparesConfirmed
CHECK_DEADLOCK FALSE
