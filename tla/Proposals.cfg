SPECIFICATION Spec
CONSTANTS
  counter = counter
  capital = capital
  Calls <- MCCalls
  Tool <- MCTool
  Caller <- MCCaller
  Prices <- MCPrices
  Deltas <- MCDeltas
  MaxRounds = 3
INVARIANTS TypeOK TermsAreCoherent AgreedIsTheirs TurnsEndWithTheAnswer
CHECK_DEADLOCK FALSE
