SPECIFICATION TreeSpec
CONSTANTS
  Breadth = 1
  Depth = 1
  MaxChildren = 2
  TokenBudget = 6
  RootTokenEstimate = 3
  Tokens = {1, 2, 3}
CHECK_DEADLOCK FALSE
INVARIANT CommittedWithinBudget
