\* As many concurrent posts as turns, without faults.
CONSTANTS
  p1 = p1 p2 = p2 p3 = p3 skewed = skewed
  Posts = {p1, p2, p3}
  Legs <- MCLegs
  LegsOf <- MCLegsOf
  MaxAttempts = 3
  Faults = FALSE
SPECIFICATION FairSpec
INVARIANTS NeverExhausted ContentionInv
PROPERTY BalancedIsPosted
CHECK_DEADLOCK FALSE
