\* Posts without faults, and an audit of what they posted.
CONSTANTS
  p1 = p1 p2 = p2 p3 = p3 skewed = skewed
  Posts = {p1, p2, skewed}
  Legs <- MCLegs
  LegsOf <- MCLegsOf
  MaxAttempts = 3
  Faults = FALSE
SPECIFICATION Spec
INVARIANT PostedVerifies
CHECK_DEADLOCK FALSE
