\* Posts that race, fail and retry while an audit reads.
CONSTANTS
  p1 = p1 p2 = p2 p3 = p3 skewed = skewed
  Posts = {p1, p2, skewed}
  Legs <- MCLegs
  LegsOf <- MCLegsOf
  MaxAttempts = 3
  Faults = TRUE
SPECIFICATION Spec
SYMMETRY Symmetric
INVARIANTS TypeOK ChainInv PostedComplete AuditBlame
CHECK_DEADLOCK FALSE
