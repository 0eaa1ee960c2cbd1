\* A release while a payout is between its hold and its hold row.
CONSTANTS
  t1 = t1 t2 = t2 h1 = h1 h2 = h2 r1 = r1
  NoPayout = NoPayout
  Payouts = {t1, t2}
  Handlers = {h1}
  Releasers = {r1}
  Faults = FALSE
  Amount <- MCAmount
  Funds <- MCFunds
SPECIFICATION Spec
INVARIANT HeldIsNotReleased
CHECK_DEADLOCK FALSE
