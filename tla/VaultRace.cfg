\* One payout, two overlapping deliveries, crashes and lost replies.
CONSTANTS
  t1 = t1 t2 = t2 h1 = h1 h2 = h2 r1 = r1
  NoPayout = NoPayout
  Payouts = {t1}
  Handlers = {h1, h2}
  Releasers = {}
  Faults = TRUE
  Amount <- MCUnitAmount
  Funds <- MCUnitFunds
SPECIFICATION Spec
SYMMETRY Symmetric
INVARIANTS TypeOK OneReversal BooksFollowVault MoneyAccountedFor StatusesAgree
CHECK_DEADLOCK FALSE
