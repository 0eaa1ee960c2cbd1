\* A payout and its redelivered events next to releases, with crashes and
\* lost replies, under fair delivery.
CONSTANTS
  t1 = t1 t2 = t2 h1 = h1 h2 = h2 r1 = r1
  NoPayout = NoPayout
  Payouts = {t1}
  Handlers = {h1}
  Releasers = {r1}
  Faults = TRUE
  Amount <- MCAmount
  Funds <- MCFunds
SPECIFICATION FairSpec
 
PROPERTY ReturnsComeBack
CHECK_DEADLOCK FALSE
