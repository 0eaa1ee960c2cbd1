\* One withdrawal, two reconciler invocations: every interleaving of the
\* route with webhooks and sweeps, under fair delivery.
CONSTANTS
  w1 = w1 w2 = w2 h1 = h1 r1 = r1 r2 = r2
  NoIntent = NoIntent
  Intents = {w1}
  Holders = {h1}
  Resolvers = {r1, r2}
  TaxNum = 1 TaxDen = 4
  HolderOf <- MCHolderOf
  Amount <- MCAmount
  Gross <- MCGross
SPECIFICATION FairSpec
INVARIANTS TypeOK SettledIsRecorded ReversalIsDue NeverReleasedWhileMoving
PROPERTIES OneResolution NotifiedHoldResolves LateReturnIsRestored
CHECK_DEADLOCK FALSE
