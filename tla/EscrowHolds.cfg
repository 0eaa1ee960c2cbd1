\* Two withdrawals of one holder compete for the same funds.
CONSTANTS
  w1 = w1 w2 = w2 h1 = h1 r1 = r1 r2 = r2
  NoIntent = NoIntent
  Intents = {w1, w2}
  Holders = {h1}
  Resolvers = {r1}
  TaxNum = 1 TaxDen = 4
  HolderOf <- MCHolderOf
  Amount <- MCAmount
  Gross <- MCGross
SPECIFICATION Spec
INVARIANTS HeldWithinEarnings HoldInv NeverOverPaid
PROPERTY ImplementsHold
CHECK_DEADLOCK FALSE
